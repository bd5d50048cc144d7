------------------------------ MODULE MCIntake ------------------------------
(* An instance of Intake: kinds to 2, keys of three bytes, and the numbers  *)
(* from -1 to 3, just past each bound, by halves.                           *)
EXTENDS Intake, SequencesExt

CONSTANTS ext, forged

MCName == {ext, forged}
MCValidName == {ext}
MCHalves == -2..6
\* Half a limit, a limit of zero, a window past the retention; a kind out of range.
MCOldRow == [name : MCName, kind : {1, 3}, asked : {Null}, count : {Null, 0, 1}, seconds : {Null, 0, 1, 3}]
\* Every key text of up to six characters.
MCKeyText == BoundedSeq({"hex", "space", "other"}, 6)

=============================================================================
