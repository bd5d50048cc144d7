------------------------- MODULE MCSlotReservation -------------------------
(* Three calls on two permission rows of one subject.                       *)
EXTENDS SlotReservation, TLC

CONSTANTS c1, c2, c3, p1, p2, s1

MCCall == {c1, c2, c3}
MCPermission == {p1, p2}
MCSubject == {s1}
MCSubjectOf == p1 :> s1 @@ p2 :> s1
MCLimit == {[count |-> 1, seconds |-> 2], [count |-> 2, seconds |-> 3]}
MCInstant == 0..4

CallSymmetry == Permutations(MCCall)
=============================================================================
