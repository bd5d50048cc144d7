------------------------------- MODULE Intake -------------------------------
(***************************************************************************)
(* What becomes of a value between a request and its use: the request      *)
(* models of models.py, the key parser of helpers.py, the columns of the   *)
(* tables, and the checks sign_event makes once more when it reads a row.  *)
(*                                                                         *)
(* A number is counted in halves, so that there are fractions. Over HTTP a *)
(* signing request goes through SignEventData; an extension that calls     *)
(* sign_event in Python goes through no model.                             *)
(***************************************************************************)
EXTENDS Integers, Sequences, FiniteSetsExt

CONSTANTS
    Name, ValidName,  \* extension ids, and those _EXTENSION_ID_RE matches
    MaxKind,          \* 65535
    MaxSeconds,       \* MAX_RATE_LIMIT_SECONDS
    KeyBytes,         \* 32
    Halves,           \* the numbers a request may hold, in halves
    KeyText,          \* the key texts, as sequences of "hex", "space" and "other"
    OldRow,           \* permission rows from before the request models checked anything
    Null, Absent      \* JSON null, and a field left out

\* A column of a row; Null is None.
Column == Int \cup {Null}

\* The table takes any text and any integers. What was asked for is not known.
LegacyRow == [name : Name, kind : Int, asked : {Null}, count : Column, seconds : Column]

ASSUME IntakeAssumption ==
    /\ ValidName \subseteq Name
    /\ MaxKind \in Nat \ {0} /\ MaxSeconds \in Nat \ {0} /\ KeyBytes \in Nat
    /\ Halves \subseteq Int
    /\ KeyText \subseteq Seq({"hex", "space", "other"})
    /\ Null # Absent /\ Null \notin Int
    /\ OldRow \subseteq LegacyRow

Integral(half) == half % 2 = 0

\* What JSON, and Python, can put where a number is expected; "digits" is a string of
\* digits, "text" any other value.
RawNumber ==
    [type : {"int", "digits"}, half : {h \in Halves : Integral(h)}] \cup
    [type : {"float"}, half : Halves] \cup
    [type : {"bool"}, half : {0, 2}] \cup [type : {"text"}, half : {0}]

RawField == RawNumber \cup {Null, Absent}

RawPair == [count : RawField, seconds : RawField]

VARIABLES
    keys,         \* the lengths, in bytes, of the private keys in the table
    permission,   \* the permission row, a set of at most one
    asked,        \* history: the request that last set its limit
    signing       \* the last signing: a set of at most one

vars == <<keys, permission, asked, signing>>

-----------------------------------------------------------------------------
Visible(t) == {i \in DOMAIN t : t[i] # "space"}

\* Strings are stripped before they are parsed.
Strip(t) == IF Visible(t) = {} THEN <<>> ELSE SubSeq(t, Min(Visible(t)), Max(Visible(t)))

\* bytes.fromhex: the digits in pairs, with any whitespace between two pairs. The
\* length of the bytes, a set of at most one.
FromHex(t) ==
    LET First(i) == Cardinality({k \in Visible(t) : k < i}) % 2 = 0
    IN  IF \A i \in Visible(t) : t[i] = "hex" /\ (First(i) => i + 1 \in Visible(t))
        THEN {Cardinality(Visible(t)) \div 2} ELSE {}

\* parse_nostr_private_key of a text that does not begin with nsec: the length of
\* the key, a set of at most one.
ParsedHex(text) == IF Len(Strip(text)) = 2 * KeyBytes THEN FromHex(Strip(text)) ELSE {}

Importable == UNION {ParsedHex(text) : text \in KeyText}

-----------------------------------------------------------------------------
Number(half) == half \div 2

\* Seeded faults: int(value) for any number; no upper bound.
CoerceKind_Truncates(raw) ==
    {k \in 0..MaxKind : raw.type \in {"int", "float", "digits"} /\ k = Number(raw.half)}
CoerceKind_Unbounded(raw) ==
    {k \in 0..(MaxKind + 1) : raw.type \in {"int", "float", "digits"} /\ 2 * k = raw.half}

\* _coerce_kind: no bool, no fraction, no other string, nothing out of range.
CoerceKind(raw) ==
    {k \in 0..MaxKind : raw.type \in {"int", "float", "digits"} /\ 2 * k = raw.half}

IsSet(field) == field # Absent

IsNone(field) == field \in {Null, Absent}

\* A comparison with a string is a TypeError, which refuses the request.
Positive(field) == field.type \in {"int", "float", "bool"} /\ field.half > 0

\* _validate_rate_limit_pair, over the raw values.
PairAccepted(p) ==
    /\ IsSet(p.count) <=> IsSet(p.seconds)
    /\ \/ IsNone(p.count) /\ IsNone(p.seconds)
       \/ /\ ~IsNone(p.count) /\ ~IsNone(p.seconds)
          /\ Positive(p.count) /\ Positive(p.seconds)
          /\ p.seconds.half <= 2 * MaxSeconds

AcceptedPair == {pair \in RawPair : PairAccepted(pair)}

\* The int field of the model drops the fraction, once the validator has run.
Field(field) == IF IsNone(field) THEN Null ELSE Number(field.half)

\* The rows the request models let through; asked is the number given as kind.
PermissionRow == [name : ValidName, kind : 0..MaxKind, asked : Int, count : Column, seconds : Column]

TypeOK ==
    /\ keys \subseteq 0..KeyBytes
    /\ permission \subseteq PermissionRow \cup LegacyRow
    /\ asked \in RawPair \cup {<<>>}
    /\ \A s \in signing : s.row \in PermissionRow \cup LegacyRow

Init ==
    /\ keys = {} /\ asked = <<>> /\ signing = {}
    /\ permission = {} \/ \E row \in OldRow : permission = {row}

\* create_key. from_nsec checks the checksum of an nsec; the texts are hexadecimal.
\* A text that is refused changes nothing.
ImportKey ==
    /\ \E length \in Importable : keys' = keys \cup {length}
    /\ UNCHANGED <<permission, asked, signing>>

\* CreatePermissionData; asked keeps the number the administrator gave as kind.
Grant ==
    /\ \E name \in ValidName, raw \in RawNumber, pair \in AcceptedPair :
        \E kind \in CoerceKind(raw) :
          /\ permission' = {[name |-> name, kind |-> kind, asked |-> raw.half,
                             count |-> Field(pair.count), seconds |-> Field(pair.seconds)]}
          /\ asked' = pair
    /\ UNCHANGED <<keys, signing>>

\* UpdatePermissionData: both fields are to be there.
Edit ==
    /\ \E pair \in {q \in AcceptedPair : IsSet(q.count)}, row \in permission :
          /\ permission' = {[row EXCEPT !.count = Field(pair.count), !.seconds = Field(pair.seconds)]}
          /\ asked' = pair
    /\ UNCHANGED <<keys, signing>>

-----------------------------------------------------------------------------
\* Seeded fault: half a limit goes unnoticed.
InvalidLimit_Half(row) == row.count # Null /\ row.seconds # Null /\ (row.count <= 0 \/ row.seconds <= 0)

\* invalid_rate_limit of sign_event.
InvalidLimit(row) ==
    \/ (row.count = Null) # (row.seconds = Null)
    \/ row.count # Null /\ row.seconds # Null /\ (row.count <= 0 \/ row.seconds <= 0)

\* The kind of an event that has none.
DefaultKind == [type |-> "int", half |-> 2]

Given(raw) == IF raw = Absent THEN DefaultKind ELSE raw

\* "candidate.kind == kind" in Python: True is 1, and 1.0 is.
PythonEqual(kind, raw) == raw.type \in {"int", "float", "bool"} /\ raw.half = 2 * kind

\* Both counted and unlimited signings are recorded; the count is RateLimitedLog's.
Sign(row, raw) ==
    /\ ~InvalidLimit(row)
    /\ signing' = {[row |-> row, half |-> Given(raw).half,
                    unlimited |-> row.count = Null \/ row.seconds = Null]}
    /\ UNCHANGED <<keys, permission, asked>>

\* POST /api/v1/sign: the kind goes through _coerce_kind first.
SignOverHttp ==
    \E name \in ValidName, raw \in RawNumber \cup {Absent}, row \in permission :
        /\ row.name = name /\ row.kind \in CoerceKind(Given(raw))
        /\ Sign(row, raw)

\* sign_event called by another extension, with any name and any kind.
SignInPython ==
    \E name \in Name, raw \in RawNumber \cup {Absent}, row \in permission :
        /\ row.name = name /\ PythonEqual(row.kind, Given(raw))
        /\ Sign(row, raw)

Next == ImportKey \/ Grant \/ Edit \/ SignOverHttp \/ SignInPython

Spec == Init /\ [][Next]_vars

-----------------------------------------------------------------------------
(***************************************************************************)
(* An event is signed only under a permission for the very number it has   *)
(* as its kind, over HTTP and in Python, and that is the number the        *)
(* administrator gave: no fraction is cut on either way (docstring of      *)
(* _coerce_kind). Of a row from before it, only the column is known.       *)
(***************************************************************************)
SignedAsGranted ==
    \A s \in signing : s.half = 2 * s.row.kind /\ s.row.asked \in {Null, s.half}

(***************************************************************************)
(* A limit an administrator has set never turns into no limit: a signing   *)
(* without one is under a row whose last request had none, and a limited   *)
(* one is under a positive pair. A window that a request has set is within *)
(* the retention; sign_event does not look for that again, so a row from   *)
(* before the validators may have a longer one until it is edited.         *)
(***************************************************************************)
LimitsNeverVanish ==
    [][\A s \in signing' \ signing :
          /\ s.unlimited => s.row.count = Null /\ s.row.seconds = Null
                            /\ (asked = <<>> \/ IsNone(asked.count))
          /\ ~s.unlimited => s.row.count > 0 /\ s.row.seconds > 0
                             /\ (asked = <<>> \/ s.row.seconds <= MaxSeconds)]_vars

(***************************************************************************)
(* parse_nostr_private_key: "Rejecting malformed input up front prevents   *)
(* that silent corruption". A key in the table has all of its bytes.       *)
(***************************************************************************)
StoredKeysAreWhole == \A n \in keys : n = KeyBytes

=============================================================================
