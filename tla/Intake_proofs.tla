---------------------------- MODULE Intake_proofs ----------------------------
(***************************************************************************)
(* What is signed is what was granted, a limit never turns into none, and  *)
(* no stored key is longer than a key, for all kinds, limits and texts.    *)
(***************************************************************************)
EXTENDS Intake, FiniteSetTheorems, WellFoundedInduction, TLAPS

LEMMA RawIs ==
    ASSUME NEW raw \in RawNumber
    PROVE  raw.half \in Int
  <1>1. CASE raw \in [type : {"int", "digits"}, half : {h \in Halves : Integral(h)}]
    BY <1>1, IntakeAssumption
  <1>2. CASE raw \in [type : {"float"}, half : Halves]
    BY <1>2, IntakeAssumption
  <1>3. CASE raw \in [type : {"bool"}, half : {0, 2}] \cup [type : {"text"}, half : {0}]
    BY <1>3
  <1> QED
    BY <1>1, <1>2, <1>3 DEF RawNumber

LEMMA CoercedIs ==
    ASSUME NEW raw, NEW kind \in CoerceKind(raw)
    PROVE  kind \in 0..MaxKind /\ 2 * kind = raw.half
  BY DEF CoerceKind

\* What the validator accepts, the conversion keeps: a column is None only for none,
\* and what is above the retention is refused before the fraction is dropped.
LEMMA AcceptedIs ==
    ASSUME NEW pair \in AcceptedPair
    PROVE  /\ pair \in RawPair
           /\ Field(pair.count) \in Column /\ Field(pair.seconds) \in Column
           /\ Field(pair.count) = Null => IsNone(pair.count)
           /\ Field(pair.seconds) # Null => Field(pair.seconds) <= MaxSeconds
  <1>1. pair \in RawPair /\ PairAccepted(pair)
    BY DEF AcceptedPair
  <1>2. pair.count \in RawField /\ pair.seconds \in RawField
    BY <1>1 DEF RawPair
  <1>3. CASE IsNone(pair.count)
    <2>1. IsNone(pair.seconds)
      BY <1>1, <1>3 DEF PairAccepted
    <2> QED
      BY <1>1, <1>3, <2>1 DEF Field, Column
  <1>4. CASE ~IsNone(pair.count)
    <2>1. ~IsNone(pair.seconds) /\ pair.seconds.half <= 2 * MaxSeconds
      BY <1>1, <1>4 DEF PairAccepted
    <2>2. pair.count \in RawNumber /\ pair.seconds \in RawNumber
      BY <1>2, <1>4, <2>1 DEF IsNone, RawField
    <2>3. PICK c \in Int, s \in Int : c = pair.count.half /\ s = pair.seconds.half
      BY <2>2, RawIs
    <2>4. Number(c) \in Int /\ Number(s) \in Int /\ Number(s) <= MaxSeconds
      BY <2>1, <2>3, IntakeAssumption DEF Number
    <2>5. Field(pair.count) = Number(c) /\ Field(pair.seconds) = Number(s)
      BY <1>4, <2>1, <2>3 DEF Field
    <2> QED
      BY <1>1, <2>4, <2>5, IntakeAssumption DEF Column
  <1> QED
    BY <1>3, <1>4

-----------------------------------------------------------------------------
(***************************************************************************)
(* The row is as it was granted: its kind is the number asked for; or it   *)
(* is of an earlier version, and what was asked for is not known. Its      *)
(* limit is what became of the last request, if there has been one.        *)
(***************************************************************************)
RowTyped(row) ==
    \/ row \in PermissionRow /\ 2 * row.kind = row.asked
    \/ row \in LegacyRow

LimitFits(row) ==
    \/ asked = <<>>
    \/ /\ asked \in AcceptedPair
       /\ row.count = Field(asked.count) /\ row.seconds = Field(asked.seconds)

AsGranted ==
    /\ \A row \in permission : RowTyped(row) /\ LimitFits(row)
    /\ asked \in RawPair \cup {<<>>}
    /\ \A s \in signing : RowTyped(s.row) /\ s.half = 2 * s.row.kind

LEMMA TypedIs ==
    ASSUME NEW row, RowTyped(row)
    PROVE  /\ row \in PermissionRow \cup LegacyRow
           /\ row.kind \in Int /\ row.count \in Column /\ row.seconds \in Column
           /\ row.asked \in {Null, 2 * row.kind}
  <1>1. CASE row \in PermissionRow /\ 2 * row.kind = row.asked
    BY <1>1, IntakeAssumption DEF PermissionRow
  <1>2. CASE row \in LegacyRow
    BY <1>2 DEF LegacyRow
  <1> QED
    BY <1>1, <1>2 DEF RowTyped

LEMMA GrantedRow ==
    ASSUME NEW name \in ValidName, NEW raw \in RawNumber, NEW pair \in AcceptedPair,
           NEW kind \in CoerceKind(raw), NEW row,
           row = [name |-> name, kind |-> kind, asked |-> raw.half,
                  count |-> Field(pair.count), seconds |-> Field(pair.seconds)]
    PROVE  RowTyped(row) /\ row.count = Field(pair.count) /\ row.seconds = Field(pair.seconds)
  <1>1. raw.half \in Int /\ kind \in 0..MaxKind /\ 2 * kind = raw.half
    BY RawIs, CoercedIs
  <1>2. Field(pair.count) \in Column /\ Field(pair.seconds) \in Column
    BY AcceptedIs
  <1>3. row \in PermissionRow
    BY <1>1, <1>2 DEF PermissionRow
  <1> QED
    BY <1>1, <1>3 DEF RowTyped

LEMMA EditedRow ==
    ASSUME NEW old, RowTyped(old), NEW pair \in AcceptedPair, NEW row,
           row = [old EXCEPT !.count = Field(pair.count), !.seconds = Field(pair.seconds)]
    PROVE  RowTyped(row) /\ row.count = Field(pair.count) /\ row.seconds = Field(pair.seconds)
  <1>1. Field(pair.count) \in Column /\ Field(pair.seconds) \in Column
    BY AcceptedIs
  <1>2. CASE old \in PermissionRow /\ 2 * old.kind = old.asked
    BY <1>1, <1>2 DEF RowTyped, PermissionRow
  <1>3. CASE old \in LegacyRow
    BY <1>1, <1>3 DEF RowTyped, LegacyRow
  <1> QED
    BY <1>2, <1>3 DEF RowTyped

\* A kind that matches is the number the event has.
LEMMA SignedKind ==
    ASSUME NEW row, RowTyped(row), NEW raw,
           row.kind \in CoerceKind(Given(raw)) \/ PythonEqual(row.kind, Given(raw))
    PROVE  Given(raw).half = 2 * row.kind
  <1>1. CASE row.kind \in CoerceKind(Given(raw))
    BY <1>1, CoercedIs
  <1>2. CASE PythonEqual(row.kind, Given(raw))
    BY <1>2 DEF PythonEqual
  <1> QED
    BY <1>1, <1>2

LEMMA SignsRow ==
    ASSUME SignOverHttp \/ SignInPython, AsGranted
    PROVE  \E row, half, unlimited :
              /\ row \in permission /\ ~InvalidLimit(row) /\ half = 2 * row.kind
              /\ unlimited = (row.count = Null \/ row.seconds = Null)
              /\ signing' = {[row |-> row, half |-> half, unlimited |-> unlimited]}
              /\ UNCHANGED <<keys, permission, asked>>
  <1>1. PICK row, raw :
           /\ row \in permission
           /\ row.kind \in CoerceKind(Given(raw)) \/ PythonEqual(row.kind, Given(raw))
           /\ Sign(row, raw)
    BY DEF SignOverHttp, SignInPython
  <1>2. Given(raw).half = 2 * row.kind
    BY <1>1, SignedKind DEF AsGranted
  <1> QED
    BY <1>1, <1>2 DEF Sign

LEMMA GrantedStep == AsGranted /\ [Next]_vars => AsGranted'
  <1> SUFFICES ASSUME AsGranted, [Next]_vars PROVE AsGranted'
    OBVIOUS
  <1>1. CASE ImportKey \/ UNCHANGED vars
    BY <1>1 DEF ImportKey, vars, AsGranted, LimitFits
  <1>2. CASE Grant
    <2>1. PICK name \in ValidName, raw \in RawNumber, pair \in AcceptedPair :
            \E kind \in CoerceKind(raw) :
              /\ permission' = {[name |-> name, kind |-> kind, asked |-> raw.half,
                                 count |-> Field(pair.count), seconds |-> Field(pair.seconds)]}
              /\ asked' = pair
      BY <1>2 DEF Grant
    <2>2. \A row \in permission' : RowTyped(row) /\ row.count = Field(pair.count)
                                   /\ row.seconds = Field(pair.seconds)
      BY <2>1, GrantedRow
    <2>3. asked' \in AcceptedPair /\ asked' \in RawPair /\ signing' = signing
      BY <1>2, <2>1, AcceptedIs DEF Grant
    <2> QED
      BY <2>1, <2>2, <2>3 DEF AsGranted, LimitFits
  <1>3. CASE Edit
    <2>1. PICK pair \in AcceptedPair, old \in permission :
            /\ permission' = {[old EXCEPT !.count = Field(pair.count), !.seconds = Field(pair.seconds)]}
            /\ asked' = pair
      BY <1>3 DEF Edit
    <2>2. \A row \in permission' : RowTyped(row) /\ row.count = Field(pair.count)
                                   /\ row.seconds = Field(pair.seconds)
      <3>1. RowTyped(old)
        BY DEF AsGranted
      <3> QED
        BY <2>1, <3>1, EditedRow
    <2>3. asked' \in AcceptedPair /\ asked' \in RawPair /\ signing' = signing
      BY <1>3, <2>1, AcceptedIs DEF Edit
    <2> QED
      BY <2>1, <2>2, <2>3 DEF AsGranted, LimitFits
  <1>4. CASE SignOverHttp \/ SignInPython
    <2>1. PICK row, half, unlimited :
              /\ row \in permission /\ half = 2 * row.kind
              /\ signing' = {[row |-> row, half |-> half, unlimited |-> unlimited]}
              /\ UNCHANGED <<keys, permission, asked>>
      BY <1>4, SignsRow
    <2>2. \A s \in signing' : s.row = row /\ s.half = half
      BY <2>1
    <2>3. RowTyped(row)
      BY <2>1 DEF AsGranted
    <2> QED
      BY <2>1, <2>2, <2>3 DEF AsGranted, LimitFits
  <1> QED
    BY <1>1, <1>2, <1>3, <1>4 DEF Next

LEMMA GrantedStart == Init => AsGranted
  <1> SUFFICES ASSUME Init PROVE AsGranted
    OBVIOUS
  <1>1. \A row \in permission : RowTyped(row)
    BY IntakeAssumption DEF Init, RowTyped
  <1> QED
    BY <1>1 DEF Init, AsGranted, LimitFits

(***************************************************************************)
(* No fraction is cut between what the administrator grants and what is    *)
(* signed, over HTTP or in Python (_coerce_kind, sign_event).              *)
(***************************************************************************)
THEOREM KindsKept == Spec => []SignedAsGranted
  <1>1. AsGranted => SignedAsGranted
    BY TypedIs DEF AsGranted, SignedAsGranted
  <1> QED
    BY <1>1, GrantedStart, GrantedStep, PTL DEF Spec

(***************************************************************************)
(* Neither the conversion after the validator nor a row from before it     *)
(* makes a limit vanish, and no request sets a window longer than the      *)
(* retention (_validate_rate_limit_pair, sign_event).                      *)
(***************************************************************************)
THEOREM LimitsKept == Spec => LimitsNeverVanish
  <1>1. ASSUME AsGranted, Next, NEW s \in signing' \ signing
        PROVE  /\ s.unlimited => s.row.count = Null /\ s.row.seconds = Null
                                 /\ (asked = <<>> \/ IsNone(asked.count))
               /\ ~s.unlimited => s.row.count > 0 /\ s.row.seconds > 0
                                  /\ (asked = <<>> \/ s.row.seconds <= MaxSeconds)
    <2>1. SignOverHttp \/ SignInPython
      BY <1>1 DEF Next, ImportKey, Grant, Edit
    <2>2. PICK row, half, unlimited :
              /\ row \in permission /\ ~InvalidLimit(row)
              /\ unlimited = (row.count = Null \/ row.seconds = Null)
              /\ signing' = {[row |-> row, half |-> half, unlimited |-> unlimited]}
      BY <1>1, <2>1, SignsRow
    <2>3. s.row = row /\ s.unlimited = (row.count = Null \/ row.seconds = Null)
      BY <2>2
    <2>4. row.count \in Column /\ row.seconds \in Column /\ LimitFits(row)
      BY <1>1, <2>2, TypedIs DEF AsGranted
    <2>5. CASE row.count = Null \/ row.seconds = Null
      <3>1. row.count = Null /\ row.seconds = Null
        BY <2>2, <2>5 DEF InvalidLimit
      <3>2. asked = <<>> \/ IsNone(asked.count)
        BY <2>4, <3>1, AcceptedIs DEF LimitFits
      <3> QED
        BY <2>3, <3>1, <3>2
    <2>6. CASE row.count # Null /\ row.seconds # Null
      <3>1. row.count \in Int /\ row.seconds \in Int
        BY <2>4, <2>6 DEF Column
      <3>2. row.count > 0 /\ row.seconds > 0
        BY <2>2, <2>6, <3>1 DEF InvalidLimit
      <3>3. asked = <<>> \/ row.seconds <= MaxSeconds
        BY <2>4, <2>6, AcceptedIs DEF LimitFits
      <3>5. ~s.unlimited
        BY <2>3, <2>6, Zenon
      <3> QED
        BY <2>3, <3>2, <3>3, <3>5, Zenon
    <2> QED
      BY <2>5, <2>6
  <1>2. AsGranted /\ [Next]_vars =>
          [\A s \in signing' \ signing :
              /\ s.unlimited => s.row.count = Null /\ s.row.seconds = Null
                                /\ (asked = <<>> \/ IsNone(asked.count))
              /\ ~s.unlimited => s.row.count > 0 /\ s.row.seconds > 0
                                 /\ (asked = <<>> \/ s.row.seconds <= MaxSeconds)]_vars
    BY <1>1
  <1> QED
    BY <1>2, GrantedStart, GrantedStep, PTL DEF Spec, LimitsNeverVanish

-----------------------------------------------------------------------------
(***************************************************************************)
(* The lengths of keys. Of a set of numbers there is a least one (WFMin of *)
(* the library), and of a bounded one a greatest.                          *)
(***************************************************************************)
LEMMA Least ==
    ASSUME NEW S, S \subseteq Nat, S # {}
    PROVE  \E n \in S : \A k \in S : n <= k
  <1>1. IsWellFoundedOn(OpToRel(<, Nat), Nat)
    BY NatLessThanWellFounded
  <1>2. PICK n \in S : \A k \in S : ~(<<k, n>> \in OpToRel(<, Nat))
    BY <1>1, WFMin
  <1>3. \A k \in S : ~(k < n)
    BY <1>2 DEF OpToRel
  <1> QED
    BY <1>3

LEMMA MinIn ==
    ASSUME NEW S, S \subseteq Nat, S # {}
    PROVE  Min(S) \in S
  BY Least DEF Min

LEMMA MaxIn ==
    ASSUME NEW n \in Nat, NEW S, S \subseteq 1..n, S # {}
    PROVE  Max(S) \in S
  <1> DEFINE mirror == {n - k : k \in S}
  <1>1. mirror \subseteq Nat /\ mirror # {}
    <2>1. \A k \in S : n - k \in Nat
      OBVIOUS
    <2> QED
      BY <2>1
  <1>2. PICK m \in mirror : \A k \in mirror : m <= k
    BY <1>1, Least
  <1>3. PICK g \in S : m = n - g
    BY <1>2
  <1>4. \A k \in S : k <= g
    <2> SUFFICES ASSUME NEW k \in S PROVE k <= g
      OBVIOUS
    <2>1. n - g <= n - k
      BY <1>2, <1>3
    <2> QED
      BY <2>1
  <1> QED
    BY <1>4 DEF Max

\* What is stripped is a sequence again, of the same characters.
LEMMA StripIs ==
    ASSUME NEW C, NEW text \in Seq(C)
    PROVE  /\ Strip(text) \in Seq(C)
           /\ \A i \in 1..Len(Strip(text)) : \E k \in 1..Len(text) : Strip(text)[i] = text[k]
  <1>1. CASE Visible(text) = {}
    BY <1>1 DEF Strip
  <1>2. CASE Visible(text) # {}
    <2> DEFINE a == Min(Visible(text))
               b == Max(Visible(text))
    <2>1. Visible(text) \subseteq 1..Len(text) /\ Len(text) \in Nat
      BY DEF Visible
    <2>2. a \in 1..Len(text) /\ b \in 1..Len(text)
      BY <1>2, <2>1, MinIn, MaxIn
    <2>3. Strip(text) = SubSeq(text, a, b)
      BY <1>2 DEF Strip
    <2> HIDE DEF a, b
    <2>4. /\ SubSeq(text, a, b) \in Seq(C)
          /\ \A i \in 1..Len(SubSeq(text, a, b)) :
                /\ SubSeq(text, a, b)[i] = text[a + i - 1]
                /\ a + i - 1 \in 1..Len(text)
      BY <2>2
    <2> QED
      BY <2>3, <2>4
  <1> QED
    BY <1>1, <1>2

LEMMA VisibleCount ==
    ASSUME NEW C, NEW t \in Seq(C)
    PROVE  /\ Visible(t) \subseteq 1..Len(t)
           /\ Cardinality(Visible(t)) \in 0..Len(t)
           /\ Visible(t) = 1..Len(t) => Cardinality(Visible(t)) = Len(t)
  <1>1. Len(t) \in Nat /\ Visible(t) \subseteq 1..Len(t)
    BY DEF Visible
  <1>2. IsFiniteSet(1..Len(t)) /\ Cardinality(1..Len(t)) = Len(t)
    <2>1. IsFiniteSet(1..Len(t))
          /\ Cardinality(1..Len(t)) = IF 1 > Len(t) THEN 0 ELSE Len(t) - 1 + 1
      BY <1>1, FS_Interval
    <2> QED
      BY <1>1, <2>1
  <1>3. IsFiniteSet(Visible(t)) /\ Cardinality(Visible(t)) <= Cardinality(1..Len(t))
    BY <1>1, <1>2, FS_Subset
  <1>4. Cardinality(Visible(t)) \in Nat
    BY <1>3, FS_CardinalityType
  <1> QED
    BY <1>1, <1>2, <1>3, <1>4

LEMMA ParsedIs ==
    ASSUME NEW text \in KeyText, NEW n \in ParsedHex(text)
    PROVE  /\ n \in 0..KeyBytes
           /\ (\A i \in DOMAIN text : text[i] # "space") => n = KeyBytes
  <1> DEFINE C == {"hex", "space", "other"}
             t == Strip(text)
  <1>1. text \in Seq(C) /\ KeyBytes \in Nat
    BY IntakeAssumption
  <1>2. t \in Seq(C) /\ \A i \in 1..Len(t) : \E k \in 1..Len(text) : t[i] = text[k]
    BY <1>1, StripIs
  <1>3. Len(t) = 2 * KeyBytes /\ n = Cardinality(Visible(t)) \div 2
    BY DEF ParsedHex, FromHex
  <1> HIDE DEF t, C
  <1>4. PICK v \in Nat : v = Cardinality(Visible(t)) /\ v <= 2 * KeyBytes
    BY <1>1, <1>2, <1>3, VisibleCount
  <1>5. n \in 0..KeyBytes
    BY <1>1, <1>3, <1>4
  <1>6. ASSUME \A i \in DOMAIN text : text[i] # "space"
        PROVE  n = KeyBytes
    <2>1. \A k \in 1..Len(text) : text[k] # "space"
      BY <1>1, <1>6
    <2>2. Visible(t) = 1..Len(t)
      BY <1>2, <2>1 DEF Visible
    <2>3. v = 2 * KeyBytes
      BY <1>2, <1>3, <1>4, <2>2, VisibleCount
    <2> QED
      BY <1>1, <1>3, <1>4, <2>3
  <1> QED
    BY <1>5, <1>6

(***************************************************************************)
(* A key that is stored is never longer than a key, and it is shorter only *)
(* where its text has whitespace inside (parse_nostr_private_key).         *)
(***************************************************************************)
THEOREM UnspacedKeysAreWhole ==
    ASSUME NEW text \in KeyText, NEW n \in ParsedHex(text),
           \A i \in DOMAIN text : text[i] # "space"
    PROVE  n = KeyBytes
  BY ParsedIs

KeyLengths == keys \subseteq 0..KeyBytes

(***************************************************************************)
(* Kinds, names, columns and key lengths stay in their ranges whatever the *)
(* requests hold, but for rows from before the models (models.py).         *)
(***************************************************************************)
THEOREM TypeCorrect == Spec => []TypeOK
  <1>1. Init => KeyLengths
    BY DEF Init, KeyLengths
  <1>2. KeyLengths /\ [Next]_vars => KeyLengths'
    <2> SUFFICES ASSUME keys \subseteq 0..KeyBytes, [Next]_vars PROVE keys' \subseteq 0..KeyBytes
      BY DEF KeyLengths
    <2>1. CASE ImportKey
      <3>1. PICK length \in Importable : keys' = keys \cup {length}
        BY <2>1 DEF ImportKey
      <3>2. length \in 0..KeyBytes
        BY ParsedIs DEF Importable
      <3> QED
        BY <3>1, <3>2
    <2>2. CASE keys' = keys
      BY <2>2
    <2> QED
      BY <2>1, <2>2 DEF Next, Grant, Edit, SignOverHttp, SignInPython, Sign, vars
  <1>3. KeyLengths /\ AsGranted => TypeOK
    BY TypedIs DEF KeyLengths, AsGranted, TypeOK
  <1> QED
    BY <1>1, <1>2, <1>3, GrantedStart, GrantedStep, PTL DEF Spec

=============================================================================
