----------------------- MODULE SlotReservation_proofs -----------------------
(***************************************************************************)
(* The atomic reservation keeps every sliding window, for any calls,       *)
(* permissions, limits and clock.                                          *)
(***************************************************************************)
EXTENDS SlotReservation, FiniteSetTheorems, TLAPS

USE SubjectAssumption, LimitAssumption, ClockAssumption

\* The state is well formed, and only finitely many signings are ever recorded.
Inv == TypeOK /\ IsFiniteSet(signed)

\* Windows, and what a reservation counts, are finite parts of the signings.
LEMMA WindowFinite ==
    ASSUME IsFiniteSet(signed), NEW s, NEW l, NEW t
    PROVE  /\ IsFiniteSet(InWindow(s, l, t))
           /\ Cardinality(InWindow(s, l, t)) \in Nat
           /\ IsFiniteSet(SignedAfter(Reservations, s, t))
           /\ Cardinality(SignedAfter(Reservations, s, t)) \in Nat
<1>1. InWindow(s, l, t) \subseteq signed /\ SignedAfter(Reservations, s, t) \subseteq signed
  BY DEF InWindow, SignedAfter, Reservations
<1>2. IsFiniteSet(InWindow(s, l, t)) /\ IsFiniteSet(SignedAfter(Reservations, s, t))
  BY <1>1, FS_Subset
<1> QED
  BY <1>2, FS_CardinalityType

LEMMA InitInv == Init => Inv
  BY FS_EmptySet DEF Init, Inv, TypeOK, Outcome

\* Every step of the service keeps its state well formed.
LEMMA StepInv == Inv /\ [Next]_vars => Inv'
<1> SUFFICES ASSUME Inv, [Next]_vars PROVE Inv'
  OBVIOUS
<1> USE DEF Inv, TypeOK, Outcome
<1>1. ASSUME NEW c \in Call, Ask(c) PROVE Inv'
  BY <1>1 DEF Ask
<1>2. ASSUME NEW c \in Call, Record(c) PROVE Inv'
  <2>1. SigningOf(c) \in Signing
    BY <1>2 DEF Record, SigningOf, Signing, Request
  <2>2. IsFiniteSet(signed')
    BY <1>2, FS_AddElement DEF Record
  <2> QED
    BY <1>2, <2>1, <2>2 DEF Record
<1>3. ASSUME NEW c \in Call, Refuse(c) PROVE Inv'
  BY <1>3 DEF Refuse
<1>4. ASSUME NEW c \in Call, Fail(c) PROVE Inv'
  BY <1>4 DEF Fail
<1>5. ASSUME NEW p \in Permission, Revoke(p) PROVE Inv'
  BY <1>5 DEF Revoke
<1>6. CASE UNCHANGED vars
  BY <1>6 DEF vars
<1> QED
  BY <1>1, <1>2, <1>3, <1>4, <1>5, <1>6 DEF Next

-----------------------------------------------------------------------------
(***************************************************************************)
(* The heart of the argument. Let a reservation enter a window of length l *)
(* together with others made under limits as strict as l. What the call    *)
(* counted reaches back at least to the start of that window, whatever its *)
(* stamp, so it counted all of them and found fewer than its own count.    *)
(***************************************************************************)
LEMMA RecordKeepsWindow ==
    ASSUME Inv, SlidingWindow, NEW c \in Call, Record(c)
    PROVE  SlidingWindow'
<1> SUFFICES ASSUME NEW s \in Subject, NEW l \in Limit, NEW t \in Instant,
                    \A e \in InWindow(s, l, t)' : AtLeastAsStrict(e, l)
             PROVE  Cardinality(InWindow(s, l, t)') <= l.count
  BY DEF SlidingWindow, AtLeastAsStrict
<1> DEFINE e == SigningOf(c)
           W == InWindow(s, l, t)
<1>1. InWindow(s, l, t)' \subseteq W \cup {e} /\ W \subseteq InWindow(s, l, t)'
  BY DEF Record, InWindow, Reservations
<1>2. Cardinality(W) <= l.count
  BY <1>1 DEF SlidingWindow
<1>3. CASE e \notin InWindow(s, l, t)'
  <2>1. InWindow(s, l, t)' = W
    BY <1>1, <1>3
  <2> QED
    BY <2>1, <1>2
<1>4. CASE e \in InWindow(s, l, t)'
  <2>1. request[c] \in Request
    BY DEF Record, Inv, TypeOK
  <2>2. /\ e.limit \in Limit /\ e.subject = s /\ AtLeastAsStrict(e, l)
        /\ t - l.seconds < e.at
    BY <1>4, <2>1 DEF InWindow, Reservations, SigningOf, Request
  <2>3. SubjectOfCall(c) = s /\ request[c].limit = e.limit /\ request[c].at = e.at
    BY <2>2 DEF SubjectOfCall, SigningOf
  <2>4. W \subseteq SignedAfter(Reservations, s, WindowStart(c))
    <3> SUFFICES ASSUME NEW x \in W PROVE x \in SignedAfter(Reservations, s, WindowStart(c))
      OBVIOUS
    <3>1. x \in signed /\ x.at \in Int /\ x.subject = s /\ x \in Reservations /\ t - l.seconds < x.at
      BY DEF InWindow, Reservations, Inv, TypeOK, Signing
    <3>2. e.at <= t /\ t \in Int /\ e.at \in Int
      BY <1>4, <2>1, <2>3 DEF InWindow, Request
    <3>3. WindowStart(c) <= t - l.seconds
      BY <2>2, <2>3, <3>2 DEF WindowStart, AtLeastAsStrict
    <3>4. WindowStart(c) \in Int
      BY <2>2, <2>3, <3>2 DEF WindowStart
    <3> QED
      BY <3>1, <3>2, <3>3, <3>4 DEF SignedAfter
  <2>5. Cardinality(SignedAfter(Reservations, s, WindowStart(c))) < e.limit.count
    BY <2>2, <2>3 DEF Record, MayReserve
  <2>6. Cardinality(W) <= Cardinality(SignedAfter(Reservations, s, WindowStart(c)))
    BY <2>4, WindowFinite, FS_Subset DEF Inv
  <2>7. Cardinality(W \cup {e}) <= Cardinality(W) + 1 /\ IsFiniteSet(W \cup {e})
    <3>1. IsFiniteSet(W) /\ Cardinality(W) \in Nat
      BY WindowFinite DEF Inv
    <3>2. /\ IsFiniteSet(W \cup {e})
          /\ Cardinality(W \cup {e}) = IF e \in W THEN Cardinality(W) ELSE Cardinality(W) + 1
      BY <3>1, FS_AddElement
    <3> HIDE DEF W, e
    <3> QED
      BY <3>1, <3>2
  <2>8. Cardinality(InWindow(s, l, t)') <= Cardinality(W \cup {e})
    BY <1>1, <2>7, FS_Subset
  <2>9. /\ Cardinality(InWindow(s, l, t)') \in Nat /\ Cardinality(W \cup {e}) \in Nat
        /\ Cardinality(W) \in Nat
        /\ Cardinality(SignedAfter(Reservations, s, WindowStart(c))) \in Nat
    BY <1>1, <2>7, WindowFinite, FS_Subset, FS_CardinalityType DEF Inv
  <2>10. e.limit.count <= l.count /\ e.limit.count \in Nat /\ l.count \in Nat
    BY <2>2 DEF AtLeastAsStrict
  <2> QED
    BY <2>5, <2>6, <2>7, <2>8, <2>9, <2>10
<1> QED
  BY <1>3, <1>4

\* Only a recording touches a window.
LEMMA StepKeepsWindow == Inv /\ SlidingWindow /\ [Next]_vars => SlidingWindow'
<1> SUFFICES ASSUME Inv, SlidingWindow, [Next]_vars PROVE SlidingWindow'
  OBVIOUS
<1>1. ASSUME NEW c \in Call, Record(c) PROVE SlidingWindow'
  BY <1>1, RecordKeepsWindow
<1>2. ASSUME signed' = signed PROVE SlidingWindow'
  BY <1>2 DEF SlidingWindow, InWindow, Reservations, AtLeastAsStrict
<1> QED
  BY <1>1, <1>2 DEF Next, Ask, Refuse, Fail, Revoke, vars

LEMMA InitWindow == Init => SlidingWindow
<1> SUFFICES ASSUME Init, NEW s \in Subject, NEW l \in Limit, NEW t \in Instant
             PROVE  Cardinality(InWindow(s, l, t)) <= l.count
  BY DEF SlidingWindow
<1>1. InWindow(s, l, t) = {}
  BY DEF Init, InWindow, Reservations
<1> QED
  BY <1>1, FS_EmptySet

-----------------------------------------------------------------------------
\* In every state of the service its state is well formed.
THEOREM TypeCorrect == Spec => []TypeOK
<1>1. Spec => []Inv
  BY InitInv, StepInv, PTL DEF Spec
<1>2. Inv => TypeOK
  BY DEF Inv
<1> QED
  BY <1>1, <1>2, PTL

\* A reservation that is atomic keeps every sliding window of every limit: what
\* sign_event's "Rate limit exceeded: count per seconds" promises.
THEOREM WindowsHold == Spec => []SlidingWindow
<1>1. Init => Inv /\ SlidingWindow
  BY InitInv, InitWindow
<1>2. Inv /\ SlidingWindow /\ [Next]_vars => (Inv /\ SlidingWindow)'
  BY StepInv, StepKeepsWindow
<1> QED
  BY <1>1, <1>2, PTL DEF Spec

=============================================================================
