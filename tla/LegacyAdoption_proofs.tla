----------------------- MODULE LegacyAdoption_proofs -----------------------
(***************************************************************************)
(* The adoption loses no table and is never recorded half done, for any    *)
(* number of crashes.                                                      *)
(***************************************************************************)
EXTENDS LegacyAdoption, TLAPS

\* The legacy schema is dropped only behind the statements that move its tables out.
MovedFirst ==
    \A i \in 1..Len(plan) : plan[i] = DropSchema =>
        \A t \in DataTable \cap legacy : \E j \in 1..(i - 1) : plan[j] = Move(t)

LEMMA TypesStart == Init => TypeOK
  BY CrashAssumption DEF Init, TypeOK

LEMMA PlansAreTyped == Adoption \in Seq(Statement) /\ Creation \in Seq(Statement)
  BY DEF Adoption, Creation, Statement, Create, Move, Drop, DropSchema, DataTable, Legacy, Own

LEMMA HeadIsStatement ==
    TypeOK /\ Execute => /\ Head(plan) \in Statement /\ Head(plan) = plan[1]
                         /\ plan' \in Seq(Statement) /\ Len(plan') = Len(plan) - 1
                         /\ \A i \in 1..Len(plan') : plan'[i] = plan[i + 1]
                         /\ Len(plan) \in Nat \ {0}
  <1> SUFFICES ASSUME TypeOK, Execute
               PROVE  /\ Head(plan) \in Statement /\ Head(plan) = plan[1]
                      /\ plan' \in Seq(Statement) /\ Len(plan') = Len(plan) - 1
                      /\ \A i \in 1..Len(plan') : plan'[i] = plan[i + 1]
                      /\ Len(plan) \in Nat \ {0}
    OBVIOUS
  <1>1. plan \in Seq(Statement) /\ plan # <<>> /\ plan' = Tail(plan)
    BY DEF TypeOK, Execute
  <1> QED
    BY <1>1

LEMMA StepTypeOK == TypeOK /\ [Next]_vars => TypeOK'
  <1> SUFFICES ASSUME TypeOK, [Next]_vars PROVE TypeOK'
    OBVIOUS
  <1>1. CASE Start
    <2>1. plan' \in Seq(Statement)
      BY <1>1, PlansAreTyped DEF Start
    <2> QED
      BY <1>1, <2>1 DEF TypeOK, Start
  <1>2. CASE Execute
    <2>1. PICK s \in Statement : s = Head(plan) /\ Effect(s)
      BY <1>2, HeadIsStatement DEF Execute
    <2>2. plan' \in Seq(Statement)
      BY <1>2, HeadIsStatement DEF Execute
    <2>3. legacy' \subseteq had /\ adopted' \subseteq had \cap own' /\ own' \subseteq Own
      <3>1. CASE s.do \in {"create", "move"}
        <4>1. s.what \in Own
          BY <3>1 DEF Statement, Own
        <4> QED
          BY <2>1, <3>1, <4>1 DEF TypeOK, Effect
      <3>2. CASE s.do \in {"drop", "drop schema"}
        BY <2>1, <3>2 DEF TypeOK, Effect
      <3> QED
        BY <3>1, <3>2 DEF Statement
    <2> QED
      BY <1>2, <2>2, <2>3 DEF TypeOK, Execute
  <1>3. CASE Raise
    BY <1>3 DEF TypeOK, Raise
  <1>4. CASE Crash
    BY <1>4, CrashAssumption DEF TypeOK, Crash
  <1>5. CASE Record
    BY <1>5 DEF TypeOK, Record
  <1>6. CASE UNCHANGED vars
    BY <1>6 DEF TypeOK, vars
  <1> QED
    BY <1>1, <1>2, <1>3, <1>4, <1>5, <1>6 DEF Next

(***************************************************************************)
(* The migration is type correct: no statement names a table outside its   *)
(* schema, and what is adopted is there (m001_initial).                    *)
(***************************************************************************)
THEOREM TypeCorrect == Spec => []TypeOK
  BY TypesStart, StepTypeOK, PTL DEF Spec

-----------------------------------------------------------------------------
LEMMA StatementsDiffer ==
    ASSUME NEW t
    PROVE  Create(t) # DropSchema /\ Move(t) # DropSchema /\ Drop(t) # DropSchema
  <1>1. Create(t).do # DropSchema.do /\ Move(t).do # DropSchema.do /\ Drop(t).do # DropSchema.do
    BY DEF Create, Move, Drop, DropSchema
  <1> QED
    BY <1>1, Zenon

LEMMA DropSchemaIs ==
    ASSUME NEW s \in Statement, s.do = "drop schema"
    PROVE  s = DropSchema
  BY DEF Statement, DropSchema

LEMMA CreationDropsNothing ==
    ASSUME NEW i \in 1..Len(Creation)
    PROVE  Creation[i] # DropSchema
  <1>1. Len(Creation) = 4 /\ Creation[1] = Create("keys") /\ Creation[2] = Create("permissions")
        /\ Creation[3] = Create("idx_permissions_wallet_ext")
        /\ Creation[4] = Create("signing_log")
    BY DEF Creation
  <1>2. i = 1 \/ i = 2 \/ i = 3 \/ i = 4
    BY <1>1
  <1> QED
    BY <1>1, <1>2, StatementsDiffer, Zenon

LEMMA AdoptionDropsLast ==
    ASSUME NEW i \in 1..Len(Adoption), Adoption[i] = DropSchema
    PROVE  i = 5
  <1>1. Len(Adoption) = 5 /\ Adoption[1] = Move("keys") /\ Adoption[2] = Move("permissions")
        /\ Adoption[3] = Move("signing_log") /\ Adoption[4] = Drop("connections")
    BY DEF Adoption
  <1>2. i = 1 \/ i = 2 \/ i = 3 \/ i = 4 \/ i = 5
    BY <1>1
  <1> QED
    BY <1>1, <1>2, StatementsDiffer, Zenon

LEMMA StartMovesFirst == Start => MovedFirst'
  <1> SUFFICES ASSUME Start,
                      NEW i \in 1..Len(plan'), plan'[i] = DropSchema,
                      NEW t \in DataTable
               PROVE  \E j \in 1..(i - 1) : plan'[j] = Move(t)
    BY DEF MovedFirst
  <1>1. CASE plan' = Adoption
    <2>1. i = 5
      BY <1>1, AdoptionDropsLast
    <2>2. Adoption[1] = Move("keys") /\ Adoption[2] = Move("permissions")
          /\ Adoption[3] = Move("signing_log")
      BY DEF Adoption
    <2>3. 1 \in 1..(5 - 1) /\ 2 \in 1..(5 - 1) /\ 3 \in 1..(5 - 1)
      OBVIOUS
    <2>4. \E j \in 1..(5 - 1) : Adoption[j] = Move(t)
      BY <2>2, <2>3 DEF DataTable
    <2> QED
      BY <1>1, <2>1, <2>4
  <1>2. CASE plan' = Creation
    BY <1>2, CreationDropsNothing
  <1> QED
    BY <1>1, <1>2 DEF Start

LEMMA ExecuteMovesFirst == TypeOK /\ MovedFirst /\ Execute => MovedFirst'
  <1> SUFFICES ASSUME TypeOK, MovedFirst, Execute,
                      NEW i \in 1..Len(plan'), plan'[i] = DropSchema,
                      NEW t \in DataTable \cap legacy'
               PROVE  \E j \in 1..(i - 1) : plan'[j] = Move(t)
    BY DEF MovedFirst
  <1>0. PICK n \in Nat \ {0} : Len(plan) = n /\ Len(plan') = n - 1
    BY HeadIsStatement
  <1>1. i \in 1..(n - 1) /\ plan[i + 1] = DropSchema
    BY <1>0, HeadIsStatement
  <1>2. t \in DataTable \cap legacy
    BY DEF Execute, Effect
  <1>3. PICK j \in 1..i : plan[j] = Move(t)
    <2>1. i + 1 \in 1..Len(plan) /\ (i + 1) - 1 = i
      BY <1>0, <1>1
    <2>2. \E j \in 1..((i + 1) - 1) : plan[j] = Move(t)
      BY <1>1, <1>2, <2>1 DEF MovedFirst
    <2> QED
      BY <2>1, <2>2
  <1>4. j # 1
    <2> SUFFICES ASSUME Head(plan) = Move(t) PROVE FALSE
      BY <1>3, HeadIsStatement
    <2>1. Head(plan).do = "move" /\ Head(plan).what = t
      BY DEF Move
    <2>2. legacy' = legacy \ {t}
      BY <2>1 DEF Execute, Effect
    <2> QED
      BY <2>2
  <1>5. j - 1 \in 1..(i - 1) /\ (j - 1) + 1 = j
    BY <1>1, <1>3, <1>4
  <1>6. j - 1 \in 1..Len(plan')
    BY <1>0, <1>1, <1>5
  <1>7. plan'[j - 1] = plan[j]
    BY <1>5, <1>6, HeadIsStatement
  <1> QED
    BY <1>3, <1>5, <1>7

LEMMA ExecuteLosesNothing == TypeOK /\ MovedFirst /\ NothingLost /\ Execute => NothingLost'
  <1> SUFFICES ASSUME TypeOK, MovedFirst, NothingLost, Execute,
                      NEW t \in had \cap DataTable
               PROVE  t \in adopted' <=> t \notin legacy'
    BY DEF NothingLost, Execute
  <1>1. t \in adopted <=> t \notin legacy
    BY DEF NothingLost
  <1>2. PICK s \in Statement : s = plan[1] /\ Effect(s)
    BY HeadIsStatement DEF Execute
  <1>3. CASE s.do \in {"create", "move"}
    BY <1>1, <1>2, <1>3 DEF Effect
  <1>4. CASE s.do = "drop"
    <2>1. s.what # t
      BY <1>4 DEF Statement
    <2> QED
      BY <1>1, <1>2, <1>4, <2>1 DEF Effect
  <1>5. CASE s.do = "drop schema"
    <2>1. 1 \in 1..Len(plan) /\ plan[1] = DropSchema
      <3>1. 1 \in 1..Len(plan)
        BY HeadIsStatement
      <3>2. s = DropSchema
        BY <1>5, DropSchemaIs, Zenon
      <3> QED
        BY <1>2, <3>1, <3>2, Zenon
    <2>2. t \notin legacy
      <3> SUFFICES ASSUME t \in legacy PROVE FALSE
        OBVIOUS
      <3>1. \E j \in 1..(1 - 1) : plan[j] = Move(t)
        BY <2>1 DEF MovedFirst
      <3> QED
        BY <3>1
    <2> QED
      BY <1>1, <1>2, <1>5, <2>2 DEF Effect
  <1> QED
    BY <1>3, <1>4, <1>5 DEF Statement

LEMMA StepLosesNothing ==
    TypeOK /\ MovedFirst /\ NothingLost /\ [Next]_vars => MovedFirst' /\ NothingLost'
  <1> SUFFICES ASSUME TypeOK, MovedFirst, NothingLost, [Next]_vars
               PROVE  MovedFirst' /\ NothingLost'
    OBVIOUS
  <1>1. CASE Start
    BY <1>1, StartMovesFirst DEF NothingLost, Start
  <1>2. CASE Execute
    BY <1>2, ExecuteMovesFirst, ExecuteLosesNothing
  <1>3. CASE Raise \/ Crash \/ Record \/ UNCHANGED vars
    <2>1. UNCHANGED <<had, legacy, adopted, plan>>
      BY <1>3 DEF Raise, Crash, Record, vars
    <2> QED
      BY <2>1 DEF MovedFirst, NothingLost
  <1> QED
    BY <1>1, <1>2, <1>3 DEF Next

(***************************************************************************)
(* _adopt_legacy_nsecbunker drops no table with data, however many times   *)
(* it is cut short and run again.                                          *)
(***************************************************************************)
THEOREM Conserved == Spec => []NothingLost
  <1>1. Init => MovedFirst /\ NothingLost
    BY DEF Init, MovedFirst, NothingLost
  <1> QED
    BY <1>1, TypesStart, StepTypeOK, StepLosesNothing, PTL DEF Spec

-----------------------------------------------------------------------------
Adopts == schemas /\ "keys" \in had

\* What is left of the plan is an end of the statements s.
EndOf(s) ==
    /\ Len(plan) <= Len(s)
    /\ \A i \in 1..Len(plan) : plan[i] = s[i + Len(s) - Len(plan)]

\* The statements of a run are executed from the first: what is behind follows from their number.
MovedSoFar == {t \in DataTable : \/ t = "keys" /\ Len(plan) < 5
                                 \/ t = "permissions" /\ Len(plan) < 4
                                 \/ t = "signing_log" /\ Len(plan) < 3}

CreatedSoFar == {t \in DataTable : \/ t = "keys" /\ Len(plan) < 4
                                   \/ t = "permissions" /\ Len(plan) < 3
                                   \/ t = "signing_log" /\ Len(plan) < 1}

(***************************************************************************)
(* The keys go first. While they are in the legacy schema nothing has been *)
(* touched, so the next run adopts from the start; once they have gone the *)
(* next run creates, and stops at their name.                              *)
(***************************************************************************)
KeysGoFirst ==
    IF Adopts
    THEN /\ "keys" \in legacy => own = {} /\ adopted = {} /\ legacy = had
         /\ "keys" \notin legacy => "keys" \in own
    ELSE adopted = {} /\ legacy = had

Adopting ==
    /\ Adopts /\ EndOf(Adoption)
    /\ adopted = had \cap MovedSoFar /\ own = adopted
    /\ plan = <<>> => legacy = {}

Creating ==
    /\ EndOf(Creation) /\ CreatedSoFar \subseteq own
    /\ Adopts => "keys" \notin legacy /\ Len(plan) = 4

OnCourse ==
    /\ KeysGoFirst
    /\ migration = "running" => Adopting \/ Creating
    /\ migration = "recorded" =>
           IF Adopts THEN adopted = had \cap DataTable /\ own = adopted /\ legacy = {}
           ELSE DataTable \subseteq own

LEMMA AdoptionIs ==
    /\ Len(Adoption) = 5
    /\ Adoption[1] = Move("keys") /\ Adoption[2] = Move("permissions")
    /\ Adoption[3] = Move("signing_log") /\ Adoption[4] = Drop("connections")
    /\ Adoption[5] = DropSchema
  BY DEF Adoption

LEMMA CreationIs ==
    /\ Len(Creation) = 4
    /\ Creation[1] = Create("keys") /\ Creation[2] = Create("permissions")
    /\ Creation[3] = Create("idx_permissions_wallet_ext") /\ Creation[4] = Create("signing_log")
  BY DEF Creation

\* A statement executed leaves a shorter end.
LEMMA EndShortens ==
    ASSUME TypeOK, Execute, NEW s, Len(s) \in Nat, EndOf(s)
    PROVE  /\ Head(plan) = s[1 + Len(s) - Len(plan)]
           /\ Len(plan) \in 1..Len(s) /\ Len(plan') = Len(plan) - 1
           /\ Len(plan') <= Len(s)
           /\ \A i \in 1..Len(plan') : plan'[i] = s[i + Len(s) - Len(plan')]
  <1>0. PICK n \in Nat \ {0} : Len(plan) = n /\ Len(plan') = n - 1
    BY HeadIsStatement
  <1>1. PICK m \in Nat : Len(s) = m
    OBVIOUS
  <1>2. n <= m /\ \A i \in 1..n : plan[i] = s[i + m - n]
    BY <1>0, <1>1 DEF EndOf
  <1>3. Head(plan) = s[1 + m - n]
    BY <1>0, <1>2, HeadIsStatement
  <1>4. ASSUME NEW i \in 1..(n - 1)
        PROVE  plan'[i] = s[i + m - (n - 1)]
    <2>1. plan'[i] = plan[i + 1]
      BY <1>0, HeadIsStatement
    <2>2. i + 1 \in 1..n /\ (i + 1) + m - n = i + m - (n - 1)
      BY <1>0, <1>1
    <2> QED
      BY <1>2, <2>1, <2>2
  <1> QED
    BY <1>0, <1>1, <1>2, <1>3, <1>4

LEMMA StartOnCourse == TypeOK /\ NothingLost /\ OnCourse /\ Start => OnCourse'
  <1> SUFFICES ASSUME TypeOK, NothingLost, OnCourse, Start
               PROVE  OnCourse'
    OBVIOUS
  <1>1. UNCHANGED <<schemas, had, legacy, own, adopted>> /\ migration' = "running"
    BY DEF Start
  <1>2. KeysGoFirst'
    BY <1>1 DEF OnCourse, KeysGoFirst, Adopts
  <1>3. CASE schemas /\ LegacyPresent
    <2>1. plan' = Adoption /\ Len(plan') = 5 /\ plan' # <<>>
      BY <1>3, AdoptionIs DEF Start
    <2>2. Adopts /\ own = {} /\ adopted = {}
      BY <1>3 DEF OnCourse, KeysGoFirst, LegacyPresent, TypeOK, Adopts
    <2>3. EndOf(Adoption)'
      <3>1. \A i \in 1..5 : i + 5 - 5 = i
        OBVIOUS
      <3> QED
        BY <2>1, <3>1 DEF EndOf
    <2>4. MovedSoFar' = {}
      BY <2>1 DEF MovedSoFar
    <2>5. Adopting'
      BY <1>1, <2>1, <2>2, <2>3, <2>4 DEF Adopting, Adopts
    <2> QED
      BY <1>1, <1>2, <2>5 DEF OnCourse
  <1>4. CASE ~(schemas /\ LegacyPresent)
    <2>1. plan' = Creation /\ Len(plan') = 4
      BY <1>4, CreationIs DEF Start
    <2>2. Adopts => "keys" \notin legacy
      BY <1>4 DEF Adopts, LegacyPresent
    <2>3. EndOf(Creation)'
      <3>1. \A i \in 1..4 : i + 4 - 4 = i
        OBVIOUS
      <3> QED
        BY <2>1, <3>1 DEF EndOf
    <2>4. CreatedSoFar' = {}
      BY <2>1 DEF CreatedSoFar
    <2>5. Creating'
      BY <1>1, <2>1, <2>2, <2>3, <2>4 DEF Creating, Adopts
    <2> QED
      BY <1>1, <1>2, <2>5 DEF OnCourse
  <1> QED
    BY <1>3, <1>4

LEMMA AdoptingGoesOn ==
    TypeOK /\ NothingLost /\ KeysGoFirst /\ Adopting /\ Execute => KeysGoFirst' /\ Adopting'
  <1> SUFFICES ASSUME TypeOK, NothingLost, KeysGoFirst, Adopting, Execute
               PROVE  KeysGoFirst' /\ Adopting'
    OBVIOUS
  <1>0. PICK n \in 1..5 : Len(plan) = n /\ Len(plan') = n - 1 /\ Head(plan) = Adoption[6 - n]
    <2>1. EndOf(Adoption) /\ Len(Adoption) \in Nat
      BY AdoptionIs DEF Adopting
    <2>2. /\ Head(plan) = Adoption[1 + Len(Adoption) - Len(plan)]
          /\ Len(plan) \in 1..Len(Adoption) /\ Len(plan') = Len(plan) - 1
      BY <2>1, EndShortens, Zenon
    <2>3. Len(plan) \in 1..5 /\ 1 + Len(Adoption) - Len(plan) = 6 - Len(plan)
      BY <2>2, AdoptionIs
    <2> QED
      BY <2>2, <2>3
  <1>1. EndOf(Adoption)'
    <2>1. EndOf(Adoption) /\ Len(Adoption) \in Nat
      BY AdoptionIs DEF Adopting
    <2> QED
      BY <2>1, EndShortens, Zenon DEF EndOf
  <1>2. UNCHANGED <<schemas, had>> /\ Effect(Head(plan))
    BY DEF Execute
  <1>3. Adopts /\ Adopts' /\ own = adopted /\ adopted = had \cap MovedSoFar
    BY <1>2 DEF Adopting, Adopts
  <1>4. plan' = <<>> => n = 1
    BY <1>0
  <1>5. \A t \in had \cap DataTable : t \in adopted <=> t \notin legacy
    BY DEF NothingLost
  <1>6. legacy \subseteq had
    BY DEF TypeOK
  <1>7. ASSUME NEW t \in DataTable, Head(plan) = Move(t),
               MovedSoFar' = MovedSoFar \cup {t}, n # 1, t # "keys" => n # 5
        PROVE  KeysGoFirst' /\ Adopting'
    <2>1. Head(plan).do = "move" /\ Head(plan).what = t
      BY <1>7 DEF Move
    <2>2. /\ own' = own \cup (legacy \cap {t}) /\ adopted' = adopted \cup (legacy \cap {t})
          /\ legacy' = legacy \ {t}
      BY <1>2, <2>1 DEF Effect
    <2>3. adopted' = had' \cap MovedSoFar' /\ own' = adopted'
      BY <1>2, <1>3, <1>5, <1>6, <1>7, <2>2
    <2>4. "keys" \in adopted'
      <3>1. CASE t = "keys"
        BY <1>3, <1>5, <2>2, <3>1 DEF Adopts
      <3>2. CASE t # "keys"
        <4>1. "keys" \in MovedSoFar
          BY <1>0, <1>7, <3>2 DEF MovedSoFar, DataTable
        <4> QED
          BY <1>3, <2>2, <4>1 DEF Adopts
      <3> QED
        BY <3>1, <3>2
    <2>5. "keys" \notin legacy'
      <3>1. CASE t = "keys"
        BY <2>2, <3>1
      <3>2. CASE t # "keys"
        <4>1. "keys" \in adopted
          BY <2>2, <2>4, <3>2
        <4>2. "keys" \in had \cap DataTable
          BY <1>3 DEF Adopts, DataTable
        <4> QED
          BY <1>5, <2>2, <4>1, <4>2
      <3> QED
        BY <3>1, <3>2
    <2> QED
      BY <1>1, <1>3, <1>4, <1>7, <2>3, <2>4, <2>5 DEF KeysGoFirst, Adopting
  <1>8. ASSUME Head(plan).do \in {"drop", "drop schema"}, n \in {1, 2}, n = 1 => legacy' = {},
               "keys" \notin legacy'
        PROVE  KeysGoFirst' /\ Adopting'
    <2>1. UNCHANGED <<own, adopted>>
      BY <1>2, <1>8 DEF Effect
    <2>2. MovedSoFar = DataTable /\ MovedSoFar' = DataTable
      <3>1. /\ Len(plan) < 3 /\ Len(plan) < 4 /\ Len(plan) < 5
            /\ Len(plan') < 3 /\ Len(plan') < 4 /\ Len(plan') < 5
        <4>1. n = 1 \/ n = 2
          BY <1>8, Zenon
        <4> QED
          BY <1>0, <4>1
      <3> QED
        BY <3>1, Zenon DEF MovedSoFar, DataTable
    <2>3. adopted' = had' \cap MovedSoFar' /\ own' = adopted'
      BY <1>2, <1>3, <2>1, <2>2
    <2>4. "keys" \in own'
      BY <1>2, <1>3, <2>2, <2>3 DEF Adopts, DataTable
    <2> QED
      BY <1>1, <1>3, <1>4, <1>8, <2>3, <2>4 DEF KeysGoFirst, Adopting
  <1>9. n \in {1, 2} => "keys" \notin legacy
    <2> SUFFICES ASSUME n \in {1, 2} PROVE "keys" \notin legacy
      OBVIOUS
    <2>1. "keys" \in MovedSoFar /\ "keys" \in had \cap DataTable
      BY <1>0, <1>3 DEF MovedSoFar, DataTable, Adopts
    <2> QED
      BY <1>3, <1>5, <2>1
  <1>10. CASE n = 5
    <2>1. Head(plan) = Move("keys") /\ MovedSoFar' = MovedSoFar \cup {"keys"}
      BY <1>0, <1>10, AdoptionIs DEF MovedSoFar, DataTable
    <2> QED
      BY <1>7, <1>10, <2>1 DEF DataTable
  <1>11. CASE n = 4
    <2>1. Head(plan) = Move("permissions") /\ MovedSoFar' = MovedSoFar \cup {"permissions"}
      BY <1>0, <1>11, AdoptionIs DEF MovedSoFar, DataTable
    <2> QED
      BY <1>7, <1>11, <2>1 DEF DataTable
  <1>12. CASE n = 3
    <2>1. Head(plan) = Move("signing_log") /\ MovedSoFar' = MovedSoFar \cup {"signing_log"}
      BY <1>0, <1>12, AdoptionIs DEF MovedSoFar, DataTable
    <2> QED
      BY <1>7, <1>12, <2>1 DEF DataTable
  <1>13. CASE n = 2
    <2>1. Head(plan) = Drop("connections")
      BY <1>0, <1>13, AdoptionIs
    <2>2. Head(plan).do = "drop"
      BY <2>1 DEF Drop
    <2>3. legacy' \subseteq legacy
      BY <1>2, <2>2 DEF Effect
    <2>4. n \in {1, 2} /\ n # 1
      BY <1>13
    <2> QED
      BY <1>8, <1>9, <2>2, <2>3, <2>4, Zenon
  <1>14. CASE n = 1
    <2>1. Head(plan) = DropSchema
      BY <1>0, <1>14, AdoptionIs
    <2>2. Head(plan).do = "drop schema"
      <3>1. DropSchema.do = "drop schema"
        BY DEF DropSchema
      <3> QED
        BY <2>1, <3>1, Zenon
    <2>3. legacy' = {}
      BY <1>2, <2>2 DEF Effect
    <2> QED
      BY <1>8, <1>14, <2>2, <2>3
  <1> QED
    BY <1>10, <1>11, <1>12, <1>13, <1>14

LEMMA CreatingGoesOn ==
    TypeOK /\ KeysGoFirst /\ Creating /\ Execute => KeysGoFirst' /\ Creating'
  <1> SUFFICES ASSUME TypeOK, KeysGoFirst, Creating, Execute
               PROVE  KeysGoFirst' /\ Creating'
    OBVIOUS
  <1>1. EndOf(Creation) /\ Len(Creation) \in Nat
    BY CreationIs DEF Creating
  <1>2. EndOf(Creation)'
    BY <1>1, EndShortens, Zenon DEF EndOf
  <1>0. PICK n \in 1..4 : Len(plan) = n /\ Len(plan') = n - 1 /\ Head(plan) = Creation[5 - n]
    <2>2. /\ Head(plan) = Creation[1 + Len(Creation) - Len(plan)]
          /\ Len(plan) \in 1..Len(Creation) /\ Len(plan') = Len(plan) - 1
      BY <1>1, EndShortens, Zenon
    <2>3. Len(plan) \in 1..4 /\ 1 + Len(Creation) - Len(plan) = 5 - Len(plan)
      BY <2>2, CreationIs
    <2> QED
      BY <2>2, <2>3
  <1>3. PICK t \in Own : Head(plan) = Create(t) /\ CreatedSoFar' \subseteq CreatedSoFar \cup {t}
                         /\ (n = 4 => t = "keys")
    <2>1. CASE n = 4
      BY <1>0, <2>1, CreationIs DEF CreatedSoFar, DataTable, Own
    <2>2. CASE n = 3
      BY <1>0, <2>2, CreationIs DEF CreatedSoFar, DataTable, Own
    <2>3. CASE n = 2
      BY <1>0, <2>3, CreationIs DEF CreatedSoFar, DataTable, Own
    <2>4. CASE n = 1
      BY <1>0, <2>4, CreationIs DEF CreatedSoFar, DataTable, Own
    <2> QED
      BY <2>1, <2>2, <2>3, <2>4
  <1>4. Head(plan).do = "create" /\ Head(plan).what = t
    BY <1>3 DEF Create
  <1>5. own' = own \cup {t} /\ UNCHANGED <<schemas, had, legacy, adopted>> /\ t \notin own
    BY <1>4 DEF Execute, Effect, Conflicts
  <1>6. ~Adopts
    <2> SUFFICES ASSUME Adopts PROVE FALSE
      OBVIOUS
    <2>1. t = "keys" /\ "keys" \in own
      BY <1>0, <1>3 DEF Creating, KeysGoFirst
    <2> QED
      BY <1>5, <2>1
  <1>7. CreatedSoFar' \subseteq own'
    BY <1>3, <1>5 DEF Creating
  <1> QED
    BY <1>2, <1>5, <1>6, <1>7 DEF KeysGoFirst, Creating, Adopts

LEMMA RecordOnCourse == TypeOK /\ OnCourse /\ Record => OnCourse'
  <1> SUFFICES ASSUME TypeOK, OnCourse, Record PROVE OnCourse'
    OBVIOUS
  <1>1. UNCHANGED <<schemas, had, legacy, own, adopted, plan>> /\ migration' = "recorded"
    BY DEF Record
  <1>2. KeysGoFirst'
    BY <1>1 DEF OnCourse, KeysGoFirst, Adopts
  <1>3. Len(plan) = 0 /\ plan = <<>>
    BY DEF Record
  <1>4. CASE Adopting
    <2>1. MovedSoFar = DataTable
      BY <1>3 DEF MovedSoFar, DataTable
    <2> QED
      BY <1>1, <1>2, <1>3, <1>4, <2>1 DEF Adopting, OnCourse, Adopts
  <1>5. CASE Creating
    <2>1. CreatedSoFar = DataTable
      BY <1>3 DEF CreatedSoFar, DataTable
    <2>2. ~Adopts /\ DataTable \subseteq own
      BY <1>3, <1>5, <2>1 DEF Creating
    <2> QED
      BY <1>1, <1>2, <2>2 DEF OnCourse, Adopts
  <1> QED
    BY <1>4, <1>5 DEF OnCourse, Record

LEMMA StepOnCourse == TypeOK /\ NothingLost /\ OnCourse /\ [Next]_vars => OnCourse'
  <1> SUFFICES ASSUME TypeOK, NothingLost, OnCourse, [Next]_vars PROVE OnCourse'
    OBVIOUS
  <1>1. CASE Execute
    <2>1. migration = "running" /\ migration' = "running"
      BY <1>1 DEF Execute
    <2>2. KeysGoFirst' /\ (Adopting' \/ Creating')
      BY <1>1, <2>1, AdoptingGoesOn, CreatingGoesOn DEF OnCourse
    <2> QED
      BY <2>1, <2>2 DEF OnCourse
  <1>2. CASE Raise \/ Crash
    <2>1. UNCHANGED <<schemas, had, legacy, own, adopted>> /\ migration' \in {"raised", "down"}
      BY <1>2 DEF Raise, Crash
    <2> QED
      BY <2>1 DEF OnCourse, KeysGoFirst, Adopts
  <1>3. CASE UNCHANGED vars
    BY <1>3 DEF vars, OnCourse, KeysGoFirst, Adopting, Creating, EndOf, MovedSoFar, CreatedSoFar,
               Adopts
  <1> QED
    BY <1>1, <1>2, <1>3, StartOnCourse, RecordOnCourse DEF Next

LEMMA OnCourseIsReady == TypeOK /\ OnCourse => RecordedMeansReady
  BY DEF TypeOK, OnCourse, KeysGoFirst, Adopts, RecordedMeansReady, Complete, DataTable

(***************************************************************************)
(* A version that LNbits records stands for a schema that is whole: all    *)
(* the legacy tables or all new ones, however many runs were cut short.    *)
(***************************************************************************)
THEOREM Ready == Spec => []RecordedMeansReady
  <1>1. Init => MovedFirst /\ NothingLost /\ OnCourse
    <2> SUFFICES ASSUME Init PROVE MovedFirst /\ NothingLost /\ OnCourse
      OBVIOUS
    <2>1. MovedFirst /\ NothingLost
      BY DEF Init, MovedFirst, NothingLost
    <2>2. KeysGoFirst
      BY DEF Init, KeysGoFirst, Adopts
    <2> QED
      BY <2>1, <2>2 DEF Init, OnCourse
  <1> QED
    BY <1>1, TypesStart, StepTypeOK, StepLosesNothing, StepOnCourse, OnCourseIsReady, PTL DEF Spec

=============================================================================
