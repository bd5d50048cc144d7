--------------------------- MODULE LegacyAdoption ---------------------------
(***************************************************************************)
(* m001_initial of migrations.py: on a server with schemas the tables of a *)
(* legacy nsecbunker install are moved into the schema of Nsec Oracle, and *)
(* otherwise the tables are created. The process may die between any two   *)
(* statements and the migration is run again at the next start, until its  *)
(* version is recorded.                                                    *)
(*                                                                         *)
(* Each statement commits by itself: crud.py opens the transaction it      *)
(* needs on the raw connection, which has none open.                       *)
(***************************************************************************)
EXTENDS Integers, Sequences

CONSTANTS MaxCrashes    \* bound on the crashes

ASSUME CrashAssumption == MaxCrashes \in Nat

DataTable == {"keys", "permissions", "signing_log"}

Legacy == DataTable \cup {"connections"}

Own == DataTable \cup {"idx_permissions_wallet_ext"}

VARIABLES
    schemas,      \* db.type is POSTGRES or COCKROACH
    had,          \* history: the legacy tables there were at first
    legacy,       \* the tables in schema nsecbunker
    own,          \* what is in schema nsec_oracle ...
    adopted,      \* ... and which of it came from nsecbunker, with its rows
    migration,    \* "down", "running", "raised", or "recorded" by LNbits
    plan,         \* the statements yet to be executed
    crashes

vars == <<schemas, had, legacy, own, adopted, migration, plan, crashes>>

Statement == [do : {"create"}, what : Own] \cup [do : {"move"}, what : DataTable] \cup
             [do : {"drop"}, what : Legacy \ DataTable] \cup
             [do : {"drop schema"}, what : {"nsecbunker"}]

TypeOK ==
    /\ schemas \in BOOLEAN /\ had \subseteq Legacy /\ legacy \subseteq had
    /\ adopted \subseteq had \cap own /\ own \subseteq Own
    /\ migration \in {"down", "running", "raised", "recorded"}
    /\ plan \in Seq(Statement)
    /\ crashes \in 0..MaxCrashes

\* A fresh install, a legacy one, or one that never had all of its tables.
Init ==
    /\ schemas \in BOOLEAN
    /\ had \in SUBSET Legacy /\ legacy = had
    /\ own = {} /\ adopted = {}
    /\ migration = "down" /\ plan = <<>> /\ crashes = 0

Create(what) == [do |-> "create", what |-> what]
Move(what) == [do |-> "move", what |-> what]
Drop(what) == [do |-> "drop", what |-> what]
DropSchema == [do |-> "drop schema", what |-> "nsecbunker"]

\* Seeded fault: the table of NIP-46 connections is created too.
Creation_WithConnections == <<Create("keys"), Create("permissions"), Create("connections")>>

Creation == <<Create("keys"), Create("permissions"), Create("idx_permissions_wallet_ext"),
              Create("signing_log")>>

\* Seeded faults: the log is not moved; the adoption does not return.
Adoption_KeepsLog == <<Move("keys"), Move("permissions"), Drop("connections"), DropSchema>>
Adoption_NoReturn == <<Move("keys"), Move("permissions"), Move("signing_log"),
                       Drop("connections"), DropSchema>> \o Creation

\* _adopt_legacy_nsecbunker.
Adoption == <<Move("keys"), Move("permissions"), Move("signing_log"),
              Drop("connections"), DropSchema>>

\* Seeded fault: another table is looked for.
LegacyPresent_Connections == "connections" \in legacy

\* _legacy_nsecbunker_present.
LegacyPresent == "keys" \in legacy

-----------------------------------------------------------------------------
\* LNbits runs a migration whose version is not recorded.
Start ==
    /\ migration \in {"down", "raised"}
    /\ migration' = "running"
    /\ plan' = IF schemas /\ LegacyPresent THEN Adoption ELSE Creation
    /\ UNCHANGED <<schemas, had, legacy, own, adopted, crashes>>

\* There is already something of that name.
Conflicts(s) ==
    \/ s.do = "create" /\ s.what \in own
    \/ s.do = "move" /\ s.what \in legacy \cap own

\* What a statement does; IF EXISTS makes it do nothing where its table is not there.
Effect(s) ==
    \/ /\ s.do = "create"
       /\ own' = own \cup {s.what}
       /\ UNCHANGED <<legacy, adopted>>
    \/ /\ s.do = "move"
       /\ own' = own \cup (legacy \cap {s.what})
       /\ adopted' = adopted \cup (legacy \cap {s.what})
       /\ legacy' = legacy \ {s.what}
    \/ /\ s.do = "drop"
       /\ legacy' = legacy \ {s.what}
       /\ UNCHANGED <<own, adopted>>
    \/ /\ s.do = "drop schema"
       /\ legacy' = {}
       /\ UNCHANGED <<own, adopted>>

Execute ==
    /\ migration = "running" /\ plan # <<>>
    /\ ~Conflicts(Head(plan)) /\ Effect(Head(plan))
    /\ plan' = Tail(plan)
    /\ UNCHANGED <<schemas, had, migration, crashes>>

\* "relation already exists".
Raise ==
    /\ migration = "running" /\ plan # <<>>
    /\ Conflicts(Head(plan))
    /\ migration' = "raised"
    /\ UNCHANGED <<schemas, had, legacy, own, adopted, plan, crashes>>

\* The process dies, or a statement meets an error of the server.
Crash ==
    /\ migration = "running" /\ crashes < MaxCrashes
    /\ migration' = "down"
    /\ crashes' = crashes + 1
    /\ UNCHANGED <<schemas, had, legacy, own, adopted, plan>>

Record ==
    /\ migration = "running" /\ plan = <<>>
    /\ migration' = "recorded"
    /\ UNCHANGED <<schemas, had, legacy, own, adopted, plan, crashes>>

Next == Start \/ Execute \/ Raise \/ Crash \/ Record

Spec == Init /\ [][Next]_vars

\* LNbits starts again, and a statement that was sent is answered.
FairSpec == Spec /\ WF_vars(Start) /\ WF_vars(Execute) /\ WF_vars(Raise) /\ WF_vars(Record)

-----------------------------------------------------------------------------
\* A legacy install with all the tables that hold data.
Complete == DataTable \subseteq had

(***************************************************************************)
(* DROP SCHEMA ... CASCADE takes no table with data: whatever crashes and  *)
(* restarts, each legacy table is in one schema, with its rows.            *)
(***************************************************************************)
NothingLost ==
    \A t \in had \cap DataTable : t \in adopted <=> t \notin legacy

(***************************************************************************)
(* Once the version is recorded the extension has its three tables, and    *)
(* they are the legacy ones, whole, where they are to be adopted: never    *)
(* keys of the legacy install with new, empty permissions.                 *)
(***************************************************************************)
RecordedMeansReady ==
    migration = "recorded" =>
        /\ Complete \/ "keys" \notin had => DataTable \subseteq own
        /\ schemas /\ Complete => adopted = DataTable /\ legacy = {}
        /\ adopted \in {{}, had \cap DataTable}

(***************************************************************************)
(* A migration that no crash interrupts is recorded at its first run.      *)
(***************************************************************************)
UninterruptedCompletes == [](crashes = 0) => <>(migration = "recorded")

(***************************************************************************)
(* m001_initial: "so stored keys and grants carry over untouched". They    *)
(* are adopted in the end, crashes or not.                                 *)
(***************************************************************************)
KeysAndGrantsCarryOver ==
    schemas /\ Complete => <>({"keys", "permissions"} \subseteq adopted)

=============================================================================
