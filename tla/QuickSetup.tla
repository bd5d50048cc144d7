----------------------------- MODULE QuickSetup -----------------------------
(***************************************************************************)
(* api_quick_setup of views_api.py, one step for each await: what an       *)
(* extension declares in its config.json (discovery.py) is granted to one  *)
(* key, one create_permission after the other, over the grants read once   *)
(* at the beginning and with no transaction around the loop.               *)
(*                                                                         *)
(* Config is the extensions directory, the same throughout.                *)
(***************************************************************************)
EXTENDS OracleStore, Sequences

CONSTANTS
    Setup,        \* the requests, each made at most once
    Extension,
    Config,       \* what each extension declares: <<>> if it has no readable list
    Malformed     \* an entry that is no SigningRequirement

\* The use is Invalid if its kind is out of range, the limit if it is no positive pair
\* within the retention, and Unlimited if none is recommended.
Requirement == [use : Use \cup {Invalid}, limit : Limit]

ASSUME ConfigAssumption == Config \in [Extension -> Seq(Requirement \cup {Malformed})]

\* discover_signing_requirements: one bad entry drops the whole extension.
Discovered(e) ==
    IF \E i \in DOMAIN Config[e] : Config[e][i] = Malformed THEN <<>> ELSE Config[e]

VARIABLES
    setup,        \* where each request is, or how it ended
    wanted,       \* its arguments
    todo,         \* the places in the list that its loop has yet to grant
    made,         \* the ids of the rows it has stamped
    before        \* history: the requests that had ended when it arrived

quick == <<setup, wanted, todo, made, before>>

\* What the extension of the request declares.
Declared(s) == Discovered(wanted[s].extension)

SetupRequest == [wallet : Wallet, key : Id, extension : Extension, recommended : BOOLEAN]

SetupStage == {"reading", "granting", "inserting"}

SetupEnded == {"done", "not found", "invalid", "failed"}

QuickTypeOK ==
    /\ setup \in [Setup -> {"idle"} \cup SetupStage \cup SetupEnded]
    /\ wanted \in [Setup -> SetupRequest \cup {<<>>}]
    /\ \A s \in Setup : setup[s] # "idle" => wanted[s] \in SetupRequest
    /\ todo \in [Setup -> SUBSET (Nat \ {0})]
    /\ \A s \in Setup : todo[s] # {} => todo[s] \subseteq DOMAIN Declared(s)
    /\ made \in [Setup -> SUBSET Id]
    /\ before \in [Setup -> SUBSET Setup]

QuickInit ==
    /\ setup = [s \in Setup |-> "idle"]
    /\ wanted = [s \in Setup |-> <<>>]
    /\ todo = [s \in Setup |-> {}]
    /\ made = [s \in Setup |-> {}]
    /\ before = [s \in Setup |-> {}]

SetupAdvance(s, stage) == setup' = [setup EXCEPT ![s] = stage]

-----------------------------------------------------------------------------
SetupArrive(s) ==
    /\ setup[s] = "idle"
    /\ \E r \in SetupRequest :
          /\ wanted' = [wanted EXCEPT ![s] = r]
          /\ SetupAdvance(s, IF OwnedKey(keys, r.wallet, r.key) THEN "reading" ELSE "not found")
    /\ before' = [before EXCEPT ![s] = {t \in Setup : setup[t] \in SetupEnded}]
    /\ UNCHANGED <<todo, made, store>>

\* Seeded fault: "if p.key_id == data.key_id" forgotten.
GrantedSet_AnyKey(s) == {p.use : p \in {q \in permissions : q.wallet = wanted[s].wallet}}

\* Seeded fault: the existing grants are not looked at.
GrantedSet_Nothing(s) == {}

\* granted_set: what the key may already be used for.
GrantedSet(s) ==
    {p.use : p \in {q \in permissions : q.wallet = wanted[s].wallet /\ q.key = wanted[s].key}}

\* The loop skips what is in granted_set; it does not add to granted_set what it
\* grants, so an entry that comes twice is granted twice.
SetupRead(s) ==
    /\ setup[s] = "reading"
    /\ IF Declared(s) = <<>>
       THEN SetupAdvance(s, "not found") /\ todo' = todo
       ELSE /\ SetupAdvance(s, "granting")
            /\ todo' = [todo EXCEPT ![s] = {i \in DOMAIN Declared(s) :
                                               Declared(s)[i].use \notin GrantedSet(s)}]
    /\ UNCHANGED <<wanted, made, before, store>>

\* The loop goes through the list in its order.
Place(s) == CHOOSE i \in todo[s] : \A k \in todo[s] : i <= k

Upcoming(s) == Declared(s)[Place(s)]

LimitFor(s, req) == IF wanted[s].recommended THEN req.limit ELSE Unlimited

\* Seeded fault: the row is built without the request model.
Accepted_Unvalidated(s, req) == TRUE

\* CreatePermissionData lets the requirement through.
Accepted(s, req) == req.use \in Use /\ LimitFor(s, req) \in ValidLimit

\* create_permission reads the key and stamps the row; its LookupError is not caught.
SetupStamp(s) ==
    /\ setup[s] = "granting" /\ todo[s] # {}
    /\ Accepted(s, Upcoming(s))
    /\ IF OwnedKey(keys, wanted[s].wallet, wanted[s].key)
       THEN /\ Stamp
            /\ made' = [made EXCEPT ![s] = @ \cup {nextId}]
            /\ SetupAdvance(s, "inserting")
       ELSE /\ UNCHANGED <<nextId, made>>
            /\ SetupAdvance(s, "failed")
    /\ UNCHANGED <<wanted, todo, before, keys, permissions>>

\* The ValidationError of CreatePermissionData leaves the loop where it is.
SetupRefuse(s) ==
    /\ setup[s] = "granting" /\ todo[s] # {}
    /\ ~Accepted(s, Upcoming(s))
    /\ SetupAdvance(s, "invalid")
    /\ UNCHANGED <<wanted, todo, made, before, store>>

LastMade(s) == CHOOSE i \in made[s] : \A k \in made[s] : k <= i

SetupRow(s) == [id |-> LastMade(s), wallet |-> wanted[s].wallet, key |-> wanted[s].key,
                use |-> Upcoming(s).use, limit |-> LimitFor(s, Upcoming(s))]

\* The row is inserted, and the loop goes on unless the answer is lost.
SetupInsert(s) ==
    /\ setup[s] = "inserting"
    /\ permissions' = permissions \cup {SetupRow(s)}
    /\ todo' = [todo EXCEPT ![s] = @ \ {Place(s)}]
    /\ \E next \in {"granting", "failed"} : SetupAdvance(s, next)
    /\ UNCHANGED <<wanted, made, before, keys, nextId>>

SetupDone(s) ==
    /\ setup[s] = "granting" /\ todo[s] = {}
    /\ SetupAdvance(s, "done")
    /\ UNCHANGED <<wanted, todo, made, before, store>>

\* A statement or a thread raises, or the process dies: what is granted stays.
SetupFail(s) ==
    /\ setup[s] \in SetupStage
    /\ SetupAdvance(s, "failed")
    /\ UNCHANGED <<wanted, todo, made, before, store>>

SetupNext(s) ==
    \/ SetupArrive(s) \/ SetupRead(s) \/ SetupStamp(s) \/ SetupRefuse(s)
    \/ SetupInsert(s) \/ SetupDone(s) \/ SetupFail(s)

=============================================================================
