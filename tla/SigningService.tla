--------------------------- MODULE SigningService ---------------------------
(***************************************************************************)
(* services.py: sign_event and the calls that use a key without signing    *)
(* (the four NIP-04/NIP-44 functions and the export of a key), one step    *)
(* for each await. What a call has read stays in its local variables while *)
(* the tables change under it.                                             *)
(*                                                                         *)
(* The reservation is one step: RateLimitedLog_proofs shows that the       *)
(* transaction of create_rate_limited_signing_log behaves so.              *)
(***************************************************************************)
EXTENDS OracleStore

CONSTANTS Call    \* the requests, each made at most once

VARIABLES
    signing_log,  \* nsec_oracle.signing_log
    call,         \* where each request is, or how it was answered
    asked,        \* its arguments
    seen,         \* the permissions it has read
    chosen        \* the permission row it goes by: a set of at most one row

service == <<signing_log, call, asked, seen, chosen>>

CallRequest == [wallet : Wallet, use : Use, key : Id \cup {AnyKey}]

LogRow == [call : Call, key : Id, use : Use, limit : Limit]

UnderWay == {"resolving", "decrypting", "signing", "using"}

Answered == {"signed", "used", "no key", "denied", "misconfigured", "refused", "failed"}

ServiceTypeOK ==
    /\ signing_log \subseteq LogRow
    /\ call \in [Call -> {"idle"} \cup UnderWay \cup Answered]
    /\ asked \in [Call -> CallRequest \cup {<<>>}]
    /\ \A c \in Call : call[c] # "idle" => asked[c] \in CallRequest
    /\ seen \in [Call -> SUBSET PermissionRow]
    /\ chosen \in [Call -> SUBSET PermissionRow]

ServiceInit ==
    /\ signing_log = {}
    /\ call = [c \in Call |-> "idle"]
    /\ asked = [c \in Call |-> <<>>]
    /\ seen = [c \in Call |-> {}]
    /\ chosen = [c \in Call |-> {}]

Permission(c) == CHOOSE p \in chosen[c] : TRUE

Limited(c) == Permission(c).limit # Unlimited

-----------------------------------------------------------------------------
\* sign_event arrives and reads the wallet's permissions.
SignRead(c) ==
    /\ call[c] = "idle"
    /\ \E r \in CallRequest :
          /\ asked' = [asked EXCEPT ![c] = r]
          /\ seen' = [seen EXCEPT ![c] = {p \in permissions : p.wallet = r.wallet}]
    /\ call' = [call EXCEPT ![c] = "resolving"]
    /\ UNCHANGED <<signing_log, chosen, store>>

\* Seeded fault: the key_id of the request is dropped.
ResolvedTo_ForgetsKey(c) == Resolution(keys, seen[c], [asked[c] EXCEPT !.key = AnyKey])

\* Seeded fault: the newest permission of any key, where the code goes by the newest key.
ResolvedTo_NewestPermission(c) ==
    LET matching == Matching(keys, seen[c], asked[c])
    IN  IF matching = {} THEN Resolution(keys, seen[c], asked[c])
        ELSE [answer |-> "found", permission |-> {Newest(matching)}]

ResolvedTo(c) == Resolution(keys, seen[c], asked[c])

\* It reads its key, or the wallet's keys, and settles on a key and a permission;
\* a limit that is not a positive pair is an error.
SignResolve(c) ==
    /\ call[c] = "resolving"
    /\ LET r == ResolvedTo(c)
           invalid == \E p \in r.permission : p.limit = Invalid
       IN  /\ chosen' = [chosen EXCEPT ![c] = r.permission]
           /\ call' = [call EXCEPT ![c] = CASE r.answer # "found" -> r.answer
                                            [] r.answer = "found" /\ invalid -> "misconfigured"
                                            [] r.answer = "found" /\ ~invalid -> "decrypting"]
    /\ UNCHANGED <<signing_log, asked, seen, store>>

\* get_decrypted_private_key reads the key once more; the event is signed in memory.
SignDecrypt(c) ==
    /\ call[c] = "decrypting"
    /\ call' = [call EXCEPT ![c] = IF KeyExists(Permission(c).key) THEN "signing" ELSE "no key"]
    /\ UNCHANGED <<signing_log, asked, seen, chosen, store>>

RowOf(c) == [call |-> c, key |-> Permission(c).key, use |-> asked[c].use,
             limit |-> Permission(c).limit]

Recent(c) == {e \in signing_log : e.key = Permission(c).key /\ e.use = asked[c].use}

\* The signing is recorded and the event returned, unless the answer of the
\* database is lost.
LogAndReturn(c) ==
    /\ signing_log' = signing_log \cup {RowOf(c)}
    /\ \E answer \in {"signed", "failed"} : call' = [call EXCEPT ![c] = answer]
    /\ UNCHANGED <<asked, seen, chosen, store>>

\* Seeded fault: the row count of the no-op UPDATE goes unchecked.
StillPermitted_Unchecked(c) == TRUE

StillPermitted(c) == PermissionExists(Permission(c).id)

SignReserve(c) ==
    /\ call[c] = "signing" /\ Limited(c)
    /\ StillPermitted(c)
    /\ Cardinality(Recent(c)) < Permission(c).limit
    /\ LogAndReturn(c)

\* create_rate_limited_signing_log returns None: "Rate limit exceeded".
SignRefuse(c) ==
    /\ call[c] = "signing" /\ Limited(c)
    /\ StillPermitted(c) => Cardinality(Recent(c)) >= Permission(c).limit
    /\ call' = [call EXCEPT ![c] = "refused"]
    /\ UNCHANGED <<signing_log, asked, seen, chosen, store>>

SignUnlimited(c) ==
    /\ call[c] = "signing" /\ ~Limited(c)
    /\ LogAndReturn(c)

-----------------------------------------------------------------------------
\* _get_owned_key, or _require_owned_key for an export.
UseKeyRead(c) ==
    /\ call[c] = "idle"
    /\ \E r \in CallRequest :
          /\ r.key # AnyKey
          /\ asked' = [asked EXCEPT ![c] = r]
          /\ call' = [call EXCEPT ![c] = IF OwnedKey(keys, r.wallet, r.key) THEN "using" ELSE "no key"]
    /\ UNCHANGED <<signing_log, seen, chosen, store>>

\* The key is decrypted and used: no permission is read and nothing is logged.
UseKeyDecrypt(c) ==
    /\ call[c] = "using"
    /\ call' = [call EXCEPT ![c] = IF KeyExists(asked[c].key) THEN "used" ELSE "no key"]
    /\ UNCHANGED <<signing_log, asked, seen, chosen, store>>

\* A statement or a library raises, or the process dies: nothing more is done.
CallFail(c) ==
    /\ call[c] \in UnderWay
    /\ call' = [call EXCEPT ![c] = "failed"]
    /\ UNCHANGED <<signing_log, asked, seen, chosen, store>>

CallStep(c) ==
    \/ SignResolve(c) \/ SignDecrypt(c) \/ SignReserve(c) \/ SignRefuse(c)
    \/ SignUnlimited(c) \/ UseKeyDecrypt(c) \/ CallFail(c)

CallNext(c) == SignRead(c) \/ UseKeyRead(c) \/ CallStep(c)

=============================================================================
