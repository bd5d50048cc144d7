----------------------------- MODULE WebClient -----------------------------
(***************************************************************************)
(* The page of static/js/index.js and the routes it calls: an answer may   *)
(* come after the selection has changed or after the answer to a later     *)
(* request, and may not come at all. Meanwhile events are signed and the   *)
(* log is pruned.                                                          *)
(*                                                                         *)
(* A handler takes a step for each table that it reads, or each statement  *)
(* that writes, with its checks (AdminApi and QuickSetup put the checks    *)
(* apart). The one extension there is declares one use, so that a quick    *)
(* setup writes once. Labels are left out, and with them updateKey;        *)
(* importKey does what generateKey does, to the keys and to the page.      *)
(***************************************************************************)
EXTENDS OracleStore, Bags

CONSTANTS
    FirstWallet,       \* the wallet selected when the page is created
    Required,          \* what the one extension there is declares
    InitialKeys, InitialPermissions, FirstId, InitialLog,
    RowsPerPage,
    MaxAt,             \* bound on the stamps of log rows
    Budget,            \* bounds on what happens: clicks on the log ("turns"), other
                       \* clicks ("clicks"), rows signed and prunes ("rows")
    MaxPending         \* bound on the requests under way when a click or an answer makes more

\* What OracleStore's requests leave behind: ids are not used twice, and a permission
\* is of a key of its wallet, if the key is still there.
ASSUME StartAssumption ==
    /\ \A j, k \in InitialKeys : j.id = k.id => j = k
    /\ \A p \in InitialPermissions :
          p.key < FirstId /\ \A k \in InitialKeys : k.id = p.key => k.wallet = p.wallet

ASSUME ClientAssumption ==
    /\ FirstWallet \in Wallet /\ Required \in Use
    /\ InitialKeys \subseteq KeyRow /\ InitialPermissions \subseteq PermissionRow
    /\ FirstId \in 1..(MaxId + 1)
    /\ \A r \in InitialKeys \cup InitialPermissions : r.id < FirstId
    /\ \A p, q \in InitialPermissions : p.id = q.id => p = q
    /\ RowsPerPage \in Nat \ {0} /\ MaxAt \in Nat \ {0}
    /\ Budget \subseteq [clicks : Nat, turns : Nat, rows : Nat] /\ MaxPending \in Nat

LogRow == [at : 1..MaxAt, key : Id]

\* The log orders its rows by their stamps, and a row is of a key that was made before.
ASSUME LogAssumption ==
    /\ InitialLog \subseteq LogRow
    /\ \A x, y \in InitialLog : x.at = y.at => x = y
    /\ \A x \in InitialLog : x.key < FirstId

List == {"keys", "permissions", "discovered", "log"}

Change == {"create key", "delete key", "create permission", "update permission",
           "delete permission", "quick setup"}

VARIABLES
    log, cutoff,  \* signing_log, and the cutoff of the last prune
    selected,     \* selectedWallet
    shown,        \* keys, permissions, logs, and what discoveredExtensions says is granted
    page, total,  \* logPagination.page and .rowsNumber
    formKey,      \* permForm.key_id, or {}
    pending,      \* the requests under way, a bag
    left,         \* what is left of the budget
    latest,       \* history: the lists that show the answer to the last request for them
    missed,       \* history: the lists a change may have passed by since they were asked for
    deletions,    \* history: how many keys have been deleted
    walk          \* history: the pages of the selected wallet's log seen one after the
                  \* other from page 1 on

client == <<selected, shown, page, total, formKey, pending>>

logs == <<log, cutoff>>

vars == <<store, logs, client, left, latest, missed, deletions, walk>>

history == <<latest, missed, deletions, walk>>

-----------------------------------------------------------------------------
(* What the routes answer.                                                 *)

KeysOf(w) == {r \in keys : r.wallet = w}

PermissionsOf(w) == {r \in permissions : r.wallet = w}

\* get_signing_logs joins the log with the keys of the wallet ...
Listed(w) == {r \in log : OwnedKey(keys, w, r.key)}

Newer(r, rows) == Cardinality({s \in rows : s.at > r.at})

\* Seeded fault: no LIMIT.
PageOf_NoLimit(w, n) == {r \in Listed(w) : Newer(r, Listed(w)) >= (n - 1) * RowsPerPage}

\* ... newest first, LIMIT and OFFSET.
PageOf(w, n) ==
    {r \in Listed(w) : /\ Newer(r, Listed(w)) >= (n - 1) * RowsPerPage
                       /\ Newer(r, Listed(w)) < n * RowsPerPage}

\* granted_set of api_discover, for the permissions it has read.
GrantedToDefault(rows, w) ==
    {Required} \cap {p.use : p \in {q \in rows : KeysOf(w) # {} /\ q.key = Newest(KeysOf(w)).id}}

-----------------------------------------------------------------------------
(* Requests. What a reading one has got is in "rows" and "total"; "had"    *)
(* and "deletions" are what was listed, and deleted, when it read its page. *)

Request(op, w, about) ==
    [op |-> op, wallet |-> w, about |-> about, stage |-> "sent", last |-> op \in List,
     rows |-> {}, total |-> 0, had |-> {}, deletions |-> 0]

\* The requests there can be.
Requests ==
    [op : List \cup Change, wallet : Wallet, about : Nat, stage : {"sent", "half", "answered"},
     last : BOOLEAN, rows : SUBSET (KeyRow \cup PermissionRow \cup Use \cup LogRow),
     total : Nat, had : SUBSET LogRow, deletions : Nat]

\* The last request for a list.
LastFor(l) == {r \in BagToSet(pending) : r.op = l /\ r.last}

\* The requests for some lists, the log from its page n on.
Reads(lists, w, n) == {Request(l, w, IF l = "log" THEN n ELSE 0) : l \in lists}

\* New requests in place of those in over: the earlier requests for the same
\* lists are outdated.
SendAfter(over, new) ==
    LET asked == {r.op : r \in new}
        rest == pending (-) SetToBag(over)
        outdated == {r \in BagToSet(rest) : r.last /\ r.op \in asked}
        kept == rest (-) SetToBag(outdated)
    IN  /\ BagCardinality(rest) + Cardinality(new) <= MaxPending
        /\ pending' = (kept (+) SetToBag({[r EXCEPT !.last = FALSE] : r \in outdated}))
                         (+) SetToBag(new)
        /\ latest' = latest \ asked
        /\ missed' = missed \ asked

Send(new) == SendAfter({}, new)

TypeOK ==
    /\ StoreTypeOK
    /\ log \subseteq LogRow /\ cutoff \in 1..MaxAt
    /\ selected \in Wallet
    /\ shown.keys \subseteq KeyRow /\ shown.permissions \subseteq PermissionRow
    /\ shown.discovered \subseteq Use
    /\ shown.log \subseteq LogRow /\ Cardinality(shown.log) <= RowsPerPage
    /\ page \in Nat \ {0} /\ total \in Nat
    /\ formKey \subseteq Id /\ Cardinality(formKey) <= 1
    /\ IsABag(pending) /\ BagToSet(pending) \subseteq Requests
    /\ \A l \in List : Cardinality(LastFor(l)) <= 1
    /\ latest \cup missed \subseteq List

NoWalk == [upTo |-> 0, seen |-> {}, had |-> {}, deletions |-> 0]

\* created() selects the first wallet, and the watcher of selectedWallet asks for the
\* lists; all but the log have come (Select asks for the same lists again).
Init ==
    /\ keys = InitialKeys /\ permissions = InitialPermissions /\ nextId = FirstId
    /\ log = InitialLog /\ cutoff = 1
    /\ selected = FirstWallet
    /\ shown = [keys |-> KeysOf(FirstWallet), permissions |-> PermissionsOf(FirstWallet),
                discovered |-> GrantedToDefault(PermissionsOf(FirstWallet), FirstWallet), log |-> {}]
    /\ page = 1 /\ total = 0 /\ formKey = {}
    /\ pending = SetToBag(Reads({"log"}, FirstWallet, 1))
    /\ left \in Budget
    /\ latest = List \ {"log"} /\ missed = {} /\ deletions = 0 /\ walk = NoWalk

-----------------------------------------------------------------------------
Spend(what) == left[what] > 0 /\ left' = [left EXCEPT ![what] = @ - 1]

Select(w) ==
    /\ Spend("clicks")
    /\ w # selected /\ selected' = w
    /\ Send(Reads(List, w, page))
    /\ walk' = NoWalk
    /\ UNCHANGED <<store, logs, shown, page, total, formKey, deletions>>

\* Refresh, or a page of the table.
TurnTo(n) ==
    /\ Spend("turns")
    /\ n = page \/ n \in 1..((total + RowsPerPage - 1) \div RowsPerPage)
    /\ Send(Reads({"log"}, selected, n))
    /\ UNCHANGED <<store, logs, selected, shown, page, total, formKey, deletions, walk>>

\* The dialog for a permission keeps the key chosen in it, also when it is closed.
ChooseKey ==
    /\ \E r \in shown.keys : formKey' = {r.id}
    /\ UNCHANGED <<store, logs, selected, shown, page, total, pending, left, history>>

\* A change goes with the wallet selected now and an id the page shows. Delete asks
\* for confirmation; a dialog that waits is a request that waits.
Ask(op, about) ==
    /\ Spend("clicks")
    /\ Send({Request(op, selected, about)})
    /\ UNCHANGED <<store, logs, selected, shown, page, total, formKey, deletions, walk>>

AskForChange ==
    \/ Ask("create key", 0)
    \/ \E r \in shown.keys : Ask("delete key", r.id)
    \/ \E k \in formKey : shown.keys # {} /\ Ask("create permission", k)
    \/ \E r \in shown.permissions, op \in {"update permission", "delete permission"} : Ask(op, r.id)
    \/ shown.keys # {} /\ Required \notin shown.discovered /\ Ask("quick setup", Newest(shown.keys).id)

-----------------------------------------------------------------------------
(* The server.                                                             *)

Become(r, s) == pending' = (pending (-) SetToBag({r})) (+) SetToBag({s})

GetPage(r) ==
    [r EXCEPT !.rows = PageOf(r.wallet, r.about), !.had = Listed(r.wallet), !.deletions = deletions]

GetTotal(r) == [r EXCEPT !.total = Cardinality(Listed(r.wallet))]

\* Seeded fault: the total is counted before the page is read.
LogStep_TotalFirst(r) == IF r.stage = "sent" THEN GetTotal(r) ELSE GetPage(r)

\* api_get_logs: the page, then the total.
LogStep(r) == IF r.stage = "sent" THEN GetPage(r) ELSE GetTotal(r)

\* api_discover: the permissions, then the keys.
DiscoverStep(r) ==
    [r EXCEPT !.rows = IF r.stage = "sent" THEN PermissionsOf(r.wallet) ELSE GrantedToDefault(@, r.wallet)]

ServeRead(r) ==
    /\ r.op \in List /\ r.stage # "answered"
    /\ LET next == CASE r.op = "keys" -> [r EXCEPT !.rows = KeysOf(r.wallet)]
                     [] r.op = "permissions" -> [r EXCEPT !.rows = PermissionsOf(r.wallet)]
                     [] r.op = "discovered" -> DiscoverStep(r)
                     [] r.op = "log" -> LogStep(r)
           more == r.op \in {"discovered", "log"} /\ r.stage = "sent"
       IN  Become(r, [next EXCEPT !.stage = IF more THEN "half" ELSE "answered"])
    /\ UNCHANGED <<store, logs, selected, shown, page, total, formKey, left, history>>

\* Seeded fault: the wallet of the row is not looked at.
Owned_AnyWallet(r) ==
    CASE r.op = "create key" -> TRUE
      [] r.op \in {"delete key", "create permission", "quick setup"} -> KeyExists(r.about)
      [] r.op \in {"update permission", "delete permission"} -> PermissionExists(r.about)

\* The ownership check of the handler.
Owned(r) ==
    CASE r.op = "create key" -> TRUE
      [] r.op \in {"delete key", "create permission", "quick setup"} -> OwnedKey(keys, r.wallet, r.about)
      [] r.op \in {"update permission", "delete permission"} ->
            \E p \in permissions : p.id = r.about /\ p.wallet = r.wallet

Granted(r, u, l) == [id |-> nextId, wallet |-> r.wallet, key |-> r.about, use |-> u, limit |-> l]

GrantOne(r, uses) ==
    /\ Stamp
    /\ \E u \in uses, l \in ValidLimit : permissions' = permissions \cup {Granted(r, u, l)}

Perform(r) ==
    \/ /\ r.op = "create key" /\ Stamp
       /\ keys' = keys \cup {[id |-> nextId, wallet |-> r.wallet]}
       /\ UNCHANGED permissions
    \/ /\ r.op = "delete key" /\ r.stage = "sent"
       /\ permissions' = {p \in permissions : p.key # r.about}
       /\ UNCHANGED <<keys, nextId>>
    \/ /\ r.op = "delete key" /\ r.stage = "half"
       /\ keys' = {k \in keys : k.id # r.about}
       /\ UNCHANGED <<permissions, nextId>>
    \/ /\ r.op = "create permission"
       /\ GrantOne(r, Use)
       /\ UNCHANGED keys
    \/ /\ r.op = "quick setup"
       /\ IF \E p \in PermissionsOf(r.wallet) : p.key = r.about /\ p.use = Required
          THEN UNCHANGED <<permissions, nextId>>
          ELSE GrantOne(r, {Required})
       /\ UNCHANGED keys
    \/ /\ r.op = "update permission"
       /\ \E p \in permissions, l \in ValidLimit :
             p.id = r.about /\ permissions' = (permissions \ {p}) \cup {[p EXCEPT !.limit = l]}
       /\ UNCHANGED <<keys, nextId>>
    \/ /\ r.op = "delete permission"
       /\ permissions' = {p \in permissions : p.id # r.about}
       /\ UNCHANGED <<keys, nextId>>

\* The permissions of a key go first, then the key.
Further(r) ==
    [r EXCEPT !.stage = IF r.op = "delete key" /\ r.stage = "sent" THEN "half" ELSE "answered"]

ServeChange(r) ==
    /\ r.op \in Change
    /\ \/ r.stage = "sent" /\ Owned(r)
       \/ r.stage = "half" /\ r.op = "delete key"
    /\ Perform(r)
    /\ Become(r, Further(r))
    /\ deletions' = IF r.stage = "half" THEN deletions + 1 ELSE deletions
    /\ missed' = IF r.op \in {"create key", "delete key"} THEN missed \cup {"discovered"} ELSE missed
    /\ UNCHANGED <<logs, selected, shown, page, total, formKey, left, latest, walk>>

\* A row is stamped before it is inserted, so it may come late, but never by a month.
SignEvent ==
    /\ Spend("rows")
    /\ \E k \in keys, at \in cutoff..MaxAt :
          (\A r \in log : r.at # at) /\ log' = log \cup {[at |-> at, key |-> k.id]}
    /\ UNCHANGED <<store, cutoff, client, history>>

Prune ==
    /\ Spend("rows")
    /\ cutoff' \in (cutoff + 1)..MaxAt
    /\ log' = {r \in log : r.at >= cutoff'}
    /\ UNCHANGED <<store, client, history>>

-----------------------------------------------------------------------------
(* Answers.                                                                *)

\* A refusal or an error is notified, and the page stays as it is. If the change was
\* made all the same, or half of it (the permissions of a key, but not the key), no
\* list shows it.
Fail(r) ==
    /\ pending' = pending (-) SetToBag({r})
    /\ missed' = IF r.op \in Change /\ r.stage # "sent" THEN List ELSE missed
    /\ UNCHANGED <<store, logs, selected, shown, page, total, formKey, left, latest, deletions, walk>>

\* The pages of a walk are asked for one after the other, from the first on.
Walk(r) ==
    CASE r.last /\ r.about = 1 ->
            [upTo |-> 1, seen |-> r.rows, had |-> r.had, deletions |-> r.deletions]
      [] r.last /\ r.about > 1 /\ r.about = walk.upTo + 1 ->
            [walk EXCEPT !.upTo = r.about, !.seen = @ \cup r.rows]
      [] OTHER -> NoWalk

\* The answer to whatever request comes last is what the page shows.
Show(r) ==
    /\ r.op \in List /\ r.stage = "answered"
    /\ pending' = pending (-) SetToBag({r})
    /\ shown' = [shown EXCEPT ![r.op] = r.rows]
    /\ latest' = IF r.last THEN latest \cup {r.op} ELSE latest \ {r.op}
    /\ IF r.op = "log"
       THEN page' = r.about /\ total' = r.total /\ walk' = Walk(r)
       ELSE UNCHANGED <<page, total, walk>>
    /\ UNCHANGED <<store, logs, selected, formKey, left, missed, deletions>>

\* Seeded fault: the permissions are not asked for after a key is deleted.
Refresh_KeysOnly(op) ==
    IF op \in {"create key", "delete key"} THEN {"keys"} ELSE {"permissions", "discovered"}

\* The lists a callback asks for, with the wallet selected by then.
Refresh(op) ==
    CASE op = "create key" -> {"keys"}
      [] op = "delete key" -> {"keys", "permissions"}
      [] op = "update permission" -> {"permissions"}
      [] op \in {"create permission", "delete permission", "quick setup"} -> {"permissions", "discovered"}

Changed(r) ==
    /\ r.op \in Change /\ r.stage = "answered"
    /\ SendAfter({r}, Reads(Refresh(r.op), selected, 1))
    /\ formKey' = IF r.op = "create permission" THEN {} ELSE formKey
    /\ UNCHANGED <<store, logs, selected, shown, page, total, left, deletions, walk>>

Next ==
    \/ \E w \in Wallet : Select(w)
    \/ \E n \in 1..MaxAt : TurnTo(n)
    \/ ChooseKey \/ AskForChange
    \/ \E r \in BagToSet(pending) :
          ServeRead(r) \/ ServeChange(r) \/ Fail(r) \/ Show(r) \/ Changed(r)
    \/ SignEvent \/ Prune

Spec == Init /\ [][Next]_vars

-----------------------------------------------------------------------------
Listing(l, w) ==
    CASE l = "keys" -> KeysOf(w)
      [] l = "permissions" -> PermissionsOf(w)
      [] l = "discovered" -> GrantedToDefault(PermissionsOf(w), w)

Settled(l) ==
    /\ l \in latest \ missed
    /\ \A r \in BagToSet(pending) : r.op \in Change => r.stage = "sent"

(***************************************************************************)
(* Answers overtake each other and the selection changes under them, and   *)
(* yet a list is right, and that of the selected wallet, once the answer   *)
(* to the last request for it is the one shown: every change that is       *)
(* answered asks again for the lists it touches. What discovery says is    *)
(* granted is right if no key has come or gone since it was asked for.     *)
(***************************************************************************)
PageIsRight ==
    \A l \in {"keys", "permissions", "discovered"} : Settled(l) => shown[l] = Listing(l, selected)

(***************************************************************************)
(* While the lists of another wallet are shown, because theirs are late or *)
(* an older answer has overtaken them, a click is on a row of that wallet  *)
(* and goes out with the wallet selected now. Whatever the page shows, a   *)
(* request that is served touches rows of the wallet it was sent with and  *)
(* no others, and grants nothing on a key of another.                      *)
(***************************************************************************)
ChangesStayInWallet ==
    [][/\ \A x \in (keys \ keys') \cup (permissions \ permissions') \cup (permissions' \ permissions) :
             \E r \in BagToSet(pending) :
                 r.op \in Change /\ r.wallet = x.wallet /\ (BagIn(r, pending') => pending'[r] < pending[r])
       /\ \A p \in permissions' \ permissions, k \in keys' : k.id = p.key => k.wallet = p.wallet]_vars

(***************************************************************************)
(* Who walks through the log of a wallet to its last page has seen every   *)
(* row that was listed at the start and is still, though rows come and are *)
(* pruned meanwhile and the total is read apart from the page; only the    *)
(* deletion of a key makes the pages skip.                                 *)
(***************************************************************************)
WalkSkipsNothing ==
    walk.upTo * RowsPerPage >= total /\ walk.upTo > 0 /\ walk.deletions = deletions =>
        walk.had \cap Listed(selected) \subseteq walk.seen

=============================================================================
