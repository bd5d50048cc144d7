---------------------------- MODULE MCWebClient ----------------------------
(* Instances of WebClient: two wallets with a key each, one permission, and *)
(* a log of two rows of the first wallet, a row to the page.                *)
EXTENDS WebClient

CONSTANTS w1, w2, u1

Wallets == {w1, w2}
Uses == {u1}
Counts == {1}
MCKeys == {[id |-> 1, wallet |-> w1], [id |-> 2, wallet |-> w2]}
MCPermissions == {[id |-> 3, wallet |-> w1, key |-> 1, use |-> u1, limit |-> Unlimited]}
MCLog == {[at |-> 1, key |-> 1], [at |-> 3, key |-> 1]}

\* The user administers and turns a page, or reads a busy log, or some of both.
MCBudget == {[clicks |-> 2, turns |-> 1, rows |-> 0],
             [clicks |-> 0, turns |-> 3, rows |-> 3],
             [clicks |-> 1, turns |-> 1, rows |-> 1]}

=============================================================================
