---------------------------- MODULE MCNsecOracle ----------------------------
(* Instances of NsecOracle: two wallets, the first with two keys and their *)
(* permissions, the second with one key; a third key of the first wallet   *)
(* where it matters that another key may come to be permitted.             *)
EXTENDS NsecOracle, TLC

CONSTANTS c1, j1, j2, q1, q2, w1, w2, u1, u2, e1, e2, e3

Key(i, w) == [id |-> i, wallet |-> w]
Grant(i, w, k, u, l) == [id |-> i, wallet |-> w, key |-> k, use |-> u, limit |-> l]

JobSymmetry == Permutations({j1, j2})
SetupSymmetry == Permutations({q1, q2})

None == {}
OneCall == {c1}
TwoJobs == {j1, j2}
OneJob == {j1}
TwoSetups == {q1, q2}
TwoWallets == {w1, w2}
OneWallet == {w1}
OneUse == {u1}
TwoUses == {u1, u2}
OneCount == {1}

MCKeys == {Key(1, w1), Key(2, w1), Key(3, w2)}

\* The newest key of w1 has a limited permission, the older one an unlimited one.
MCPermissions == {Grant(4, w1, 1, u1, Unlimited), Grant(5, w1, 2, u1, 1),
                  Grant(6, w2, 3, u1, Invalid)}

\* The same with a key between the two that has no permission yet.
ThreeKeys == {Key(1, w1), Key(2, w1), Key(3, w1), Key(4, w2)}
ThreePermissions == {Grant(5, w1, 1, u1, Unlimited), Grant(6, w1, 3, u1, 1),
                     Grant(7, w2, 4, u1, Invalid)}

SmallKeys == {Key(1, w1), Key(2, w1)}
SmallPermissions == {Grant(3, w1, 1, u1, Unlimited), Grant(4, w1, 2, u1, 1)}

\* What the extensions declare: two uses, one of them with a limit; a use, one that the
\* validator refuses, and another; a list with an entry that cannot be parsed.
Entry(u, l) == [use |-> u, limit |-> l]
MCConfig ==
    e1 :> <<Entry(u1, 1), Entry(u2, Unlimited)>> @@
    e2 :> <<Entry(u1, Unlimited), Entry(Invalid, Unlimited), Entry(u2, Unlimited)>> @@
    e3 :> <<Entry(u2, Unlimited), Malformed>>
NoConfig == <<>>
Extensions == {e1, e2, e3}

KeyDeletion == {"delete key", "create permission"}
Removals == {"delete key", "delete permission"}

=============================================================================
