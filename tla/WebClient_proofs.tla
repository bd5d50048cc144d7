-------------------------- MODULE WebClient_proofs --------------------------
(***************************************************************************)
(* The page: its types, the lists it shows, whose rows a click changes,    *)
(* and the walks through the log, for any number of wallets and requests.  *)
(***************************************************************************)
EXTENDS WebClient, Integers, FiniteSetTheorems, WellFoundedInduction, TLAPS

(***************************************************************************)
(* One copy of each element of a set put into a bag, and one taken out.    *)
(***************************************************************************)
LEMMA PutIs ==
    ASSUME NEW b, IsABag(b), NEW S
    PROVE  /\ IsABag(b (+) SetToBag(S))
           /\ BagToSet(b (+) SetToBag(S)) = BagToSet(b) \cup S
           /\ \A e \in BagToSet(b) \ S : (b (+) SetToBag(S))[e] = b[e]
           /\ \A e \in S \ BagToSet(b) : (b (+) SetToBag(S))[e] = 1
  BY DEF IsABag, BagToSet, SetToBag, (+)

LEMMA TakeIs ==
    ASSUME NEW b, IsABag(b), NEW S
    PROVE  /\ IsABag(b (-) SetToBag(S))
           /\ BagToSet(b (-) SetToBag(S)) = {e \in BagToSet(b) : e \in S => b[e] # 1}
           /\ \A e \in BagToSet(b) \ S : (b (-) SetToBag(S))[e] = b[e]
  BY DEF IsABag, BagToSet, SetToBag, (-)

(***************************************************************************)
(* A set of ids has a greatest one: what Newest stands on.                 *)
(***************************************************************************)
LEMMA LeastOf ==
    ASSUME NEW T, T \subseteq Nat, T # {}
    PROVE  \E m \in T : \A i \in T : m <= i
  <1> DEFINE R == {ss \in Nat \X Nat : ss[1] < ss[2]}
  <1>1. IsWellFoundedOn(R, Nat)
    <2>1. OpToRel(<, Nat) = R
      BY DEF OpToRel
    <2> QED
      BY <2>1, NatLessThanWellFounded, Zenon
  <1> HIDE DEF R
  <1>2. PICK m \in T : \A i \in T : ~ (<<i, m>> \in R)
    BY <1>1, WFMin
  <1>3. \A i \in T : m <= i
    <2> SUFFICES ASSUME NEW i \in T PROVE ~ (i < m)
      OBVIOUS
    <2> QED
      BY <1>2 DEF R
  <1> QED
    BY <1>3

LEMMA NewestKeyIs ==
    ASSUME NEW rows, rows \subseteq KeyRow, rows # {}
    PROVE  Newest(rows) \in rows
  <1> DEFINE Back == {n \in Nat : \E r \in rows : n = MaxId - r.id}
  <1>1. \A r \in rows : r.id \in Id /\ MaxId - r.id \in Back
    BY StoreAssumption DEF KeyRow, Id
  <1>2. Back # {}
    BY <1>1
  <1>3. PICK m \in Back : \A n \in Back : m <= n
    BY <1>2, LeastOf
  <1>4. PICK r \in rows : m = MaxId - r.id
    OBVIOUS
  <1>5. \A s \in rows : s.id <= r.id
    BY <1>1, <1>3, <1>4, StoreAssumption DEF Id
  <1> QED
    BY <1>5 DEF Newest

(***************************************************************************)
(* Rows of the log with stamps of their own. There are finitely many; a    *)
(* row has fewer newer ones than there are rows, no two rows have equally  *)
(* many, and hence at most RowsPerPage are on a page.                      *)
(***************************************************************************)
Stamped(rows) == rows \subseteq LogRow /\ \A x, y \in rows : x.at = y.at => x = y

LEMMA StampedFinite ==
    ASSUME NEW rows, Stamped(rows)
    PROVE  IsFiniteSet(rows)
  <1> DEFINE f == [x \in rows |-> x.at]
  <1>1. f \in Injection(rows, 1..MaxAt)
    BY DEF Stamped, LogRow, Injection, IsInjective
  <1>2. IsFiniteSet(1..MaxAt)
    BY FS_Interval, ClientAssumption
  <1> QED
    BY <1>1, <1>2, FS_Injection

LEMMA NewerIs ==
    ASSUME NEW rows, Stamped(rows), NEW x \in rows
    PROVE  /\ Newer(x, rows) \in Nat
           /\ Newer(x, rows) < Cardinality(rows)
           /\ \A y \in rows : y.at > x.at => Newer(y, rows) < Newer(x, rows)
  <1> DEFINE N(y) == {s \in rows : s.at > y.at}
  <1>1. IsFiniteSet(rows) /\ Cardinality(rows) \in Nat
    BY StampedFinite, FS_CardinalityType
  <1>2. \A y \in rows : IsFiniteSet(N(y)) /\ Cardinality(N(y)) \in Nat
    BY <1>1, FS_Subset, FS_CardinalityType
  <1>3. Cardinality(N(x)) < Cardinality(rows)
    <2>1. N(x) \in SUBSET rows /\ N(x) # rows
      BY DEF Stamped, LogRow
    <2> QED
      BY <1>1, <1>2, <2>1, FS_Subset
  <1>4. ASSUME NEW y \in rows, y.at > x.at
        PROVE  Cardinality(N(y)) < Cardinality(N(x))
    <2>1. N(y) \in SUBSET N(x) /\ N(y) # N(x)
      <3>1. \A s \in rows : s.at \in Int
        BY DEF Stamped, LogRow
      <3>2. y \in N(x) /\ y \notin N(y)
        BY <1>4, <3>1
      <3> QED
        BY <1>4, <3>1, <3>2
    <2> QED
      BY <1>2, <2>1, FS_Subset
  <1> QED
    BY <1>2, <1>3, <1>4 DEF Newer

LEMMA PageFits ==
    ASSUME NEW w, NEW n \in Nat \ {0}, Stamped(Listed(w))
    PROVE  /\ PageOf(w, n) \subseteq LogRow
           /\ IsFiniteSet(PageOf(w, n))
           /\ Cardinality(PageOf(w, n)) <= RowsPerPage
  <1> DEFINE rows == Listed(w)
             a == (n - 1) * RowsPerPage
             b == n * RowsPerPage
             f == [x \in PageOf(w, n) |-> Newer(x, rows)]
  <1>1. a \in Int /\ b \in Int /\ b = a + RowsPerPage /\ RowsPerPage \in Nat \ {0}
    BY ClientAssumption
  <1>2. PageOf(w, n) \subseteq rows /\ \A x \in PageOf(w, n) : Newer(x, rows) >= a /\ Newer(x, rows) < b
    BY DEF PageOf
  <1> HIDE DEF rows, a, b
  <1>3. \A x \in rows : Newer(x, rows) \in Nat
    BY NewerIs DEF rows
  <1>4. ASSUME NEW x \in rows, NEW y \in rows, Newer(x, rows) = Newer(y, rows)
        PROVE  x = y
    <2>1. x.at \in Int /\ y.at \in Int
      BY DEF Stamped, LogRow, rows
    <2>2. ~ (x.at > y.at) /\ ~ (y.at > x.at)
      BY <1>3, <1>4, NewerIs DEF rows
    <2> QED
      BY <2>1, <2>2 DEF Stamped, rows
  <1>5. f \in Injection(PageOf(w, n), a..(b - 1))
    <2>1. f \in [PageOf(w, n) -> a..(b - 1)]
      BY <1>1, <1>2, <1>3
    <2> QED
      BY <1>2, <1>4, <2>1 DEF Injection, IsInjective
  <1>6. IsFiniteSet(a..(b - 1)) /\ Cardinality(a..(b - 1)) = RowsPerPage
    BY <1>1, FS_Interval
  <1>7. IsFiniteSet(PageOf(w, n)) /\ Cardinality(PageOf(w, n)) <= RowsPerPage
    BY <1>5, <1>6, FS_Injection, Zenon
  <1> QED
    BY <1>2, <1>7 DEF Stamped, rows

-----------------------------------------------------------------------------
(* What holds of every state.                                              *)

\* The rows a reading request has got, by what it reads.
RowsFit(r) ==
    /\ r.op = "keys" => r.rows \subseteq KeyRow
    /\ r.op = "permissions" => r.rows \subseteq PermissionRow
    /\ r.op = "discovered" => r.rows \subseteq IF r.stage = "answered" THEN Use ELSE PermissionRow
    /\ r.op = "log" => r.rows \subseteq LogRow /\ Cardinality(r.rows) <= RowsPerPage /\ r.about >= 1

LogFits ==
    /\ Stamped(log) /\ cutoff \in 1..MaxAt
    /\ \A x \in log : x.key < nextId

PageFitsTypes ==
    /\ selected \in Wallet
    /\ shown \in [keys : SUBSET KeyRow, permissions : SUBSET PermissionRow,
                  discovered : SUBSET Use, log : SUBSET LogRow]
    /\ Cardinality(shown.log) <= RowsPerPage
    /\ page \in Nat \ {0} /\ total \in Nat
    /\ formKey = {} \/ \E k \in Id : formKey = {k}

HistoryFits ==
    /\ latest \subseteq List /\ missed \subseteq List /\ deletions \in Nat
    /\ walk \in [upTo : Nat, seen : SUBSET LogRow, had : SUBSET LogRow, deletions : Nat]

RequestsFit ==
    /\ IsABag(pending) /\ BagToSet(pending) \subseteq Requests
    /\ \A r \in BagToSet(pending) : RowsFit(r)

\* The last request for a list is one, and with the wallet that is selected.
LastOnce ==
    /\ \A r \in BagToSet(pending) : r.last => r.op \in List /\ r.wallet = selected /\ pending[r] = 1
    /\ \A r, s \in BagToSet(pending) : r.last /\ s.last /\ r.op = s.op => r = s

Types ==
    /\ StoreTypeOK /\ LogFits /\ PageFitsTypes /\ HistoryFits
    /\ RequestsFit /\ LastOnce

LEMMA TypesAreOK == Types => TypeOK
  <1> SUFFICES ASSUME Types PROVE TypeOK
    OBVIOUS
  <1>1. ASSUME NEW l \in List PROVE Cardinality(LastFor(l)) <= 1
    <2>1. \A r, s \in LastFor(l) : r = s
      BY DEF LastFor, Types, LastOnce
    <2>2. CASE LastFor(l) = {}
      BY <2>2, FS_EmptySet
    <2>3. CASE LastFor(l) # {}
      <3>1. PICK r \in LastFor(l) : TRUE
        BY <2>3
      <3>2. LastFor(l) = {r}
        BY <2>1, <3>1
      <3>3. Cardinality({r}) = 1
        BY FS_Singleton
      <3> QED
        BY <3>2, <3>3
    <2> QED
      BY <2>2, <2>3
  <1>2. formKey \subseteq Id /\ Cardinality(formKey) <= 1
    <2>1. Cardinality({}) = 0 /\ \A k : Cardinality({k}) = 1
      BY FS_EmptySet, FS_Singleton
    <2>2. CASE formKey = {}
      BY <2>1, <2>2
    <2>3. CASE \E k \in Id : formKey = {k}
      <3>1. PICK k \in Id : formKey = {k}
        BY <2>3
      <3>2. Cardinality({k}) = 1
        BY <2>1
      <3> QED
        BY <3>1, <3>2
    <2> QED
      BY <2>2, <2>3 DEF Types, PageFitsTypes
  <1>3. /\ shown.keys \subseteq KeyRow /\ shown.permissions \subseteq PermissionRow
        /\ shown.discovered \subseteq Use
        /\ shown.log \subseteq LogRow /\ Cardinality(shown.log) <= RowsPerPage
    BY DEF Types, PageFitsTypes
  <1> QED
    BY <1>1, <1>2, <1>3 DEF TypeOK, Types, LogFits, Stamped, PageFitsTypes, HistoryFits, RequestsFit

-----------------------------------------------------------------------------
(* How the requests under way change.                                      *)

\* A request takes a step.
LEMMA BecomeIs ==
    ASSUME RequestsFit, LastOnce, NEW r \in BagToSet(pending), NEW s \in Requests, Become(r, s),
           s # r, s.op = r.op, s.last = r.last, s.wallet = r.wallet, RowsFit(s)
    PROVE  /\ s \in BagToSet(pending)'
           /\ BagToSet(pending)' \subseteq BagToSet(pending) \cup {s}
           /\ BagToSet(pending) \ {r} \subseteq BagToSet(pending)'
           /\ r.last => r \notin BagToSet(pending)'
           /\ RequestsFit'
           /\ selected' = selected => LastOnce'
  <1> DEFINE b == pending (-) SetToBag({r})
  <1>1. /\ IsABag(b)
        /\ BagToSet(b) = {e \in BagToSet(pending) : e \in {r} => pending[e] # 1}
        /\ \A e \in BagToSet(pending) \ {r} : b[e] = pending[e]
    BY TakeIs DEF RequestsFit
  <1>2. pending' = b (+) SetToBag({s})
    BY DEF Become
  <1> HIDE DEF b
  <1>3. /\ IsABag(pending')
        /\ BagToSet(pending') = BagToSet(b) \cup {s}
        /\ \A e \in BagToSet(b) \ {s} : pending'[e] = b[e]
        /\ \A e \in {s} \ BagToSet(b) : pending'[e] = 1
    BY <1>1, <1>2, PutIs
  <1>4. BagToSet(pending)' = BagToSet(pending')
    BY DEF BagToSet
  <1>5. r.last => r \notin BagToSet(b) /\ s \notin BagToSet(b)
    BY <1>1 DEF LastOnce
  <1>6. RequestsFit'
    BY <1>1, <1>3, <1>4 DEF RequestsFit, RowsFit
  <1>7. ASSUME selected' = selected PROVE LastOnce'
    <2>1. ASSUME NEW e \in BagToSet(pending'), e.last
          PROVE  e.op \in List /\ e.wallet = selected /\ pending'[e] = 1
      <3>1. CASE e = s
        BY <1>3, <1>5, <2>1, <3>1 DEF LastOnce
      <3>2. CASE e # s
        <4>1. e \in BagToSet(b) /\ e \in BagToSet(pending) /\ e # r
          BY <1>1, <1>3, <1>5, <2>1, <3>2
        <4> QED
          BY <1>1, <1>3, <2>1, <3>2, <4>1 DEF LastOnce
      <3> QED
        BY <3>1, <3>2
    <2>2. ASSUME NEW e \in BagToSet(pending'), NEW f \in BagToSet(pending'), e.last, f.last, e.op = f.op
          PROVE  e = f
      <3>1. \A g \in BagToSet(pending') : g = s \/ (g \in BagToSet(b) /\ g \in BagToSet(pending))
        BY <1>1, <1>3
      <3>2. \A g \in BagToSet(b) : g.last /\ g.op = s.op => ~ s.last
        BY <1>1, <1>5 DEF LastOnce
      <3> QED
        BY <2>2, <3>1, <3>2 DEF LastOnce
    <2> QED
      BY <1>4, <1>7, <2>1, <2>2 DEF LastOnce
  <1> QED
    BY <1>1, <1>3, <1>4, <1>5, <1>6, <1>7

\* A request is over.
LEMMA DropIs ==
    ASSUME RequestsFit, LastOnce, NEW r \in BagToSet(pending), pending' = pending (-) SetToBag({r})
    PROVE  /\ BagToSet(pending)' \subseteq BagToSet(pending)
           /\ BagToSet(pending) \ {r} \subseteq BagToSet(pending)'
           /\ r.last => r \notin BagToSet(pending)'
           /\ RequestsFit'
           /\ selected' = selected => LastOnce'
  <1>1. /\ IsABag(pending')
        /\ BagToSet(pending') = {e \in BagToSet(pending) : e \in {r} => pending[e] # 1}
        /\ \A e \in BagToSet(pending) \ {r} : pending'[e] = pending[e]
    BY TakeIs DEF RequestsFit
  <1>2. BagToSet(pending)' = BagToSet(pending')
    BY DEF BagToSet
  <1>3. r.last => r \notin BagToSet(pending')
    BY <1>1 DEF LastOnce
  <1>4. RequestsFit'
    BY <1>1, <1>2 DEF RequestsFit, RowsFit
  <1>5. ASSUME selected' = selected PROVE LastOnce'
    BY <1>1, <1>2, <1>3, <1>5 DEF LastOnce
  <1> QED
    BY <1>1, <1>2, <1>3, <1>4, <1>5

\* What is asked for: requests that have read nothing yet, one for each list.
Fresh(new) ==
    /\ new \subseteq Requests
    /\ \A r \in new : /\ RowsFit(r) /\ r.stage = "sent" /\ r.had = {} /\ r.deletions = 0
                      /\ r.last <=> r.op \in List
    /\ \A r, s \in new : r.op = s.op => r = s

\* Requests are made, and those they outdate are no longer the last.
LEMMA SendIs ==
    ASSUME RequestsFit, LastOnce, NEW over, NEW new, SendAfter(over, new), Fresh(new),
           \A r \in over : ~ r.last,
           \A r \in new : r.last => r.wallet = selected',
           selected' = selected \/ List \subseteq {r.op : r \in new}
    PROVE  /\ \A e \in BagToSet(pending)' : e.last =>
                 e \in new \/ (e \in BagToSet(pending) /\ e.op \notin {r.op : r \in new})
           /\ \A e \in BagToSet(pending)' :
                 \/ e \in new \cup BagToSet(pending)
                 \/ \E d \in BagToSet(pending) : e = [d EXCEPT !.last = FALSE]
           /\ \A e \in BagToSet(pending) \ over : ~ e.last => e \in BagToSet(pending)'
           /\ RequestsFit' /\ LastOnce'
  <1> DEFINE asked == {r.op : r \in new}
             rest == pending (-) SetToBag(over)
             outdated == {r \in BagToSet(rest) : r.last /\ r.op \in asked}
             turned == {[r EXCEPT !.last = FALSE] : r \in outdated}
             kept == rest (-) SetToBag(outdated)
             b == kept (+) SetToBag(turned)
  <1>1. /\ IsABag(rest)
        /\ BagToSet(rest) = {e \in BagToSet(pending) : e \in over => pending[e] # 1}
        /\ \A e \in BagToSet(pending) \ over : rest[e] = pending[e]
    BY TakeIs DEF RequestsFit
  <1>2. pending' = b (+) SetToBag(new)
    BY DEF SendAfter
  <1>3. /\ IsABag(kept)
        /\ BagToSet(kept) = {e \in BagToSet(rest) : e \in outdated => rest[e] # 1}
        /\ \A e \in BagToSet(rest) \ outdated : kept[e] = rest[e]
    BY <1>1, TakeIs
  <1> HIDE DEF kept
  <1>4. /\ IsABag(b)
        /\ BagToSet(b) = BagToSet(kept) \cup turned
        /\ \A e \in BagToSet(kept) \ turned : b[e] = kept[e]
    BY <1>3, PutIs
  <1> HIDE DEF b
  <1>5. /\ IsABag(pending')
        /\ BagToSet(pending') = BagToSet(b) \cup new
        /\ \A e \in BagToSet(b) \ new : pending'[e] = b[e]
        /\ \A e \in new \ BagToSet(b) : pending'[e] = 1
    BY <1>2, <1>4, PutIs
  <1>6. BagToSet(pending)' = BagToSet(pending')
    BY DEF BagToSet
  <1> HIDE DEF rest
  <1>7. \A e \in BagToSet(rest) : e \in BagToSet(pending) /\ e \in Requests /\ RowsFit(e)
    BY <1>1 DEF RequestsFit
  <1>8. \A e \in turned : ~ e.last /\ e \in Requests /\ RowsFit(e)
    <2> SUFFICES ASSUME NEW d \in outdated
                 PROVE  LET e == [d EXCEPT !.last = FALSE]
                        IN  ~ e.last /\ e \in Requests /\ RowsFit(e)
      OBVIOUS
    <2>1. d \in Requests /\ RowsFit(d)
      BY <1>7
    <2> QED
      BY <2>1 DEF Requests, RowsFit
  <1>9. \A e \in BagToSet(kept) : e.last =>
            e \in BagToSet(pending) /\ e.op \notin asked /\ kept[e] = pending[e]
    <2> SUFFICES ASSUME NEW e \in BagToSet(kept), e.last
                 PROVE  e \in BagToSet(pending) /\ e.op \notin asked /\ kept[e] = pending[e]
      OBVIOUS
    <2>1. e \in BagToSet(rest) /\ e \in BagToSet(pending) /\ e \notin over /\ rest[e] = pending[e]
      BY <1>1, <1>3
    <2>2. pending[e] = 1
      BY <2>1 DEF LastOnce
    <2>3. e \notin outdated
      BY <1>3, <2>1, <2>2
    <2> QED
      BY <1>3, <2>1, <2>3
  <1>10. \A e \in BagToSet(pending') : e.last =>
             \/ e \in new /\ pending'[e] = 1
             \/ e \in BagToSet(pending) /\ e.op \notin asked /\ pending'[e] = pending[e]
    <2> SUFFICES ASSUME NEW e \in BagToSet(pending'), e.last
                 PROVE  \/ e \in new /\ pending'[e] = 1
                        \/ e \in BagToSet(pending) /\ e.op \notin asked /\ pending'[e] = pending[e]
      OBVIOUS
    <2>1. e \notin turned
      BY <1>8
    <2>2. CASE e \in BagToSet(kept)
      <3>1. e \notin new
        BY <1>9, <2>2
      <3> QED
        BY <1>4, <1>5, <1>9, <2>1, <2>2, <3>1
    <2>3. CASE e \notin BagToSet(kept)
      BY <1>4, <1>5, <2>1, <2>3
    <2> QED
      BY <2>2, <2>3
  <1>11. \A e \in BagToSet(pending') :
             \/ e \in new \cup BagToSet(pending)
             \/ \E d \in BagToSet(pending) : e = [d EXCEPT !.last = FALSE]
    BY <1>1, <1>3, <1>4, <1>5
  <1>12. \A e \in BagToSet(pending) \ over : ~ e.last => e \in BagToSet(pending')
    BY <1>1, <1>3, <1>4, <1>5
  <1>13. RequestsFit'
    <2>1. \A e \in BagToSet(pending') : e \in Requests /\ RowsFit(e)
      BY <1>3, <1>4, <1>5, <1>7, <1>8 DEF Fresh
    <2> QED
      BY <1>5, <1>6, <2>1 DEF RequestsFit, RowsFit
  <1>14. LastOnce'
    <2>1. ASSUME NEW e \in BagToSet(pending'), e.last
          PROVE  e.op \in List /\ e.wallet = selected' /\ pending'[e] = 1
      <3>1. CASE e \in new
        BY <1>10, <2>1, <3>1 DEF Fresh
      <3>2. CASE e \notin new
        <4>1. e \in BagToSet(pending) /\ e.op \notin asked /\ pending'[e] = pending[e]
          BY <1>10, <2>1, <3>2
        <4> QED
          BY <2>1, <4>1 DEF LastOnce
      <3> QED
        BY <3>1, <3>2
    <2>2. ASSUME NEW e \in BagToSet(pending'), NEW f \in BagToSet(pending'), e.last, f.last, e.op = f.op
          PROVE  e = f
      <3>1. \A g \in BagToSet(pending') : g.last =>
                g \in new \/ (g \in BagToSet(pending) /\ g.op \notin asked)
        BY <1>10
      <3> QED
        BY <2>2, <3>1 DEF LastOnce, Fresh
    <2> QED
      BY <1>6, <2>1, <2>2 DEF LastOnce
  <1>15. \A e \in BagToSet(pending') : e.last =>
             e \in new \/ (e \in BagToSet(pending) /\ e.op \notin asked)
    BY <1>10
  <1> QED
    BY <1>6, <1>11, <1>12, <1>13, <1>14, <1>15

\* The requests for some lists are as they should be.
LEMMA ReadsAreFresh ==
    ASSUME NEW lists, lists \subseteq List, NEW w \in Wallet, NEW n \in Nat \ {0}
    PROVE  /\ Fresh(Reads(lists, w, n))
           /\ {r.op : r \in Reads(lists, w, n)} = lists
           /\ \A r \in Reads(lists, w, n) : r.wallet = w
  <1>1. ASSUME NEW l \in List, NEW m \in Nat, l = "log" => m >= 1
        PROVE  /\ Request(l, w, m) \in Requests /\ RowsFit(Request(l, w, m))
               /\ Request(l, w, m).stage = "sent" /\ Request(l, w, m).had = {}
               /\ Request(l, w, m).deletions = 0 /\ Request(l, w, m).wallet = w
               /\ Request(l, w, m).last /\ Request(l, w, m).op = l
    <2>1. Cardinality({}) <= RowsPerPage
      BY FS_EmptySet, ClientAssumption
    <2> QED
      BY <1>1, <2>1 DEF Request, Requests, RowsFit
  <1> DEFINE m(l) == IF l = "log" THEN n ELSE 0
  <1>2. \A l \in List : m(l) \in Nat /\ (l = "log" => m(l) >= 1)
    OBVIOUS
  <1>3. Reads(lists, w, n) = {Request(l, w, m(l)) : l \in lists}
    BY DEF Reads
  <1> HIDE DEF m
  <1>4. \A r \in Reads(lists, w, n) : \E l \in lists : r = Request(l, w, m(l))
    BY <1>3
  <1>5. ASSUME NEW r \in Reads(lists, w, n)
        PROVE  /\ r \in Requests /\ RowsFit(r) /\ r.stage = "sent" /\ r.had = {} /\ r.deletions = 0
               /\ r.last /\ r.op \in lists /\ r.wallet = w /\ r = Request(r.op, w, m(r.op))
    <2>1. PICK l \in lists : r = Request(l, w, m(l))
      BY <1>4
    <2>2. l \in List /\ m(l) \in Nat /\ (l = "log" => m(l) >= 1)
      BY <1>2
    <2>3. /\ r \in Requests /\ RowsFit(r) /\ r.stage = "sent" /\ r.had = {}
          /\ r.deletions = 0 /\ r.wallet = w /\ r.last /\ r.op = l
      <3>1. /\ Request(l, w, m(l)) \in Requests /\ RowsFit(Request(l, w, m(l)))
            /\ Request(l, w, m(l)).stage = "sent" /\ Request(l, w, m(l)).had = {}
            /\ Request(l, w, m(l)).deletions = 0 /\ Request(l, w, m(l)).wallet = w
            /\ Request(l, w, m(l)).last /\ Request(l, w, m(l)).op = l
        BY <1>1, <2>2
      <3> QED
        BY <2>1, <3>1, Zenon
    <2> QED
      BY <2>1, <2>3, Zenon
  <1>6. \A r, s \in Reads(lists, w, n) : r.op = s.op => r = s
    BY <1>5
  <1>7. Fresh(Reads(lists, w, n))
    BY <1>5, <1>6 DEF Fresh
  <1>8. \A l \in lists : Request(l, w, m(l)) \in Reads(lists, w, n) /\ Request(l, w, m(l)).op = l
    BY <1>1, <1>2, <1>3
  <1>9. {r.op : r \in Reads(lists, w, n)} = lists
    <2> DEFINE ops == {r.op : r \in Reads(lists, w, n)}
    <2>1. ops \subseteq lists
      BY <1>5
    <2>2. lists \subseteq ops
      BY <1>8
    <2> QED
      BY <2>1, <2>2
  <1> QED
    BY <1>5, <1>7, <1>9

LEMMA ChangeIsFresh ==
    ASSUME NEW op \in Change, NEW w \in Wallet, NEW k \in Nat
    PROVE  /\ Fresh({Request(op, w, k)})
           /\ {r.op : r \in {Request(op, w, k)}} = {op}
           /\ \A r \in {Request(op, w, k)} : ~ r.last
  <1>1. op \notin List
    BY DEF Change, List
  <1>2. Request(op, w, k) \in Requests /\ RowsFit(Request(op, w, k))
    BY <1>1 DEF Request, Requests, RowsFit, List
  <1>3. /\ Request(op, w, k).op = op
        /\ Request(op, w, k).stage = "sent" /\ Request(op, w, k).had = {}
        /\ Request(op, w, k).deletions = 0
    BY DEF Request
  <1>4. ~ Request(op, w, k).last
    BY <1>1 DEF Request
  <1>5. Fresh({Request(op, w, k)})
    BY <1>1, <1>2, <1>3, <1>4 DEF Fresh
  <1> QED
    BY <1>3, <1>4, <1>5

-----------------------------------------------------------------------------
(* What the routes read.                                                   *)

LEMMA ListedIs ==
    ASSUME Types, NEW w
    PROVE  /\ Stamped(Listed(w)) /\ Listed(w) \subseteq LogRow
           /\ Cardinality(Listed(w)) \in Nat
  <1>1. Stamped(Listed(w)) /\ Listed(w) \subseteq LogRow
    BY DEF Types, LogFits, Stamped, Listed
  <1> QED
    BY <1>1, StampedFinite, FS_CardinalityType

\* What a request has got after the handler's next step.
ReadStep(r, s) ==
    \/ r.op = "keys" /\ s.stage = "answered" /\ s.rows = KeysOf(r.wallet)
    \/ r.op = "permissions" /\ s.stage = "answered" /\ s.rows = PermissionsOf(r.wallet)
    \/ /\ r.op = "discovered" /\ r.stage = "sent"
       /\ s.stage = "half" /\ s.rows = PermissionsOf(r.wallet)
    \/ /\ r.op = "discovered" /\ r.stage = "half"
       /\ s.stage = "answered" /\ s.rows = GrantedToDefault(r.rows, r.wallet)
    \/ /\ r.op = "log" /\ r.stage = "sent"
       /\ s.stage = "half" /\ s.rows = PageOf(r.wallet, r.about)
       /\ s.had = Listed(r.wallet) /\ s.deletions = deletions
    \/ /\ r.op = "log" /\ r.stage = "half"
       /\ s.stage = "answered" /\ s.total = Cardinality(Listed(r.wallet))
       /\ s.rows = r.rows /\ s.had = r.had /\ s.deletions = r.deletions

LEMMA ServeReadIs ==
    ASSUME Types, NEW r \in BagToSet(pending), ServeRead(r)
    PROVE  \E s \in Requests :
              /\ Become(r, s) /\ s # r
              /\ s.op = r.op /\ s.last = r.last /\ s.wallet = r.wallet /\ s.about = r.about
              /\ RowsFit(s) /\ ReadStep(r, s)
  <1> DEFINE next == CASE r.op = "keys" -> [r EXCEPT !.rows = KeysOf(r.wallet)]
                       [] r.op = "permissions" -> [r EXCEPT !.rows = PermissionsOf(r.wallet)]
                       [] r.op = "discovered" -> DiscoverStep(r)
                       [] r.op = "log" -> LogStep(r)
             more == r.op \in {"discovered", "log"} /\ r.stage = "sent"
             s == [next EXCEPT !.stage = IF more THEN "half" ELSE "answered"]
             Kept == s.op = r.op /\ s.last = r.last /\ s.wallet = r.wallet /\ s.about = r.about
  <1>1. r \in Requests /\ RowsFit(r) /\ r.stage # "answered" /\ r.op \in List
    BY DEF Types, RequestsFit, ServeRead
  <1>2. Become(r, s)
    BY DEF ServeRead
  <1>3. KeysOf(r.wallet) \subseteq KeyRow /\ PermissionsOf(r.wallet) \subseteq PermissionRow
    BY DEF Types, StoreTypeOK, KeysOf, PermissionsOf
  <1>4. \A rows : GrantedToDefault(rows, r.wallet) \subseteq Use
    BY ClientAssumption DEF GrantedToDefault
  <1>5. deletions \in Nat
    BY DEF Types, HistoryFits
  <1>6. s \in Requests /\ Kept /\ RowsFit(s) /\ ReadStep(r, s)
    <2>1. CASE r.op = "keys"
      <3>1. s = [r EXCEPT !.rows = KeysOf(r.wallet), !.stage = "answered"]
        BY <1>1, <2>1 DEF Requests
      <3> HIDE DEF s
      <3> QED
        BY <1>1, <1>3, <2>1, <3>1 DEF Requests, RowsFit, ReadStep
    <2>2. CASE r.op = "permissions"
      <3>1. s = [r EXCEPT !.rows = PermissionsOf(r.wallet), !.stage = "answered"]
        BY <1>1, <2>2 DEF Requests
      <3> HIDE DEF s
      <3> QED
        BY <1>1, <1>3, <2>2, <3>1 DEF Requests, RowsFit, ReadStep
    <2>3. CASE r.op = "discovered" /\ r.stage = "sent"
      <3>1. s = [r EXCEPT !.rows = PermissionsOf(r.wallet), !.stage = "half"]
        BY <1>1, <2>3 DEF Requests, DiscoverStep
      <3> HIDE DEF s
      <3> QED
        BY <1>1, <1>3, <2>3, <3>1 DEF Requests, RowsFit, ReadStep
    <2>4. CASE r.op = "discovered" /\ r.stage # "sent"
      <3>1. s = [r EXCEPT !.rows = GrantedToDefault(r.rows, r.wallet), !.stage = "answered"]
        BY <1>1, <2>4 DEF Requests, DiscoverStep
      <3>2. r.stage = "half"
        BY <1>1, <2>4 DEF Requests
      <3> HIDE DEF s
      <3> QED
        BY <1>1, <1>4, <2>4, <3>1, <3>2 DEF Requests, RowsFit, ReadStep
    <2>5. CASE r.op = "log" /\ r.stage = "sent"
      <3>1. s = [r EXCEPT !.rows = PageOf(r.wallet, r.about), !.had = Listed(r.wallet),
                          !.deletions = deletions, !.stage = "half"]
        BY <1>1, <2>5 DEF Requests, LogStep, GetPage
      <3>2. r.about \in Nat \ {0}
        BY <1>1, <2>5 DEF Requests, RowsFit
      <3>3. /\ PageOf(r.wallet, r.about) \subseteq LogRow
            /\ Cardinality(PageOf(r.wallet, r.about)) <= RowsPerPage
        BY <3>2, ListedIs, PageFits
      <3>4. Listed(r.wallet) \subseteq LogRow
        BY ListedIs
      <3> HIDE DEF s
      <3> QED
        BY <1>1, <1>5, <2>5, <3>1, <3>2, <3>3, <3>4 DEF Requests, RowsFit, ReadStep
    <2>6. CASE r.op = "log" /\ r.stage # "sent"
      <3>1. s = [r EXCEPT !.total = Cardinality(Listed(r.wallet)), !.stage = "answered"]
        BY <1>1, <2>6 DEF Requests, LogStep, GetTotal
      <3>2. r.stage = "half"
        BY <1>1, <2>6 DEF Requests
      <3>3. Cardinality(Listed(r.wallet)) \in Nat
        BY ListedIs
      <3> HIDE DEF s
      <3> QED
        BY <1>1, <2>6, <3>1, <3>2, <3>3 DEF Requests, RowsFit, ReadStep
    <2> QED
      BY <1>1, <2>1, <2>2, <2>3, <2>4, <2>5, <2>6 DEF List
  <1>7. s.stage # r.stage
    BY <1>1, <1>6 DEF ReadStep
  <1> HIDE DEF s
  <1> QED
    BY <1>2, <1>6, <1>7

-----------------------------------------------------------------------------
(* What the routes write.                                                  *)

\* What a change has been checked for: a key half deleted is not looked for again.
Checked(r) == Owned(r) \/ r.op = "delete key"

\* The rows that a change leaves, makes and takes away.
LEMMA PerformIs ==
    ASSUME Types, NEW r \in Requests, Checked(r), Perform(r), r.op \in Change
    PROVE  /\ StoreTypeOK' /\ nextId' >= nextId /\ nextId' \in Nat
           /\ r.op \notin {"create key", "delete key"} => keys' = keys
           /\ r.op = "delete key" /\ r.stage # "half" => keys' = keys
           /\ r.op = "create key" =>
                 /\ permissions' = permissions
                 /\ keys' = keys \cup {[id |-> nextId, wallet |-> r.wallet]}
           /\ r.op = "update permission" => \E p \in permissions, l \in ValidLimit :
                 permissions' = (permissions \ {p}) \cup {[p EXCEPT !.limit = l]}
  <1>1. StoreTypeOK /\ r.wallet \in Wallet
    BY DEF Types, Requests
  <1>2. ASSUME Stamp, NEW u \in Use, NEW l \in ValidLimit, OwnedKey(keys, r.wallet, r.about),
               permissions' = permissions \cup {Granted(r, u, l)}, keys' = keys
        PROVE  StoreTypeOK' /\ nextId' >= nextId /\ nextId' \in Nat
    <2>1. nextId \in Id /\ nextId' = nextId + 1 /\ nextId' \in 1..(MaxId + 1)
      BY <1>1, <1>2, StoreAssumption DEF Stamp, StoreTypeOK, Id
    <2>2. r.about \in Id
      BY <1>1, <1>2 DEF OwnedKey, StoreTypeOK, KeyRow
    <2>3. Granted(r, u, l) \in PermissionRow /\ Granted(r, u, l).id = nextId
      BY <1>1, <2>1, <2>2 DEF Granted, PermissionRow, ValidLimit, Limit
    <2>4. \A x \in keys \cup permissions : x.id \in Id /\ x.id < nextId
      BY <1>1 DEF StoreTypeOK, KeyRow, PermissionRow
    <2>5. \A x \in keys' \cup permissions' : x.id < nextId'
      BY <1>2, <2>1, <2>3, <2>4, StoreAssumption DEF Id
    <2>6. \A p, q \in permissions' : p.id = q.id => p = q
      BY <1>1, <1>2, <2>1, <2>3, <2>4 DEF StoreTypeOK, Id
    <2> QED
      BY <1>1, <1>2, <2>1, <2>3, <2>5, <2>6, StoreAssumption DEF StoreTypeOK, Id
  <1>3. CASE r.op = "create key"
    <2>1. /\ Stamp /\ permissions' = permissions
          /\ keys' = keys \cup {[id |-> nextId, wallet |-> r.wallet]}
      BY <1>3 DEF Perform
    <2>2. nextId \in Id /\ nextId' = nextId + 1 /\ nextId' \in 1..(MaxId + 1)
      BY <1>1, <2>1, StoreAssumption DEF Stamp, StoreTypeOK, Id
    <2>3. \A x \in keys \cup permissions : x.id \in Id /\ x.id < nextId
      BY <1>1 DEF StoreTypeOK, KeyRow, PermissionRow
    <2>4. \A x \in keys' \cup permissions' : x.id < nextId'
      BY <2>1, <2>2, <2>3, StoreAssumption DEF Id
    <2>5. keys' \subseteq KeyRow
      BY <1>1, <2>1, <2>2 DEF KeyRow, StoreTypeOK
    <2>6. \A p, q \in permissions' : p.id = q.id => p = q
      BY <1>1, <2>1 DEF StoreTypeOK
    <2>7. StoreTypeOK'
      BY <1>1, <2>1, <2>2, <2>4, <2>5, <2>6 DEF StoreTypeOK
    <2>8. nextId' >= nextId /\ nextId' \in Nat
      BY <2>2, StoreAssumption DEF Id
    <2> QED
      BY <1>3, <2>1, <2>7, <2>8
  <1>4. CASE r.op = "delete key"
    <2>1. keys' \subseteq keys /\ permissions' \subseteq permissions /\ nextId' = nextId
      BY <1>4 DEF Perform
    <2>2. StoreTypeOK' /\ nextId' >= nextId /\ nextId' \in Nat
      BY <1>1, <2>1, StoreAssumption DEF StoreTypeOK
    <2>3. r.stage # "half" => keys' = keys
      BY <1>4 DEF Perform
    <2> QED
      BY <1>4, <2>1, <2>2, <2>3
  <1>5. CASE r.op = "create permission"
    <2>1. GrantOne(r, Use) /\ keys' = keys /\ OwnedKey(keys, r.wallet, r.about)
      BY <1>5 DEF Perform, Owned, Checked
    <2>2. PICK u \in Use, l \in ValidLimit : permissions' = permissions \cup {Granted(r, u, l)}
      BY <2>1 DEF GrantOne
    <2>3. Stamp
      BY <2>1 DEF GrantOne
    <2> QED
      BY <1>2, <1>5, <2>1, <2>2, <2>3
  <1>6. CASE r.op = "quick setup"
    <2>1. keys' = keys /\ OwnedKey(keys, r.wallet, r.about)
      BY <1>6 DEF Perform, Owned, Checked
    <2>2. CASE UNCHANGED <<permissions, nextId>>
      <3>1. StoreTypeOK' /\ nextId' >= nextId /\ nextId' \in Nat
        BY <1>1, <2>1, <2>2, StoreAssumption DEF StoreTypeOK
      <3> QED
        BY <1>6, <2>1, <2>2, <3>1
    <2>3. CASE GrantOne(r, {Required})
      <3>1. Required \in Use
        BY ClientAssumption
      <3>2. PICK u \in Use, l \in ValidLimit : permissions' = permissions \cup {Granted(r, u, l)}
        BY <2>3, <3>1 DEF GrantOne
      <3>3. Stamp
        BY <2>3 DEF GrantOne
      <3> QED
        BY <1>2, <1>6, <2>1, <3>2, <3>3
    <2> QED
      BY <1>6, <2>2, <2>3 DEF Perform
  <1>7. CASE r.op = "update permission"
    <2>1. keys' = keys /\ nextId' = nextId
      BY <1>7 DEF Perform
    <2>2. PICK p \in permissions, l \in ValidLimit :
              permissions' = (permissions \ {p}) \cup {[p EXCEPT !.limit = l]}
      BY <1>7 DEF Perform
    <2> DEFINE n == [p EXCEPT !.limit = l]
    <2>3. p \in PermissionRow /\ n \in PermissionRow /\ n.id = p.id
      BY <1>1 DEF StoreTypeOK, PermissionRow, ValidLimit, Limit
    <2>4. permissions' = (permissions \ {p}) \cup {n}
      BY <2>2
    <2> HIDE DEF n
    <2>5. \A x \in permissions' : x = n \/ (x \in permissions /\ x # p)
      BY <2>4
    <2>6. \A x, q \in permissions' : x.id = q.id => x = q
      BY <1>1, <2>3, <2>5 DEF StoreTypeOK
    <2>7. \A x \in keys' \cup permissions' : x.id < nextId'
      BY <1>1, <2>1, <2>3, <2>5 DEF StoreTypeOK
    <2>8. permissions' \subseteq PermissionRow
      BY <1>1, <2>3, <2>5 DEF StoreTypeOK
    <2>9. StoreTypeOK' /\ nextId' >= nextId /\ nextId' \in Nat
      BY <1>1, <2>1, <2>6, <2>7, <2>8, StoreAssumption DEF StoreTypeOK
    <2> QED
      BY <1>7, <2>1, <2>2, <2>9
  <1>8. CASE r.op = "delete permission"
    <2>1. keys' = keys /\ permissions' \subseteq permissions /\ nextId' = nextId
      BY <1>8 DEF Perform
    <2>2. StoreTypeOK' /\ nextId' >= nextId /\ nextId' \in Nat
      BY <1>1, <2>1, StoreAssumption DEF StoreTypeOK
    <2> QED
      BY <1>8, <2>1, <2>2
  <1> QED
    BY <1>3, <1>4, <1>5, <1>6, <1>7, <1>8 DEF Change

-----------------------------------------------------------------------------
(* Types: every action keeps them.                                         *)

WalkType == [upTo : Nat, seen : SUBSET LogRow, had : SUBSET LogRow, deletions : Nat]

LEMMA WalkIs ==
    ASSUME HistoryFits, NEW r \in Requests, RowsFit(r), r.op = "log"
    PROVE  Walk(r) \in WalkType
  <1>1. /\ walk \in WalkType
        /\ r.rows \subseteq LogRow /\ r.had \subseteq LogRow /\ r.about \in Nat /\ r.deletions \in Nat
    BY DEF HistoryFits, WalkType, RowsFit, Requests
  <1>2. CASE r.last /\ r.about = 1
    <2>1. Walk(r) = [upTo |-> 1, seen |-> r.rows, had |-> r.had, deletions |-> r.deletions]
      BY <1>2 DEF Walk
    <2> QED
      BY <1>1, <2>1 DEF WalkType
  <1>3. CASE r.last /\ r.about > 1 /\ r.about = walk.upTo + 1
    <2>1. Walk(r) = [walk EXCEPT !.upTo = r.about, !.seen = walk.seen \cup r.rows]
      BY <1>3 DEF Walk
    <2> QED
      BY <1>1, <2>1 DEF WalkType
  <1>4. CASE ~ (r.last /\ r.about = 1) /\ ~ (r.last /\ r.about > 1 /\ r.about = walk.upTo + 1)
    <2>1. Walk(r) = NoWalk
      BY <1>4 DEF Walk
    <2> QED
      BY <2>1 DEF WalkType, NoWalk
  <1> QED
    BY <1>2, <1>3, <1>4

LEMMA TypesStart == Init => Types
  <1> SUFFICES ASSUME Init PROVE Types
    OBVIOUS
  <1> DEFINE start == Reads({"log"}, FirstWallet, 1)
  <1>1. Fresh(start) /\ {r.op : r \in start} = {"log"} /\ \A r \in start : r.wallet = FirstWallet
    <2>1. {"log"} \subseteq List /\ 1 \in Nat \ {0} /\ FirstWallet \in Wallet
      BY ClientAssumption DEF List
    <2> QED
      BY <2>1, ReadsAreFresh
  <1>2. /\ IsABag(pending) /\ BagToSet(pending) = start
        /\ \A r \in start : pending[r] = 1
    BY DEF Init, IsABag, BagToSet, SetToBag
  <1> HIDE DEF start
  <1>3. RequestsFit
    BY <1>1, <1>2 DEF RequestsFit, Fresh
  <1>4. LastOnce
    BY <1>1, <1>2 DEF LastOnce, Fresh, Init
  <1>5. StoreTypeOK
    BY ClientAssumption, StoreAssumption DEF Init, StoreTypeOK
  <1>6. LogFits
    BY ClientAssumption, LogAssumption DEF Init, LogFits, Stamped
  <1>7. PageFitsTypes
    <2>1. /\ KeysOf(FirstWallet) \subseteq KeyRow /\ PermissionsOf(FirstWallet) \subseteq PermissionRow
          /\ GrantedToDefault(PermissionsOf(FirstWallet), FirstWallet) \subseteq Use
      BY <1>5, ClientAssumption DEF StoreTypeOK, KeysOf, PermissionsOf, GrantedToDefault
    <2>2. Cardinality({}) <= RowsPerPage
      BY FS_EmptySet, ClientAssumption
    <2> QED
      BY <2>1, <2>2, ClientAssumption DEF Init, PageFitsTypes
  <1>8. HistoryFits
    BY DEF Init, HistoryFits, NoWalk, List
  <1> QED
    BY <1>3, <1>4, <1>5, <1>6, <1>7, <1>8 DEF Types

\* An action of the page leaves the tables alone.
LEMMA StoreKept ==
    ASSUME StoreTypeOK, LogFits, UNCHANGED <<store, logs>>
    PROVE  StoreTypeOK' /\ LogFits'
  BY DEF StoreTypeOK, LogFits, Stamped, store, logs

LEMMA SelectTypes ==
    ASSUME Types, NEW w \in Wallet, Select(w)
    PROVE  Types'
  <1>1. SendAfter({}, Reads(List, w, page)) /\ selected' = w
    BY DEF Select, Send
  <1>2. page \in Nat \ {0}
    BY DEF Types, PageFitsTypes
  <1>3. /\ Fresh(Reads(List, w, page)) /\ {r.op : r \in Reads(List, w, page)} = List
        /\ \A r \in Reads(List, w, page) : r.wallet = w
    BY <1>2, ReadsAreFresh
  <1>4. RequestsFit' /\ LastOnce'
    <2>1. List \subseteq {r.op : r \in Reads(List, w, page)}
      BY <1>3
    <2>2. \A r \in Reads(List, w, page) : r.last => r.wallet = selected'
      BY <1>1, <1>3
    <2> QED
      BY <1>1, <1>3, <2>1, <2>2, SendIs DEF Types
  <1>5. PageFitsTypes'
    BY <1>1 DEF Select, Types, PageFitsTypes
  <1>6. HistoryFits'
    BY <1>1 DEF Select, SendAfter, Types, HistoryFits, NoWalk
  <1> QED
    BY <1>4, <1>5, <1>6, StoreKept DEF Select, Types

\* A request that is the last for the log, or a change, with the same wallet selected.
LEMMA TurnTypes ==
    ASSUME Types, NEW n \in 1..MaxAt, TurnTo(n)
    PROVE  Types'
  <1> DEFINE new == Reads({"log"}, selected, n)
  <1>1. SendAfter({}, new) /\ selected' = selected
    BY DEF TurnTo, Send
  <1>2. /\ Fresh(new) /\ \A r \in new : r.wallet = selected
    <2>1. {"log"} \subseteq List /\ n \in Nat \ {0} /\ selected \in Wallet
      BY DEF List, Types, PageFitsTypes
    <2> QED
      BY <2>1, ReadsAreFresh
  <1> HIDE DEF new
  <1>3. RequestsFit' /\ LastOnce'
    BY <1>1, <1>2, SendIs DEF Types
  <1>4. PageFitsTypes'
    BY DEF TurnTo, Types, PageFitsTypes
  <1>5. HistoryFits'
    BY <1>1 DEF TurnTo, SendAfter, Types, HistoryFits
  <1> QED
    BY <1>3, <1>4, <1>5, StoreKept DEF TurnTo, Types

LEMMA AskTypes ==
    ASSUME Types, NEW op \in Change, NEW k \in Nat, Ask(op, k)
    PROVE  Types'
  <1> DEFINE new == {Request(op, selected, k)}
  <1>1. SendAfter({}, new) /\ selected' = selected
    BY DEF Ask, Send
  <1>2. Fresh(new) /\ \A r \in new : ~ r.last
    BY ChangeIsFresh DEF Types, PageFitsTypes
  <1> HIDE DEF new
  <1>3. RequestsFit' /\ LastOnce'
    BY <1>1, <1>2, SendIs DEF Types
  <1>4. PageFitsTypes'
    BY DEF Ask, Types, PageFitsTypes
  <1>5. HistoryFits'
    BY <1>1 DEF Ask, SendAfter, Types, HistoryFits
  <1> QED
    BY <1>3, <1>4, <1>5, StoreKept DEF Ask, Types

\* A change is asked for with an id.
LEMMA AsksAreChanges ==
    ASSUME Types, AskForChange
    PROVE  \E op \in Change, k \in Nat : Ask(op, k)
  <1>1. /\ shown.keys \subseteq KeyRow /\ shown.permissions \subseteq PermissionRow
        /\ formKey \subseteq Id
    BY DEF Types, PageFitsTypes
  <1>2. \A k \in Id : k \in Nat
    BY StoreAssumption DEF Id
  <1>3. CASE Ask("create key", 0)
    BY <1>3 DEF Change
  <1>4. CASE \E r \in shown.keys : Ask("delete key", r.id)
    BY <1>1, <1>2, <1>4 DEF Change, KeyRow
  <1>5. CASE \E k \in formKey : Ask("create permission", k)
    BY <1>1, <1>2, <1>5 DEF Change
  <1>6. CASE \E r \in shown.permissions, op \in {"update permission", "delete permission"} : Ask(op, r.id)
    BY <1>1, <1>2, <1>6 DEF Change, PermissionRow
  <1>7. CASE shown.keys # {} /\ Ask("quick setup", Newest(shown.keys).id)
    <2>1. Newest(shown.keys) \in shown.keys
      BY <1>1, <1>7, NewestKeyIs
    <2>2. Newest(shown.keys).id \in Nat
      BY <1>1, <1>2, <2>1 DEF KeyRow
    <2> QED
      BY <1>7, <2>2 DEF Change
  <1> QED
    BY <1>3, <1>4, <1>5, <1>6, <1>7 DEF AskForChange

LEMMA ServeReadTypes ==
    ASSUME Types, NEW r \in BagToSet(pending), ServeRead(r)
    PROVE  Types'
  <1>1. PICK s \in Requests :
              /\ Become(r, s) /\ s # r
              /\ s.op = r.op /\ s.last = r.last /\ s.wallet = r.wallet
              /\ RowsFit(s)
    BY ServeReadIs
  <1>2. selected' = selected
    BY DEF ServeRead
  <1>3. RequestsFit' /\ LastOnce'
    BY <1>1, <1>2, BecomeIs DEF Types
  <1>4. PageFitsTypes'
    BY DEF ServeRead, Types, PageFitsTypes
  <1>5. HistoryFits'
    BY DEF ServeRead, history, Types, HistoryFits
  <1> QED
    BY <1>3, <1>4, <1>5, StoreKept DEF ServeRead, Types

\* A change that is made, or half of it, stays under way until its callback.
LEMMA ServeChangeIs ==
    ASSUME Types, NEW r \in BagToSet(pending), ServeChange(r)
    PROVE  LET s == Further(r)
           IN  /\ s \in Requests /\ s # r /\ Become(r, s)
               /\ s.op = r.op /\ s.last = r.last /\ s.wallet = r.wallet /\ s.about = r.about
               /\ s.stage = IF r.op = "delete key" /\ r.stage = "sent" THEN "half" ELSE "answered"
               /\ RowsFit(s) /\ ~ r.last
  <1> DEFINE to == IF r.op = "delete key" /\ r.stage = "sent" THEN "half" ELSE "answered"
  <1>1. r \in Requests /\ r.op \in Change /\ r.stage # to /\ r.op \notin List
    BY DEF Types, RequestsFit, ServeChange, Change, List
  <1>2. ~ r.last
    BY <1>1 DEF Types, LastOnce
  <1>3. to \in {"half", "answered"} /\ Further(r) = [r EXCEPT !.stage = to]
    BY DEF Further
  <1> HIDE DEF to
  <1>4. Become(r, Further(r))
    BY DEF ServeChange
  <1>5. /\ Further(r) \in Requests /\ Further(r).stage = to
        /\ Further(r).op = r.op /\ Further(r).last = r.last /\ Further(r).wallet = r.wallet
        /\ Further(r).about = r.about
    BY <1>1, <1>3 DEF Requests
  <1> QED
    BY <1>1, <1>2, <1>4, <1>5 DEF RowsFit, List, to

LEMMA ServeChangeTypes ==
    ASSUME Types, NEW r \in BagToSet(pending), ServeChange(r)
    PROVE  Types'
  <1> DEFINE s == Further(r)
  <1>1. /\ s \in Requests /\ s # r /\ Become(r, s)
        /\ s.op = r.op /\ s.last = r.last /\ s.wallet = r.wallet /\ RowsFit(s)
    BY ServeChangeIs
  <1> HIDE DEF s
  <1>2. selected' = selected
    BY DEF ServeChange
  <1>3. RequestsFit' /\ LastOnce'
    BY <1>1, <1>2, BecomeIs DEF Types
  <1>4. StoreTypeOK' /\ nextId' >= nextId /\ nextId' \in Nat
    BY PerformIs DEF ServeChange, Types, RequestsFit, Checked
  <1>5. LogFits'
    <2>1. log' = log /\ cutoff' = cutoff /\ nextId \in Nat
      <3>1. log' = log /\ cutoff' = cutoff
        BY DEF ServeChange, logs
      <3>2. nextId \in Nat
        BY StoreAssumption DEF Types, StoreTypeOK
      <3> QED
        BY <3>1, <3>2
    <2>2. \A x \in log : x.key \in Nat /\ x.key < nextId
      BY StoreAssumption DEF Types, LogFits, Stamped, LogRow, Id
    <2>3. \A x \in log : x.key < nextId'
      BY <1>4, <2>1, <2>2
    <2> QED
      BY <2>1, <2>3 DEF Types, LogFits, Stamped
  <1>6. PageFitsTypes'
    BY DEF ServeChange, Types, PageFitsTypes
  <1>7. HistoryFits'
    <2>1. /\ deletions' = deletions + 1 \/ deletions' = deletions
          /\ missed' = missed \/ missed' = missed \cup {"discovered"}
          /\ latest' = latest /\ walk' = walk
      BY DEF ServeChange
    <2>2. "discovered" \in List
      BY DEF List
    <2>3. deletions' \in Nat
      <3>1. deletions \in Nat
        BY DEF Types, HistoryFits
      <3> QED
        BY <2>1, <3>1
    <2>4. missed' \subseteq List
      BY <2>1, <2>2 DEF Types, HistoryFits
    <2>5. HistoryFits
      BY DEF Types
    <2> QED
      BY <2>1, <2>3, <2>4, <2>5 DEF HistoryFits
  <1> QED
    BY <1>3, <1>4, <1>5, <1>6, <1>7 DEF Types

LEMMA FailTypes ==
    ASSUME Types, NEW r \in BagToSet(pending), Fail(r)
    PROVE  Types'
  <1>1. RequestsFit' /\ LastOnce'
    BY DropIs DEF Fail, Types
  <1>2. PageFitsTypes'
    BY DEF Fail, Types, PageFitsTypes
  <1>3. HistoryFits'
    BY DEF Fail, Types, HistoryFits, List
  <1> QED
    BY <1>1, <1>2, <1>3, StoreKept DEF Fail, Types

LEMMA ShowTypes ==
    ASSUME Types, NEW r \in BagToSet(pending), Show(r)
    PROVE  Types'
  <1>1. RequestsFit' /\ LastOnce'
    BY DropIs DEF Show, Types
  <1>2. r \in Requests /\ RowsFit(r) /\ r.op \in List /\ r.stage = "answered"
    BY DEF Show, Types, RequestsFit
  <1>3. shown' = [shown EXCEPT ![r.op] = r.rows]
    BY DEF Show
  <1>4. /\ shown' \in [keys : SUBSET KeyRow, permissions : SUBSET PermissionRow,
                       discovered : SUBSET Use, log : SUBSET LogRow]
        /\ Cardinality(shown'.log) <= RowsPerPage
    <2>1. PageFitsTypes
      BY DEF Types
    <2>2. CASE r.op = "keys"
      BY <1>2, <1>3, <2>1, <2>2 DEF PageFitsTypes, RowsFit
    <2>3. CASE r.op = "permissions"
      BY <1>2, <1>3, <2>1, <2>3 DEF PageFitsTypes, RowsFit
    <2>4. CASE r.op = "discovered"
      BY <1>2, <1>3, <2>1, <2>4 DEF PageFitsTypes, RowsFit
    <2>5. CASE r.op = "log"
      BY <1>2, <1>3, <2>1, <2>5 DEF PageFitsTypes, RowsFit
    <2> QED
      BY <1>2, <2>2, <2>3, <2>4, <2>5 DEF List
  <1>5. page' \in Nat \ {0} /\ total' \in Nat
    BY <1>2 DEF Show, Types, PageFitsTypes, RowsFit, Requests
  <1>6. PageFitsTypes'
    BY <1>4, <1>5 DEF Show, Types, PageFitsTypes
  <1>7. walk' \in WalkType
    <2>1. CASE r.op = "log"
      BY <1>2, <2>1, WalkIs DEF Show, Types
    <2>2. CASE r.op # "log"
      BY <2>2 DEF Show, Types, HistoryFits, WalkType
    <2> QED
      BY <2>1, <2>2
  <1>8. HistoryFits'
    BY <1>2, <1>7 DEF Show, Types, HistoryFits, WalkType
  <1> QED
    BY <1>1, <1>6, <1>8, StoreKept DEF Show, Types

\* The lists a callback asks for are lists, and the log is not among them.
LEMMA RefreshIs ==
    ASSUME NEW op \in Change
    PROVE  Refresh(op) \subseteq List /\ "log" \notin Refresh(op)
  BY DEF Refresh, Change, List

LEMMA ChangedIs ==
    ASSUME Types, NEW r \in BagToSet(pending), Changed(r)
    PROVE  /\ ~ r.last /\ r.op \in Change
           /\ SendAfter({r}, Reads(Refresh(r.op), selected, 1))
           /\ Fresh(Reads(Refresh(r.op), selected, 1))
           /\ {e.op : e \in Reads(Refresh(r.op), selected, 1)} = Refresh(r.op)
           /\ \A e \in Reads(Refresh(r.op), selected, 1) : e.wallet = selected
  <1>1. r.op \in Change /\ r.op \notin List /\ Refresh(r.op) \subseteq List
    BY RefreshIs DEF Changed, Change, List
  <1>2. selected \in Wallet /\ 1 \in Nat \ {0}
    BY DEF Types, PageFitsTypes
  <1>3. /\ Fresh(Reads(Refresh(r.op), selected, 1))
        /\ {e.op : e \in Reads(Refresh(r.op), selected, 1)} = Refresh(r.op)
        /\ \A e \in Reads(Refresh(r.op), selected, 1) : e.wallet = selected
    BY <1>1, <1>2, ReadsAreFresh
  <1> QED
    BY <1>1, <1>3 DEF Changed, Types, LastOnce

LEMMA ChangedTypes ==
    ASSUME Types, NEW r \in BagToSet(pending), Changed(r)
    PROVE  Types'
  <1> DEFINE new == Reads(Refresh(r.op), selected, 1)
  <1>1. ~ r.last /\ SendAfter({r}, new) /\ Fresh(new) /\ \A e \in new : e.wallet = selected
    BY ChangedIs
  <1> HIDE DEF new
  <1>2. selected' = selected
    BY DEF Changed
  <1>3. RequestsFit' /\ LastOnce'
    BY <1>1, <1>2, SendIs DEF Types
  <1>4. PageFitsTypes'
    BY DEF Changed, Types, PageFitsTypes
  <1>5. HistoryFits'
    BY <1>1 DEF Changed, SendAfter, Types, HistoryFits
  <1> QED
    BY <1>3, <1>4, <1>5, StoreKept DEF Changed, Types

LEMMA SignTypes ==
    ASSUME Types, SignEvent
    PROVE  Types'
  <1>1. UNCHANGED <<store, cutoff, client, history>>
    BY DEF SignEvent
  <1>2. PICK k \in keys, at \in cutoff..MaxAt :
            (\A r \in log : r.at # at) /\ log' = log \cup {[at |-> at, key |-> k.id]}
    BY DEF SignEvent
  <1>3. /\ at \in 1..MaxAt /\ k.id \in Id /\ k.id < nextId
    BY <1>2, ClientAssumption DEF Types, LogFits, StoreTypeOK, KeyRow
  <1>4. LogFits'
    BY <1>1, <1>2, <1>3 DEF Types, LogFits, Stamped, LogRow, store
  <1>5. StoreTypeOK' /\ PageFitsTypes' /\ HistoryFits'
    BY <1>1 DEF Types, StoreTypeOK, PageFitsTypes, HistoryFits, store, client, history
  <1>6. RequestsFit' /\ LastOnce'
    BY <1>1 DEF Types, RequestsFit, LastOnce, client, BagToSet, IsABag
  <1> QED
    BY <1>4, <1>5, <1>6 DEF Types

LEMMA PruneTypes ==
    ASSUME Types, Prune
    PROVE  Types'
  <1>1. UNCHANGED <<store, client, history>>
    BY DEF Prune
  <1>2. LogFits'
    BY <1>1 DEF Prune, Types, LogFits, Stamped, store
  <1>3. StoreTypeOK' /\ PageFitsTypes' /\ HistoryFits'
    BY <1>1 DEF Types, StoreTypeOK, PageFitsTypes, HistoryFits, store, client, history
  <1>4. RequestsFit' /\ LastOnce'
    BY <1>1 DEF Types, RequestsFit, LastOnce, client, BagToSet, IsABag
  <1> QED
    BY <1>2, <1>3, <1>4 DEF Types

LEMMA ChooseKeyTypes ==
    ASSUME Types, ChooseKey
    PROVE  Types'
  <1>1. UNCHANGED <<store, logs, selected, shown, page, total, pending, history>>
    BY DEF ChooseKey
  <1>2. PageFitsTypes'
    <2>1. \A r \in shown.keys : r.id \in Id
      BY DEF Types, PageFitsTypes, KeyRow
    <2> QED
      BY <1>1, <2>1 DEF ChooseKey, Types, PageFitsTypes
  <1>3. HistoryFits'
    BY <1>1 DEF Types, HistoryFits, history
  <1>4. RequestsFit' /\ LastOnce'
    BY <1>1 DEF Types, RequestsFit, LastOnce, BagToSet, IsABag
  <1> QED
    BY <1>1, <1>2, <1>3, <1>4, StoreKept DEF Types

LEMMA StutterTypes ==
    ASSUME Types, UNCHANGED vars
    PROVE  Types'
  <1>1. PageFitsTypes' /\ HistoryFits'
    BY DEF Types, PageFitsTypes, HistoryFits, vars, client
  <1>2. RequestsFit' /\ LastOnce'
    BY DEF Types, RequestsFit, LastOnce, BagToSet, IsABag, vars, client
  <1> QED
    BY <1>1, <1>2, StoreKept DEF Types, vars

LEMMA TypesStep == Types /\ [Next]_vars => Types'
  <1> SUFFICES ASSUME Types, [Next]_vars PROVE Types'
    OBVIOUS
  <1>1. ASSUME NEW w \in Wallet, Select(w) PROVE Types'
    BY <1>1, SelectTypes
  <1>2. ASSUME NEW n \in 1..MaxAt, TurnTo(n) PROVE Types'
    BY <1>2, TurnTypes
  <1>3. CASE AskForChange
    BY <1>3, AsksAreChanges, AskTypes
  <1>4. ASSUME NEW r \in BagToSet(pending),
               ServeRead(r) \/ ServeChange(r) \/ Fail(r) \/ Show(r) \/ Changed(r)
        PROVE  Types'
    BY <1>4, ServeReadTypes, ServeChangeTypes, FailTypes, ShowTypes, ChangedTypes
  <1> QED
    BY <1>1, <1>2, <1>3, <1>4, ChooseKeyTypes, SignTypes, PruneTypes, StutterTypes DEF Next

LEMMA TypesHold == Spec => []Types
  BY TypesStart, TypesStep, PTL DEF Spec

(***************************************************************************)
(* Whatever comes in whatever order, the page and the requests have their  *)
(* types, a page of the log shows no more rows than fit on it, and no list *)
(* is waited for twice.                                                    *)
(***************************************************************************)
THEOREM TypeCorrect == Spec => []TypeOK
  BY TypesHold, TypesAreOK, PTL

-----------------------------------------------------------------------------
(* The lists.                                                              *)

PlainList == {"keys", "permissions", "discovered"}

\* What discovery makes of permissions: the limits play no part.
Grants(rows) == {<<p.key, p.use>> : p \in rows}

\* A change of a list has begun, and the callback that asks for the list has not run.
Unseen(l) ==
    \E r \in BagToSet(pending) : r.op \in Change /\ r.stage # "sent" /\ l \in Refresh(r.op)

\* Unless a change has passed it by, the list is right, and so will be the answer to the
\* last request for it.
Right(l) ==
    l \notin missed /\ ~ Unseen(l) =>
        /\ l \in latest => shown[l] = Listing(l, selected)
        /\ \A r \in BagToSet(pending) : r.last /\ r.op = l =>
              /\ r.stage = "answered" => r.rows = Listing(l, selected)
              /\ r.stage = "half" /\ l = "discovered" => Grants(r.rows) = Grants(PermissionsOf(selected))

ListsRight == \A l \in PlainList : Right(l)

LEMMA SameGrants ==
    ASSUME NEW a, NEW b, Grants(a) = Grants(b), NEW w
    PROVE  GrantedToDefault(a, w) = GrantedToDefault(b, w)
  <1> DEFINE k == Newest(KeysOf(w)).id
             G(rows) == {p.use : p \in {q \in rows : KeysOf(w) # {} /\ q.key = k}}
  <1>1. \A rows : GrantedToDefault(rows, w) = {Required} \cap G(rows)
    BY DEF GrantedToDefault
  <1> HIDE DEF k
  <1>2. ASSUME NEW c, NEW d, Grants(c) = Grants(d)
        PROVE  G(c) \subseteq G(d)
    <2> SUFFICES ASSUME NEW p \in c, KeysOf(w) # {}, p.key = k
                 PROVE  \E q \in d : q.key = k /\ q.use = p.use
      OBVIOUS
    <2>1. <<p.key, p.use>> \in Grants(d)
      BY <1>2 DEF Grants
    <2> QED
      BY <2>1 DEF Grants
  <1>3. G(a) = G(b)
    BY <1>2
  <1> HIDE DEF G
  <1> QED
    BY <1>1, <1>3

LEMMA ListingKept ==
    ASSUME keys' = keys, permissions' = permissions, selected' = selected, NEW l \in PlainList
    PROVE  /\ Listing(l, selected)' = Listing(l, selected)
           /\ Grants(PermissionsOf(selected))' = Grants(PermissionsOf(selected))
  BY DEF Listing, KeysOf, PermissionsOf, GrantedToDefault, Grants

\* A change that asks for a list again may change it; no other list changes, save what
\* discovery says when a key comes or goes.
LEMMA ListingChanges ==
    ASSUME Types, NEW r \in BagToSet(pending), ServeChange(r), NEW l \in PlainList,
           l \notin Refresh(r.op), l \notin missed'
    PROVE  /\ Listing(l, selected)' = Listing(l, selected)
           /\ l = "discovered" => Grants(PermissionsOf(selected))' = Grants(PermissionsOf(selected))
  <1>1. /\ r \in Requests /\ r.op \in Change /\ Perform(r) /\ selected' = selected
        /\ Checked(r)
    BY DEF ServeChange, Types, RequestsFit, Checked
  <1>2. /\ r.op \notin {"create key", "delete key"} => keys' = keys
        /\ r.op = "create key" => permissions' = permissions
        /\ r.op = "update permission" => \E p \in permissions, m \in ValidLimit :
              permissions' = (permissions \ {p}) \cup {[p EXCEPT !.limit = m]}
    BY <1>1, PerformIs
  <1>3. CASE l = "keys"
    <2>1. keys' = keys
      BY <1>1, <1>2, <1>3 DEF Refresh, Change
    <2> QED
      BY <1>1, <1>3, <2>1 DEF Listing, KeysOf
  <1>4. CASE l = "permissions"
    <2>1. permissions' = permissions
      BY <1>1, <1>2, <1>4 DEF Refresh, Change
    <2> QED
      BY <1>1, <1>4, <2>1 DEF Listing, PermissionsOf
  <1>5. CASE l = "discovered"
    <2>1. r.op \notin {"create key", "delete key"}
      BY <1>5 DEF ServeChange
    <2>2. r.op = "update permission" /\ keys' = keys
      BY <1>1, <1>2, <1>5, <2>1 DEF Refresh, Change
    <2>3. PICK p \in permissions, m \in ValidLimit :
              permissions' = (permissions \ {p}) \cup {[p EXCEPT !.limit = m]}
      BY <1>2, <2>2
    <2> DEFINE n == [p EXCEPT !.limit = m]
    <2>4. n.wallet = p.wallet /\ n.key = p.key /\ n.use = p.use
      BY DEF Types, StoreTypeOK, PermissionRow
    <2>5. permissions' = (permissions \ {p}) \cup {n}
      BY <2>3
    <2> HIDE DEF n
    <2> DEFINE old == PermissionsOf(selected)
               new == PermissionsOf(selected)'
    <2>6. \A q \in old : \E t \in new : t.key = q.key /\ t.use = q.use
      BY <1>1, <2>4, <2>5 DEF PermissionsOf
    <2>7. \A q \in new : \E t \in old : t.key = q.key /\ t.use = q.use
      BY <1>1, <2>4, <2>5 DEF PermissionsOf
    <2> HIDE DEF old, new
    <2>8. Grants(new) = Grants(old)
      BY <2>6, <2>7 DEF Grants
    <2>9. GrantedToDefault(new, selected) = GrantedToDefault(old, selected)
      BY <2>8, SameGrants
    <2>10. Listing(l, selected)' = GrantedToDefault(new, selected)
      BY <1>1, <1>5, <2>2 DEF Listing, GrantedToDefault, KeysOf, new
    <2>11. Listing(l, selected) = GrantedToDefault(old, selected)
      BY <1>5 DEF Listing, old
    <2>12. Grants(PermissionsOf(selected))' = Grants(PermissionsOf(selected))
      BY <2>8 DEF Grants, old, new
    <2> QED
      BY <2>9, <2>10, <2>11, <2>12
  <1> QED
    BY <1>3, <1>4, <1>5 DEF PlainList

\* A step that neither shows nor answers the last request for the list.
LEMMA RightStays ==
    ASSUME NEW l \in PlainList, Right(l),
           l \notin missed' => l \notin missed /\ (Unseen(l) => Unseen(l)'),
           l \notin missed' /\ ~ Unseen(l)' =>
               /\ Listing(l, selected)' = Listing(l, selected)
               /\ l = "discovered" => Grants(PermissionsOf(selected))' = Grants(PermissionsOf(selected)),
           l \in latest' => l \in latest /\ shown'[l] = shown[l],
           \A e \in BagToSet(pending)' :
               e.last /\ e.op = l => e \in BagToSet(pending) \/ e.stage = "sent"
    PROVE  Right(l)'
  <1> SUFFICES ASSUME l \notin missed', ~ Unseen(l)'
               PROVE  /\ l \in latest' => shown'[l] = Listing(l, selected)'
                      /\ \A r \in BagToSet(pending)' : r.last /\ r.op = l =>
                            /\ r.stage = "answered" => r.rows = Listing(l, selected)'
                            /\ r.stage = "half" /\ l = "discovered" =>
                                  Grants(r.rows) = Grants(PermissionsOf(selected))'
    BY DEF Right, Grants
  <1>1. l \notin missed /\ ~ Unseen(l)
    OBVIOUS
  <1> QED
    BY <1>1 DEF Right

\* A list that is asked for again.
LEMMA RightAnew ==
    ASSUME NEW l \in PlainList, l \notin latest',
           \A e \in BagToSet(pending)' : e.last /\ e.op = l => e.stage = "sent"
    PROVE  Right(l)'
  BY DEF Right

\* A change that has been made is unseen as long as it is under way.
LEMMA UnseenStays ==
    ASSUME NEW l,
           \A u \in BagToSet(pending) :
               u.op \in Change /\ u.stage # "sent" /\ l \in Refresh(u.op) => u \in BagToSet(pending)'
    PROVE  Unseen(l) => Unseen(l)'
  BY DEF Unseen

\* Requests are made: the lists asked for are waited for anew, the others stay.
LEMMA SendRight ==
    ASSUME Types, NEW over, NEW new, SendAfter(over, new), Fresh(new),
           \A r \in over : r \in BagToSet(pending) /\ ~ r.last,
           \A r \in new : r.last => r.wallet = selected',
           selected' = selected \/ List \subseteq {r.op : r \in new},
           UNCHANGED store, shown' = shown, NEW l \in PlainList, Right(l),
           l \in {r.op : r \in new} \/ (\A r \in over : l \notin Refresh(r.op))
    PROVE  Right(l)'
  <1> DEFINE asked == {r.op : r \in new}
  <1>1. /\ \A e \in BagToSet(pending)' : e.last =>
              e \in new \/ (e \in BagToSet(pending) /\ e.op \notin asked)
        /\ \A e \in BagToSet(pending) \ over : ~ e.last => e \in BagToSet(pending)'
    BY SendIs DEF Types
  <1>2. latest' = latest \ asked /\ missed' = missed \ asked
    BY DEF SendAfter
  <1>3. \A e \in new : e.stage = "sent"
    BY DEF Fresh
  <1>4. CASE l \in asked
    BY <1>1, <1>2, <1>3, <1>4, RightAnew
  <1>5. CASE l \notin asked
    <2>1. selected' = selected
      BY <1>5 DEF PlainList, List
    <2>2. \A u \in BagToSet(pending) : u.op \in Change => ~ u.last
      BY DEF Types, LastOnce, Change, List
    <2>3. Unseen(l) => Unseen(l)'
      BY <1>1, <1>5, <2>2, UnseenStays
    <2>4. /\ Listing(l, selected)' = Listing(l, selected)
          /\ Grants(PermissionsOf(selected))' = Grants(PermissionsOf(selected))
      BY <2>1, ListingKept DEF store
    <2> HIDE DEF asked
    <2>5. l \notin missed' => l \notin missed
      BY <1>2, <1>5
    <2>6. l \in latest' => l \in latest /\ shown'[l] = shown[l]
      BY <1>2
    <2>7. \A e \in BagToSet(pending)' :
              e.last /\ e.op = l => e \in BagToSet(pending) \/ e.stage = "sent"
      BY <1>1, <1>3
    <2> QED
      BY <2>3, <2>4, <2>5, <2>6, <2>7, RightStays
  <1> QED
    BY <1>4, <1>5

LEMMA ServeReadRight ==
    ASSUME Types, NEW r \in BagToSet(pending), ServeRead(r), NEW l \in PlainList, Right(l)
    PROVE  Right(l)'
  <1>1. PICK s \in Requests :
              /\ Become(r, s) /\ s # r
              /\ s.op = r.op /\ s.last = r.last /\ s.wallet = r.wallet
              /\ RowsFit(s) /\ ReadStep(r, s)
    BY ServeReadIs
  <1>2. /\ UNCHANGED <<store, selected, shown, missed, latest>> /\ r.op \in List /\ r.op \notin Change
    BY DEF ServeRead, history, List, Change
  <1>3. /\ BagToSet(pending)' \subseteq BagToSet(pending) \cup {s}
        /\ BagToSet(pending) \ {r} \subseteq BagToSet(pending)'
    BY <1>1, BecomeIs DEF Types
  <1>4. /\ Listing(l, selected)' = Listing(l, selected)
        /\ Grants(PermissionsOf(selected))' = Grants(PermissionsOf(selected))
    BY <1>2, ListingKept DEF store
  <1>5. Unseen(l) => Unseen(l)'
    BY <1>2, <1>3, UnseenStays
  <1>6. CASE ~ (r.last /\ r.op = l)
    <2>1. \A e \in BagToSet(pending)' :
              e.last /\ e.op = l => e \in BagToSet(pending) \/ e.stage = "sent"
      BY <1>1, <1>3, <1>6
    <2> QED
      BY <1>2, <1>4, <1>5, <2>1, RightStays
  <1>7. CASE r.last /\ r.op = l
    <2> SUFFICES ASSUME l \notin missed, ~ Unseen(l)
                 PROVE  Right(l)'
      BY <1>2, <1>5 DEF Right
    <2>1. r.wallet = selected
      BY <1>7 DEF Types, LastOnce
    <2>2. /\ l \in latest => shown[l] = Listing(l, selected)
          /\ \A e \in BagToSet(pending) : e.last /\ e.op = l =>
                /\ e.stage = "answered" => e.rows = Listing(l, selected)
                /\ e.stage = "half" /\ l = "discovered" =>
                      Grants(e.rows) = Grants(PermissionsOf(selected))
      BY DEF Right
    <2>3. /\ s.stage = "answered" => s.rows = Listing(l, selected)
          /\ s.stage = "half" /\ l = "discovered" => Grants(s.rows) = Grants(PermissionsOf(selected))
      <3>1. CASE l = "keys"
        BY <1>1, <1>7, <2>1, <3>1 DEF ReadStep, Listing
      <3>2. CASE l = "permissions"
        BY <1>1, <1>7, <2>1, <3>2 DEF ReadStep, Listing
      <3>3. CASE l = "discovered" /\ r.stage = "half"
        <4>1. Grants(r.rows) = Grants(PermissionsOf(selected))
          BY <1>7, <2>2, <3>3
        <4>2. s.stage = "answered" /\ s.rows = GrantedToDefault(r.rows, selected)
          BY <1>1, <1>7, <2>1, <3>3 DEF ReadStep
        <4> QED
          BY <3>3, <4>1, <4>2, SameGrants DEF Listing
      <3>4. CASE l = "discovered" /\ r.stage # "half"
        <4>1. s.stage = "half" /\ s.rows = PermissionsOf(selected)
          BY <1>1, <1>7, <2>1, <3>4 DEF ReadStep
        <4> QED
          BY <4>1
      <3> QED
        BY <3>1, <3>2, <3>3, <3>4 DEF PlainList
    <2>4. /\ l \in latest' => shown'[l] = Listing(l, selected)
          /\ \A e \in BagToSet(pending)' : e.last /\ e.op = l =>
                /\ e.stage = "answered" => e.rows = Listing(l, selected)
                /\ e.stage = "half" /\ l = "discovered" =>
                      Grants(e.rows) = Grants(PermissionsOf(selected))
      BY <1>2, <1>3, <2>2, <2>3
    <2> QED
      BY <1>4, <2>4 DEF Right, Grants
  <1> QED
    BY <1>6, <1>7

LEMMA ServeChangeRight ==
    ASSUME Types, NEW r \in BagToSet(pending), ServeChange(r), NEW l \in PlainList, Right(l)
    PROVE  Right(l)'
  <1> DEFINE s == Further(r)
  <1>1. /\ s \in Requests /\ s # r /\ Become(r, s) /\ RowsFit(s) /\ ~ r.last
        /\ s.op = r.op /\ s.last = r.last /\ s.wallet = r.wallet /\ s.stage # "sent"
    BY ServeChangeIs
  <1> HIDE DEF s
  <1>2. /\ s \in BagToSet(pending)'
        /\ BagToSet(pending)' \subseteq BagToSet(pending) \cup {s}
        /\ BagToSet(pending) \ {r} \subseteq BagToSet(pending)'
    BY <1>1, BecomeIs DEF Types
  <1>3. /\ UNCHANGED <<selected, shown, latest>> /\ r.op \in Change
        /\ l \notin missed' => l \notin missed
    BY DEF ServeChange
  <1>4. l \in Refresh(r.op) => Unseen(l)'
    BY <1>1, <1>2, <1>3 DEF Unseen
  <1>5. Unseen(l) => Unseen(l)'
    BY <1>2, <1>4 DEF Unseen
  <1>6. l \notin missed' /\ ~ Unseen(l)' =>
            /\ Listing(l, selected)' = Listing(l, selected)
            /\ l = "discovered" => Grants(PermissionsOf(selected))' = Grants(PermissionsOf(selected))
    BY <1>4, ListingChanges
  <1>7. \A e \in BagToSet(pending)' :
            e.last /\ e.op = l => e \in BagToSet(pending) \/ e.stage = "sent"
    BY <1>1, <1>2
  <1> QED
    BY <1>3, <1>5, <1>6, <1>7, RightStays

LEMMA FailRight ==
    ASSUME Types, NEW r \in BagToSet(pending), Fail(r), NEW l \in PlainList, Right(l)
    PROVE  Right(l)'
  <1>1. /\ BagToSet(pending)' \subseteq BagToSet(pending)
        /\ BagToSet(pending) \ {r} \subseteq BagToSet(pending)'
    BY DropIs DEF Fail, Types
  <1>2. UNCHANGED <<store, selected, shown, latest>>
    BY DEF Fail
  <1>3. l \notin missed' => l \notin missed /\ ~ (r.op \in Change /\ r.stage # "sent")
    BY DEF Fail, PlainList, List
  <1>4. l \notin missed' => (Unseen(l) => Unseen(l)')
    BY <1>1, <1>3, UnseenStays
  <1>5. /\ Listing(l, selected)' = Listing(l, selected)
        /\ Grants(PermissionsOf(selected))' = Grants(PermissionsOf(selected))
    BY <1>2, ListingKept DEF store
  <1> QED
    BY <1>1, <1>2, <1>3, <1>4, <1>5, RightStays

LEMMA ShowRight ==
    ASSUME Types, NEW r \in BagToSet(pending), Show(r), NEW l \in PlainList, Right(l)
    PROVE  Right(l)'
  <1>1. /\ BagToSet(pending)' \subseteq BagToSet(pending)
        /\ BagToSet(pending) \ {r} \subseteq BagToSet(pending)'
    BY DropIs DEF Show, Types
  <1>2. /\ UNCHANGED <<store, selected, missed>> /\ r.op \in List /\ r.op \notin Change
        /\ r.stage = "answered" /\ shown' = [shown EXCEPT ![r.op] = r.rows]
        /\ latest' = IF r.last THEN latest \cup {r.op} ELSE latest \ {r.op}
    BY DEF Show, List, Change
  <1>3. Unseen(l) => Unseen(l)'
    BY <1>1, <1>2, UnseenStays
  <1>4. /\ Listing(l, selected)' = Listing(l, selected)
        /\ Grants(PermissionsOf(selected))' = Grants(PermissionsOf(selected))
    BY <1>2, ListingKept DEF store
  <1>5. l \in DOMAIN shown
    BY DEF Types, PageFitsTypes, PlainList
  <1>6. CASE r.op # l
    <2>1. l \in latest' => l \in latest /\ shown'[l] = shown[l]
      BY <1>2, <1>5, <1>6
    <2> QED
      BY <1>1, <1>2, <1>3, <1>4, <2>1, RightStays
  <1>7. CASE r.op = l /\ ~ r.last
    <2>1. l \notin latest'
      BY <1>2, <1>7
    <2> QED
      BY <1>1, <1>2, <1>3, <1>4, <2>1, RightStays
  <1>8. CASE r.op = l /\ r.last
    <2> SUFFICES ASSUME l \notin missed, ~ Unseen(l)
                 PROVE  Right(l)'
      BY <1>2, <1>3 DEF Right
    <2>1. \A e \in BagToSet(pending) : e.last /\ e.op = l =>
              /\ e.stage = "answered" => e.rows = Listing(l, selected)
              /\ e.stage = "half" /\ l = "discovered" =>
                    Grants(e.rows) = Grants(PermissionsOf(selected))
      BY DEF Right
    <2>2. shown'[l] = Listing(l, selected)
      BY <1>2, <1>5, <1>8, <2>1
    <2> QED
      BY <1>1, <1>4, <2>1, <2>2 DEF Right, Grants
  <1> QED
    BY <1>6, <1>7, <1>8

\* A step that leaves the requests, the lists and what they show alone.
LEMMA QuietRight ==
    ASSUME Types, NEW l \in PlainList, Right(l),
           UNCHANGED <<store, selected, shown, pending, latest, missed>>
    PROVE  Right(l)'
  <1>1. BagToSet(pending)' = BagToSet(pending)
    BY DEF BagToSet
  <1>2. /\ Listing(l, selected)' = Listing(l, selected)
        /\ Grants(PermissionsOf(selected))' = Grants(PermissionsOf(selected))
    BY ListingKept DEF store
  <1>3. Unseen(l) => Unseen(l)'
    BY <1>1, UnseenStays
  <1> QED
    BY <1>1, <1>2, <1>3, RightStays

LEMMA ListsStart == Init => ListsRight
  <1> SUFFICES ASSUME Init, NEW l \in PlainList PROVE Right(l)
    BY DEF ListsRight
  <1>1. shown[l] = Listing(l, selected)
    BY DEF Init, PlainList, Listing
  <1>2. BagToSet(pending) = Reads({"log"}, FirstWallet, 1)
    BY DEF Init, BagToSet, SetToBag
  <1>3. \A r \in BagToSet(pending) : r.op # l
    BY <1>2 DEF Reads, Request, PlainList
  <1> QED
    BY <1>1, <1>3 DEF Right

LEMMA ListsStep == Types /\ ListsRight /\ [Next]_vars => ListsRight'
  <1> SUFFICES ASSUME Types, [Next]_vars, NEW l \in PlainList, Right(l) PROVE Right(l)'
    BY DEF ListsRight
  <1>1. ASSUME NEW w \in Wallet, Select(w) PROVE Right(l)'
    <2> DEFINE new == Reads(List, w, page)
    <2>1. SendAfter({}, new) /\ selected' = w /\ UNCHANGED store /\ shown' = shown
      BY <1>1 DEF Select, Send
    <2>2. page \in Nat \ {0}
      BY DEF Types, PageFitsTypes
    <2>3. Fresh(new) /\ {r.op : r \in new} = List /\ \A r \in new : r.wallet = w
      BY <2>2, ReadsAreFresh
    <2> HIDE DEF new
    <2>4. List \subseteq {r.op : r \in new} /\ l \in {r.op : r \in new}
      BY <2>3 DEF PlainList, List
    <2>5. \A r \in new : r.last => r.wallet = selected'
      BY <2>1, <2>3
    <2> QED
      BY <2>1, <2>3, <2>4, <2>5, SendRight
  <1>2. ASSUME NEW n \in 1..MaxAt, TurnTo(n) PROVE Right(l)'
    <2> DEFINE new == Reads({"log"}, selected, n)
    <2>1. SendAfter({}, new) /\ selected' = selected /\ UNCHANGED store /\ shown' = shown
      BY <1>2 DEF TurnTo, Send
    <2>2. {"log"} \subseteq List /\ n \in Nat \ {0} /\ selected \in Wallet
      BY DEF List, Types, PageFitsTypes
    <2>3. Fresh(new) /\ \A r \in new : r.wallet = selected
      BY <2>2, ReadsAreFresh
    <2> HIDE DEF new
    <2> QED
      BY <2>1, <2>3, SendRight
  <1>3. CASE AskForChange
    <2>1. PICK op \in Change, k \in Nat : Ask(op, k)
      BY <1>3, AsksAreChanges
    <2> DEFINE new == {Request(op, selected, k)}
    <2>2. SendAfter({}, new) /\ selected' = selected /\ UNCHANGED store /\ shown' = shown
      BY <2>1 DEF Ask, Send
    <2>3. Fresh(new) /\ \A r \in new : ~ r.last
      BY ChangeIsFresh DEF Types, PageFitsTypes
    <2> HIDE DEF new
    <2> QED
      BY <2>2, <2>3, SendRight
  <1>4. ASSUME NEW r \in BagToSet(pending), Changed(r) PROVE Right(l)'
    <2> DEFINE new == Reads(Refresh(r.op), selected, 1)
    <2>1. /\ ~ r.last /\ SendAfter({r}, new) /\ Fresh(new) /\ {e.op : e \in new} = Refresh(r.op)
          /\ \A e \in new : e.wallet = selected
      BY <1>4, ChangedIs
    <2> HIDE DEF new
    <2>2. selected' = selected /\ UNCHANGED store /\ shown' = shown
      BY <1>4 DEF Changed
    <2>3. l \in {e.op : e \in new} \/ \A e \in {r} : l \notin Refresh(e.op)
      BY <2>1
    <2> QED
      BY <2>1, <2>2, <2>3, SendRight
  <1>5. CASE ChooseKey \/ SignEvent \/ Prune \/ UNCHANGED vars
    <2>1. UNCHANGED <<store, selected, shown, pending, latest, missed>>
      BY <1>5 DEF ChooseKey, SignEvent, Prune, vars, client, history
    <2> QED
      BY <2>1, QuietRight
  <1> QED
    BY <1>1, <1>2, <1>3, <1>4, <1>5, ServeReadRight, ServeChangeRight, FailRight, ShowRight DEF Next

LEMMA ListsHold == Spec => [](Types /\ ListsRight)
  BY TypesStart, ListsStart, TypesStep, ListsStep, PTL DEF Spec

(***************************************************************************)
(* A list is right, and that of the selected wallet, once the answer to    *)
(* the last request for it is the one shown and no callback is still due.  *)
(***************************************************************************)
THEOREM ListsComeRight == Spec => []PageIsRight
  <1>1. ListsRight => PageIsRight
    <2> SUFFICES ASSUME ListsRight, NEW l \in PlainList, Settled(l)
                 PROVE  shown[l] = Listing(l, selected)
      BY DEF PageIsRight, PlainList
    <2>1. l \in latest /\ l \notin missed /\ ~ Unseen(l)
      BY DEF Settled, Unseen
    <2> QED
      BY <2>1 DEF ListsRight, Right
  <1> QED
    BY <1>1, ListsHold, PTL

-----------------------------------------------------------------------------
(* Walks through the log.                                                  *)

\* Rows that were listed: a row that is gone is too old to come again.
Past(rows) == \A x \in rows : x \in log \/ x.at < cutoff

\* Without a deletion, a walk up to a page has seen what is on it and the ones before ...
PassedBy(w) ==
    w.upTo > 0 /\ w.deletions = deletions =>
        \A x \in w.had \cap Listed(selected) :
            Newer(x, Listed(selected)) < w.upTo * RowsPerPage => x \in w.seen

\* ... and all there is if there are no more pages.
Through(w, n) ==
    w.upTo * RowsPerPage >= n /\ w.upTo > 0 /\ w.deletions = deletions =>
        w.had \cap Listed(selected) \subseteq w.seen

WalkFits(w) == w \in WalkType /\ w.deletions <= deletions /\ Past(w.had)

WalkGoes(r) ==
    /\ r.deletions <= deletions /\ Past(r.had)
    /\ r.last /\ r.stage # "sent" => PassedBy(Walk(r))
    /\ r.last /\ r.stage = "answered" => Through(Walk(r), r.total)

Walks ==
    /\ WalkFits(walk) /\ PassedBy(walk) /\ Through(walk, total)
    /\ \A r \in BagToSet(pending) : r.op = "log" => WalkGoes(r)

\* No row comes back to the list, and none gets nearer to its top.
Sinks(had) ==
    \A x \in had \cap Listed(selected)' :
        /\ x \in Listed(selected)
        /\ Newer(x, Listed(selected)') >= Newer(x, Listed(selected))

\* How the log moves: rows that were listed sink, or a key is deleted.
Moves ==
    \A had \in SUBSET LogRow : Past(had) =>
        /\ Past(had)'
        /\ \/ deletions' = deletions /\ Sinks(had)
           \/ deletions' = deletions + 1

LEMMA NewerGrows ==
    ASSUME NEW a, NEW b, Stamped(a), Stamped(b), NEW x,
           {s \in a : s.at > x.at} \subseteq b
    PROVE  Newer(x, b) >= Newer(x, a)
  <1> DEFINE A == {s \in a : s.at > x.at}
             B == {s \in b : s.at > x.at}
  <1>1. IsFiniteSet(a) /\ IsFiniteSet(b)
    BY StampedFinite
  <1>2. IsFiniteSet(A) /\ IsFiniteSet(B)
    BY <1>1, FS_Subset
  <1>3. A \in SUBSET B
    OBVIOUS
  <1>4. Cardinality(A) \in Nat /\ Cardinality(B) \in Nat /\ Cardinality(A) <= Cardinality(B)
    BY <1>2, <1>3, FS_Subset, FS_CardinalityType
  <1> QED
    BY <1>4 DEF Newer

LEMMA LogMoves ==
    ASSUME Types, Types', selected' = selected, deletions' = deletions, keys' = keys,
           \/ \E y : /\ log' = log \cup {y} /\ cutoff' = cutoff
                     /\ y.at >= cutoff /\ \A x \in log : x.at # y.at
           \/ log' = {x \in log : x.at >= cutoff'} /\ cutoff' > cutoff
    PROVE  Moves
  <1> SUFFICES ASSUME NEW had \in SUBSET LogRow, Past(had)
               PROVE  Past(had)' /\ Sinks(had)
    BY DEF Moves
  <1>1. /\ \A x \in had : x.at \in Int
        /\ \A x \in log \cup log' : x.at \in Int
        /\ cutoff \in Int /\ cutoff' \in Int
    BY DEF LogRow, Types, LogFits, Stamped
  <1>2. Stamped(Listed(selected)) /\ Stamped(Listed(selected)')
    BY DEF Types, LogFits, Stamped, Listed
  <1>3. /\ \A x : x \in Listed(selected) <=> x \in log /\ OwnedKey(keys, selected, x.key)
        /\ \A x : x \in Listed(selected)' <=> x \in log' /\ OwnedKey(keys, selected, x.key)
    BY DEF Listed, OwnedKey
  <1>4. \A x \in had : x \in log' => x \in log
    BY <1>1 DEF Past
  <1>5. Past(had)'
    BY <1>1 DEF Past
  <1>6. ASSUME NEW x \in had, x \in Listed(selected)'
        PROVE  /\ x \in Listed(selected)
               /\ Newer(x, Listed(selected)') >= Newer(x, Listed(selected))
    <2>1. x \in Listed(selected)
      BY <1>3, <1>4, <1>6
    <2>2. x \in log'
      BY <1>3, <1>6
    <2>3. \A s \in log : s.at > x.at => s \in log'
      BY <1>1, <2>2
    <2>4. {s \in Listed(selected) : s.at > x.at} \subseteq Listed(selected)'
      BY <1>3, <2>3
    <2> QED
      BY <1>2, <2>1, <2>4, NewerGrows
  <1> QED
    BY <1>5, <1>6 DEF Sinks

LEMMA LogStands ==
    ASSUME Types, UNCHANGED <<log, cutoff, selected>>,
           \/ deletions' = deletions /\ Listed(selected)' = Listed(selected)
           \/ deletions' = deletions + 1
    PROVE  Moves
  <1>1. \A x \in Listed(selected) : Newer(x, Listed(selected)) \in Nat
    BY ListedIs, NewerIs
  <1> QED
    BY <1>1 DEF Moves, Past, Sinks

\* No row of the log is of the key that will be made next.
LEMMA NoRowBefore ==
    ASSUME Types
    PROVE  \A x \in log : x.key # nextId
  <1>1. nextId \in Nat
    BY StoreAssumption DEF Types, StoreTypeOK
  <1>2. \A x \in log : x.key \in Nat /\ x.key < nextId
    BY StoreAssumption DEF Types, LogFits, Stamped, LogRow, Id
  <1> QED
    BY <1>1, <1>2

\* Without a key deleted, the wallet's log stays as it is.
LEMMA ListedKept ==
    ASSUME Types, NEW r \in BagToSet(pending), ServeChange(r), r.stage # "half"
    PROVE  Listed(selected)' = Listed(selected)
  <1>1. /\ r \in Requests /\ Perform(r) /\ r.op \in Change /\ selected' = selected /\ log' = log
        /\ Checked(r)
    BY DEF ServeChange, Types, RequestsFit, Checked, logs
  <1>2. CASE r.op = "create key"
    <2> DEFINE n == [id |-> nextId, wallet |-> r.wallet]
    <2>1. keys' = keys \cup {n} /\ n.id = nextId
      BY <1>1, <1>2, PerformIs
    <2> HIDE DEF n
    <2>2. \A x \in log : x.key # nextId
      BY NoRowBefore
    <2>3. \A x \in log : OwnedKey(keys', selected, x.key) <=> OwnedKey(keys, selected, x.key)
      BY <2>1, <2>2 DEF OwnedKey
    <2> QED
      BY <1>1, <2>3 DEF Listed, OwnedKey
  <1>3. CASE r.op # "create key"
    <2>1. keys' = keys
      BY <1>1, <1>3, PerformIs
    <2> QED
      BY <1>1, <2>1 DEF Listed, OwnedKey
  <1> QED
    BY <1>2, <1>3

\* A walk that stays as it is, while the log moves.
LEMMA WalkStays ==
    ASSUME Types, Types', Moves, selected' = selected, NEW w, WalkFits(w)
    PROVE  /\ WalkFits(w)'
           /\ PassedBy(w) => PassedBy(w)'
           /\ \A n \in Nat : Through(w, n) => Through(w, n)'
  <1>1. /\ w \in WalkType /\ w.had \in SUBSET LogRow /\ w.deletions \in Nat /\ w.upTo \in Nat
        /\ w.deletions <= deletions /\ Past(w.had) /\ deletions \in Nat
    BY DEF WalkFits, WalkType, Types, HistoryFits
  <1>2. /\ Past(w.had)'
        /\ \/ deletions' = deletions /\ Sinks(w.had)
           \/ deletions' = deletions + 1
    BY <1>1 DEF Moves
  <1>3. w.deletions <= deletions'
    BY <1>1, <1>2
  <1>4. WalkFits(w)'
    BY <1>1, <1>2, <1>3 DEF WalkFits, WalkType, Past
  <1>5. CASE deletions' = deletions + 1
    <2>1. w.deletions # deletions'
      BY <1>1, <1>5
    <2> QED
      BY <1>4, <2>1 DEF PassedBy, Through
  <1>6. CASE deletions' = deletions /\ Sinks(w.had)
    <2>1. w.had \cap Listed(selected)' \subseteq w.had \cap Listed(selected)
      BY <1>6 DEF Sinks
    <2>2. \A n \in Nat : Through(w, n) => Through(w, n)'
      BY <1>6, <2>1 DEF Through
    <2>3. ASSUME PassedBy(w), w.upTo > 0, w.deletions = deletions,
                 NEW x \in w.had \cap Listed(selected)',
                 Newer(x, Listed(selected)') < w.upTo * RowsPerPage
          PROVE  x \in w.seen
      <3>1. /\ x \in w.had \cap Listed(selected)
            /\ Newer(x, Listed(selected)') >= Newer(x, Listed(selected))
        BY <1>6, <2>3 DEF Sinks
      <3>2. Newer(x, Listed(selected)) \in Nat /\ w.upTo * RowsPerPage \in Nat
        BY <1>1, <3>1, ListedIs, NewerIs, ClientAssumption
      <3>3. Newer(x, Listed(selected)') \in Nat
        <4>1. Stamped(Listed(selected)')
          BY DEF Types, LogFits, Stamped, Listed
        <4> QED
          BY <2>3, <4>1, NewerIs
      <3>4. Newer(x, Listed(selected)) < w.upTo * RowsPerPage
        BY <2>3, <3>1, <3>2, <3>3
      <3> QED
        BY <2>3, <3>1, <3>4 DEF PassedBy
    <2>4. PassedBy(w) => PassedBy(w)'
      BY <1>6, <2>3 DEF PassedBy
    <2> QED
      BY <1>4, <2>2, <2>4
  <1> QED
    BY <1>2, <1>5, <1>6

\* A walk that has passed by as many rows as there are is through.
LEMMA PassedThrough ==
    ASSUME Types, NEW w \in WalkType, PassedBy(w)
    PROVE  Through(w, Cardinality(Listed(selected)))
  <1> SUFFICES ASSUME w.upTo * RowsPerPage >= Cardinality(Listed(selected)),
                      w.upTo > 0, w.deletions = deletions,
                      NEW x \in w.had \cap Listed(selected)
               PROVE  x \in w.seen
    BY DEF Through
  <1>1. /\ Newer(x, Listed(selected)) \in Nat
        /\ Newer(x, Listed(selected)) < Cardinality(Listed(selected))
        /\ Cardinality(Listed(selected)) \in Nat
    BY ListedIs, NewerIs
  <1>2. w.upTo * RowsPerPage \in Nat
    BY ClientAssumption DEF WalkType
  <1>3. Newer(x, Listed(selected)) < w.upTo * RowsPerPage
    BY <1>1, <1>2
  <1> QED
    BY <1>3 DEF PassedBy

\* What the last request for a page would make of the walk.
LEMMA WalkWould ==
    ASSUME Types, Walks, NEW r \in Requests, RowsFit(r), r.op = "log", r.deletions <= deletions, Past(r.had)
    PROVE  WalkFits(Walk(r))
  <1>1. Walk(r) \in WalkType
    BY WalkIs DEF Types
  <1>2. walk.deletions <= deletions /\ Past(walk.had) /\ deletions \in Nat /\ walk \in WalkType
    BY DEF Walks, WalkFits, Types, HistoryFits
  <1>3. CASE r.last /\ r.about = 1
    BY <1>1, <1>3 DEF Walk, WalkFits
  <1>4. CASE r.last /\ r.about > 1 /\ r.about = walk.upTo + 1
    <2>1. Walk(r) = [walk EXCEPT !.upTo = r.about, !.seen = walk.seen \cup r.rows]
      BY <1>4 DEF Walk
    <2>2. Walk(r).deletions = walk.deletions /\ Walk(r).had = walk.had
      BY <1>2, <2>1 DEF WalkType
    <2> QED
      BY <1>1, <1>2, <2>2 DEF WalkFits
  <1>5. CASE ~ (r.last /\ r.about = 1) /\ ~ (r.last /\ r.about > 1 /\ r.about = walk.upTo + 1)
    <2>1. Walk(r) = NoWalk
      BY <1>5 DEF Walk
    <2> QED
      BY <1>1, <1>2, <2>1 DEF WalkFits, NoWalk, Past
  <1> QED
    BY <1>3, <1>4, <1>5

\* A step that neither shows nor answers the last request for a page.
LEMMA WalksStay ==
    ASSUME Types, Types', Walks, Moves, UNCHANGED <<selected, walk, total>>,
           \A e \in BagToSet(pending)' : e.op = "log" =>
               /\ e.deletions <= deletions /\ Past(e.had)
               /\ e.last => e \in BagToSet(pending) \/ e.stage = "sent"
    PROVE  Walks'
  <1>1. WalkFits(walk) /\ PassedBy(walk) /\ Through(walk, total) /\ total \in Nat
    BY DEF Walks, Types, PageFitsTypes
  <1>2. WalkFits(walk)' /\ PassedBy(walk)' /\ Through(walk, total)'
    <2>1. PICK w : w = walk
      OBVIOUS
    <2>2. PICK n : n = total
      OBVIOUS
    <2>3. WalkFits(w) /\ PassedBy(w) /\ Through(w, n) /\ n \in Nat
      BY <1>1, <2>1, <2>2
    <2>4. WalkFits(w)' /\ PassedBy(w)' /\ Through(w, n)'
      BY <2>3, WalkStays
    <2>5. w = walk' /\ n = total'
      BY <2>1, <2>2
    <2> QED
      BY <2>4, <2>5 DEF WalkFits, PassedBy, Through, Past
  <1>3. ASSUME NEW e \in BagToSet(pending)', e.op = "log"
        PROVE  WalkGoes(e)'
    <2>1. e.deletions <= deletions /\ Past(e.had) /\ e.had \in SUBSET LogRow /\ e.deletions \in Nat
      BY <1>3 DEF Types, RequestsFit, Requests
    <2>2. deletions \in Nat /\ Past(e.had)' /\ (deletions' = deletions \/ deletions' = deletions + 1)
      BY <2>1 DEF Moves, Types, HistoryFits
    <2>3. e.deletions <= deletions'
      BY <2>1, <2>2
    <2>4. ASSUME e.last, e.stage # "sent"
          PROVE  /\ PassedBy(Walk(e))'
                 /\ e.stage = "answered" => Through(Walk(e), e.total)'
      <3>1. e \in BagToSet(pending) /\ e \in Requests /\ RowsFit(e) /\ e.total \in Nat
        BY <1>3, <2>4 DEF Types, RequestsFit, Requests
      <3>2. WalkFits(Walk(e)) /\ PassedBy(Walk(e)) /\ (e.stage = "answered" => Through(Walk(e), e.total))
        BY <1>3, <2>1, <2>4, <3>1, WalkWould DEF Walks, WalkGoes
      <3>3. PICK w : w = Walk(e)
        OBVIOUS
      <3>4. w = Walk(e)'
        BY <3>3 DEF Walk
      <3>5. PassedBy(w)' /\ (e.stage = "answered" => Through(w, e.total)')
        BY <3>1, <3>2, <3>3, WalkStays
      <3> QED
        BY <3>4, <3>5 DEF PassedBy, Through
    <2> QED
      BY <2>2, <2>3, <2>4 DEF WalkGoes, Past
  <1> QED
    BY <1>2, <1>3 DEF Walks

\* The page a request reads carries the walk on ...
LEMMA PageReached ==
    ASSUME Types, Walks, NEW s \in Requests, s.op = "log", RowsFit(s),
           s.rows = PageOf(selected, s.about), s.had = Listed(selected), s.deletions = deletions
    PROVE  PassedBy(Walk(s))
  <1>1. /\ s.about \in Nat \ {0} /\ RowsPerPage \in Nat \ {0}
        /\ walk \in WalkType /\ walk.upTo \in Nat
    BY ClientAssumption DEF RowsFit, Requests, Walks, WalkFits, WalkType
  <1>2. \A x \in Listed(selected) : Newer(x, Listed(selected)) \in Nat
    BY ListedIs, NewerIs
  <1>3. \A x \in Listed(selected) :
            /\ Newer(x, Listed(selected)) >= (s.about - 1) * RowsPerPage
            /\ Newer(x, Listed(selected)) < s.about * RowsPerPage
            => x \in s.rows
    BY DEF PageOf
  <1>4. CASE s.last /\ s.about = 1
    <2>1. Walk(s) = [upTo |-> 1, seen |-> s.rows, had |-> s.had, deletions |-> s.deletions]
      BY <1>4 DEF Walk
    <2>2. \A x \in Listed(selected) :
              Newer(x, Listed(selected)) < 1 * RowsPerPage => x \in s.rows
      <3>1. (s.about - 1) * RowsPerPage = 0 /\ s.about * RowsPerPage = 1 * RowsPerPage
        BY <1>1, <1>4
      <3> QED
        BY <1>2, <1>3, <3>1
    <2> QED
      BY <2>1, <2>2 DEF PassedBy
  <1>5. CASE s.last /\ s.about > 1 /\ s.about = walk.upTo + 1
    <2>1. Walk(s) = [walk EXCEPT !.upTo = s.about, !.seen = walk.seen \cup s.rows]
      BY <1>5 DEF Walk
    <2>2. /\ Walk(s).upTo = s.about /\ Walk(s).seen = walk.seen \cup s.rows
          /\ Walk(s).had = walk.had /\ Walk(s).deletions = walk.deletions
      BY <1>1, <2>1 DEF WalkType
    <2>3. walk.upTo > 0 /\ (s.about - 1) * RowsPerPage = walk.upTo * RowsPerPage
      <3>1. s.about - 1 = walk.upTo
        BY <1>1, <1>5
      <3> QED
        BY <1>1, <1>5, <3>1
    <2>4. PassedBy(walk)
      BY DEF Walks
    <2>5. ASSUME walk.deletions = deletions, NEW x \in walk.had \cap Listed(selected),
                 Newer(x, Listed(selected)) < s.about * RowsPerPage
          PROVE  x \in walk.seen \cup s.rows
      <3>1. CASE Newer(x, Listed(selected)) < walk.upTo * RowsPerPage
        BY <2>3, <2>4, <2>5, <3>1 DEF PassedBy
      <3>2. CASE ~ (Newer(x, Listed(selected)) < walk.upTo * RowsPerPage)
        <4>1. Newer(x, Listed(selected)) \in Nat /\ walk.upTo * RowsPerPage \in Nat
          BY <1>1, <1>2
        <4>2. Newer(x, Listed(selected)) >= (s.about - 1) * RowsPerPage
          BY <2>3, <3>2, <4>1
        <4> QED
          BY <1>3, <2>5, <4>2
      <3> QED
        BY <3>1, <3>2
    <2> QED
      BY <2>2, <2>5 DEF PassedBy
  <1>6. CASE ~ (s.last /\ s.about = 1) /\ ~ (s.last /\ s.about > 1 /\ s.about = walk.upTo + 1)
    <2>1. Walk(s).upTo = 0
      BY <1>6 DEF Walk, NoWalk
    <2> QED
      BY <2>1 DEF PassedBy
  <1> QED
    BY <1>4, <1>5, <1>6

\* ... and the total, read after it, says whether the walk is through.
LEMMA ServeReadWalks ==
    ASSUME Types, Types', Walks, NEW r \in BagToSet(pending), ServeRead(r)
    PROVE  Walks'
  <1>1. PICK s \in Requests :
              /\ Become(r, s) /\ s # r
              /\ s.op = r.op /\ s.last = r.last /\ s.wallet = r.wallet /\ s.about = r.about
              /\ RowsFit(s) /\ ReadStep(r, s)
    BY ServeReadIs
  <1>2. UNCHANGED <<keys, log, cutoff, selected, total, walk, deletions>>
    BY DEF ServeRead, store, logs, history
  <1>3. BagToSet(pending)' \subseteq BagToSet(pending) \cup {s}
    BY <1>1, BecomeIs DEF Types
  <1>4. Listed(selected)' = Listed(selected)
    BY <1>2 DEF Listed, OwnedKey
  <1>5. r.op = "log" => WalkGoes(r)
    BY DEF Walks
  <1>6. deletions \in Nat
    BY DEF Types, HistoryFits
  <1>7. ASSUME s.op = "log" PROVE WalkGoes(s)
    <2>1. r \in Requests /\ RowsFit(r) /\ WalkGoes(r)
      BY <1>1, <1>5, <1>7 DEF Types, RequestsFit
    <2>2. s.last => s.wallet = selected
      BY <1>1 DEF Types, LastOnce
    <2>3. CASE r.stage = "sent"
      <3>1. /\ s.stage = "half" /\ s.rows = PageOf(s.wallet, s.about)
            /\ s.had = Listed(s.wallet) /\ s.deletions = deletions
        BY <1>1, <1>7, <2>3 DEF ReadStep
      <3>2. s.deletions <= deletions /\ Past(s.had)
        BY <1>6, <3>1 DEF Past, Listed
      <3>3. s.last => PassedBy(Walk(s))
        BY <1>1, <1>7, <2>2, <3>1, PageReached
      <3> QED
        BY <3>1, <3>2, <3>3 DEF WalkGoes
    <2>4. CASE r.stage # "sent"
      <3>1. /\ r.stage = "half" /\ s.stage = "answered" /\ s.total = Cardinality(Listed(s.wallet))
            /\ s.rows = r.rows /\ s.had = r.had /\ s.deletions = r.deletions
        BY <1>1, <1>7, <2>4 DEF ReadStep
      <3>2. Walk(s) = Walk(r)
        BY <1>1, <3>1 DEF Walk
      <3>3. s.deletions <= deletions /\ Past(s.had)
        BY <2>1, <3>1 DEF WalkGoes
      <3>4. s.last => PassedBy(Walk(s))
        BY <1>1, <2>1, <3>1, <3>2 DEF WalkGoes
      <3>5. Walk(s) \in WalkType
        BY <1>1, <1>7, WalkIs DEF Types
      <3>6. s.last => Through(Walk(s), s.total)
        BY <2>2, <3>1, <3>4, <3>5, PassedThrough
      <3> QED
        BY <3>3, <3>4, <3>6 DEF WalkGoes
    <2> QED
      BY <2>3, <2>4
  <1>8. WalkFits(walk)' /\ PassedBy(walk)' /\ Through(walk, total)'
    BY <1>2, <1>4 DEF Walks, WalkFits, PassedBy, Through, Past
  <1>9. ASSUME NEW e \in BagToSet(pending)', e.op = "log" PROVE WalkGoes(e)'
    <2>1. WalkGoes(e)
      BY <1>3, <1>7, <1>9 DEF Walks
    <2>2. Walk(e)' = Walk(e)
      BY <1>2 DEF Walk
    <2> QED
      BY <1>2, <1>4, <2>1, <2>2 DEF WalkGoes, PassedBy, Through, Past
  <1> QED
    BY <1>8, <1>9 DEF Walks

LEMMA ShowWalks ==
    ASSUME Types, Types', Walks, NEW r \in BagToSet(pending), Show(r), r.op = "log"
    PROVE  Walks'
  <1>1. /\ BagToSet(pending)' \subseteq BagToSet(pending)
        /\ r.last => r \notin BagToSet(pending)'
    BY DropIs DEF Show, Types
  <1>2. /\ UNCHANGED <<keys, log, cutoff, selected, deletions>>
        /\ walk' = Walk(r) /\ total' = r.total /\ r.stage = "answered"
    BY DEF Show, store, logs
  <1>3. Listed(selected)' = Listed(selected)
    BY <1>2 DEF Listed, OwnedKey
  <1>4. r \in Requests /\ RowsFit(r) /\ WalkGoes(r)
    BY DEF Types, RequestsFit, Walks
  <1>5. WalkFits(Walk(r))
    BY <1>4, WalkWould DEF WalkGoes
  <1>6. PassedBy(Walk(r)) /\ Through(Walk(r), r.total)
    <2>1. CASE r.last
      BY <1>2, <1>4, <2>1 DEF WalkGoes
    <2>2. CASE ~ r.last
      <3>1. Walk(r).upTo = 0
        BY <2>2 DEF Walk, NoWalk
      <3> QED
        BY <3>1 DEF PassedBy, Through
    <2> QED
      BY <2>1, <2>2
  <1>7. WalkFits(walk)' /\ PassedBy(walk)' /\ Through(walk, total)'
    BY <1>2, <1>3, <1>5, <1>6 DEF WalkFits, PassedBy, Through, Past
  <1>8. ASSUME NEW e \in BagToSet(pending)', e.op = "log" PROVE WalkGoes(e)'
    <2>1. WalkGoes(e)
      BY <1>1, <1>8 DEF Walks
    <2>2. CASE ~ e.last
      BY <1>2, <2>1, <2>2 DEF WalkGoes, Past
    <2>3. CASE e.last
      <3>1. ~ r.last
        BY <1>1, <1>8, <2>3 DEF Types, LastOnce
      <3>2. walk' = NoWalk
        BY <1>2, <3>1 DEF Walk
      <3>3. Walk(e)' = Walk(e) \/ Walk(e)' = NoWalk
        <4>1. CASE e.about = 1
          BY <2>3, <4>1 DEF Walk
        <4>2. CASE e.about # 1
          <5>1. ~ (e.about > 1 /\ e.about = walk'.upTo + 1)
            BY <3>2, <4>2 DEF NoWalk
          <5> QED
            BY <4>2, <5>1 DEF Walk, NoWalk
        <4> QED
          BY <4>1, <4>2
      <3>4. CASE Walk(e)' = Walk(e)
        BY <1>2, <1>3, <2>1, <3>4 DEF WalkGoes, PassedBy, Through, Past
      <3>5. CASE Walk(e)' = NoWalk
        BY <1>2, <2>1, <3>5 DEF WalkGoes, PassedBy, Through, Past, NoWalk
      <3> QED
        BY <3>3, <3>4, <3>5
    <2> QED
      BY <2>2, <2>3
  <1> QED
    BY <1>7, <1>8 DEF Walks

\* Requests are made: what has been read by the others stays.
LEMMA SentReads ==
    ASSUME Types, Walks, NEW over, NEW new, SendAfter(over, new), Fresh(new),
           \A r \in over : ~ r.last,
           \A r \in new : r.last => r.wallet = selected',
           selected' = selected \/ List \subseteq {r.op : r \in new}
    PROVE  \A e \in BagToSet(pending)' : e.op = "log" =>
               /\ e.deletions <= deletions /\ Past(e.had)
               /\ e.last => e \in BagToSet(pending) \/ e.stage = "sent"
  <1>1. /\ \A e \in BagToSet(pending)' : e.last =>
              e \in new \/ (e \in BagToSet(pending) /\ e.op \notin {r.op : r \in new})
        /\ \A e \in BagToSet(pending)' :
              \/ e \in new \cup BagToSet(pending)
              \/ \E d \in BagToSet(pending) : e = [d EXCEPT !.last = FALSE]
    BY SendIs DEF Types
  <1>2. \A e \in new : e.stage = "sent" /\ e.had = {} /\ e.deletions = 0
    BY DEF Fresh
  <1>3. deletions \in Nat
    BY DEF Types, HistoryFits
  <1>4. \A d \in BagToSet(pending) : d \in Requests /\ (d.op = "log" => d.deletions <= deletions /\ Past(d.had))
    BY DEF Types, RequestsFit, Walks, WalkGoes
  <1>5. ASSUME NEW e \in BagToSet(pending)', e.op = "log"
        PROVE  e.deletions <= deletions /\ Past(e.had)
    <2>1. CASE e \in new
      BY <1>2, <1>3, <2>1 DEF Past
    <2>2. CASE e \in BagToSet(pending)
      BY <1>4, <1>5, <2>2
    <2>3. CASE \E d \in BagToSet(pending) : e = [d EXCEPT !.last = FALSE]
      <3>1. PICK d \in BagToSet(pending) : e = [d EXCEPT !.last = FALSE]
        BY <2>3
      <3>2. d \in Requests
        BY <1>4
      <3>3. e.op = d.op /\ e.deletions = d.deletions /\ e.had = d.had
        BY <3>1, <3>2 DEF Requests
      <3> QED
        BY <1>4, <1>5, <3>3
    <2> QED
      BY <1>1, <2>1, <2>2, <2>3
  <1> QED
    BY <1>1, <1>2, <1>5

LEMMA SelectWalks ==
    ASSUME Types, Walks, NEW w \in Wallet, Select(w)
    PROVE  Walks'
  <1> DEFINE new == Reads(List, w, page)
  <1>1. /\ SendAfter({}, new) /\ selected' = w /\ walk' = NoWalk
        /\ UNCHANGED <<log, cutoff, deletions>>
    BY DEF Select, Send, logs
  <1>2. page \in Nat \ {0} /\ deletions \in Nat
    BY DEF Types, PageFitsTypes, HistoryFits
  <1>3. Fresh(new) /\ {r.op : r \in new} = List /\ \A r \in new : r.wallet = w
    BY <1>2, ReadsAreFresh
  <1> HIDE DEF new
  <1>4. List \subseteq {r.op : r \in new} /\ \A r \in new : r.last => r.wallet = selected'
    BY <1>1, <1>3
  <1>5. \A e \in BagToSet(pending)' : e.op = "log" =>
            /\ e.deletions <= deletions /\ Past(e.had)
            /\ e.last => e \in new
    <2>1. \A e \in BagToSet(pending)' : e.last => e \in new \/ e.op \notin List
      BY <1>1, <1>3, <1>4, SendIs DEF Types
    <2> QED
      BY <1>1, <1>3, <1>4, <2>1, SentReads DEF List
  <1>6. \A e \in new : e.stage = "sent"
    BY <1>3 DEF Fresh
  <1>7. WalkFits(walk)' /\ PassedBy(walk)' /\ Through(walk, total)'
    BY <1>1, <1>2 DEF WalkFits, WalkType, PassedBy, Through, NoWalk, Past
  <1>8. \A e \in BagToSet(pending)' : e.op = "log" => WalkGoes(e)'
    BY <1>1, <1>5, <1>6 DEF WalkGoes, Past
  <1> QED
    BY <1>7, <1>8 DEF Walks

\* A step of the page that leaves the tables and the walk alone.
LEMMA PageMoves ==
    ASSUME Types, UNCHANGED <<store, logs, selected, deletions>>
    PROVE  Moves
  <1>1. Listed(selected)' = Listed(selected)
    BY DEF store, logs, Listed, OwnedKey
  <1> QED
    BY <1>1, LogStands DEF logs

LEMMA WalksStart == Init => Walks
  <1> SUFFICES ASSUME Init PROVE Walks
    OBVIOUS
  <1>1. walk = NoWalk /\ deletions = 0 /\ pending = SetToBag(Reads({"log"}, FirstWallet, 1))
    BY DEF Init
  <1>2. \A r \in BagToSet(pending) : r.stage = "sent" /\ r.had = {} /\ r.deletions = 0
    BY <1>1 DEF BagToSet, SetToBag, Reads, Request
  <1>3. \A r \in BagToSet(pending) : WalkGoes(r)
    BY <1>1, <1>2 DEF WalkGoes, Past
  <1>4. WalkFits(walk) /\ PassedBy(walk) /\ Through(walk, total)
    BY <1>1 DEF WalkFits, WalkType, PassedBy, Through, NoWalk, Past
  <1> QED
    BY <1>3, <1>4 DEF Walks

LEMMA WalksStep == Types /\ Walks /\ [Next]_vars => Walks'
  <1> SUFFICES ASSUME Types, Walks, [Next]_vars PROVE Walks'
    OBVIOUS
  <1>1. Types'
    BY TypesStep
  <1>2. \A e \in BagToSet(pending) : e.op = "log" => e.deletions <= deletions /\ Past(e.had)
    BY DEF Walks, WalkGoes
  <1>3. ASSUME NEW n \in 1..MaxAt, TurnTo(n) PROVE Walks'
    <2> DEFINE new == Reads({"log"}, selected, n)
    <2>1. /\ SendAfter({}, new)
          /\ UNCHANGED <<store, logs, selected, deletions>> /\ UNCHANGED <<selected, walk, total>>
      BY <1>3 DEF TurnTo, Send
    <2>2. {"log"} \subseteq List /\ n \in Nat \ {0} /\ selected \in Wallet
      BY DEF List, Types, PageFitsTypes
    <2>3. Fresh(new) /\ \A r \in new : r.wallet = selected
      BY <2>2, ReadsAreFresh
    <2> HIDE DEF new
    <2>4. \A e \in BagToSet(pending)' : e.op = "log" =>
              /\ e.deletions <= deletions /\ Past(e.had)
              /\ e.last => e \in BagToSet(pending) \/ e.stage = "sent"
      BY <2>1, <2>3, SentReads
    <2> QED
      BY <1>1, <2>1, <2>4, PageMoves, WalksStay
  <1>4. CASE AskForChange
    <2>1. PICK op \in Change, k \in Nat : Ask(op, k)
      BY <1>4, AsksAreChanges
    <2> DEFINE new == {Request(op, selected, k)}
    <2>2. /\ SendAfter({}, new)
          /\ UNCHANGED <<store, logs, selected, deletions>> /\ UNCHANGED <<selected, walk, total>>
      BY <2>1 DEF Ask, Send
    <2>3. Fresh(new) /\ \A r \in new : ~ r.last
      BY ChangeIsFresh DEF Types, PageFitsTypes
    <2> HIDE DEF new
    <2>4. \A e \in BagToSet(pending)' : e.op = "log" =>
              /\ e.deletions <= deletions /\ Past(e.had)
              /\ e.last => e \in BagToSet(pending) \/ e.stage = "sent"
      BY <2>2, <2>3, SentReads
    <2> QED
      BY <1>1, <2>2, <2>4, PageMoves, WalksStay
  <1>5. ASSUME NEW r \in BagToSet(pending), Changed(r) PROVE Walks'
    <2> DEFINE new == Reads(Refresh(r.op), selected, 1)
    <2>1. ~ r.last /\ SendAfter({r}, new) /\ Fresh(new) /\ \A e \in new : e.wallet = selected
      BY <1>5, ChangedIs
    <2> HIDE DEF new
    <2>2. UNCHANGED <<store, logs, selected, deletions>> /\ UNCHANGED <<selected, walk, total>>
      BY <1>5 DEF Changed
    <2>3. \A e \in BagToSet(pending)' : e.op = "log" =>
              /\ e.deletions <= deletions /\ Past(e.had)
              /\ e.last => e \in BagToSet(pending) \/ e.stage = "sent"
      BY <2>1, <2>2, SentReads
    <2> QED
      BY <1>1, <2>2, <2>3, PageMoves, WalksStay
  <1>6. ASSUME NEW r \in BagToSet(pending), Fail(r) PROVE Walks'
    <2>1. BagToSet(pending)' \subseteq BagToSet(pending)
      BY <1>6, DropIs DEF Fail, Types
    <2>2. UNCHANGED <<store, logs, selected, deletions>> /\ UNCHANGED <<selected, walk, total>>
      BY <1>6 DEF Fail
    <2> QED
      BY <1>1, <1>2, <2>1, <2>2, PageMoves, WalksStay
  <1>7. ASSUME NEW r \in BagToSet(pending), Show(r), r.op # "log" PROVE Walks'
    <2>1. BagToSet(pending)' \subseteq BagToSet(pending)
      BY <1>7, DropIs DEF Show, Types
    <2>2. UNCHANGED <<store, logs, selected, deletions>> /\ UNCHANGED <<selected, walk, total>>
      BY <1>7 DEF Show
    <2> QED
      BY <1>1, <1>2, <2>1, <2>2, PageMoves, WalksStay
  <1>8. ASSUME NEW r \in BagToSet(pending), ServeChange(r) PROVE Walks'
    <2> DEFINE s == Further(r)
    <2>1. /\ s \in Requests /\ s # r /\ Become(r, s) /\ RowsFit(s)
          /\ s.op = r.op /\ s.last = r.last /\ s.wallet = r.wallet
      BY <1>8, ServeChangeIs
    <2> HIDE DEF s
    <2>2. BagToSet(pending)' \subseteq BagToSet(pending) \cup {s}
      BY <2>1, BecomeIs DEF Types
    <2>3. /\ UNCHANGED <<log, cutoff, selected>> /\ UNCHANGED <<selected, walk, total>>
          /\ r.op \in Change /\ r.op # "log"
          /\ deletions' = IF r.stage = "half" THEN deletions + 1 ELSE deletions
      BY <1>8 DEF ServeChange, logs, Change
    <2>4. Moves
      <3>1. r.stage # "half" => Listed(selected)' = Listed(selected)
        BY <1>8, ListedKept
      <3> QED
        BY <2>3, <3>1, LogStands
    <2>5. \A e \in BagToSet(pending)' : e.op = "log" => e \in BagToSet(pending)
      BY <2>1, <2>2, <2>3
    <2> QED
      BY <1>1, <1>2, <2>3, <2>4, <2>5, WalksStay
  <1>9. CASE SignEvent \/ Prune \/ ChooseKey \/ UNCHANGED vars
    <2>1. UNCHANGED <<selected, walk, total, pending, deletions, keys>>
      BY <1>9 DEF SignEvent, Prune, ChooseKey, vars, client, store, history
    <2>2. BagToSet(pending)' = BagToSet(pending)
      BY <2>1 DEF BagToSet
    <2>3. Moves
      <3>1. CASE SignEvent
        <4>1. cutoff' = cutoff
          BY <3>1 DEF SignEvent
        <4>2. PICK k \in keys, at \in cutoff..MaxAt :
                  (\A x \in log : x.at # at) /\ log' = log \cup {[at |-> at, key |-> k.id]}
          BY <3>1 DEF SignEvent
        <4> DEFINE y == [at |-> at, key |-> k.id]
        <4>3. y.at = at /\ at >= cutoff /\ log' = log \cup {y}
          BY <4>2 DEF Types, LogFits
        <4> HIDE DEF y
        <4> QED
          BY <1>1, <2>1, <4>1, <4>2, <4>3, LogMoves
      <3>2. CASE Prune
        <4>1. log' = {x \in log : x.at >= cutoff'} /\ cutoff' > cutoff
          BY <3>2 DEF Prune, Types, LogFits
        <4> QED
          BY <1>1, <2>1, <4>1, LogMoves
      <3>3. CASE ChooseKey \/ UNCHANGED vars
        <4>1. UNCHANGED <<store, logs, selected, deletions>>
          BY <2>1, <3>3 DEF ChooseKey, vars
        <4> QED
          BY <4>1, PageMoves
      <3> QED
        BY <1>9, <3>1, <3>2, <3>3
    <2> QED
      BY <1>1, <1>2, <2>1, <2>2, <2>3, WalksStay
  <1>10. ASSUME NEW r \in BagToSet(pending), Show(r) PROVE Walks'
    BY <1>1, <1>7, <1>10, ShowWalks
  <1>11. ASSUME NEW r \in BagToSet(pending), ServeRead(r) PROVE Walks'
    BY <1>1, <1>11, ServeReadWalks
  <1>12. ASSUME NEW w \in Wallet, Select(w) PROVE Walks'
    BY <1>12, SelectWalks
  <1> QED
    BY <1>3, <1>4, <1>5, <1>6, <1>8, <1>9, <1>10, <1>11, <1>12 DEF Next

(***************************************************************************)
(* Who walks through the log of a wallet misses no row that stays, though  *)
(* rows come and are pruned meanwhile, answers come out of order, and the  *)
(* total is read after the page; unless a key is deleted.                  *)
(***************************************************************************)
THEOREM NothingSkipped == Spec => []WalkSkipsNothing
  <1>1. Walks => WalkSkipsNothing
    BY DEF Walks, Through, WalkSkipsNothing
  <1> QED
    BY <1>1, TypesStart, WalksStart, TypesStep, WalksStep, PTL DEF Spec

-----------------------------------------------------------------------------
(* The wallets.                                                            *)

\* A row belongs to one wallet: a permission to that of its key, and a key half
\* deleted to that of the request that deletes it.
Deletes(r) == r.op = "delete key" /\ r.stage = "half"

OfWallet(k, w) == k < nextId /\ \A j \in keys : j.id = k => j.wallet = w

Tenancy ==
    /\ \A j, k \in keys : j.id = k.id => j = k
    /\ \A p \in permissions : OfWallet(p.key, p.wallet)
    /\ \A r \in BagToSet(pending) : Deletes(r) => OfWallet(r.about, r.wallet)

\* A request is served: one copy less of it is under way.
LEMMA ServedOnce ==
    ASSUME Types, NEW r \in BagToSet(pending), NEW s, s # r, Become(r, s)
    PROVE  BagIn(r, pending') => pending'[r] < pending[r]
  <1> DEFINE b == pending (-) SetToBag({r})
  <1>1. IsABag(pending) /\ r \in DOMAIN pending /\ pending[r] \in Nat \ {0}
    BY DEF Types, RequestsFit, IsABag, BagToSet
  <1>2. r \in DOMAIN b => b[r] = pending[r] - 1
    BY <1>1 DEF SetToBag, (-), BagToSet
  <1>3. IsABag(b) /\ pending' = b (+) SetToBag({s})
    BY <1>1, TakeIs DEF Become
  <1> HIDE DEF b
  <1>4. BagIn(r, pending') => r \in BagToSet(b) /\ pending'[r] = b[r]
    BY <1>3, PutIs DEF BagIn
  <1> QED
    BY <1>1, <1>2, <1>4 DEF BagToSet

\* Rows that are named by an id are of the wallet of the request.
LEMMA Named ==
    ASSUME Types, Tenancy, NEW r \in BagToSet(pending), ServeChange(r), Owned(r),
           r.op \in {"delete key", "create permission", "quick setup"}
    PROVE  OfWallet(r.about, r.wallet)
  <1>1. PICK k \in keys : k.id = r.about /\ k.wallet = r.wallet
    BY DEF Owned, OwnedKey
  <1>2. k.id < nextId
    BY DEF Types, StoreTypeOK
  <1> QED
    BY <1>1, <1>2 DEF OfWallet, Tenancy

\* What a change does to the rows, for the wallet it was sent with.
LEMMA Touches ==
    ASSUME Types, Tenancy, NEW r \in BagToSet(pending), ServeChange(r)
    PROVE  /\ \A x \in (keys \ keys') \cup (permissions \ permissions') \cup (permissions' \ permissions) :
                 x.wallet = r.wallet
           /\ \A p \in permissions' \ permissions : OfWallet(p.key, p.wallet)
           /\ \/ keys' \subseteq keys /\ (Deletes(Further(r)) => OfWallet(r.about, r.wallet))
              \/ keys' = keys \cup {[id |-> nextId, wallet |-> r.wallet]} /\ ~ Deletes(Further(r))
  <1>1. /\ r \in Requests /\ r.op \in Change /\ Perform(r)
        /\ \/ r.stage = "sent" /\ Owned(r)
           \/ r.stage = "half" /\ r.op = "delete key"
    BY DEF ServeChange, Types, RequestsFit
  <1>2. Further(r).op = r.op /\ (Deletes(Further(r)) <=> r.op = "delete key" /\ r.stage = "sent")
    BY ServeChangeIs DEF Deletes
  <1>3. ASSUME NEW u, NEW l, OfWallet(r.about, r.wallet), keys' = keys,
               permissions' = permissions \cup {Granted(r, u, l)}
        PROVE  /\ \A x \in (keys \ keys') \cup (permissions \ permissions') \cup (permissions' \ permissions) :
                     x.wallet = r.wallet
               /\ \A p \in permissions' \ permissions : OfWallet(p.key, p.wallet)
    <2> DEFINE n == Granted(r, u, l)
    <2>1. n.key = r.about /\ n.wallet = r.wallet
      BY DEF Granted
    <2> HIDE DEF n
    <2>2. permissions' = permissions \cup {n}
      BY <1>3 DEF n
    <2> QED
      BY <1>3, <2>1, <2>2
  <1>4. CASE r.op = "create key"
    BY <1>1, <1>2, <1>4 DEF Perform
  <1>5. CASE r.op = "delete key" /\ r.stage = "sent"
    <2>1. keys' = keys /\ permissions' = {p \in permissions : p.key # r.about}
      BY <1>1, <1>5 DEF Perform
    <2>2. PICK k \in keys : k.id = r.about /\ k.wallet = r.wallet
      BY <1>1, <1>5 DEF Owned, OwnedKey
    <2>3. \A p \in permissions : p.key = r.about => p.wallet = r.wallet
      BY <2>2 DEF Tenancy, OfWallet
    <2>4. OfWallet(r.about, r.wallet)
      BY <1>1, <1>5, Named
    <2> QED
      BY <2>1, <2>3, <2>4
  <1>6. CASE r.op = "delete key" /\ r.stage = "half"
    <2>1. keys' = {k \in keys : k.id # r.about} /\ permissions' = permissions
      BY <1>1, <1>6 DEF Perform
    <2>2. OfWallet(r.about, r.wallet)
      BY <1>6 DEF Tenancy, Deletes
    <2> QED
      BY <1>2, <1>6, <2>1, <2>2 DEF OfWallet
  <1>7. CASE r.op = "create permission"
    <2>1. GrantOne(r, Use) /\ keys' = keys
      BY <1>1, <1>7 DEF Perform
    <2>2. OfWallet(r.about, r.wallet)
      BY <1>1, <1>7, Named
    <2>3. PICK u \in Use, l \in ValidLimit : permissions' = permissions \cup {Granted(r, u, l)}
      BY <2>1 DEF GrantOne
    <2> QED
      BY <1>2, <1>3, <1>7, <2>1, <2>2, <2>3
  <1>8. CASE r.op = "quick setup"
    <2>1. keys' = keys /\ (permissions' = permissions \/ GrantOne(r, {Required}))
      BY <1>1, <1>8 DEF Perform
    <2>2. OfWallet(r.about, r.wallet)
      BY <1>1, <1>8, Named
    <2>3. CASE permissions' = permissions
      BY <1>2, <1>8, <2>1, <2>3
    <2>4. CASE GrantOne(r, {Required})
      <3>1. PICK u \in {Required}, l \in ValidLimit : permissions' = permissions \cup {Granted(r, u, l)}
        BY <2>4 DEF GrantOne
      <3> QED
        BY <1>2, <1>3, <1>8, <2>1, <2>2, <3>1
    <2> QED
      BY <2>1, <2>3, <2>4
  <1>9. CASE r.op = "update permission"
    <2>1. keys' = keys
      BY <1>1, <1>9 DEF Perform
    <2>2. PICK p \in permissions, l \in ValidLimit :
              p.id = r.about /\ permissions' = (permissions \ {p}) \cup {[p EXCEPT !.limit = l]}
      BY <1>1, <1>9 DEF Perform
    <2>3. p.wallet = r.wallet
      BY <1>1, <1>9, <2>2 DEF Owned, Types, StoreTypeOK
    <2> DEFINE n == [p EXCEPT !.limit = l]
    <2>4. n.wallet = p.wallet /\ n.key = p.key
      BY DEF Types, StoreTypeOK, PermissionRow
    <2>5. permissions' = (permissions \ {p}) \cup {n}
      BY <2>2
    <2> HIDE DEF n
    <2>6. OfWallet(n.key, n.wallet)
      BY <2>4 DEF Tenancy
    <2> QED
      BY <1>2, <1>9, <2>1, <2>3, <2>4, <2>5, <2>6
  <1>10. CASE r.op = "delete permission"
    <2>1. keys' = keys /\ permissions' = {p \in permissions : p.id # r.about}
      BY <1>1, <1>10 DEF Perform
    <2>2. \A p \in permissions : p.id = r.about => p.wallet = r.wallet
      BY <1>1, <1>10 DEF Owned, Types, StoreTypeOK
    <2> QED
      BY <1>2, <1>10, <2>1, <2>2
  <1> QED
    BY <1>1, <1>4, <1>5, <1>6, <1>7, <1>8, <1>9, <1>10 DEF Change

\* A step that leaves the tables alone, and deletes no further key.
LEMMA TenancyStays ==
    ASSUME Tenancy, UNCHANGED store,
           \A e \in BagToSet(pending)' : Deletes(e) =>
              \E d \in BagToSet(pending) : Deletes(d) /\ d.about = e.about /\ d.wallet = e.wallet
    PROVE  Tenancy'
  <1>1. UNCHANGED <<keys, permissions, nextId>>
    BY DEF store
  <1>2. ASSUME NEW e \in BagToSet(pending)', Deletes(e) PROVE OfWallet(e.about, e.wallet)
    BY <1>2 DEF Tenancy
  <1> QED
    BY <1>1, <1>2 DEF Tenancy, OfWallet, Deletes

LEMMA SendTenancy ==
    ASSUME Types, Tenancy, NEW over, NEW new, SendAfter(over, new), Fresh(new), UNCHANGED store,
           \A r \in over : ~ r.last,
           \A r \in new : r.last => r.wallet = selected',
           selected' = selected \/ List \subseteq {r.op : r \in new}
    PROVE  Tenancy'
  <1>1. \A e \in BagToSet(pending)' :
            \/ e \in new \cup BagToSet(pending)
            \/ \E d \in BagToSet(pending) : e = [d EXCEPT !.last = FALSE]
    BY SendIs DEF Types
  <1>2. \A e \in new : ~ Deletes(e)
    BY DEF Fresh, Deletes
  <1>3. ASSUME NEW d \in BagToSet(pending), NEW e, e = [d EXCEPT !.last = FALSE]
        PROVE  e.op = d.op /\ e.stage = d.stage /\ e.about = d.about /\ e.wallet = d.wallet
    BY <1>3 DEF Types, RequestsFit, Requests
  <1>4. ASSUME NEW e \in BagToSet(pending)', Deletes(e)
        PROVE  \E d \in BagToSet(pending) : Deletes(d) /\ d.about = e.about /\ d.wallet = e.wallet
    <2>1. CASE e \in new \cup BagToSet(pending)
      BY <1>2, <1>4, <2>1
    <2>2. CASE \E d \in BagToSet(pending) : e = [d EXCEPT !.last = FALSE]
      BY <1>3, <1>4, <2>2 DEF Deletes
    <2> QED
      BY <1>1, <2>1, <2>2
  <1> QED
    BY <1>4, TenancyStays

LEMMA ServeChangeTenancy ==
    ASSUME Types, Tenancy, NEW r \in BagToSet(pending), ServeChange(r)
    PROVE  Tenancy'
  <1> DEFINE s == Further(r)
  <1>1. /\ s \in Requests /\ s # r /\ Become(r, s) /\ RowsFit(s)
        /\ s.op = r.op /\ s.last = r.last /\ s.wallet = r.wallet /\ s.about = r.about
    BY ServeChangeIs
  <1>2. /\ \A p \in permissions' \ permissions : OfWallet(p.key, p.wallet)
        /\ \/ keys' \subseteq keys /\ (Deletes(s) => OfWallet(r.about, r.wallet))
           \/ keys' = keys \cup {[id |-> nextId, wallet |-> r.wallet]} /\ ~ Deletes(s)
    BY Touches
  <1> HIDE DEF s
  <1>3. BagToSet(pending)' \subseteq BagToSet(pending) \cup {s}
    BY <1>1, BecomeIs DEF Types
  <1>4. /\ nextId' >= nextId /\ nextId' \in Nat /\ nextId \in Nat
        /\ keys \subseteq KeyRow /\ \A k \in keys : k.id \in Nat /\ k.id < nextId
    <2>1. nextId' >= nextId /\ nextId' \in Nat
      BY PerformIs DEF ServeChange, Types, RequestsFit, Checked
    <2> QED
      BY <2>1, StoreAssumption DEF Types, StoreTypeOK, KeyRow, Id
  <1> DEFINE n == [id |-> nextId, wallet |-> r.wallet]
  <1>5. n.id = nextId
    OBVIOUS
  <1>6. \/ keys' \subseteq keys /\ (Deletes(s) => OfWallet(r.about, r.wallet))
        \/ keys' = keys \cup {n} /\ ~ Deletes(s)
    BY <1>2
  <1> HIDE DEF n
  <1>7. \A j, k \in keys' : j.id = k.id => j = k
    BY <1>4, <1>5, <1>6 DEF Tenancy
  <1>8. ASSUME NEW k \in Nat, NEW w, OfWallet(k, w) PROVE OfWallet(k, w)'
    BY <1>4, <1>5, <1>6, <1>8 DEF OfWallet
  <1>9. ASSUME NEW p \in permissions' PROVE OfWallet(p.key, p.wallet)'
    <2>1. OfWallet(p.key, p.wallet)
      BY <1>2 DEF Tenancy
    <2>2. p.key \in Nat
      <3>1. StoreTypeOK'
        BY PerformIs DEF ServeChange, Types, RequestsFit, Checked
      <3> QED
        BY <3>1, StoreAssumption DEF StoreTypeOK, PermissionRow, Id
    <2> QED
      BY <1>8, <2>1, <2>2
  <1>10. ASSUME NEW e \in BagToSet(pending)', Deletes(e) PROVE OfWallet(e.about, e.wallet)'
    <2>1. OfWallet(e.about, e.wallet)
      BY <1>1, <1>2, <1>3, <1>10 DEF Tenancy
    <2>2. e.about \in Nat
      BY <1>1, <1>3 DEF Types, RequestsFit, Requests
    <2> QED
      BY <1>8, <2>1, <2>2
  <1> QED
    BY <1>7, <1>9, <1>10 DEF Tenancy, Deletes

LEMMA TenancyStart == Init => Tenancy
  <1> SUFFICES ASSUME Init PROVE Tenancy
    OBVIOUS
  <1>1. keys = InitialKeys /\ permissions = InitialPermissions /\ nextId = FirstId
    BY DEF Init
  <1>2. BagToSet(pending) = Reads({"log"}, FirstWallet, 1)
    BY DEF Init, BagToSet, SetToBag
  <1>3. \A r \in BagToSet(pending) : ~ Deletes(r)
    <2>1. {"log"} \subseteq List /\ 1 \in Nat \ {0} /\ FirstWallet \in Wallet
      BY ClientAssumption DEF List
    <2>2. Fresh(Reads({"log"}, FirstWallet, 1))
      BY <2>1, ReadsAreFresh
    <2> QED
      BY <1>2, <2>2 DEF Fresh, Deletes
  <1> QED
    BY <1>1, <1>3, StartAssumption DEF Tenancy, OfWallet

\* Only a change that is served touches keys and permissions.
LEMMA Quiet ==
    ASSUME [Next]_vars, \A r \in BagToSet(pending) : ~ ServeChange(r)
    PROVE  UNCHANGED store
  BY DEF Next, vars, Select, TurnTo, ChooseKey, AskForChange, Ask, ServeRead, Fail, Show, Changed,
         SignEvent, Prune

LEMMA TenancyStep == Types /\ Tenancy /\ [Next]_vars => Tenancy'
  <1> SUFFICES ASSUME Types, Tenancy, [Next]_vars PROVE Tenancy'
    OBVIOUS
  <1>1. ASSUME NEW w \in Wallet, Select(w) PROVE Tenancy'
    <2> DEFINE new == Reads(List, w, page)
    <2>1. SendAfter({}, new) /\ selected' = w /\ UNCHANGED store
      BY <1>1 DEF Select, Send
    <2>2. page \in Nat \ {0}
      BY DEF Types, PageFitsTypes
    <2>3. Fresh(new) /\ {r.op : r \in new} = List /\ \A r \in new : r.wallet = w
      BY <2>2, ReadsAreFresh
    <2> HIDE DEF new
    <2>4. List \subseteq {r.op : r \in new} /\ \A r \in new : r.last => r.wallet = selected'
      BY <2>1, <2>3
    <2> QED
      BY <2>1, <2>3, <2>4, SendTenancy
  <1>2. ASSUME NEW n \in 1..MaxAt, TurnTo(n) PROVE Tenancy'
    <2> DEFINE new == Reads({"log"}, selected, n)
    <2>1. SendAfter({}, new) /\ selected' = selected /\ UNCHANGED store
      BY <1>2 DEF TurnTo, Send
    <2>2. {"log"} \subseteq List /\ n \in Nat \ {0} /\ selected \in Wallet
      BY DEF List, Types, PageFitsTypes
    <2>3. Fresh(new) /\ \A r \in new : r.wallet = selected
      BY <2>2, ReadsAreFresh
    <2> HIDE DEF new
    <2> QED
      BY <2>1, <2>3, SendTenancy
  <1>3. CASE AskForChange
    <2>1. PICK op \in Change, k \in Nat : Ask(op, k)
      BY <1>3, AsksAreChanges
    <2> DEFINE new == {Request(op, selected, k)}
    <2>2. SendAfter({}, new) /\ selected' = selected /\ UNCHANGED store
      BY <2>1 DEF Ask, Send
    <2>3. Fresh(new) /\ \A r \in new : ~ r.last
      BY ChangeIsFresh DEF Types, PageFitsTypes
    <2> HIDE DEF new
    <2> QED
      BY <2>2, <2>3, SendTenancy
  <1>4. ASSUME NEW r \in BagToSet(pending), Changed(r) PROVE Tenancy'
    <2> DEFINE new == Reads(Refresh(r.op), selected, 1)
    <2>1. ~ r.last /\ SendAfter({r}, new) /\ Fresh(new) /\ \A e \in new : e.wallet = selected
      BY <1>4, ChangedIs
    <2> HIDE DEF new
    <2>2. selected' = selected /\ UNCHANGED store
      BY <1>4 DEF Changed
    <2> QED
      BY <2>1, <2>2, SendTenancy
  <1>5. ASSUME NEW r \in BagToSet(pending), Fail(r) \/ Show(r) PROVE Tenancy'
    <2>1. BagToSet(pending)' \subseteq BagToSet(pending)
      BY <1>5, DropIs DEF Fail, Show, Types
    <2>2. UNCHANGED store
      BY <1>5 DEF Fail, Show
    <2> QED
      BY <2>1, <2>2, TenancyStays
  <1>6. ASSUME NEW r \in BagToSet(pending), ServeRead(r) PROVE Tenancy'
    <2>1. PICK s \in Requests :
              /\ Become(r, s) /\ s # r /\ RowsFit(s)
              /\ s.op = r.op /\ s.last = r.last /\ s.wallet = r.wallet
      BY <1>6, ServeReadIs
    <2>2. BagToSet(pending)' \subseteq BagToSet(pending) \cup {s}
      BY <2>1, BecomeIs DEF Types
    <2>3. UNCHANGED store /\ ~ Deletes(s)
      BY <1>6, <2>1 DEF ServeRead, Deletes, List
    <2> QED
      BY <2>2, <2>3, TenancyStays
  <1>7. CASE SignEvent \/ Prune \/ ChooseKey \/ UNCHANGED vars
    <2>1. UNCHANGED <<store, pending>>
      BY <1>7 DEF SignEvent, Prune, ChooseKey, vars, client
    <2>2. BagToSet(pending)' = BagToSet(pending)
      BY <2>1 DEF BagToSet
    <2> QED
      BY <2>1, <2>2, TenancyStays
  <1> QED
    BY <1>1, <1>2, <1>3, <1>4, <1>5, <1>6, <1>7, ServeChangeTenancy DEF Next

(***************************************************************************)
(* Whichever wallet's lists the page shows when a button is clicked, a     *)
(* request that is served changes rows of the wallet it was sent with only *)
(* (the checks of views_api.py against the wallet index.js has selected).  *)
(***************************************************************************)
THEOREM WalletsApart == Spec => ChangesStayInWallet
  <1>1. ASSUME Types, Tenancy, Tenancy', [Next]_vars
        PROVE  /\ \A x \in (keys \ keys') \cup (permissions \ permissions') \cup (permissions' \ permissions) :
                     \E r \in BagToSet(pending) :
                         r.op \in Change /\ r.wallet = x.wallet /\ (BagIn(r, pending') => pending'[r] < pending[r])
               /\ \A p \in permissions' \ permissions, k \in keys' : k.id = p.key => k.wallet = p.wallet
    <2>1. \A p \in permissions', k \in keys' : k.id = p.key => k.wallet = p.wallet
      BY <1>1 DEF Tenancy, OfWallet
    <2>2. CASE \A r \in BagToSet(pending) : ~ ServeChange(r)
      <3>1. keys' = keys /\ permissions' = permissions
        BY <1>1, <2>2, Quiet DEF store
      <3> QED
        BY <3>1
    <2>3. ASSUME NEW r \in BagToSet(pending), ServeChange(r)
          PROVE  \A x \in (keys \ keys') \cup (permissions \ permissions') \cup (permissions' \ permissions) :
                     \E q \in BagToSet(pending) :
                         q.op \in Change /\ q.wallet = x.wallet /\ (BagIn(q, pending') => pending'[q] < pending[q])
      <3>1. r.op \in Change
        BY <2>3 DEF ServeChange
      <3>2. BagIn(r, pending') => pending'[r] < pending[r]
        BY <1>1, <2>3, ServeChangeIs, ServedOnce
      <3> QED
        BY <1>1, <2>3, <3>1, <3>2, Touches
    <2> QED
      BY <2>1, <2>2, <2>3
  <1>2. Types /\ Tenancy /\ Tenancy' /\ [Next]_vars =>
          [/\ \A x \in (keys \ keys') \cup (permissions \ permissions') \cup (permissions' \ permissions) :
                 \E r \in BagToSet(pending) :
                     r.op \in Change /\ r.wallet = x.wallet /\ (BagIn(r, pending') => pending'[r] < pending[r])
           /\ \A p \in permissions' \ permissions, k \in keys' : k.id = p.key => k.wallet = p.wallet]_vars
    BY <1>1
  <1>3. Spec => [](Types /\ Tenancy)
    BY TypesStart, TenancyStart, TypesStep, TenancyStep, PTL DEF Spec
  <1> QED
    BY <1>2, <1>3, PTL DEF Spec, ChangesStayInWallet

=============================================================================
