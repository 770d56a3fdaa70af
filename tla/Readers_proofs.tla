--------------------------- MODULE Readers_proofs ---------------------------
(***************************************************************************)
(* The API and the fix scripts, for any tables and any writes of the       *)
(* indexers, each by itself and all as Readers starts them.                *)
(*                                                                         *)
(* Who pages through the transfers while the indexers write, a client of   *)
(* the API or the price script, misses none that had its deposit's row     *)
(* when it began: for any set of transfers, any filter that is stable and  *)
(* any length of a page.  A row whose timestamp no other row has stands,   *)
(* in whatever order the database answers, right behind those that come    *)
(* before it; their number only grows, and the invariant is that a row not *)
(* seen yet has at least as many before it as the pages read have skipped. *)
(***************************************************************************)
EXTENDS Readers, FiniteSetTheorems, TLAPS

Ahead(k, where) == {j \in Matching(where) : ComesBefore(j, k)}

-----------------------------------------------------------------------------
(* Orders and pages. *)

\* Every order has every row, once.
LEMMA OrderIsOnto ==
  ASSUME NEW S, IsFiniteSet(S), NEW o \in Orders(S)
  PROVE  /\ DOMAIN o = 1 .. Cardinality(S)
         /\ o \in [1 .. Cardinality(S) -> S]
         /\ \A i, j \in DOMAIN o : o[i] = o[j] => i = j
         /\ \A k \in S : \E i \in DOMAIN o : o[i] = k
         /\ Cardinality(S) \in Nat
<1> DEFINE n == Cardinality(S)
<1>1. n \in Nat
  BY FS_CardinalityType
<1>2. o \in [1 .. n -> S] /\ \A i, j \in 1 .. n : i # j => o[i] # o[j]
  BY DEF Orders, SetToSeqs
<1>3. o \in Injection(1 .. n, S)
  BY <1>2 DEF Injection, IsInjective
<1>4. IsFiniteSet(1 .. n) /\ Cardinality(1 .. n) = n
  BY <1>1, FS_Interval
<1>5. o \in Surjection(1 .. n, S)
  BY <1>3, <1>4, FS_Injection
<1> QED
  BY <1>1, <1>2, <1>5 DEF Surjection

\* Where a row with a timestamp of its own stands.
LEMMA Position ==
  ASSUME NEW S \in SUBSET Key, IsFiniteSet(S), NEW o \in Orders(S), NEW i \in DOMAIN o,
         o[i] \in deposits, Alone(o[i])
  PROVE  Cardinality({j \in S : ComesBefore(j, o[i])}) = i - 1
<1> DEFINE n == Cardinality(S)
           k == o[i]
           A == {j \in S : ComesBefore(j, k)}
<1>1. /\ DOMAIN o = 1 .. n /\ o \in [1 .. n -> S] /\ n \in Nat
      /\ \A g, h \in 1 .. n : o[g] = o[h] => g = h
      /\ \A j \in S : \E h \in 1 .. n : o[h] = j
  BY OrderIsOnto
<1>2. i \in 1 .. n /\ i \in Nat /\ k \in Key /\ k \in S
  BY <1>1
<1>3. \A g, h \in 1 .. n : ComesBefore(o[g], o[h]) => g < h
  BY <1>1 DEF Orders
<1>4. \A j \in S : j # k => ComesBefore(j, k) \/ ComesBefore(k, j)
  <2> SUFFICES ASSUME NEW j \in S, j # k PROVE ComesBefore(j, k) \/ ComesBefore(k, j)
    OBVIOUS
  <2>1. Time[j] # Time[k] /\ Time[j] \in Nat /\ Time[k] \in Nat
    BY <1>2, RowsAssumption DEF Alone
  <2> QED BY <2>1 DEF ComesBefore
<1>5. \A h \in 1 .. n : o[h] \in A <=> h < i
  <2> SUFFICES ASSUME NEW h \in 1 .. n PROVE o[h] \in A <=> h < i
    OBVIOUS
  <2>1. o[h] \in S
    BY <1>1
  <2>2. o[h] \in A => h < i
    BY <1>2, <1>3
  <2>3. ASSUME h < i PROVE o[h] \in A
    <3>1. o[h] # k
      BY <1>1, <1>2, <2>3
    <3>2. ~ComesBefore(k, o[h])
      BY <1>2, <1>3, <2>3
    <3> QED BY <1>4, <2>1, <3>1, <3>2
  <2> QED BY <2>2, <2>3
<1> DEFINE f == [h \in 1 .. i - 1 |-> o[h]]
<1>6. f \in [1 .. i - 1 -> A]
  <2> SUFFICES ASSUME NEW h \in 1 .. i - 1 PROVE o[h] \in A
    OBVIOUS
  <2>1. h \in 1 .. n /\ h < i
    BY <1>1, <1>2
  <2> QED BY <1>5, <2>1
<1>7. f \in Injection(1 .. i - 1, A)
  BY <1>1, <1>2, <1>6 DEF Injection, IsInjective
<1>8. f \in Surjection(1 .. i - 1, A)
  <2> SUFFICES ASSUME NEW j \in A PROVE \E h \in 1 .. i - 1 : f[h] = j
    BY <1>6 DEF Surjection
  <2>1. PICK h \in 1 .. n : o[h] = j
    BY <1>1
  <2>2. h \in 1 .. i - 1
    BY <1>2, <1>5, <2>1
  <2> QED BY <2>1, <2>2
<1>9. ExistsBijection(1 .. i - 1, A)
  BY <1>7, <1>8 DEF ExistsBijection, Bijection
<1> QED
  BY <1>2, <1>9, FS_CountingElements

\* A row that is not on a page, and that was not skipped, is behind that page; and
\* the page is not empty.
LEMMA PageOrBehind ==
  ASSUME NEW where, NEW p \in Nat \ {0}, NEW limit \in Nat \ {0},
         NEW found \in Pages(where, p, limit),
         NEW k \in Matching(where) \intersect deposits, Alone(k),
         Cardinality(Ahead(k, where)) >= Skip(p, limit)
  PROVE  /\ found # {}
         /\ k \notin found => Cardinality(Ahead(k, where)) >= Skip(p + 1, limit)
<1> DEFINE S == Matching(where)
<1>1. S \in SUBSET Key /\ IsFiniteSet(S)
  BY RowsAssumption, FS_Subset DEF Matching, Rows
<1>2. PICK o \in Orders(S) : found = Cut(o, p, limit)
  BY DEF Pages
<1>3. /\ DOMAIN o = 1 .. Cardinality(S) /\ Cardinality(S) \in Nat
      /\ \E i \in DOMAIN o : o[i] = k
  BY <1>1, OrderIsOnto
<1>4. PICK i \in DOMAIN o : o[i] = k
  BY <1>3
<1>5. Cardinality(Ahead(k, where)) = i - 1 /\ i \in Nat
  BY <1>1, <1>3, <1>4, Position DEF Ahead
<1> DEFINE skip == Skip(p, limit)
<1>6. skip \in Nat /\ Skip(p + 1, limit) = skip + limit
  BY DEF Skip
<1>7. skip < i
  BY <1>5, <1>6
<1>8. found = {o[h] : h \in {j \in DOMAIN o : skip < j /\ j <= skip + limit}}
  BY <1>2 DEF Cut
<1>9. found # {}
  <2>1. skip + 1 \in DOMAIN o /\ skip < skip + 1 /\ skip + 1 <= skip + limit
    BY <1>3, <1>5, <1>6, <1>7
  <2>2. o[skip + 1] \in found
    BY <1>8, <2>1
  <2> QED BY <2>2
<1>10. ASSUME k \notin found PROVE i > skip + limit
  <2>1. ~(skip < i /\ i <= skip + limit)
    BY <1>4, <1>8, <1>10
  <2> QED BY <1>5, <1>6, <1>7, <2>1
<1> QED
  BY <1>5, <1>6, <1>9, <1>10

-----------------------------------------------------------------------------
(* The indexers only add to what a stable filter matches, and ahead of a row. *)

LEMMA RowsTypes ==
  ASSUME RowsTypeOK, NEW k \in Key, Index(k)
  PROVE  /\ RowsTypeOK'
         /\ Rows \subseteq Rows' /\ known \subseteq known' /\ deposits \subseteq deposits'
         /\ \A j \in Key : status[j] = "executed" => status'[j] = "executed"
<1>1. CASE Indexers!Deposited(k)
  BY <1>1 DEF Indexers!Deposited, RowsTypeOK, Rows
<1>2. CASE Indexers!Failed(k)
  BY <1>2 DEF Indexers!Failed, RowsTypeOK, Rows
<1>3. CASE Indexers!Executed(k)
  BY <1>3 DEF Indexers!Executed, RowsTypeOK, Rows
<1>4. CASE Indexers!FileDeposit(k)
  BY <1>4 DEF Indexers!FileDeposit, RowsTypeOK, Rows
<1> QED
  BY <1>1, <1>2, <1>3, <1>4 DEF Index

\* A query a request can ask.
Askable(where) == Stable(where) /\ \A column \in DOMAIN where : where[column] # Null

LEMMA MatchingGrows ==
  ASSUME RowsTypeOK, NEW k \in Key, Index(k), NEW where, Askable(where)
  PROVE  Matching(where) \subseteq Matching(where)'
<1> SUFFICES ASSUME NEW j \in Matching(where) PROVE j \in Matching(where)'
  OBVIOUS
<1>1. j \in Key /\ j \in Rows /\ Matches(j, where)
  BY DEF Matching, Rows
<1>2. j \in Rows' /\ (j \in known => j \in known')
      /\ (status[j] = "executed" => status'[j] = "executed")
  BY <1>1, RowsTypes
<1>3. ASSUME NEW column \in DOMAIN where
      PROVE  where[column] \in {Undefined, Column(j, column)'}
  <2>1. where[column] \in {Undefined, Column(j, column)} /\ where[column] # Null
    BY <1>1, <1>3 DEF Matches, Askable
  <2>2. CASE column = "status"
    <3>1. where[column] \in {Undefined, "executed"}
      BY <1>3, <2>2 DEF Askable, Stable
    <3>2. Column(j, column) = status[j] /\ Column(j, column)' = status'[j]
      BY <2>2 DEF Column
    <3> QED BY <1>2, <2>1, <3>1, <3>2
  <2>3. CASE column # "status" /\ column \in {"resourceID", "accountId"}
    <3>1. Column(j, column) = (IF j \in known THEN Columns[j][column] ELSE Null)
      BY <2>3 DEF Column
    <3>2. Column(j, column)' = (IF j \in known' THEN Columns[j][column] ELSE Null)
      BY <2>3 DEF Column
    <3> QED BY <1>2, <2>1, <3>1, <3>2
  <2>4. CASE column # "status" /\ column \notin {"resourceID", "accountId"}
    <3>1. Column(j, column) = Columns[j][column] /\ Column(j, column)' = Columns[j][column]
      BY <2>4 DEF Column
    <3> QED BY <2>1, <3>1
  <2> QED BY <2>2, <2>3, <2>4
<1> QED
  BY <1>2, <1>3 DEF Matching, Matches

LEMMA AheadGrows ==
  ASSUME RowsTypeOK, NEW k \in Key, Index(k), NEW where, Askable(where),
         NEW j \in Matching(where) \intersect deposits
  PROVE  /\ j \in Matching(where)' \intersect deposits'
         /\ Cardinality(Ahead(j, where)) \in Nat
         /\ Cardinality(Ahead(j, where)') \in Nat
         /\ Cardinality(Ahead(j, where)) <= Cardinality(Ahead(j, where)')
<1>1. Matching(where) \subseteq Matching(where)' /\ deposits \subseteq deposits'
  BY MatchingGrows, RowsTypes
<1>2. Ahead(j, where) \subseteq Ahead(j, where)'
  BY <1>1 DEF Ahead, ComesBefore
<1>3. Ahead(j, where)' \subseteq Key
  BY DEF Ahead, Matching, Rows
<1>4. IsFiniteSet(Ahead(j, where)') /\ IsFiniteSet(Ahead(j, where))
  BY <1>2, <1>3, RowsAssumption, FS_Subset
<1>5. Cardinality(Ahead(j, where)) <= Cardinality(Ahead(j, where)')
  BY <1>2, <1>4, FS_Subset
<1> QED
  BY <1>1, <1>4, <1>5, FS_CardinalityType

-----------------------------------------------------------------------------
(* The client of the API. *)

\* A row the walk owes its client still matches, and is not skipped by the next page.
Owed ==
  /\ walk.over => missing = {}
  /\ \A k \in missing :
       /\ k \in Matching(walk.where) \intersect deposits
       /\ Alone(k)
       /\ Askable(walk.where)
       /\ Cardinality(Ahead(k, walk.where)) >= Skip(walk.page, walk.limit)

ApiInv == RowsTypeOK /\ ApiTypeOK /\ Owed

LEMMA RowsStart == RowsInit => RowsTypeOK
  BY DEF RowsInit, Indexers!Init, RowsTypeOK

LEMMA AheadIsFinite ==
  ASSUME NEW k, NEW where
  PROVE  Cardinality(Ahead(k, where)) \in Nat
<1>1. Ahead(k, where) \subseteq Key
  BY DEF Ahead, Matching, Rows
<1> QED
  BY <1>1, RowsAssumption, FS_Subset, FS_CardinalityType

LEMMA BeginKeeps ==
  ASSUME ApiInv, NEW where \in Wheres, NEW limit \in Limits, NEW p \in {0, 1},
         BeginWalk(where, limit, p), UNCHANGED tables
  PROVE  ApiInv'
<1>1. /\ walk' = [where |-> where, page |-> p, limit |-> limit, over |-> FALSE]
      /\ asked' = "transfers" /\ missing' = Due(where) /\ code' = 0 /\ target' = target
      /\ UNCHANGED <<status, known, deposits>>
  BY DEF BeginWalk, tables
<1>2. /\ walk'.where = where /\ walk'.page = p /\ walk'.limit = limit /\ ~walk'.over
      /\ walk' \in Walk
  BY <1>1 DEF Walk
<1>3. Due(where) \subseteq Rows
  BY DEF Due, Matching
<1>4. RowsTypeOK' /\ ApiTypeOK'
  BY <1>1, <1>2, <1>3 DEF ApiInv, RowsTypeOK, ApiTypeOK, Rows
<1>5. ASSUME NEW k \in Due(where)
      PROVE  /\ k \in Matching(where) \intersect deposits /\ Alone(k) /\ Askable(where)
             /\ Cardinality(Ahead(k, where)) >= Skip(p, limit)
  <2>1. k \in Matching(where) \intersect deposits /\ Alone(k) /\ Askable(where)
    BY ApiAssumption DEF Due, Askable
  <2>2. limit \in Nat /\ Cardinality(Ahead(k, where)) \in Nat
    BY ApiAssumption, AheadIsFinite
  <2>3. Cardinality(Ahead(k, where)) >= Skip(p, limit)
    BY <2>2 DEF Skip
  <2> QED BY <2>1, <2>3
<1>6. Owed'
  BY <1>1, <1>2, <1>5 DEF Owed, Matching, Matches, Rows, Column, Ahead, ComesBefore, Alone
<1> QED
  BY <1>4, <1>6 DEF ApiInv

LEMMA PageKeeps == ApiInv /\ SendPage /\ UNCHANGED tables => ApiInv'
<1> SUFFICES ASSUME ApiInv, SendPage, UNCHANGED tables PROVE ApiInv'
  OBVIOUS
<1> DEFINE where == walk.where
           p == walk.page
           limit == walk.limit
<1>1. PICK pg \in Pages(where, p, limit) :
        /\ missing' = missing \ pg
        /\ walk' = IF pg = {} THEN [walk EXCEPT !.over = TRUE] ELSE [walk EXCEPT !.page = @ + 1]
  BY DEF SendPage
<1>2. /\ asked = "transfers" /\ p # 0 /\ asked' = "nothing" /\ code' = 200 /\ target' = target
      /\ UNCHANGED <<status, known, deposits>>
  BY DEF SendPage, Refused, tables
<1>3. walk \in Walk /\ ~walk.over
  BY <1>2 DEF ApiInv, ApiTypeOK, NoWalk
<1>4. p \in Nat \ {0} /\ limit \in Nat \ {0}
  BY <1>2, <1>3, ApiAssumption DEF Walk
<1>5. ASSUME NEW k \in missing
      PROVE  pg # {} /\ (k \notin pg => Cardinality(Ahead(k, where)) >= Skip(p + 1, limit))
  BY <1>4, <1>5, PageOrBehind DEF ApiInv, Owed
<1>6. /\ walk'.where = where /\ walk'.limit = limit
      /\ pg # {} => walk'.page = p + 1 /\ ~walk'.over
      /\ walk' \in Walk
  <2>1. PICK w \in Wheres, q \in Nat, l \in Limits, v \in BOOLEAN :
          walk = [where |-> w, page |-> q, limit |-> l, over |-> v]
    BY <1>3 DEF Walk
  <2>2. CASE pg = {}
    <3>1. walk' = [where |-> w, page |-> q, limit |-> l, over |-> TRUE]
      BY <1>1, <2>1, <2>2
    <3> QED BY <2>1, <2>2, <3>1 DEF Walk
  <2>3. CASE pg # {}
    <3>1. walk' = [where |-> w, page |-> q + 1, limit |-> l, over |-> v]
      BY <1>1, <2>1, <2>3
    <3> QED BY <1>3, <2>1, <2>3, <3>1 DEF Walk
  <2> QED BY <2>2, <2>3
<1>7. RowsTypeOK' /\ ApiTypeOK'
  BY <1>1, <1>2, <1>6 DEF ApiInv, RowsTypeOK, ApiTypeOK, Rows
<1>8. pg = {} => missing' = {}
  BY <1>1, <1>5
<1>9. ASSUME NEW k \in missing'
      PROVE  /\ k \in Matching(where)' \intersect deposits'
             /\ Alone(k)' /\ Askable(where)
             /\ Cardinality(Ahead(k, where)') >= Skip(p + 1, limit)
  <2>1. k \in missing /\ k \notin pg
    BY <1>1, <1>9
  <2>2. /\ k \in Matching(where) \intersect deposits /\ Alone(k) /\ Askable(where)
        /\ Cardinality(Ahead(k, where)) >= Skip(p + 1, limit)
    BY <1>5, <2>1 DEF ApiInv, Owed
  <2>3. Matching(where)' = Matching(where) /\ Ahead(k, where)' = Ahead(k, where)
    BY <1>2, <1>6 DEF Matching, Matches, Rows, Column, Ahead, ComesBefore
  <2> QED BY <1>2, <2>2, <2>3 DEF Alone
<1>10. Owed'
  <2>1. CASE pg = {}
    BY <1>8, <2>1 DEF Owed
  <2>2. CASE pg # {}
    BY <1>6, <1>9, <2>2 DEF Owed, Askable, Stable, Matching, Matches, Rows, Column, Ahead, ComesBefore
  <2> QED BY <2>1, <2>2
<1> QED
  BY <1>7, <1>10 DEF ApiInv

LEMMA IndexKeeps ==
  ASSUME ApiInv, NEW j \in Key, Index(j), UNCHANGED api
  PROVE  ApiInv'
<1>1. UNCHANGED <<asked, walk, target, code, missing>>
  BY DEF api
<1>2. RowsTypeOK' /\ Rows \subseteq Rows'
  BY RowsTypes DEF ApiInv
<1>3. ApiTypeOK'
  BY <1>1, <1>2 DEF ApiInv, ApiTypeOK
<1>4. ASSUME NEW k \in missing
      PROVE  /\ k \in Matching(walk.where)' \intersect deposits'
             /\ Cardinality(Ahead(k, walk.where)') >= Skip(walk.page, walk.limit)
  <2>1. /\ k \in Matching(walk.where) \intersect deposits /\ Askable(walk.where)
        /\ Cardinality(Ahead(k, walk.where)) >= Skip(walk.page, walk.limit)
    BY <1>4 DEF ApiInv, Owed
  <2>2. /\ k \in Matching(walk.where)' \intersect deposits'
        /\ Cardinality(Ahead(k, walk.where)) \in Nat
        /\ Cardinality(Ahead(k, walk.where)') \in Nat
        /\ Cardinality(Ahead(k, walk.where)) <= Cardinality(Ahead(k, walk.where)')
    BY <1>1, <2>1, AheadGrows DEF ApiInv
  <2>3. Skip(walk.page, walk.limit) \in Int
    <3>1. walk \in Walk
      BY <1>4 DEF ApiInv, ApiTypeOK, Owed, NoWalk
    <3>2. walk.page \in Nat /\ walk.limit \in Limits
      BY <3>1 DEF Walk
    <3>3. \A limit \in Limits : limit \in Nat
      BY ApiAssumption
    <3>4. \A p, limit \in Nat : Skip(p, limit) \in Int
      BY DEF Skip
    <3> QED BY <3>2, <3>3, <3>4
  <2> QED BY <2>1, <2>2, <2>3
<1>5. Owed'
  BY <1>1, <1>4 DEF ApiInv, Owed, Alone, Askable, Stable
<1> QED
  BY <1>2, <1>3, <1>5 DEF ApiInv

LEMMA ApiKeeps == ApiInv /\ [ApiNext]_apiVars => ApiInv'
<1> SUFFICES ASSUME ApiInv, [ApiNext]_apiVars PROVE ApiInv'
  OBVIOUS
<1> USE DEF ApiInv
<1>1. CASE \E j \in Key : Index(j) /\ UNCHANGED api
  BY <1>1, IndexKeeps
<1>2. ASSUME UNCHANGED tables, UNCHANGED <<walk, missing>> PROVE RowsTypeOK' /\ Owed' /\ Rows' = Rows
  BY <1>2
  DEF tables, RowsTypeOK, Owed, Matching, Matches, Rows, Column, Ahead, ComesBefore, Alone,
      Askable, Stable
<1>3. ASSUME UNCHANGED tables, walk' = NoWalk, missing' = {} PROVE RowsTypeOK' /\ Owed' /\ Rows' = Rows
  BY <1>3 DEF tables, RowsTypeOK, Owed, NoWalk, Rows
<1>4. CASE UNCHANGED tables /\ \E where \in Wheres, limit \in Limits, p \in {0, 1} : BeginWalk(where, limit, p)
  BY <1>4, BeginKeeps
<1>5. CASE UNCHANGED tables /\ AskPage
  BY <1>2, <1>5 DEF AskPage, ApiTypeOK
<1>6. CASE UNCHANGED tables /\ Abandon
  BY <1>3, <1>6 DEF Abandon, ApiTypeOK
<1>7. CASE UNCHANGED tables /\ \E how \in {"transferById", "transferByTxHash"}, id \in Key \union {Bogus} : LookUp(how, id)
  BY <1>3, <1>7 DEF LookUp, ApiTypeOK
<1>8. CASE UNCHANGED tables /\ \E how \in {"metadata", "routes"} : LookUp(how, Bogus)
  BY <1>3, <1>8 DEF LookUp, ApiTypeOK
<1>9. CASE UNCHANGED tables /\ SendPage
  BY <1>9, PageKeeps
<1>10. CASE UNCHANGED tables /\ SendTransfer
  BY <1>2, <1>10 DEF SendTransfer, ApiTypeOK
<1>11. CASE UNCHANGED tables /\ SendTransfersOfTx
  BY <1>2, <1>11 DEF SendTransfersOfTx, ApiTypeOK
<1>12. CASE UNCHANGED tables /\ (SendMetadata \/ SendRoutes)
  BY <1>2, <1>12 DEF SendMetadata, SendRoutes, ApiTypeOK
<1>13. CASE UNCHANGED tables /\ SendError
  BY <1>2, <1>13 DEF SendError, ApiTypeOK
<1>14. CASE UNCHANGED apiVars
  BY <1>2, <1>14 DEF apiVars, api, ApiTypeOK
<1>15. CASE ApiStep
  BY <1>4, <1>5, <1>6, <1>7, <1>8, <1>9, <1>10, <1>11, <1>12, <1>13, <1>15
  DEF ApiStep, Client, Answer
<1>16. CASE ApiIndex
  BY <1>1, <1>16 DEF ApiIndex
<1> QED
  BY <1>14, <1>15, <1>16 DEF ApiNext

LEMMA ApiStart == RowsInit /\ ApiInit => ApiInv
  BY RowsStart DEF ApiInit, ApiInv, ApiTypeOK, NoWalk, Owed

LEMMA ApiHolds == ApiSpec => []ApiInv
  BY ApiStart, ApiKeeps, PTL DEF ApiSpec

LEMMA WalksOweNothing == ApiInv => WalksMissNothing
  BY DEF ApiInv, Owed, WalksMissNothing

\* A walk that has come to the empty page has left out no transfer that had its
\* deposit's row and matched when it began, whatever was written meanwhile.
THEOREM WalksAreComplete == ApiSpec => []WalksMissNothing
  BY WalksOweNothing, ApiHolds, PTL

\* The variables of the API hold values of their kinds, and no page is under way
\* for a walk that is over.
THEOREM ApiTypes == ApiSpec => [](RowsTypeOK /\ ApiTypeOK)
<1>1. ApiInv => RowsTypeOK /\ ApiTypeOK
  BY DEF ApiInv
<1> QED
  BY <1>1, ApiHolds, PTL

-----------------------------------------------------------------------------
(* The price script. *)

\* What the run owes its operator is at hand, or not skipped by the next page.
DueToOperator ==
  /\ priceStep = "off" => unseen = {}
  /\ \A k \in unseen :
       /\ k \in Matching(All) \intersect deposits
       /\ Alone(k)
       /\ k \in batch \/ Cardinality(Ahead(k, All)) >= Skip(page, PageLimit)

\* What the script holds of its page.
PageHeld ==
  /\ worthless \subseteq Key
  /\ batch \ nameless \subseteq known
  /\ current # Null => current \in worthless

PriceInv == RowsTypeOK /\ PriceTypeOK /\ PageHeld /\ DueToOperator

LEMMA AllIsAskable == Askable(All)
  BY QueryAssumption DEF Askable, All, FindAllTransfers, Stable

\* Matching and Ahead depend on the tables only.
LEMMA TablesDecide ==
  ASSUME UNCHANGED tables
  PROVE  /\ UNCHANGED <<status, known, deposits>>
         /\ Rows' = Rows
         /\ Matching(All)' = Matching(All)
         /\ \A k \in Key : Ahead(k, All)' = Ahead(k, All)
  BY DEF tables, Rows, Matching, Matches, Column, Ahead, ComesBefore, All, FindAllTransfers

LEMMA ReadKeeps == PriceInv /\ ReadPage /\ UNCHANGED tables => PriceInv'
<1> SUFFICES ASSUME PriceInv, ReadPage, UNCHANGED tables PROVE PriceInv'
  OBVIOUS
<1>1. PICK found \in Fetch(page) :
        /\ found # {}
        /\ batch' = found
        /\ worthless' = {k \in found : usd[k] # "value"}
        /\ nameless' = found \ known
  BY DEF ReadPage
<1>2. /\ priceStep = "next" /\ batch = {} /\ page' = page + 1
      /\ UNCHANGED <<usd, priceStep, current, newValue, unseen>>
  BY DEF ReadPage
<1>3. found \subseteq Rows
  <2>1. PICK o \in Orders(Matching(All)) : found = Cut(o, page, PageLimit)
    BY <1>1 DEF Fetch, Pages
  <2>2. IsFiniteSet(Matching(All)) /\ Matching(All) \subseteq Rows
    BY RowsAssumption, FS_Subset DEF Matching, Rows
  <2>3. \A i \in DOMAIN o : o[i] \in Matching(All)
    BY <2>1, <2>2, OrderIsOnto
  <2> QED BY <2>1, <2>2, <2>3 DEF Cut
<1>4. page \in Nat \ {0} /\ PageLimit \in Nat \ {0}
  BY ScriptAssumption DEF PriceInv, PriceTypeOK
<1>5. ASSUME NEW k \in unseen
      PROVE  k \in found \/ Cardinality(Ahead(k, All)) >= Skip(page + 1, PageLimit)
  <2>1. /\ k \in Matching(All) \intersect deposits /\ Alone(k)
        /\ Cardinality(Ahead(k, All)) >= Skip(page, PageLimit)
    BY <1>2, <1>5 DEF PriceInv, DueToOperator
  <2> QED BY <1>1, <1>4, <2>1, PageOrBehind DEF Fetch
<1>6. UNCHANGED <<status, known, deposits>> /\ Rows' = Rows /\ Matching(All)' = Matching(All)
      /\ \A k \in Key : Ahead(k, All)' = Ahead(k, All)
  BY TablesDecide
<1>7. RowsTypeOK'
  BY <1>6 DEF PriceInv, RowsTypeOK
<1>8. PriceTypeOK' /\ PageHeld'
  BY <1>1, <1>2, <1>3, <1>4, <1>6 DEF PriceInv, PriceTypeOK, PageHeld, Rows
<1>9. DueToOperator'
  BY <1>1, <1>2, <1>5, <1>6 DEF PriceInv, PriceTypeOK, DueToOperator, Alone, Rows
<1> QED
  BY <1>7, <1>8, <1>9 DEF PriceInv

\* The empty page is not reached while something is owed.
LEMMA DoneOwesNothing == PriceInv /\ Done => unseen = {}
<1> SUFFICES ASSUME PriceInv, Done, NEW k \in unseen PROVE FALSE
  OBVIOUS
<1>1. {} \in Fetch(page) /\ batch = {}
  BY DEF Done
<1>2. /\ k \in Matching(All) \intersect deposits /\ Alone(k)
      /\ Cardinality(Ahead(k, All)) >= Skip(page, PageLimit)
  BY <1>1 DEF PriceInv, DueToOperator
<1>3. page \in Nat \ {0} /\ PageLimit \in Nat \ {0}
  BY ScriptAssumption DEF PriceInv, PriceTypeOK
<1> QED
  BY <1>1, <1>2, <1>3, PageOrBehind DEF Fetch

LEMMA StepKeeps == PriceInv /\ PriceStep => PriceInv'
<1> SUFFICES ASSUME PriceInv, PriceStep PROVE PriceInv'
  OBVIOUS
<1>1. UNCHANGED tables
  BY DEF PriceStep
<1>2. UNCHANGED <<status, known, deposits>> /\ Rows' = Rows /\ Matching(All)' = Matching(All)
      /\ \A k \in Key : Ahead(k, All)' = Ahead(k, All)
  BY <1>1, TablesDecide
<1>3. RowsTypeOK'
  BY <1>2 DEF PriceInv, RowsTypeOK
<1>4. /\ RowsTypeOK /\ PriceTypeOK /\ PageHeld /\ DueToOperator /\ Null \notin Key /\ Rows \subseteq Key
      /\ \A k \in Key : Cardinality(Ahead(k, All)) \in Nat
  BY ScriptAssumption, AheadIsFinite DEF PriceInv, Rows
<1>5. CASE Run
  <2>1. Due(All) \subseteq Rows /\ \A k \in Due(All) : k \in Matching(All) \intersect deposits /\ Alone(k)
    BY DEF Due, Matching
  <2>2. Skip(1, PageLimit) = 0
    BY ScriptAssumption DEF Skip
  <2>3. PriceTypeOK' /\ PageHeld'
    BY <1>2, <1>4, <1>5, <2>1 DEF Run, PriceTypeOK, PageHeld
  <2>4. DueToOperator'
    BY <1>2, <1>4, <1>5, <2>1, <2>2 DEF Run, DueToOperator, Alone
  <2> QED BY <1>3, <2>3, <2>4 DEF PriceInv
<1>6. CASE ReadPage
  BY <1>1, <1>6, ReadKeeps
<1>7. CASE Done
  <2>1. unseen' = {}
    BY <1>7, DoneOwesNothing DEF Done
  <2>2. PriceTypeOK' /\ PageHeld' /\ DueToOperator'
    BY <1>2, <1>4, <1>7, <2>1 DEF Done, PriceTypeOK, PageHeld, DueToOperator
  <2> QED BY <1>3, <2>2 DEF PriceInv
<1>8. ASSUME NEW k \in Key, PassBy(k) PROVE PriceInv'
  <2>1. PriceTypeOK' /\ PageHeld'
    BY <1>2, <1>4, <1>8 DEF PassBy, Reach, PriceTypeOK, PageHeld
  <2>2. DueToOperator'
    BY <1>2, <1>4, <1>8 DEF PassBy, Reach, DueToOperator, Alone, PriceTypeOK
  <2> QED BY <1>3, <2>1, <2>2 DEF PriceInv
<1>9. ASSUME NEW k \in Key, Calculate(k) PROVE PriceInv'
  <2>1. PriceTypeOK' /\ PageHeld'
    BY <1>2, <1>4, <1>9 DEF Calculate, Reach, PriceTypeOK, PageHeld
  <2>2. DueToOperator'
    BY <1>2, <1>4, <1>9 DEF Calculate, Reach, DueToOperator, Alone, PriceTypeOK
  <2> QED BY <1>3, <2>1, <2>2 DEF PriceInv
<1>10. CASE Priced
  <2>1. PriceTypeOK' /\ PageHeld'
    BY <1>2, <1>4, <1>10 DEF Priced, PriceTypeOK, PageHeld
  <2>2. DueToOperator'
    BY <1>2, <1>4, <1>10 DEF Priced, DueToOperator, Alone, PriceTypeOK
  <2> QED BY <1>3, <2>1, <2>2 DEF PriceInv
<1>11. ASSUME Leave, usd' \in [Key -> Value], priceStep \in {"price", "write"} PROVE PriceInv'
  <2>1. PriceTypeOK' /\ PageHeld'
    BY <1>2, <1>4, <1>11 DEF Leave, PriceTypeOK, PageHeld
  <2>2. DueToOperator'
    BY <1>2, <1>4, <1>11 DEF Leave, DueToOperator, Alone, PriceTypeOK
  <2> QED BY <1>3, <2>1, <2>2 DEF PriceInv
<1>12. CASE PriceFails \/ UpdateFails
  BY <1>4, <1>11, <1>12 DEF PriceFails, UpdateFails, PriceTypeOK
<1>13. CASE UpdateTransfer
  <2>1. usd' \in [Key -> Value]
    BY <1>4, <1>13 DEF UpdateTransfer, PriceTypeOK, Value
  <2> QED BY <1>11, <1>13, <2>1 DEF UpdateTransfer
<1>14. CASE PriceAborts
  BY <1>2, <1>3, <1>4, <1>14 DEF PriceAborts, PriceInv, PriceTypeOK, PageHeld, DueToOperator
<1> QED
  BY <1>5, <1>6, <1>7, <1>8, <1>9, <1>10, <1>12, <1>13, <1>14 DEF PriceStep, PriceScript

\* A listener's write, whether it values the transfer or leaves its value.
LEMMA WritesKeep ==
  ASSUME PriceInv, NEW j \in Key, Index(j), usd' \in [Key -> Value], UNCHANGED script
  PROVE  PriceInv'
<1>1. /\ RowsTypeOK' /\ Rows \subseteq Rows' /\ known \subseteq known'
      /\ UNCHANGED <<priceStep, page, batch, worthless, nameless, current, newValue, unseen>>
  BY RowsTypes DEF script, PriceInv
<1>2. PriceTypeOK' /\ PageHeld'
  BY <1>1 DEF PriceInv, PriceTypeOK, PageHeld
<1>3. ASSUME NEW k \in unseen
      PROVE  /\ k \in Matching(All)' \intersect deposits'
             /\ k \in batch \/ Cardinality(Ahead(k, All)') >= Skip(page, PageLimit)
  <2>1. /\ k \in Matching(All) \intersect deposits
        /\ k \in batch \/ Cardinality(Ahead(k, All)) >= Skip(page, PageLimit)
    BY <1>3 DEF PriceInv, DueToOperator
  <2>2. /\ k \in Matching(All)' \intersect deposits'
        /\ Cardinality(Ahead(k, All)) \in Nat
        /\ Cardinality(Ahead(k, All)') \in Nat
        /\ Cardinality(Ahead(k, All)) <= Cardinality(Ahead(k, All)')
    BY <2>1, AheadGrows, AllIsAskable DEF PriceInv
  <2>3. Skip(page, PageLimit) \in Int
    BY ScriptAssumption DEF PriceInv, PriceTypeOK, Skip
  <2> QED BY <2>1, <2>2, <2>3
<1>4. DueToOperator'
  BY <1>1, <1>3 DEF PriceInv, DueToOperator, Alone, All, FindAllTransfers
<1> QED
  BY <1>1, <1>2, <1>4 DEF PriceInv

LEMMA StutterKeeps == PriceInv /\ UNCHANGED priceVars => PriceInv'
<1> SUFFICES ASSUME PriceInv, UNCHANGED priceVars PROVE PriceInv'
  OBVIOUS
<1>1. /\ UNCHANGED <<usd, priceStep, page, batch, worthless, nameless, current, newValue, unseen>>
      /\ UNCHANGED tables
  BY DEF priceVars, script
<1>2. /\ UNCHANGED <<status, known, deposits>> /\ Rows' = Rows /\ Matching(All)' = Matching(All)
      /\ \A k \in Key : Ahead(k, All)' = Ahead(k, All)
  BY <1>1, TablesDecide
<1>3. RowsTypeOK' /\ PriceTypeOK' /\ PageHeld'
  BY <1>1, <1>2 DEF PriceInv, RowsTypeOK, PriceTypeOK, PageHeld
<1>4. DueToOperator'
  BY <1>1, <1>2 DEF PriceInv, PriceTypeOK, DueToOperator, Alone, Rows
<1> QED BY <1>3, <1>4 DEF PriceInv

LEMMA PriceKeeps == PriceInv /\ [PriceNext]_priceVars => PriceInv'
<1> SUFFICES ASSUME PriceInv, PriceIndex PROVE PriceInv'
  BY StepKeeps, StutterKeeps DEF PriceNext
<1>1. PICK j \in Key :
        \/ Valued(j)
        \/ (Indexers!Failed(j) \/ Indexers!Executed(j) \/ Indexers!FileDeposit(j)) /\ UNCHANGED usd
  BY DEF PriceIndex
<1>2. Index(j)
  BY <1>1 DEF Index, Valued
<1>3. usd' \in [Key -> Value]
  <2>1. usd \in [Key -> Value]
    BY DEF PriceInv, PriceTypeOK
  <2> QED BY <1>1, <2>1 DEF Valued, Value
<1> QED
  BY <1>2, <1>3, WritesKeep DEF PriceIndex

LEMMA PriceStart == RowsInit /\ PriceInit => PriceInv
  BY RowsStart DEF PriceInit, PriceInv, PriceTypeOK, PageHeld, DueToOperator, Value

LEMMA PriceHolds == PriceSpec => []PriceInv
  BY PriceStart, PriceKeeps, PTL DEF PriceSpec

LEMMA RunsOweNothing == PriceInv => RunsMissNothing
  BY DEF PriceInv, DueToOperator, RunsMissNothing

\* A run of the price script that ends by itself has come by every transfer that had
\* its deposit's row when it began.
THEOREM RunsAreComplete == PriceSpec => []RunsMissNothing
  BY RunsOweNothing, PriceHolds, PTL

\* The variables of the price script hold values of their kinds, and what it holds
\* of a page has a row.
THEOREM PriceTypes == PriceSpec => [](RowsTypeOK /\ PriceTypeOK)
<1>1. PriceInv => RowsTypeOK /\ PriceTypeOK
  BY DEF PriceInv
<1> QED
  BY <1>1, PriceHolds, PTL

LEMMA LossIsAPrice ==
  ASSUME PriceInv, NEW k \in Key, usd[k] = "value", usd'[k] # "value", PriceStep
  PROVE  priceStep = "write" /\ k = current /\ k \in worthless /\ newValue = "zero"
<1>1. usd' # usd
  OBVIOUS
<1>2. UpdateTransfer
  BY <1>1
  DEF PriceStep, PriceScript, Run, ReadPage, Done, PassBy, Calculate, Reach, Priced,
      PriceFails, UpdateFails, PriceAborts
<1>3. usd \in [Key -> Value] /\ newValue \in {"zero", "value"}
  BY DEF PriceInv, PriceTypeOK
<1>4. priceStep = "write" /\ usd' = [usd EXCEPT ![current] = newValue]
  BY <1>2 DEF UpdateTransfer
<1>5. k = current /\ newValue = "zero"
  BY <1>3, <1>4
<1>6. current \in worthless
  BY <1>4 DEF PriceInv, PriceTypeOK, PageHeld
<1> QED BY <1>4, <1>5, <1>6

LEMMA LossesArePrices == []PriceInv => ValuesAreLostToZeroPricesOnly
<1>1. PriceInv =>
        [\A k \in Key :
           usd[k] = "value" /\ usd'[k] # "value" /\ PriceStep
             => priceStep = "write" /\ k = current /\ k \in worthless /\ newValue = "zero"]_priceVars
  BY LossIsAPrice
<1> QED
  BY <1>1, PTL DEF ValuesAreLostToZeroPricesOnly

\* The script takes a value away only by a price that is zero, and never from a
\* transfer that had one when its page was read.
THEOREM ValuesAreKept == PriceSpec => ValuesAreLostToZeroPricesOnly
  BY LossesArePrices, PriceHolds, PTL

-----------------------------------------------------------------------------
(* The duplicate remover: its types, that no transfer loses its last row, and *)
(* what a run that is done has done.                                          *)

\* Outside the step that needs them the lists are empty.
ListsAreSpent ==
  /\ step # "delete" => doomed = {}
  /\ step # "date" => undated = Nothing

\* What is doomed has an heir: a row of its transfer that is not.
DoomedHaveHeirs == \A i \in doomed : \E j \in rows[table] \ doomed : Of[j] = Of[i]

Single(ids) == \A i, j \in ids : Of[i] = Of[j] => i = j

Kept(t) == rows[t] \ late[t]

\* A table that has been gone through holds one row of each transfer.
TablesAreSingle ==
  /\ step = "delete" => Single(Kept(table) \ doomed)
  /\ step \in {"scan", "delete"} /\ table = "execution" => Single(Kept("deposit"))
  /\ step \in {"find", "date", "done"} => Single(Kept("deposit")) /\ Single(Kept("execution"))

\* A row of a transfer that has a document is on its list until it has a timestamp.
UndatedAreListed ==
  step = "date" =>
    \A t \in Table : \A i \in rows[t] \ dated[t] : Of[i] \in documents => i \in undated[t]

Types == RemoverTypeOK /\ ListsAreSpent

-----------------------------------------------------------------------------
(* Types. *)

LEMMA InsertTypes ==
  ASSUME Types, NEW t \in Table, NEW i \in Id, Insert(t, i)
  PROVE  Types'
<1>1. Of[i] \in Owner
  BY RemoverAssumption
<1>2. RemoverTypeOK'
  BY <1>1 DEF Types, RemoverTypeOK, Insert, removal, Table
<1> QED
  BY <1>2 DEF Types, ListsAreSpent, Insert, removal

LEMMA RunTypes == Types /\ RunRemover => Types'
  BY DEF Types, ListsAreSpent, RemoverTypeOK, RunRemover, Table

LEMMA ScanTypes == Types /\ Scan => Types'
  BY DEF Types, ListsAreSpent, RemoverTypeOK, Scan, Table

\* Rows of the table at hand are gone, from all that is kept of it.
LEMMA RowsRemoved ==
  ASSUME Types, NEW ids \in SUBSET doomed, RemoveRows(ids), step # "date"
  PROVE  /\ rows' \in [Table -> SUBSET Id]
         /\ dated' \in [Table -> SUBSET Id]
         /\ late' \in [Table -> SUBSET Id]
         /\ rows'[table] = rows[table] \ ids
         /\ dated'[table] = dated[table] \ ids
         /\ late'[table] = late[table] \ ids
         /\ \A t \in Table \ {table} :
              rows'[t] = rows[t] /\ dated'[t] = dated[t] /\ late'[t] = late[t]
         /\ \A t \in Table : dated'[t] \union late'[t] \subseteq rows'[t]
<1>1. /\ rows \in [Table -> SUBSET Id] /\ dated \in [Table -> SUBSET Id]
      /\ late \in [Table -> SUBSET Id] /\ table \in Table
      /\ \A t \in Table : dated[t] \union late[t] \subseteq rows[t]
  BY DEF Types, RemoverTypeOK
<1>2. /\ rows' = [rows EXCEPT ![table] = @ \ ids]
      /\ dated' = [dated EXCEPT ![table] = @ \ ids]
      /\ late' = [late EXCEPT ![table] = @ \ ids]
  BY DEF RemoveRows
<1> QED
  BY <1>1, <1>2

LEMMA DeleteTypes == Types /\ DeleteMany => Types'
<1> SUFFICES ASSUME Types, DeleteMany PROVE Types'
  OBVIOUS
<1>1. /\ doomed' = {} /\ step' \in {"scan", "find"} /\ table' \in Table
      /\ UNCHANGED <<documents, stamped, undated, owned>> /\ step = "delete" /\ RemoveRows(doomed)
  BY DEF DeleteMany, Table
<1>2. undated = Nothing
  BY <1>1 DEF Types, ListsAreSpent
<1> QED
  BY <1>1, <1>2, RowsRemoved DEF Types, ListsAreSpent, RemoverTypeOK, Nothing

LEMMA FindTypes == Types /\ FindUndated => Types'
  BY DEF Types, ListsAreSpent, RemoverTypeOK, FindUndated

LEMMA DateTypes ==
  ASSUME Types, NEW t \in Table, NEW i \in Id, AddTimestamp(t, i)
  PROVE  Types'
<1>1. /\ dated' = [dated EXCEPT ![t] = @ \union {i}]
      /\ undated' = [undated EXCEPT ![t] = @ \ {i}]
      /\ i \in undated[t] /\ step = "date"
      /\ UNCHANGED <<rows, documents, stamped, step, table, doomed, owned, late>>
  BY DEF AddTimestamp, AtRow
<1> QED
  BY <1>1 DEF Types, ListsAreSpent, RemoverTypeOK

LEMMA PassOverTypes ==
  ASSUME Types, NEW t \in Table, NEW i \in Id, PassOver(t, i)
  PROVE  Types'
<1>1. /\ undated' = [undated EXCEPT ![t] = @ \ {i}]
      /\ step = "date"
      /\ UNCHANGED <<rows, dated, documents, stamped, step, table, doomed, owned, late>>
  BY DEF PassOver, AtRow
<1> QED
  BY <1>1 DEF Types, ListsAreSpent, RemoverTypeOK

LEMMA UpdateTypes ==
  ASSUME Types, NEW i \in Id, UpdateExecution(i)
  PROVE  Types'
<1>1. /\ dated' = [dated EXCEPT !["execution"] = @ \union {i}]
      /\ i \in rows["execution"]
      /\ UNCHANGED <<rows, documents, stamped, step, table, doomed, undated, owned, late>>
  BY DEF UpdateExecution, removal
<1> QED
  BY <1>1 DEF Types, ListsAreSpent, RemoverTypeOK

LEMMA FinishTypes == Types /\ FinishRemover => Types'
  BY DEF Types, ListsAreSpent, RemoverTypeOK, FinishRemover, Nothing

LEMMA NoTimestampTypes ==
  ASSUME Types, NEW t \in Table, NEW i \in Id, NoTimestamp(t, i)
  PROVE  Types'
  BY DEF Types, ListsAreSpent, RemoverTypeOK, NoTimestamp, AtRow, Over, Nothing, Table

LEMMA AbortTypes == Types /\ RemoverAborts => Types'
<1> SUFFICES ASSUME Types, RemoverAborts PROVE Types'
  OBVIOUS
<1>1. PICK ids \in SUBSET doomed : RemoveRows(ids)
  BY DEF RemoverAborts
<1>2. /\ step' = "off" /\ table' = "deposit" /\ doomed' = {} /\ undated' = Nothing
      /\ UNCHANGED <<documents, stamped, owned>>
  BY DEF RemoverAborts, Over
<1>3. CASE step = "date"
  <2>1. ids = {}
    BY <1>3 DEF Types, ListsAreSpent
  <2>2. UNCHANGED <<rows, dated, late>>
    BY <1>1, <2>1 DEF RemoveRows, Types, RemoverTypeOK
  <2> QED BY <1>2, <2>2 DEF Types, ListsAreSpent, RemoverTypeOK, Nothing, Table
<1>4. CASE step # "date"
  BY <1>1, <1>2, <1>4, RowsRemoved DEF Types, ListsAreSpent, RemoverTypeOK, Nothing, Table
<1> QED BY <1>3, <1>4

LEMMA NextTypes == Types /\ [RemoverNext]_removerVars => Types'
<1> SUFFICES ASSUME Types, [RemoverNext]_removerVars PROVE Types'
  OBVIOUS
<1>1. CASE RunRemover BY <1>1, RunTypes
<1>2. CASE Scan BY <1>2, ScanTypes
<1>3. CASE DeleteMany BY <1>3, DeleteTypes
<1>4. CASE FindUndated BY <1>4, FindTypes
<1>5. CASE FinishRemover BY <1>5, FinishTypes
<1>6. CASE RemoverAborts BY <1>6, AbortTypes
<1>7. CASE \E t \in Table, i \in Id : AddTimestamp(t, i) BY <1>7, DateTypes
<1>8. CASE \E t \in Table, i \in Id : NoTimestamp(t, i) BY <1>8, NoTimestampTypes
<1>9. CASE \E t \in Table, i \in Id : Insert(t, i) BY <1>9, InsertTypes
<1>10. CASE UNCHANGED removerVars
  BY <1>10 DEF removerVars, removal, Types, ListsAreSpent, RemoverTypeOK
<1>11. CASE \E t \in Table, i \in Id : PassOver(t, i) BY <1>11, PassOverTypes
<1>12. CASE \E i \in Id : UpdateExecution(i) BY <1>12, UpdateTypes
<1> QED
  BY <1>1, <1>2, <1>3, <1>4, <1>5, <1>6, <1>7, <1>8, <1>9, <1>10, <1>11, <1>12
  DEF RemoverNext, RemoverScript

LEMMA StartTypes == RemoverInit => Types
  BY RemoverAssumption
  DEF RemoverInit, RemoverIdle, Types, ListsAreSpent, RemoverTypeOK, Nothing, Owners, Table

\* The script's variables and the tables always hold values of their kinds, and
\* what it is about to delete or to date is still in the table.
THEOREM RemoverTypes == RemoverSpec => []Types
  BY StartTypes, NextTypes, PTL DEF RemoverSpec

-----------------------------------------------------------------------------
(* No transfer loses its last row. *)

Heirs == LastRowsAreKept /\ DoomedHaveHeirs

\* What is left of a table from which some of what is doomed is deleted still has a
\* row of every transfer.
LEMMA HeirsRemain ==
  ASSUME Types, Heirs, step # "date", NEW ids \in SUBSET doomed, RemoveRows(ids), owned' = owned
  PROVE  LastRowsAreKept'
<1>1. ASSUME NEW o \in owned[table] PROVE \E j \in rows'[table] : Of[j] = o
  <2>1. PICK i \in rows[table] : Of[i] = o
    BY <1>1 DEF Heirs, LastRowsAreKept, Owners, Types, RemoverTypeOK
  <2>2. CASE i \in doomed
    <3>1. PICK j \in rows[table] \ doomed : Of[j] = Of[i]
      BY <2>2 DEF Heirs, DoomedHaveHeirs
    <3> QED BY <2>1, <3>1, RowsRemoved
  <2>3. CASE i \notin doomed
    BY <2>1, <2>3, RowsRemoved
  <2> QED BY <2>2, <2>3
<1>2. ASSUME NEW t \in Table \ {table} PROVE rows'[t] = rows[t]
  BY <1>2, RowsRemoved
<1>3. table \in Table
  BY DEF Types, RemoverTypeOK
<1>4. ASSUME NEW t \in Table PROVE owned'[t] \subseteq Owners(rows'[t])
  <2>1. CASE t = table BY <1>1, <2>1 DEF Owners
  <2>2. CASE t # table BY <1>2, <2>2 DEF Heirs, LastRowsAreKept
  <2> QED BY <2>1, <2>2
<1> QED
  BY <1>4 DEF LastRowsAreKept

LEMMA InsertHeirs ==
  ASSUME Types, Heirs, NEW t \in Table, NEW i \in Id, Insert(t, i)
  PROVE  Heirs'
<1>1. /\ rows' = [rows EXCEPT ![t] = @ \union {i}]
      /\ owned' = [owned EXCEPT ![t] = @ \union {Of[i]}]
      /\ UNCHANGED <<step, table, doomed>> /\ i \notin rows[t]
  BY DEF Insert, removal
<1>2. /\ rows \in [Table -> SUBSET Id] /\ owned \in [Table -> SUBSET Owner]
      /\ table \in Table /\ doomed \subseteq rows[table]
  BY DEF Types, RemoverTypeOK
<1>3. LastRowsAreKept'
  <2> SUFFICES ASSUME NEW u \in Table, NEW o \in owned'[u] PROVE \E j \in rows'[u] : Of[j] = o
    BY DEF LastRowsAreKept, Owners
  <2>1. o \in owned[u] \/ (u = t /\ o = Of[i])
    BY <1>1, <1>2
  <2>2. rows[u] \subseteq rows'[u] /\ i \in rows'[t]
    BY <1>1, <1>2
  <2>3. o \in owned[u] => \E j \in rows[u] : Of[j] = o
    BY DEF Heirs, LastRowsAreKept, Owners
  <2> QED BY <2>1, <2>2, <2>3
<1>4. rows[table] \subseteq rows'[table]
  BY <1>1, <1>2
<1>5. DoomedHaveHeirs'
  BY <1>1, <1>4 DEF Heirs, DoomedHaveHeirs
<1> QED
  BY <1>3, <1>5 DEF Heirs

LEMMA ScanHeirs == Types /\ Heirs /\ Scan => Heirs'
<1> SUFFICES ASSUME Types, Heirs, Scan PROVE Heirs'
  OBVIOUS
<1>1. PICK kept \in SUBSET rows[table] :
        FirstOfEach(table, kept) /\ doomed' = rows[table] \ kept
  BY DEF Scan
<1>2. UNCHANGED <<rows, table, owned>>
  BY DEF Scan
<1>3. ASSUME NEW i \in doomed' PROVE \E j \in kept : Of[j] = Of[i]
  BY <1>1, <1>3 DEF FirstOfEach, Owners
<1>4. rows[table] \ doomed' = kept
  BY <1>1
<1> QED
  BY <1>2, <1>3, <1>4 DEF Heirs, LastRowsAreKept, DoomedHaveHeirs

LEMMA NextHeirs == Types /\ Heirs /\ [RemoverNext]_removerVars => Heirs'
<1> SUFFICES ASSUME Types, Heirs, [RemoverNext]_removerVars PROVE Heirs'
  OBVIOUS
<1>1. CASE Scan BY <1>1, ScanHeirs
<1>2. CASE DeleteMany
  <2>1. LastRowsAreKept'
    BY <1>2, HeirsRemain DEF DeleteMany
  <2> QED BY <1>2, <2>1 DEF DeleteMany, Heirs, DoomedHaveHeirs
<1>3. CASE RemoverAborts
  <2>1. PICK ids \in SUBSET doomed : RemoveRows(ids)
    BY <1>3 DEF RemoverAborts
  <2>2. owned' = owned /\ doomed' = {}
    BY <1>3 DEF RemoverAborts, Over
  <2>3. CASE step = "date"
    <3>1. rows' = rows
      BY <2>1, <2>3 DEF RemoveRows, Types, ListsAreSpent, RemoverTypeOK
    <3> QED BY <2>2, <3>1 DEF Heirs, LastRowsAreKept, DoomedHaveHeirs
  <2>4. CASE step # "date"
    BY <2>1, <2>2, <2>4, HeirsRemain DEF Heirs, DoomedHaveHeirs
  <2> QED BY <2>3, <2>4
<1>4. CASE \E t \in Table, i \in Id : Insert(t, i) BY <1>4, InsertHeirs
<1>5. CASE RunRemover
  BY <1>5 DEF RunRemover, Types, ListsAreSpent, Heirs, LastRowsAreKept, DoomedHaveHeirs
<1>6. CASE FindUndated
  BY <1>6 DEF FindUndated, Heirs, LastRowsAreKept, DoomedHaveHeirs
<1>7. CASE FinishRemover
  BY <1>7 DEF FinishRemover, Heirs, LastRowsAreKept, DoomedHaveHeirs
<1>8. CASE \E t \in Table, i \in Id : AddTimestamp(t, i)
  BY <1>8 DEF AddTimestamp, Heirs, LastRowsAreKept, DoomedHaveHeirs
<1>9. CASE \E t \in Table, i \in Id : NoTimestamp(t, i)
  BY <1>9 DEF NoTimestamp, Over, Heirs, LastRowsAreKept, DoomedHaveHeirs
<1>10. CASE UNCHANGED removerVars
  BY <1>10 DEF removerVars, removal, Heirs, LastRowsAreKept, DoomedHaveHeirs
<1>11. CASE \E t \in Table, i \in Id : PassOver(t, i)
  BY <1>11 DEF PassOver, Heirs, LastRowsAreKept, DoomedHaveHeirs
<1>12. CASE \E i \in Id : UpdateExecution(i)
  BY <1>12 DEF UpdateExecution, removal, Heirs, LastRowsAreKept, DoomedHaveHeirs
<1> QED
  BY <1>1, <1>2, <1>3, <1>4, <1>5, <1>6, <1>7, <1>8, <1>9, <1>10, <1>11, <1>12
  DEF RemoverNext, RemoverScript

LEMMA StartHeirs == RemoverInit => Heirs
  BY DEF RemoverInit, RemoverIdle, Heirs, LastRowsAreKept, DoomedHaveHeirs, Table

\* Whatever order the rows come in, whatever is inserted meanwhile and wherever the
\* script ends, a transfer that ever had a row in a table has one.
THEOREM LastRowsKept == RemoverSpec => []LastRowsAreKept
<1>1. Heirs => LastRowsAreKept
  BY DEF Heirs
<1> QED
  BY <1>1, StartHeirs, NextHeirs, RemoverTypes, PTL DEF RemoverSpec

-----------------------------------------------------------------------------
(* What a run that is done has done. *)

LEMMA NextSingle == Types /\ TablesAreSingle /\ [RemoverNext]_removerVars => TablesAreSingle'
<1> SUFFICES ASSUME Types, TablesAreSingle, [RemoverNext]_removerVars PROVE TablesAreSingle'
  OBVIOUS
<1> USE DEF Single, Kept
<1>t. /\ rows \in [Table -> SUBSET Id] /\ late \in [Table -> SUBSET Id] /\ table \in Table
      /\ "deposit" \in Table /\ "execution" \in Table
  BY DEF Types, RemoverTypeOK, Table
<1>1. CASE Scan
  <2>1. PICK kept \in SUBSET rows[table] :
          FirstOfEach(table, kept) /\ doomed' = rows[table] \ kept
    BY <1>1 DEF Scan
  <2>2. /\ step = "scan" /\ step' = "delete" /\ UNCHANGED <<rows, table>>
        /\ late' = [late EXCEPT ![table] = {}]
    BY <1>1 DEF Scan
  <2>3. Single(Kept(table)' \ doomed')
    BY <1>t, <2>1, <2>2 DEF FirstOfEach
  <2>4. table = "execution" => Single(Kept("deposit")')
    BY <1>t, <2>2 DEF TablesAreSingle
  <2> QED BY <2>2, <2>3, <2>4 DEF TablesAreSingle
<1>2. CASE DeleteMany
  <2>1. /\ step = "delete" /\ RemoveRows(doomed)
        /\ \/ table = "deposit" /\ step' = "scan" /\ table' = "execution"
           \/ table = "execution" /\ step' = "find" /\ table' = "deposit"
    BY <1>t, <1>2 DEF DeleteMany, Table
  <2>2. Single(Kept(table) \ doomed) /\ (table = "execution" => Single(Kept("deposit")))
    BY <2>1 DEF TablesAreSingle
  <2>3. CASE table = "deposit"
    <3>1. Single(rows'["deposit"] \ late'["deposit"])
      BY <1>t, <2>1, <2>2, <2>3 DEF RemoveRows
    <3> QED BY <2>1, <2>3, <3>1 DEF TablesAreSingle
  <2>4. CASE table = "execution"
    <3>1. Single(rows'["execution"] \ late'["execution"])
      BY <1>t, <2>1, <2>2, <2>4 DEF RemoveRows
    <3>2. Single(rows'["deposit"] \ late'["deposit"])
      BY <1>t, <2>1, <2>2, <2>4 DEF RemoveRows
    <3> QED BY <2>1, <2>4, <3>1, <3>2 DEF TablesAreSingle
  <2> QED BY <1>t, <2>3, <2>4 DEF Table
<1>3. CASE \E t \in Table, i \in Id : Insert(t, i)
  <2>1. PICK t \in Table, i \in Id : Insert(t, i)
    BY <1>3
  <2>2. /\ i \notin rows[t]
        /\ rows' = [rows EXCEPT ![t] = @ \union {i}]
        /\ late' = [late EXCEPT ![t] = @ \union {i}]
        /\ UNCHANGED <<step, table, doomed>>
    BY <2>1 DEF Insert, removal
  <2>3. \A u \in Table : rows'[u] \ late'[u] = rows[u] \ late[u]
    BY <1>t, <2>2
  <2> QED BY <1>t, <2>2, <2>3 DEF TablesAreSingle
<1>4. CASE RunRemover
  BY <1>4 DEF RunRemover, TablesAreSingle
<1>5. CASE RemoverAborts
  BY <1>5 DEF RemoverAborts, Over, TablesAreSingle
<1>6. CASE FindUndated
  BY <1>6 DEF FindUndated, TablesAreSingle
<1>7. CASE FinishRemover
  BY <1>7 DEF FinishRemover, TablesAreSingle
<1>8. CASE \E t \in Table, i \in Id : AddTimestamp(t, i)
  BY <1>8 DEF AddTimestamp, TablesAreSingle
<1>9. CASE \E t \in Table, i \in Id : NoTimestamp(t, i)
  BY <1>9 DEF NoTimestamp, Over, TablesAreSingle
<1>10. CASE UNCHANGED removerVars
  BY <1>10 DEF removerVars, removal, TablesAreSingle
<1>11. CASE \E t \in Table, i \in Id : PassOver(t, i)
  BY <1>11 DEF PassOver, TablesAreSingle
<1>12. CASE \E i \in Id : UpdateExecution(i)
  BY <1>12 DEF UpdateExecution, removal, TablesAreSingle
<1> QED
  BY <1>1, <1>2, <1>3, <1>4, <1>5, <1>6, <1>7, <1>8, <1>9, <1>10, <1>11, <1>12
  DEF RemoverNext, RemoverScript

LEMMA StartSingle == RemoverInit => TablesAreSingle
  BY DEF RemoverInit, RemoverIdle, TablesAreSingle

LEMMA SingleIsAll == TablesAreSingle => DuplicatesAreGone
  BY DEF TablesAreSingle, DuplicatesAreGone, Single, Kept, Table

\* Once a run is done there is one row of each transfer in either table, but for
\* rows inserted since the table was scanned.
THEOREM DuplicatesGone == RemoverSpec => []DuplicatesAreGone
  BY StartSingle, SingleIsAll, NextSingle, RemoverTypes, PTL DEF RemoverSpec

Dating == UndatedAreListed /\ (step = "done" => Dated)

LEMMA NextDating == Types /\ Dating /\ [RemoverNext]_removerVars => Dating'
<1> SUFFICES ASSUME Types, Dating, [RemoverNext]_removerVars PROVE Dating'
  OBVIOUS
<1> USE DEF Dating, UndatedAreListed, Dated
<1>t. /\ rows \in [Table -> SUBSET Id] /\ dated \in [Table -> SUBSET Id]
      /\ undated \in [Table -> SUBSET Id] /\ \A t \in Table : dated[t] \subseteq rows[t]
      /\ "execution" \in Table
  BY DEF Types, RemoverTypeOK, Table
<1>1. CASE Scan BY <1>1 DEF Scan
<1>2. CASE DeleteMany BY <1>2 DEF DeleteMany
<1>3. CASE \E t \in Table, i \in Id : Insert(t, i)
  <2>1. PICK t \in Table, i \in Id : Insert(t, i)
    BY <1>3
  <2>2. /\ rows' = [rows EXCEPT ![t] = @ \union {i}]
        /\ dated' = [dated EXCEPT ![t] = @ \union {i}]
        /\ UNCHANGED <<documents, step, undated>>
    BY <2>1 DEF Insert, removal
  <2>3. \A u \in Table : rows'[u] \ dated'[u] \subseteq rows[u] \ dated[u]
    BY <1>t, <2>2
  <2> QED BY <2>2, <2>3
<1>4. CASE RunRemover BY <1>4 DEF RunRemover
<1>5. CASE RemoverAborts BY <1>5 DEF RemoverAborts, Over
<1>6. CASE FindUndated BY <1>6 DEF FindUndated
<1>7. CASE FinishRemover BY <1>t, <1>7 DEF FinishRemover, Nothing
<1>8. CASE \E t \in Table, i \in Id : AddTimestamp(t, i)
  <2>1. PICK t \in Table, i \in Id : AddTimestamp(t, i)
    BY <1>8
  <2>2. /\ dated' = [dated EXCEPT ![t] = @ \union {i}]
        /\ undated' = [undated EXCEPT ![t] = @ \ {i}]
        /\ UNCHANGED <<rows, documents, step>> /\ step = "date"
    BY <2>1 DEF AddTimestamp, AtRow
  <2> QED BY <1>t, <2>2
<1>9. CASE \E t \in Table, i \in Id : NoTimestamp(t, i)
  BY <1>9 DEF NoTimestamp, Over
<1>10. CASE UNCHANGED removerVars
  BY <1>10 DEF removerVars, removal
<1>11. CASE \E t \in Table, i \in Id : PassOver(t, i)
  <2>1. PICK t \in Table, i \in Id : PassOver(t, i)
    BY <1>11
  <2>2. /\ undated' = [undated EXCEPT ![t] = @ \ {i}]
        /\ UNCHANGED <<rows, dated, documents, step>> /\ step = "date"
        /\ Of[i] \notin documents
    BY <2>1 DEF PassOver, AtRow
  <2> QED BY <1>t, <2>2
<1>12. CASE \E i \in Id : UpdateExecution(i)
  <2>1. PICK i \in Id : UpdateExecution(i)
    BY <1>12
  <2>2. /\ dated' = [dated EXCEPT !["execution"] = @ \union {i}]
        /\ UNCHANGED <<rows, documents, step, undated>>
    BY <2>1 DEF UpdateExecution, removal
  <2> QED BY <1>t, <2>2
<1> QED
  BY <1>1, <1>2, <1>3, <1>4, <1>5, <1>6, <1>7, <1>8, <1>9, <1>10, <1>11, <1>12
  DEF RemoverNext, RemoverScript

LEMMA StartDating == RemoverInit => Dating
  BY DEF RemoverInit, RemoverIdle, Dating, UndatedAreListed

\* Where no row is without a timestamp that could have one, none ever is: the indexers'
\* rows come with theirs, and a row that is deleted takes its own along.
LEMMA DatesStay == Types /\ Dated /\ [RemoverNext]_removerVars => Dated'
<1> SUFFICES ASSUME Types, Dated, [RemoverNext]_removerVars PROVE Dated'
  OBVIOUS
<1> USE DEF Dated
<1>t. /\ rows \in [Table -> SUBSET Id] /\ dated \in [Table -> SUBSET Id]
      /\ table \in Table /\ "execution" \in Table
  BY DEF Types, RemoverTypeOK, Table
<1>r. ASSUME NEW ids, RemoveRows(ids), documents' = documents PROVE Dated'
  <2>1. /\ rows' = [rows EXCEPT ![table] = @ \ ids]
        /\ dated' = [dated EXCEPT ![table] = @ \ ids]
    BY <1>r DEF RemoveRows
  <2>2. ASSUME NEW t \in Table, NEW i \in rows'[t], Of[i] \in documents PROVE i \in dated'[t]
    <3>1. i \in rows[t] /\ i \in dated[t] /\ (t = table => i \notin ids)
      BY <1>t, <2>1, <2>2
    <3> QED BY <1>t, <2>1, <3>1
  <2> QED BY <1>r, <2>2
<1>1. CASE DeleteMany
  BY <1>1, <1>r DEF DeleteMany
<1>2. CASE RemoverAborts
  BY <1>2, <1>r DEF RemoverAborts, Over
<1>3. CASE \E t \in Table, i \in Id : Insert(t, i)
  <2>1. PICK t \in Table, i \in Id : Insert(t, i)
    BY <1>3
  <2>2. /\ rows' = [rows EXCEPT ![t] = @ \union {i}]
        /\ dated' = [dated EXCEPT ![t] = @ \union {i}]
        /\ UNCHANGED documents
    BY <2>1 DEF Insert
  <2> QED BY <1>t, <2>2
<1>4. CASE \E t \in Table, i \in Id : AddTimestamp(t, i)
  BY <1>4, <1>t DEF AddTimestamp
<1>5. CASE \E i \in Id : UpdateExecution(i)
  BY <1>5, <1>t DEF UpdateExecution
<1>6. CASE UNCHANGED <<rows, dated, documents>>
  BY <1>6
<1>7. \/ DeleteMany \/ RemoverAborts \/ \E i \in Id : UpdateExecution(i)
      \/ \E t \in Table, i \in Id : Insert(t, i) \/ AddTimestamp(t, i)
      \/ UNCHANGED <<rows, dated, documents>>
  BY DEF RemoverNext, RemoverScript, RunRemover, Scan, FindUndated, FinishRemover, PassOver,
         NoTimestamp, Over, removerVars, removal
<1> QED
  BY <1>1, <1>2, <1>3, <1>4, <1>5, <1>6, <1>7

\* A run that comes to its end has given a timestamp to every row of a transfer that
\* has a document, and no later insert, run or failure changes that.
THEOREM AllRowsDated == RemoverSpec => RowsAreDated
<1>1. Dating => (step = "done" => Dated)
  BY DEF Dating
<1>2. Types /\ [RemoverNext]_removerVars => [Dated => Dated']_removerVars
  BY DatesStay
<1> QED
  BY <1>1, <1>2, StartDating, NextDating, RemoverTypes, PTL DEF RemoverSpec, RowsAreDated

-----------------------------------------------------------------------------
(* All of them, as Readers starts one beside the indexers.  A step of any of  *)
(* them is, to the API and to the remover, a step of their own specification; *)
(* to the price script it is one too, or a listener's write that leaves the   *)
(* values alone.  So the invariants hold together as each holds alone.        *)

IInv == ApiInv /\ PriceInv /\ Types /\ Heirs /\ TablesAreSingle /\ Dating

\* What the remover's variables are for the others is a state it starts from.
LEMMA InitOfRemover == Init => RemoverInit
<1> SUFFICES ASSUME Init, reader # "remove-duplicates" PROVE RemoverInit
  BY DEF Init
<1>1. rows = Nothing /\ dated = Nothing /\ owned = Nothing
      /\ documents = {} /\ stamped = {} /\ RemoverIdle
  BY DEF Init
<1>2. Nothing \in [Table -> SUBSET Id] /\ \A t \in Table : Nothing[t] \subseteq Nothing[t]
  BY DEF Nothing
<1>3. Nothing = [t \in Table |-> Owners(Nothing[t])]
  BY DEF Nothing, Owners
<1> QED
  BY <1>1, <1>2, <1>3 DEF RemoverInit

LEMMA StepOfApi == [Next]_vars => [ApiNext]_apiVars
<1>1. ASSUME FixPrices PROVE [ApiNext]_apiVars
  <2>1. UNCHANGED api
    BY <1>1 DEF FixPrices, Others
  <2>2. CASE PriceStep
    BY <2>1, <2>2 DEF PriceStep, apiVars
  <2>3. CASE PriceIndex
    BY <2>1, <2>3 DEF PriceIndex, Valued, Index, ApiNext, ApiIndex
  <2> QED BY <1>1, <2>2, <2>3 DEF FixPrices, PriceNext
<1>2. ASSUME FixDuplicates PROVE UNCHANGED apiVars
  BY <1>2 DEF FixDuplicates, Others, apiVars
<1>3. ASSUME UNCHANGED vars PROVE UNCHANGED apiVars
  BY <1>3 DEF vars, apiVars
<1> QED
  BY <1>1, <1>2, <1>3 DEF Next, Api

LEMMA StepOfRemover == [Next]_vars => [RemoverNext]_removerVars
  BY DEF Next, Api, FixPrices, FixDuplicates, Others, vars

LEMMA PriceAmongOthers == PriceInv /\ [Next]_vars => PriceInv'
<1> SUFFICES ASSUME PriceInv, [Next]_vars PROVE PriceInv'
  OBVIOUS
<1>1. ASSUME Api PROVE PriceInv'
  <2>1. UNCHANGED <<usd, script>>
    BY <1>1 DEF Api, Others
  <2>2. CASE ApiStep
    BY <2>1, <2>2, StutterKeeps DEF ApiStep, priceVars
  <2>3. CASE ApiIndex
    <3>1. usd' \in [Key -> Value]
      BY <2>1 DEF PriceInv, PriceTypeOK
    <3> QED BY <2>1, <2>3, <3>1, WritesKeep DEF ApiIndex
  <2> QED BY <1>1, <2>2, <2>3 DEF Api, ApiNext
<1>2. ASSUME FixPrices PROVE PriceInv'
  BY <1>2, PriceKeeps DEF FixPrices
<1>3. ASSUME FixDuplicates PROVE PriceInv'
  BY <1>3, StutterKeeps DEF FixDuplicates, Others, priceVars
<1>4. ASSUME UNCHANGED vars PROVE PriceInv'
  BY <1>4, StutterKeeps DEF vars, priceVars
<1> QED
  BY <1>1, <1>2, <1>3, <1>4 DEF Next

\* The invariant of the processes together.
LEMMA Invariance == Spec => []IInv
<1>1. Init => IInv
  BY InitOfRemover, ApiStart, PriceStart, StartTypes, StartHeirs, StartSingle, StartDating
  DEF Init, IInv
<1>2. IInv /\ [Next]_vars => IInv'
  BY StepOfApi, StepOfRemover, ApiKeeps, PriceAmongOthers, NextTypes, NextHeirs, NextSingle,
     NextDating
  DEF IInv
<1> QED
  BY <1>1, <1>2, PTL DEF Spec

\* Every variable of the process at hand, and of those that are not, holds a value
\* of its kind, and what is held of a page or a table is still in the tables.
THEOREM TypeCorrect == Spec => []TypeOK
<1>1. Init => reader \in Reader
  BY DEF Init
<1>2. reader \in Reader /\ [Next]_vars => (reader \in Reader)'
  BY DEF Next, Api, FixPrices, FixDuplicates, Others, vars
<1>3. IInv /\ reader \in Reader => TypeOK
  BY DEF IInv, TypeOK, ApiInv, PriceInv, Types
<1> QED
  BY <1>1, <1>2, <1>3, Invariance, PTL DEF Spec

\* As the processes are started, whichever it is: a client's walk and a run of the
\* price script miss no transfer that was there when they began, the remover takes no
\* transfer's last row and leaves no duplicates, and a run of it that comes to its end
\* leaves no row of a transfer that has a document without a timestamp, then or later.
THEOREM ReadersHold ==
  Spec => /\ [](/\ WalksMissNothing /\ RunsMissNothing
                /\ LastRowsAreKept /\ DuplicatesAreGone)
          /\ RowsAreDated
<1>1. IInv => /\ WalksMissNothing /\ RunsMissNothing
              /\ LastRowsAreKept /\ DuplicatesAreGone
  BY WalksOweNothing, RunsOweNothing, SingleIsAll DEF IInv, Heirs
<1>2. IInv => (step = "done" => Dated)
  BY DEF IInv, Dating
<1>3. IInv /\ [Next]_vars => [Dated => Dated']_removerVars
  BY StepOfRemover, DatesStay DEF IInv
<1> QED
  BY <1>1, <1>2, <1>3, Invariance, PTL DEF Spec, RowsAreDated

\* A value is lost to a price that is zero, whichever process is started.
THEOREM ReadersKeepValues == Spec => ValuesAreLostToZeroPricesOnly
<1>1. IInv => PriceInv
  BY DEF IInv
<1> QED
  BY <1>1, Invariance, LossesArePrices, PTL
=============================================================================
