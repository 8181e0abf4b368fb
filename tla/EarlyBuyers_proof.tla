-------------------------- MODULE EarlyBuyers_proof --------------------------
(***************************************************************************)
(* Proofs about the early-buyer evidence, for every curve, page size and   *)
(* budget: what a report names as missing, how far its count can be from   *)
(* the truth, and that the buyers it names are the earliest.               *)
(***************************************************************************)
EXTENDS EarlyBuyers, FiniteSetTheorems, WellFoundedInduction, TLAPS

USE DEF curve, paging, sample, report

(* Sets of positions *)

\* A set of naturals that is not empty has a least element.
LEMMA MinNat ==
  ASSUME NEW S \in SUBSET Nat, S # {}
  PROVE  Min(S) \in S /\ \A x \in S : Min(S) <= x
<1>1. PICK m \in S : \A y \in S : ~(<<y, m>> \in OpToRel(<, Nat))
  BY NatLessThanWellFounded, WFMin, Zenon
<1>2. \A y \in S : y < m => <<y, m>> \in OpToRel(<, Nat)
  BY DEF OpToRel
<1>3. \A y \in S : ~(y < m)
  BY <1>1, <1>2, Zenon
<1>4. \A y \in S : m <= y
  BY <1>3
<1> QED BY <1>4 DEF Min

\* One that is bounded has a greatest.
LEMMA GreatestNat ==
  ASSUME NEW n \in Nat, NEW S \in SUBSET (0 .. n), S # {}
  PROVE  \E g \in S : \A x \in S : x <= g
<1> DEFINE D == {d \in Nat : n - d \in S}
<1>1. D # {} /\ D \in SUBSET Nat
  <2>1. PICK x \in S : TRUE OBVIOUS
  <2>2. n - x \in D BY <2>1
  <2> QED BY <2>2
<1>2. Min(D) \in D /\ \A d \in D : Min(D) <= d BY <1>1, MinNat
<1>3. \A x \in S : n - x \in D /\ x \in 0 .. n OBVIOUS
<1>4. \A x \in S : Min(D) <= n - x BY <1>2, <1>3
<1>5. Min(D) \in Nat /\ n - Min(D) \in S BY <1>2
<1> HIDE DEF D
<1>6. \A x \in S : x <= n - Min(D) BY <1>3, <1>4, <1>5
<1> QED BY <1>5, <1>6

\* Sets of positions are finite.
LEMMA PositionsFinite ==
  ASSUME NEW S \in SUBSET (0 .. MaxTx)
  PROVE  /\ IsFiniteSet(S) /\ Cardinality(S) \in Nat
         /\ \A T \in SUBSET S : /\ IsFiniteSet(T) /\ Cardinality(T) \in Nat
                                /\ Cardinality(T) <= Cardinality(S)
                                /\ (Cardinality(T) = Cardinality(S) => T = S)
<1>1. IsFiniteSet(0 .. MaxTx) BY FS_Interval, EvidenceAssumption
<1>2. IsFiniteSet(S) BY <1>1, FS_Subset
<1>3. Cardinality(S) \in Nat BY <1>2, FS_CardinalityType
<1>4. ASSUME NEW T \in SUBSET S
      PROVE  /\ IsFiniteSet(T) /\ Cardinality(T) \in Nat
             /\ Cardinality(T) <= Cardinality(S)
             /\ (Cardinality(T) = Cardinality(S) => T = S)
  <2>1. IsFiniteSet(T) /\ Cardinality(T) <= Cardinality(S)
        /\ (Cardinality(S) = Cardinality(T) => S = T)
    BY <1>2, FS_Subset
  <2>2. Cardinality(T) \in Nat BY <2>1, FS_CardinalityType
  <2> QED BY <2>1, <2>2
<1> QED BY <1>2, <1>3, <1>4

(* Pages *)

\* With one transaction a page has every later one that was asked for.
LEMMA NewestUpwards ==
  ASSUME NEW S \in SUBSET (0 .. MaxTx)
  PROVE  /\ Newest(S) \subseteq S
         /\ \A x \in Newest(S), y \in S : x <= y => y \in Newest(S)
<1>1. Newest(S) \subseteq S BY DEF Newest
<1>2. ASSUME NEW x \in Newest(S), NEW y \in S, x <= y
      PROVE  y \in Newest(S)
  <2> DEFINE X == {z \in S : x <= z}
             Y == {z \in S : y <= z}
  <2>1. x \in 0 .. MaxTx /\ y \in 0 .. MaxTx BY <1>1
  <2>2. Y \in SUBSET X
    <3> SUFFICES ASSUME NEW z \in S, y <= z PROVE x <= z
      OBVIOUS
    <3>1. z \in 0 .. MaxTx OBVIOUS
    <3> QED BY <2>1, <3>1, <1>2
  <2>3. X \in SUBSET (0 .. MaxTx) OBVIOUS
  <2>4. Cardinality(X) <= PageSize BY DEF Newest
  <2> HIDE DEF X, Y
  <2>5. Cardinality(X) \in Nat /\ Cardinality(Y) \in Nat
        /\ Cardinality(Y) <= Cardinality(X)
    BY <2>2, <2>3, PositionsFinite
  <2>6. Cardinality(Y) <= PageSize BY <2>4, <2>5, EvidenceAssumption
  <2> QED BY <2>6 DEF Newest, Y
<1> QED BY <1>1, <1>2

\* A page that is not full has everything that was asked for.
LEMMA NewestShort ==
  ASSUME NEW S \in SUBSET (0 .. MaxTx), Cardinality(Newest(S)) < PageSize
  PROVE  Newest(S) = S
<1> USE EvidenceAssumption
<1> SUFFICES ASSUME S \ Newest(S) # {} PROVE FALSE
  BY NewestUpwards
<1>1. PICK g \in S \ Newest(S) : \A x \in S \ Newest(S) : x <= g
  <2>1. S \ Newest(S) \in SUBSET (0 .. MaxTx) OBVIOUS
  <2> QED BY <2>1, GreatestNat
<1> DEFINE G == {z \in S : g <= z}
<1>2. G \in SUBSET (Newest(S) \cup {g})
  <2> SUFFICES ASSUME NEW z \in S, g <= z, z \notin Newest(S)
               PROVE  z = g
    OBVIOUS
  <2>1. z <= g BY <1>1
  <2>2. z \in Nat /\ g \in Nat OBVIOUS
  <2> QED BY <2>1, <2>2
<1>3. Newest(S) \in SUBSET (0 .. MaxTx) /\ g \in 0 .. MaxTx
  BY NewestUpwards
<1>4. IsFiniteSet(Newest(S)) /\ Cardinality(Newest(S)) \in Nat BY <1>3, PositionsFinite
<1>5. Cardinality(Newest(S) \cup {g}) = Cardinality(Newest(S)) + 1
  BY <1>4, FS_AddElement
<1>6. Newest(S) \cup {g} \in SUBSET (0 .. MaxTx) BY <1>3
<1> HIDE DEF G
<1>7. /\ Cardinality(G) \in Nat /\ Cardinality(Newest(S) \cup {g}) \in Nat
      /\ Cardinality(G) <= Cardinality(Newest(S) \cup {g})
  BY <1>2, <1>6, PositionsFinite
<1>8. Cardinality(G) <= PageSize BY <1>4, <1>5, <1>7
<1> QED BY <1>8, <1>1 DEF Newest, G

\* The numbers of the state, without the values that are true or false.
LEMMA Numbers ==
  ASSUME TypeOK
  PROVE  /\ MaxTx \in Nat /\ retained \in Nat /\ 1 <= retained
         /\ confirmed \in Nat /\ confirmed <= MaxTx /\ created \in 1 .. MaxTx
         /\ known \in Nat /\ known <= confirmed /\ cursor \in Nat /\ pages \in Nat
         /\ budget \in Nat /\ budget # 0 /\ pages <= budget
         /\ (cursor # 0 => cursor \in retained .. confirmed)
         /\ slot \in [1 .. MaxTx -> Nat]
         /\ \A x, y \in 1 .. MaxTx : x <= y => slot[x] <= slot[y]
         /\ retained .. confirmed \subseteq 1 .. MaxTx
         /\ \A x \in retained .. confirmed : x \in Nat /\ slot[x] \in Nat
         /\ slot[created] \in Nat
<1> USE EvidenceAssumption
<1>1. /\ slot \in Slots /\ created \in Creations /\ confirmed \in created .. MaxTx
      /\ retained \in 1 .. MaxTx /\ budget \in PageBudgets
      /\ cursor \in {0} \cup retained .. confirmed /\ pages \in 0 .. budget
      /\ known \in 0 .. confirmed
  BY Zenon DEF TypeOK
<1>2. created \in 1 .. MaxTx /\ slot \in [1 .. MaxTx -> Nat] BY <1>1
<1>3. \A x, y \in 1 .. MaxTx : x <= y => slot[x] <= slot[y] BY <1>1
<1>4. budget \in Nat /\ budget # 0 BY <1>1
<1>5. confirmed \in Nat /\ confirmed <= MaxTx /\ retained \in Nat /\ 1 <= retained
  BY <1>1, <1>2
<1>6. retained .. confirmed \subseteq 1 .. MaxTx BY <1>5
<1>7. known \in Nat /\ known <= confirmed /\ pages \in Nat /\ pages <= budget
  BY <1>1, <1>4, <1>5
<1>8. cursor \in Nat /\ (cursor # 0 => cursor \in retained .. confirmed) BY <1>1, <1>5
<1>9. \A x \in 1 .. MaxTx : x \in Nat /\ slot[x] \in Nat BY <1>2
<1> QED BY <1>2, <1>3, <1>4, <1>5, <1>6, <1>7, <1>8, <1>9

\* What one page says of the transactions asked for, those in S.
LEMMA PageCovers ==
  ASSUME TypeOK, NEW S \in SUBSET (retained .. confirmed)
  PROVE  /\ Newest(S) \subseteq S
         /\ Boundary(Newest(S)) => \A x \in S : InWindow(x) => x \in Newest(S)
         /\ ~Boundary(Newest(S)) =>
              /\ NextCursor(Newest(S)) \in S
              /\ \A x \in S : NextCursor(Newest(S)) <= x => x \in Newest(S)
<1> USE Numbers
<1>1. S \in SUBSET (0 .. MaxTx) /\ S \in SUBSET (1 .. MaxTx) OBVIOUS
<1>2. /\ Newest(S) \subseteq S
      /\ \A x \in Newest(S), y \in S : x <= y => y \in Newest(S)
  BY <1>1, NewestUpwards
<1>3. ASSUME Boundary(Newest(S)), NEW x \in S, InWindow(x)
      PROVE  x \in Newest(S)
  <2>1. CASE Cardinality(Newest(S)) < PageSize BY <1>1, <2>1, NewestShort
  <2>2. CASE \E y \in Newest(S) : slot[y] < slot[created]
    <3>1. PICK y \in Newest(S) : slot[y] < slot[created] BY <2>2
    <3>2. y \in 1 .. MaxTx /\ x \in 1 .. MaxTx /\ slot[x] \in Nat /\ slot[y] \in Nat
      BY <1>1, <1>2
    <3>3. slot[created] <= slot[x] BY <1>3 DEF InWindow
    <3>4. ~(x <= y) BY <3>1, <3>2, <3>3
    <3>5. y <= x BY <3>2, <3>4
    <3> QED BY <1>2, <3>5
  <2> QED BY <1>3, <2>1, <2>2 DEF Boundary
<1>4. ASSUME ~Boundary(Newest(S))
      PROVE  /\ NextCursor(Newest(S)) \in S
             /\ \A x \in S : NextCursor(Newest(S)) <= x => x \in Newest(S)
  <2>1. Newest(S) # {}
    <3>1. PageSize \in Nat \ {0} BY EvidenceAssumption
    <3>2. Cardinality({}) < PageSize BY <3>1, FS_EmptySet
    <3> QED BY <1>4, <3>2, Zenon DEF Boundary
  <2>2. Newest(S) \in SUBSET Nat BY <1>1, <1>2
  <2>3. NextCursor(Newest(S)) \in Newest(S) BY <2>1, <2>2, MinNat DEF NextCursor
  <2> QED BY <1>2, <2>3
<1> QED BY <1>2, <1>3, <1>4

-----------------------------------------------------------------------------
(* The invariant *)

\* Paging has seen everything from its cursor on that was there when it began; when it is
\* done with, everything relevant.
Paged ==
  /\ cursor # 0 => pages # 0
  /\ pc = "paging" => ~reached /\ pages < budget /\ (cursor = 0 => pages = 0)
  /\ \A x \in Relevant(retained .. known) : (cursor # 0 /\ cursor <= x) => x \in early
  /\ reached => Relevant(retained .. known) \subseteq early

\* What was decoded is of no later slot than what was left, and the report is about it.
Sampled ==
  /\ pc \in {"evidence", "done"} =>
       \A x \in attempted, y \in early \ attempted : slot[x] <= slot[y]
  /\ pc = "done" => status = Classification /\ gaps = MissingData

EInv == TypeOK /\ Paged /\ Sampled

\* Values that are neither true nor false.
StateType ==
  /\ kind \in [1 .. MaxTx -> Kinds] /\ slot \in Slots /\ created \in Creations
  /\ confirmed \in created .. MaxTx /\ retained \in 1 .. MaxTx
  /\ pc \in {"paging", "decoding", "evidence", "done", "failed"} /\ budget \in PageBudgets
  /\ cursor \in {0} \cup retained .. confirmed /\ pages \in 0 .. budget
  /\ early \subseteq Relevant(retained .. confirmed)
  /\ known \in 0 .. confirmed
  /\ attempted \subseteq early /\ missing \subseteq attempted
  /\ status \in Statuses \cup {"none"}
  /\ gaps \subseteq {"unavailable", "launch not reached", "not decoded"}

\* With the one that is, they are the types.
LEMMA StateTyped == TypeOK <=> StateType /\ reached \in BOOLEAN
BY Zenon DEF TypeOK, StateType

\* A page moves the cursor no further down than what it has read.
LEMMA ReadPageStep ==
  ASSUME EInv, pc = "paging", NEW S \in SUBSET (retained .. confirmed),
         \A x \in retained .. confirmed : x \in S \/ (cursor # 0 /\ cursor <= x),
         ReadPage(Newest(S)), UNCHANGED <<curve, confirmed, budget, sample, report>>
  PROVE  EInv'
<1> USE Numbers DEF EInv
<1> DEFINE page == Newest(S)
<1>1. /\ page \subseteq S
      /\ Boundary(page) => \A x \in S : InWindow(x) => x \in page
      /\ ~Boundary(page) =>
           /\ NextCursor(page) \in S
           /\ \A x \in S : NextCursor(page) <= x => x \in page
  BY PageCovers
<1>2. /\ pages' = pages + 1 /\ known' = (IF pages = 0 THEN confirmed ELSE known)
      /\ early' = early \cup Relevant(page)
      /\ reached' = Boundary(page)
      /\ cursor' = (IF reached' THEN cursor ELSE NextCursor(page))
      /\ pc' = (IF reached' \/ cursor' = cursor \/ pages' = budget
                THEN "decoding" ELSE "paging")
      /\ UNCHANGED <<curve, confirmed, budget, sample, report>>
  BY DEF ReadPage
<1> HIDE DEF page
<1>3. reached' \in BOOLEAN /\ (reached' <=> Boundary(page))
  BY <1>2, Zenon DEF Boundary
<1>4. pages < budget /\ ~reached /\ (cursor = 0 <=> pages = 0)
  BY DEF Paged
<1>5. known' \in 0 .. confirmed /\ \A x \in retained .. known' : x \in retained .. confirmed
  BY <1>2
<1>6. ASSUME NEW x \in Relevant(retained .. known'), x \notin S
      PROVE  x \in early
  <2>1. x \in retained .. known' /\ x \in retained .. confirmed BY <1>5 DEF Relevant
  <2>2. cursor # 0 /\ cursor <= x BY <1>6, <2>1
  <2>3. pages # 0 /\ known' = known BY <1>2, <1>4, <2>2
  <2>4. x \in Relevant(retained .. known) BY <2>3
  <2> QED BY <2>2, <2>4 DEF Paged
<1>7. \A x \in page : x \in Relevant(retained .. known') => x \in early'
  BY <1>2 DEF Relevant
<1>8. \A x \in Relevant(retained .. known') : InWindow(x) BY DEF Relevant
<1>9. CASE Boundary(page)
  <2>1. \A x \in Relevant(retained .. known') : x \in early'
    BY <1>1, <1>2, <1>6, <1>7, <1>8, <1>9
  <2>2. cursor' = cursor /\ pc' = "decoding" BY <1>2, <1>3, <1>9
  <2>3. /\ cursor \in {0} \cup retained .. confirmed
        /\ pages' \in 0 .. budget /\ pages' # 0
    BY <1>2, <1>4
  <2>4. Relevant(retained .. known)' = Relevant(retained .. known')
    BY <1>2 DEF Relevant, InWindow
  <2>5. Paged' BY <2>1, <2>2, <2>3, <2>4 DEF Paged
  <2>6. Relevant(page) \subseteq Relevant(retained .. confirmed)
    BY <1>1 DEF Relevant
  <2>7. (Relevant(retained .. confirmed))' = Relevant(retained .. confirmed)
    BY <1>2 DEF Relevant, InWindow
  <2>8. StateType' BY <1>2, <1>5, <2>2, <2>3, <2>6, <2>7, StateTyped DEF StateType
  <2>9. Sampled' BY <2>2 DEF Sampled
  <2>10. TypeOK' BY <1>3, <2>8, Zenon DEF TypeOK, StateType
  <2> QED BY <2>5, <2>9, <2>10
<1>10. CASE ~Boundary(page)
  <2>1. cursor' = NextCursor(page) /\ ~reached' BY <1>2, <1>3, <1>10
  <2>2. cursor' \in retained .. confirmed /\ cursor' # 0
    <3>1. cursor' \in S BY <1>1, <1>10, <2>1
    <3> QED BY <3>1
  <2>3. \A x \in Relevant(retained .. known') : cursor' <= x => x \in early'
    BY <1>1, <1>2, <1>6, <1>7, <1>10, <2>1
  <2>4. /\ pages' \in 0 .. budget /\ pages' # 0 /\ pc' \in {"decoding", "paging"}
        /\ (pc' = "paging" => pages' < budget)
    BY <1>2, <1>4
  <2>5. Relevant(retained .. known)' = Relevant(retained .. known')
    BY <1>2 DEF Relevant, InWindow
  <2>6. Paged' BY <1>2, <2>1, <2>2, <2>3, <2>4, <2>5 DEF Paged
  <2>7. Relevant(page) \subseteq Relevant(retained .. confirmed)
    BY <1>1 DEF Relevant
  <2>8. (Relevant(retained .. confirmed))' = Relevant(retained .. confirmed)
    BY <1>2 DEF Relevant, InWindow
  <2>9. StateType' BY <1>2, <1>5, <2>2, <2>4, <2>7, <2>8, StateTyped DEF StateType
  <2>10. Sampled' BY <2>4 DEF Sampled
  <2>11. TypeOK' BY <1>3, <2>9, Zenon DEF TypeOK, StateType
  <2> QED BY <2>6, <2>10, <2>11
<1> QED BY <1>9, <1>10

\* Every step keeps what is known of the pages and of the sample.
LEMMA EvidenceStep ==
  ASSUME EInv, [Next]_vars
  PROVE  EInv'
<1> USE Numbers DEF EInv
<1>0. StateType /\ reached \in BOOLEAN BY StateTyped
<1>1. CASE Confirm
  <2>1. confirmed' = confirmed + 1 /\ confirmed < MaxTx
        /\ UNCHANGED <<curve, pc, budget, paging, sample, report>>
    BY <1>1 DEF Confirm
  <2>2. retained .. confirmed \subseteq retained .. confirmed' BY <2>1
  <2>3. Relevant(retained .. confirmed) \subseteq (Relevant(retained .. confirmed))'
        /\ (Relevant(retained .. known))' = Relevant(retained .. known)
    BY <2>1, <2>2 DEF Relevant, InWindow
  <2>4. confirmed' \in created .. MaxTx /\ known \in 0 .. confirmed'
    <3>1. confirmed \in created .. MaxTx BY <1>0, Zenon DEF StateType
    <3>2. confirmed' \in created .. MaxTx BY <2>1, <3>1
    <3>3. known \in 0 .. confirmed' BY <2>1
    <3> QED BY <3>2, <3>3
  <2>5. StateType' BY <1>0, <2>1, <2>2, <2>3, <2>4 DEF StateType
  <2>6. TypeOK' BY <1>0, <2>1, <2>5, Zenon DEF TypeOK, StateType
  <2>7. Paged' BY <2>1, <2>3 DEF Paged
  <2>8. Classification' = Classification /\ MissingData' = MissingData
    BY <2>1 DEF Classification, LaunchTimeReachable, CoverageProven, Buys, Fetched,
      MissingData, IndependentBlockVerified
  <2>9. Sampled' BY <2>1, <2>8 DEF Sampled
  <2> QED BY <2>6, <2>7, <2>9
<1>2. CASE ListPage
  <2>1. pc = "paging" /\ UNCHANGED <<curve, confirmed, budget, sample, report>>
    BY <1>2 DEF ListPage
  <2> DEFINE S(before) == {x \in retained .. confirmed : before = 0 \/ x < before}
  <2>2. ASSUME NEW before \in {0, cursor}
        PROVE  /\ S(before) \in SUBSET (retained .. confirmed)
               /\ \A x \in retained .. confirmed :
                    x \in S(before) \/ (cursor # 0 /\ cursor <= x)
    OBVIOUS
  <2>3. CASE ReadPage(Page(cursor)) BY <2>1, <2>2, <2>3, ReadPageStep DEF Page
  <2>4. CASE ReadPage(Page(0)) BY <2>1, <2>2, <2>4, ReadPageStep DEF Page
  <2> QED BY <1>2, <2>3, <2>4 DEF ListPage
<1>3. CASE Decode
  <2>1. /\ attempted' \in Chosen /\ missing' \in SUBSET attempted' /\ pc' = "evidence"
        /\ UNCHANGED <<curve, confirmed, budget, paging, report>>
    BY <1>3 DEF Decode
  <2>2. attempted' \subseteq early
        /\ \A x \in attempted', y \in early \ attempted' : slot[x] <= slot[y]
    BY <2>1 DEF Chosen, kSubset
  <2>3. (Relevant(retained .. confirmed))' = Relevant(retained .. confirmed)
        /\ (Relevant(retained .. known))' = Relevant(retained .. known)
    BY <2>1 DEF Relevant, InWindow
  <2>4. StateType' BY <1>0, <2>1, <2>2, <2>3 DEF StateType
  <2>5. TypeOK' BY <1>0, <2>1, <2>4, Zenon DEF TypeOK, StateType
  <2>6. Paged' BY <2>1, <2>3 DEF Paged
  <2>7. Sampled' BY <2>1, <2>2 DEF Sampled
  <2> QED BY <2>5, <2>6, <2>7
<1>4. CASE CallFails
  <2>1. /\ pc' = "failed" /\ status' = "unknown_incomplete"
        /\ UNCHANGED <<curve, confirmed, budget, paging, sample, gaps>>
    BY <1>4 DEF CallFails
  <2>2. (Relevant(retained .. confirmed))' = Relevant(retained .. confirmed)
        /\ (Relevant(retained .. known))' = Relevant(retained .. known)
    BY <2>1 DEF Relevant, InWindow
  <2>3. StateType' BY <1>0, <2>1, <2>2 DEF StateType, Statuses
  <2>4. TypeOK' BY <1>0, <2>1, <2>3, Zenon DEF TypeOK, StateType
  <2>5. Paged' BY <2>1, <2>2 DEF Paged
  <2>6. Sampled' BY <2>1 DEF Sampled
  <2> QED BY <2>4, <2>5, <2>6
<1>5. CASE Publish
  <2>1. /\ pc = "evidence" /\ status' = Classification /\ gaps' = MissingData /\ pc' = "done"
        /\ UNCHANGED <<curve, confirmed, budget, paging, sample>>
    BY <1>5 DEF Publish
  <2>2. (Relevant(retained .. confirmed))' = Relevant(retained .. confirmed)
        /\ (Relevant(retained .. known))' = Relevant(retained .. known)
    BY <2>1 DEF Relevant, InWindow
  <2>3. Classification \in Statuses BY DEF Classification, Statuses
  <2>4. MissingData \subseteq {"unavailable", "launch not reached", "not decoded"}
    BY DEF MissingData
  <2>5. StateType' BY <1>0, <2>1, <2>2, <2>3, <2>4 DEF StateType
  <2>6. TypeOK' BY <1>0, <2>1, <2>5, Zenon DEF TypeOK, StateType
  <2>7. Paged' BY <2>1, <2>2 DEF Paged
  <2>8. Classification' = Classification /\ MissingData' = MissingData
    BY <2>1 DEF Classification, LaunchTimeReachable, CoverageProven, Buys, Fetched,
      MissingData, IndependentBlockVerified
  <2>9. Sampled' BY <2>1, <2>8 DEF Sampled
  <2> QED BY <2>6, <2>7, <2>9
<1>6. CASE UNCHANGED vars
  <2>1. (Relevant(retained .. confirmed))' = Relevant(retained .. confirmed)
        /\ (Relevant(retained .. known))' = Relevant(retained .. known)
    BY <1>6 DEF vars, Relevant, InWindow
  <2>2. StateType' BY <1>0, <1>6, <2>1 DEF vars, StateType
  <2>3. TypeOK' BY <1>0, <1>6, <2>2, Zenon DEF vars, TypeOK, StateType
  <2>4. Paged' BY <1>6, <2>1 DEF vars, Paged
  <2>5. Classification' = Classification /\ MissingData' = MissingData
    BY <1>6 DEF vars, Classification, LaunchTimeReachable, CoverageProven, Buys, Fetched,
      MissingData, IndependentBlockVerified
  <2>6. Sampled' BY <1>6, <2>5 DEF vars, Sampled
  <2> QED BY <2>3, <2>4, <2>6
<1> QED BY <1>1, <1>2, <1>3, <1>4, <1>5, <1>6 DEF Next

\* What holds of a report that has not been begun.
LEMMA EvidenceInit ==
  ASSUME Init
  PROVE  EInv
<1> USE EvidenceAssumption DEF Init
<1>1. /\ kind \in [1 .. MaxTx -> Kinds] /\ slot \in Slots /\ created \in Creations
      /\ confirmed \in created .. MaxTx /\ retained \in 1 .. MaxTx
      /\ pc = "paging" /\ budget \in PageBudgets /\ cursor = 0 /\ pages = 0 /\ early = {}
      /\ known = 0 /\ attempted = {} /\ missing = {} /\ status = "none" /\ gaps = {}
  BY Zenon
<1>2. reached = FALSE BY Zenon
<1>3. budget \in Nat /\ 0 < budget BY <1>1
<1>4. 0 \in 0 .. confirmed
  <2>1. created \in 1 .. MaxTx BY <1>1
  <2> QED BY <1>1, <2>1
<1>5. StateType BY <1>1, <1>3, <1>4 DEF StateType
<1>6. TypeOK BY <1>2, <1>5, StateTyped, Zenon
<1>7. Paged BY <1>1, <1>2, <1>3 DEF Paged
<1>8. Sampled BY <1>1 DEF Sampled
<1> QED BY <1>6, <1>7, <1>8 DEF EInv

\* It holds all along.
LEMMA EvidenceInvariant == Spec => []EInv
<1>1. Init => EInv BY EvidenceInit
<1>2. EInv /\ [Next]_vars => EInv' BY EvidenceStep
<1> QED BY <1>1, <1>2, PTL DEF Spec

-----------------------------------------------------------------------------
(* What a report says *)

\* What was seen is a set of positions, of which no more than all were decoded.
LEMMA Seen ==
  ASSUME EInv
  PROVE  /\ early \in SUBSET (0 .. MaxTx) /\ attempted \in SUBSET early
         /\ missing \in SUBSET attempted
         /\ Cardinality(attempted) \in Nat /\ Cardinality(early) \in Nat
         /\ Cardinality(attempted) <= Cardinality(early)
         /\ (Cardinality(attempted) = Cardinality(early) => attempted = early)
<1> USE DEF EInv
<1>1. early \subseteq Relevant(retained .. confirmed) /\ attempted \subseteq early
      /\ missing \subseteq attempted
  BY Zenon DEF TypeOK
<1>2. retained .. confirmed \subseteq 1 .. MaxTx /\ MaxTx \in Nat BY Numbers
<1>3. early \in SUBSET (0 .. MaxTx) BY <1>1, <1>2 DEF Relevant
<1> QED BY <1>1, <1>3, PositionsFinite

\* Every variable of the evidence collection keeps its type: only transactions of the launch
\* window are decoded, and the cursor is always one the provider has listed
\* (collect_early_buys).
THEOREM TypeCorrect == Spec => []TypeOK
<1>1. EInv => TypeOK BY DEF EInv
<1> QED BY <1>1, EvidenceInvariant, PTL

\* A report whose accounting names nothing missing (collect_evidence) has every buy of the
\* window that the provider listed when paging began.
THEOREM NothingUnsaid == Spec => []NothingMissingUnsaid
<1>1. EInv => NothingMissingUnsaid
  <2> SUFFICES ASSUME EInv, pc = "done", gaps = {},
                      NEW x \in WindowBuys, x \in retained .. known
               PROVE  x \in Buys
    BY DEF NothingMissingUnsaid
  <2>1. MissingData = {} BY DEF EInv, Sampled
  <2>2. missing = {} /\ reached /\ ~(Cardinality(attempted) < Cardinality(early))
    <3>1. "unavailable" \notin MissingData /\ "launch not reached" \notin MissingData
          /\ "not decoded" \notin MissingData
      BY <2>1
    <3> QED BY <3>1 DEF MissingData
  <2>3. attempted = early BY <2>2, Seen
  <2>4. kind[x] = "buy" /\ InWindow(x) BY DEF WindowBuys
  <2>5. x \in Relevant(retained .. known) BY <2>4 DEF Relevant
  <2>6. x \in early BY <2>2, <2>5 DEF EInv, Paged
  <2> QED BY <2>2, <2>3, <2>4, <2>6 DEF Buys, Fetched
<1> QED BY <1>1, EvidenceInvariant, PTL

\* A union has no more elements than its two parts together.
LEMMA UnionBounded ==
  ASSUME NEW S, NEW T, IsFiniteSet(S), IsFiniteSet(T)
  PROVE  /\ IsFiniteSet(S \cup T) /\ Cardinality(S \cup T) \in Nat
         /\ Cardinality(S \cup T) <= Cardinality(S) + Cardinality(T)
<1>1. /\ IsFiniteSet(S \cup T)
      /\ Cardinality(S \cup T) = Cardinality(S) + Cardinality(T) - Cardinality(S \cap T)
  BY FS_Union
<1>2. IsFiniteSet(S \cap T) BY FS_Subset, S \cap T \in SUBSET S
<1>3. /\ Cardinality(S) \in Nat /\ Cardinality(T) \in Nat
      /\ Cardinality(S \cap T) \in Nat /\ Cardinality(S \cup T) \in Nat
  BY <1>1, <1>2, FS_CardinalityType
<1> QED BY <1>1, <1>3

\* The numbers a report with a count publishes (collect_evidence) bound the truth from above:
\* the buying transactions listed when paging began are no more than those counted, those
\* unavailable, and those seen and not decoded.
THEOREM CountsBracket == Spec => []CountBracketed
<1>1. EInv => CountBracketed
  <2> SUFFICES ASSUME EInv, pc = "done", status # "unknown_incomplete"
               PROVE  Cardinality(WindowBuys \cap (retained .. known)) <=
                        Cardinality(Buys) + Cardinality(missing)
                          + (Cardinality(early) - Cardinality(attempted))
    BY DEF CountBracketed
  <2> DEFINE listed == WindowBuys \cap (retained .. known)
             undecoded == early \ attempted
  <2>1. reached
    <3>1. Classification # "unknown_incomplete" BY DEF EInv, Sampled
    <3>2. LaunchTimeReachable BY <3>1 DEF Classification
    <3> QED BY <3>2 DEF LaunchTimeReachable
  <2>2. listed \subseteq (Buys \cup missing) \cup undecoded
    <3> SUFFICES ASSUME NEW x \in WindowBuys, x \in retained .. known
                 PROVE  x \in (Buys \cup missing) \cup undecoded
      OBVIOUS
    <3>1. kind[x] = "buy" /\ InWindow(x) BY DEF WindowBuys
    <3>2. x \in Relevant(retained .. known) BY <3>1 DEF Relevant
    <3>3. x \in early BY <2>1, <3>2 DEF EInv, Paged
    <3> QED BY <3>1, <3>3 DEF Buys, Fetched
  <2>3. /\ early \in SUBSET (0 .. MaxTx) /\ attempted \in SUBSET early
        /\ missing \in SUBSET early /\ Buys \in SUBSET early /\ undecoded \in SUBSET early
    BY Seen DEF Buys, Fetched
  <2>4. /\ IsFiniteSet(early) /\ IsFiniteSet(missing) /\ IsFiniteSet(Buys)
        /\ IsFiniteSet(undecoded) /\ IsFiniteSet(attempted)
    BY <2>3, PositionsFinite
  <2>5. Cardinality(undecoded) = Cardinality(early) - Cardinality(attempted)
    <3>1. Cardinality(undecoded) = Cardinality(early) - Cardinality(early \cap attempted)
      BY <2>4, FS_Difference
    <3>2. early \cap attempted = attempted BY <2>3
    <3> QED BY <3>1, <3>2
  <2> HIDE DEF listed, undecoded
  <2>6. /\ IsFiniteSet(Buys \cup missing)
        /\ Cardinality(Buys \cup missing) <= Cardinality(Buys) + Cardinality(missing)
    BY <2>4, UnionBounded
  <2>7. /\ IsFiniteSet((Buys \cup missing) \cup undecoded)
        /\ Cardinality((Buys \cup missing) \cup undecoded) <=
             Cardinality(Buys \cup missing) + Cardinality(undecoded)
    BY <2>4, <2>6, UnionBounded
  <2>8. /\ IsFiniteSet(listed)
        /\ Cardinality(listed) <= Cardinality((Buys \cup missing) \cup undecoded)
    BY <2>2, <2>7, FS_Subset
  <2>9. /\ Cardinality(listed) \in Nat /\ Cardinality(Buys) \in Nat
        /\ Cardinality(missing) \in Nat /\ Cardinality(undecoded) \in Nat
        /\ Cardinality(Buys \cup missing) \in Nat
        /\ Cardinality((Buys \cup missing) \cup undecoded) \in Nat
    BY <2>4, <2>6, <2>7, <2>8, FS_CardinalityType
  <2>10. Cardinality(listed) <=
           Cardinality(Buys) + Cardinality(missing) + Cardinality(undecoded)
    BY <2>6, <2>7, <2>8, <2>9
  <2>11. Cardinality(listed) <= Cardinality(Buys) + Cardinality(missing)
                                  + (Cardinality(early) - Cardinality(attempted))
    BY <2>5, <2>10
  <2> QED BY <2>11, Zenon DEF listed
<1> QED BY <1>1, EvidenceInvariant, PTL

\* The buyers a report names are the earliest that could be shown: once the paging has
\* reached the launch, no transaction of the window of an earlier slot than a reported buy
\* was left undecoded (the order of collect_early_buys' candidates).
THEOREM EarliestFirst == Spec => []NoEarlierBuyerSkipped
<1>1. EInv => NoEarlierBuyerSkipped
  <2> SUFFICES ASSUME EInv, pc = "done", reached, NEW x \in Buys,
                      NEW y \in Relevant(retained .. known), slot[y] < slot[x],
                      y \notin attempted
               PROVE  FALSE
    BY DEF NoEarlierBuyerSkipped
  <2>1. y \in early BY DEF EInv, Paged
  <2>2. x \in attempted BY DEF Buys, Fetched
  <2>3. slot[x] <= slot[y] BY <2>1, <2>2 DEF EInv, Sampled
  <2>4. slot[x] \in Nat /\ slot[y] \in Nat
    <3>1. slot \in [1 .. MaxTx -> Nat] /\ retained .. confirmed \subseteq 1 .. MaxTx
      BY Numbers DEF EInv
    <3>2. early \subseteq Relevant(retained .. confirmed) /\ attempted \subseteq early
      BY Zenon DEF EInv, TypeOK
    <3>3. x \in 1 .. MaxTx /\ y \in 1 .. MaxTx BY <2>1, <2>2, <3>1, <3>2 DEF Relevant
    <3> QED BY <3>1, <3>3
  <2> QED BY <2>3, <2>4
<1> QED BY <1>1, EvidenceInvariant, PTL
=============================================================================
