---------------------------- MODULE Scoring_proof ----------------------------
(***************************************************************************)
(* Proofs about the scoring of a launch, for any bundle and any bounds:    *)
(* what the search reports is in the evidence, it reports all of it where  *)
(* nothing had to be cut, and a report that calls itself complete says of  *)
(* every first buyer what the evidence says.                               *)
(***************************************************************************)
EXTENDS Scoring, FiniteSetTheorems, TLAPS

-----------------------------------------------------------------------------
(* The preferred transfers *)

\* Sorted by rank, every transfer has a place of its own, and every place is taken.
LEMMA Places ==
  ASSUME NEW C \in SUBSET edges, edges \subseteq Transfers
  PROVE  /\ IsFiniteSet(C) /\ Cardinality(C) \in Nat
         /\ \A e \in C : Place(e, C) \in 1 .. Cardinality(C)
         /\ \A e, f \in C : Place(e, C) = Place(f, C) => e = f
         /\ \A i \in 1 .. Cardinality(C) : \E e \in C : Place(e, C) = i
<1> DEFINE Upto(e) == {f \in C : f.rank <= e.rank}
           n == Cardinality(C)
           place == [e \in C |-> Place(e, C)]
<1>1. IsFiniteSet(C) /\ n \in Nat BY BundleAssumption, FS_Subset, FS_CardinalityType
<1>2. \A e \in C : e.rank \in Nat BY BundleAssumption
<1>3. \A e, f \in C : e.rank = f.rank => e = f BY BundleAssumption
<1>4. ASSUME NEW e \in C
      PROVE  Place(e, C) \in 1 .. n /\ IsFiniteSet(Upto(e))
  <2>1. Upto(e) \in SUBSET C /\ e \in Upto(e) BY <1>2
  <2>2. IsFiniteSet(Upto(e)) /\ Cardinality(Upto(e)) <= n BY <1>1, <2>1, FS_Subset
  <2>3. Cardinality(Upto(e)) \in Nat /\ Cardinality(Upto(e)) # 0
    BY <2>1, <2>2, FS_CardinalityType, FS_EmptySet
  <2> QED BY <1>1, <2>2, <2>3 DEF Place
<1>5. ASSUME NEW e \in C, NEW f \in C, e # f, Place(e, C) = Place(f, C)
      PROVE  FALSE
  <2>1. ASSUME NEW a \in C, NEW b \in C, a.rank < b.rank, Place(a, C) = Place(b, C)
        PROVE  FALSE
    <3>1. Upto(a) \in SUBSET Upto(b) /\ b \in Upto(b) /\ b \notin Upto(a) BY <1>2, <2>1
    <3>2. Cardinality(Upto(b)) = Cardinality(Upto(a)) BY <2>1 DEF Place
    <3> HIDE DEF Upto
    <3>3. Upto(a) = Upto(b) BY <1>4, <3>1, <3>2, FS_Subset
    <3> QED BY <3>1, <3>3
  <2>2. e.rank < f.rank \/ f.rank < e.rank BY <1>2, <1>3, <1>5
  <2> QED BY <1>5, <2>1, <2>2
<1>6. place \in [C -> 1 .. n] BY <1>4
<1>7. place \in Injection(C, 1 .. n) BY <1>5, <1>6 DEF Injection, IsInjective
<1>8. IsFiniteSet(1 .. n) /\ Cardinality(1 .. n) = n BY <1>1, FS_Interval
<1>9. place \in Surjection(C, 1 .. n) BY <1>7, <1>8, FS_Injection, Zenon
<1>10. \A i \in 1 .. n : \E e \in C : place[e] = i BY <1>9 DEF Surjection
<1> QED BY <1>1, <1>4, <1>5, <1>10

\* Only candidates are preferred, and all of them where there are no more than MaxBranch.
LEMMA PreferredAre ==
  ASSUME NEW C \in SUBSET edges, edges \subseteq Transfers
  PROVE  /\ \A i \in DOMAIN Preferred(C) : Preferred(C)[i] \in C
         /\ \E m \in Nat : DOMAIN Preferred(C) = 1 .. m
         /\ Cardinality(C) <= MaxBranch =>
              \A e \in C : \E i \in DOMAIN Preferred(C) : Preferred(C)[i] = e
<1> DEFINE n == Cardinality(C)
           m == IF n <= MaxBranch THEN n ELSE MaxBranch
<1>1. MaxBranch \in Nat BY BundleAssumption
<1>2. n \in Nat /\ m \in Nat /\ m <= n BY <1>1, Places
<1>3. Preferred(C) = [i \in 1 .. m |-> CHOOSE e \in C : Place(e, C) = i] BY DEF Preferred
<1>4. \A i \in 1 .. n : \E e \in C : Place(e, C) = i BY Places
<1>5. \A e \in C : Place(e, C) \in 1 .. n BY Places
<1>6. \A e, f \in C : Place(e, C) = Place(f, C) => e = f BY Places
<1> HIDE DEF n, m
<1>7. \A i \in 1 .. m : Preferred(C)[i] \in C /\ Place(Preferred(C)[i], C) = i
  <2> SUFFICES ASSUME NEW i \in 1 .. m
               PROVE  LET e == CHOOSE e \in C : Place(e, C) = i
                      IN  e \in C /\ Place(e, C) = i
    BY <1>3
  <2>1. i \in 1 .. n BY <1>2
  <2>2. \E e \in C : Place(e, C) = i BY <1>4, <2>1 DEF n
  <2> QED BY <2>2
<1>8. DOMAIN Preferred(C) = 1 .. m BY <1>3
<1>9. ASSUME n <= MaxBranch, NEW e \in C
      PROVE  \E i \in 1 .. m : Preferred(C)[i] = e
  <2>1. m = n BY <1>9 DEF m
  <2>2. Place(e, C) \in 1 .. m BY <1>5, <2>1 DEF n
  <2> QED BY <1>6, <1>7, <2>2
<1> QED BY <1>2, <1>7, <1>8, <1>9 DEF n

-----------------------------------------------------------------------------
(* Chains of transfers *)

Evidence == {e \in edges : e.verified}

\* The reference, written out.
Chain(c, w, s) ==
  /\ c \in Seq(Evidence) /\ Len(c) \in 1 .. MaxHops
  /\ \A i \in 1 .. Len(c) :
       /\ c[i].to = IF i = 1 THEN w ELSE c[i - 1].from
       /\ c[i].slot < IF i = 1 THEN s ELSE c[i - 1].slot
       /\ c[i].from \in labels <=> i = Len(c)
  /\ \A i \in 1 .. Len(c) : c[i].from # w
  /\ \A i, j \in 1 .. Len(c) : c[i].from = c[j].from => i = j

\* The sequences of at most n elements.
LEMMA SeqOfIs ==
  ASSUME NEW S, NEW n \in Nat, NEW c
  PROVE  c \in SeqOf(S, n) <=> c \in Seq(S) /\ Len(c) <= n
<1>1. ASSUME c \in SeqOf(S, n)
      PROVE  c \in Seq(S) /\ Len(c) <= n
  <2>1. PICK m \in 0 .. n : c \in [1 .. m -> S] BY <1>1 DEF SeqOf
  <2> QED BY <2>1
<1>2. ASSUME c \in Seq(S), Len(c) <= n
      PROVE  c \in SeqOf(S, n)
  <2>1. Len(c) \in 0 .. n /\ c \in [1 .. Len(c) -> S] BY <1>2
  <2> QED BY <2>1 DEF SeqOf
<1> QED BY <1>1, <1>2

\* That is what the reference says.
LEMMA ChainsAre ==
  ASSUME NEW w, NEW s, NEW c
  PROVE  c \in Chains(w, s) <=> Chain(c, w, s)
<1> DEFINE node(i) == IF i = 0 THEN w ELSE c[i].from
<1>1. c \in SeqOf(Evidence, MaxHops) <=> c \in Seq(Evidence) /\ Len(c) <= MaxHops
  BY SeqOfIs, BundleAssumption
<1>2. c \in Chains(w, s) <=>
        /\ c \in SeqOf(Evidence, MaxHops)
        /\ c # <<>>
        /\ \A i \in 1 .. Len(c) : /\ c[i].to = node(i - 1)
                                  /\ c[i].slot < IF i = 1 THEN s ELSE c[i - 1].slot
                                  /\ node(i) \in labels <=> i = Len(c)
        /\ \A i, j \in 0 .. Len(c) : node(i) = node(j) => i = j
  BY DEF Chains, Evidence
<1> DEFINE L == Len(c)
           Linked(i) == /\ c[i].to = IF i = 1 THEN w ELSE c[i - 1].from
                        /\ c[i].slot < IF i = 1 THEN s ELSE c[i - 1].slot
                        /\ c[i].from \in labels <=> i = L
           Steps(i) == /\ c[i].to = node(i - 1)
                       /\ c[i].slot < IF i = 1 THEN s ELSE c[i - 1].slot
                       /\ node(i) \in labels <=> i = L
<1>3. MaxHops \in Nat BY BundleAssumption
<1>4. ASSUME c \in Seq(Evidence)
      PROVE  L \in Nat /\ (c # <<>> <=> L # 0)
  BY <1>4
<1>5. ASSUME L \in Nat
      PROVE  /\ (\A i \in 1 .. L : Linked(i)) <=> (\A i \in 1 .. L : Steps(i))
             /\ (\A i, j \in 0 .. L : node(i) = node(j) => i = j) <=>
                  /\ \A i \in 1 .. L : c[i].from # w
                  /\ \A i, j \in 1 .. L : c[i].from = c[j].from => i = j
  <2>1. \A i \in 1 .. L : node(i) = c[i].from /\ i # 0 /\ i \in 0 .. L BY <1>5
  <2>2. \A i \in 1 .. L : node(i - 1) = IF i = 1 THEN w ELSE c[i - 1].from BY <1>5
  <2>3. node(0) = w /\ 0 \in 0 .. L /\ \A i \in 0 .. L : i = 0 \/ i \in 1 .. L BY <1>5
  <2> HIDE DEF node, L
  <2>4. ASSUME NEW i \in 1 .. L
        PROVE  Linked(i) <=> Steps(i)
    BY <2>1, <2>2
  <2> HIDE DEF Linked, Steps
  <2>5. ASSUME \A i, j \in 0 .. L : node(i) = node(j) => i = j
        PROVE  /\ \A i \in 1 .. L : c[i].from # w
               /\ \A i, j \in 1 .. L : c[i].from = c[j].from => i = j
    BY <2>1, <2>3, <2>5
  <2>6. ASSUME /\ \A i \in 1 .. L : c[i].from # w
               /\ \A i, j \in 1 .. L : c[i].from = c[j].from => i = j
        PROVE  \A i, j \in 0 .. L : node(i) = node(j) => i = j
    BY <2>1, <2>3, <2>6
  <2> QED BY <2>4, <2>5, <2>6
<1> DEFINE Apart == \A i, j \in 0 .. L : node(i) = node(j) => i = j
           Alone == /\ \A i \in 1 .. L : c[i].from # w
                    /\ \A i, j \in 1 .. L : c[i].from = c[j].from => i = j
           Good == \A i \in 1 .. L : Steps(i)
           Fine == \A i \in 1 .. L : Linked(i)
<1>6. c \in Chains(w, s) <=> c \in SeqOf(Evidence, MaxHops) /\ c # <<>> /\ Good /\ Apart
  BY <1>2, Zenon
<1>7. Chain(c, w, s) <=> c \in Seq(Evidence) /\ L \in 1 .. MaxHops /\ Fine /\ Alone
  BY Zenon DEF Chain
<1>8. L \in Nat => (Good <=> Fine) /\ (Apart <=> Alone) BY <1>5, Zenon
<1> HIDE DEF L, Apart, Alone, Good, Fine
<1>9. c \in Seq(Evidence) => (c # <<>> /\ L <= MaxHops <=> L \in 1 .. MaxHops) BY <1>3, <1>4
<1>10. c \in SeqOf(Evidence, MaxHops) <=> c \in Seq(Evidence) /\ L <= MaxHops BY <1>1 DEF L
<1> QED BY <1>4, <1>6, <1>7, <1>8, <1>9, <1>10, Zenon

-----------------------------------------------------------------------------
(* The invariant *)

\* The bundle, the buyers, and what has been said of them.
StateType ==
  /\ buys \subseteq Buys /\ edges \subseteq Transfers /\ labels \subseteq Labels
  /\ claimed \subseteq Wallets
  /\ pc \in {"start", "next", "search", "done"}
  /\ first \subseteq buys /\ buy \in first \cup {NoBuy}
  /\ finding \in [Wallets -> {"none", "unknown", "unfunded", "unprofitable", "qualified"}]
  /\ status \in {"none", "partial", "complete"}

ItemType == [nodes : Seq(Addresses), used : Seq(Evidence)]

\* An item is a chain that no labelled address interrupts.
Real(p) ==
  /\ p \in ItemType
  /\ Len(p.nodes) = Len(p.used) + 1 /\ Len(p.used) <= MaxHops
  /\ p.nodes[1] = buy.wallet
  /\ \A i \in 1 .. Len(p.used) :
       /\ p.nodes[i + 1] = p.used[i].from /\ p.used[i].to = p.nodes[i]
       /\ p.used[i].slot < IF i = 1 THEN buy.slot ELSE p.used[i - 1].slot
       /\ p.used[i].from \in labels => i = Len(p.used)
  /\ \A i, j \in 1 .. Len(p.nodes) : p.nodes[i] = p.nodes[j] => i = j

Items == ToSet(queue)

\* What waits and what was recorded is in the evidence; what was recorded ends at a label.
Traced ==
  /\ queue \in Seq(ItemType)
  /\ \A p \in Items \cup paths : Real(p)
  /\ \A p \in paths : Reached(p)
  /\ pc = "search" => buy \in first
  /\ pc # "search" => queue = <<>>

Begins(p, c) ==
  Len(p.used) <= Len(c) /\ \A i \in 1 .. Len(p.used) : p.used[i] = c[i]

\* Where nothing is cut, a chain is found already or an item that begins it waits.
Pending ==
  pc = "search" /\ Uncut =>
    \A c \in Chains(buy.wallet, buy.slot) : c \in Found \/ \E p \in Items : Begins(p, c)

\* What has been said of a first buyer holds.
Right(b) ==
  /\ finding[b.wallet] = "unfunded" =>
       b.wallet \in claimed /\ (Uncut => Chains(b.wallet, b.slot) = {})
  /\ finding[b.wallet] \in {"unprofitable", "qualified"} => Chains(b.wallet, b.slot) # {}

\* Each wallet is judged by one buy, and a report is made when all are.
Judged ==
  /\ pc = "start" => first = {} /\ \A w \in Wallets : finding[w] = "none"
  /\ \A b, c \in first : b.wallet = c.wallet => b = c
  /\ \A b \in first : Right(b)
  /\ pc = "done" => \A b \in first : finding[b.wallet] # "none"
  /\ status = "complete" => \A b \in first : finding[b.wallet] # "unknown"
  /\ pc # "done" => status = "none"

\* What the scoring keeps.
Scored == StateType /\ Traced /\ Pending /\ Judged

-----------------------------------------------------------------------------
(* Items *)

\* One transfer more, and the item is a chain still.
LEMMA ExtendReal ==
  ASSUME StateType, NEW p, Real(p), NEW e \in Candidates(p), Len(p.used) < MaxHops, ~Reached(p)
  PROVE  Real(Extend(p, e))
<1> DEFINE n == p.nodes
           u == p.used
           k == Len(u)
           m == Append(n, e.from)
           v == Append(u, e)
<1>1. /\ n \in Seq(Addresses) /\ u \in Seq(Evidence) /\ k \in Nat /\ Len(n) = k + 1
      /\ n[1] = buy.wallet
  BY DEF Real, ItemType
<1>2. /\ \A i \in 1 .. k :
           /\ n[i + 1] = u[i].from /\ u[i].to = n[i]
           /\ u[i].slot < IF i = 1 THEN buy.slot ELSE u[i - 1].slot
           /\ u[i].from \in labels => i = k
      /\ \A i, j \in 1 .. k + 1 : n[i] = n[j] => i = j
  BY <1>1 DEF Real
<1>3. /\ e \in Evidence /\ e.to = n[k + 1] /\ e.from \notin ToSet(n)
      /\ e.slot < IF k = 0 THEN buy.slot ELSE u[k].slot
  <2>1. u = <<>> <=> k = 0 BY <1>1
  <2> QED BY <1>1, <2>1 DEF Candidates, Evidence, At, Cutoff
<1>4. k # 0 => u[k].from \notin labels
  <2>1. k # 0 => n[k + 1] \notin labels BY <1>1 DEF Reached, At
  <2> QED BY <1>1, <1>2, <2>1
<1>5. MaxHops \in Nat /\ k + 1 <= MaxHops BY <1>1, BundleAssumption
<1>6. e.from \in Addresses BY <1>3 DEF Addresses, StateType, Evidence
<1>7. Extend(p, e).nodes = m /\ Extend(p, e).used = v BY DEF Extend, Item
<1>8. Extend(p, e) \in ItemType BY <1>1, <1>3, <1>6 DEF ItemType, Extend, Item
<1>9. /\ Len(m) = k + 2 /\ m[k + 2] = e.from /\ \A i \in 1 .. k + 1 : m[i] = n[i]
      /\ Len(v) = k + 1 /\ v[k + 1] = e /\ \A i \in 1 .. k : v[i] = u[i]
  BY <1>1, <1>3, <1>6
<1>10. \A i \in 1 .. k + 1 : n[i] # e.from BY <1>1, <1>3 DEF ToSet
<1> HIDE DEF m, v, n, u, k
<1>11. ASSUME NEW i \in 1 .. k + 1
       PROVE  /\ m[i + 1] = v[i].from /\ v[i].to = m[i]
              /\ v[i].slot < IF i = 1 THEN buy.slot ELSE v[i - 1].slot
              /\ v[i].from \in labels => i = k + 1
  <2>1. CASE i = k + 1
    <3>1. m[i + 1] = e.from /\ v[i] = e /\ m[i] = n[k + 1] BY <1>1, <1>9, <2>1
    <3>2. k # 0 => v[i - 1] = u[k] /\ i # 1 BY <1>1, <1>9, <2>1
    <3>3. k = 0 <=> i = 1 BY <1>1, <2>1
    <3>4. v[i].slot < IF i = 1 THEN buy.slot ELSE v[i - 1].slot BY <1>3, <3>1, <3>2, <3>3
    <3> QED BY <1>3, <2>1, <3>1, <3>4
  <2>2. CASE i \in 1 .. k
    <3>1. m[i + 1] = n[i + 1] /\ v[i] = u[i] /\ m[i] = n[i] BY <1>1, <1>9, <2>2
    <3>2. i # 1 => v[i - 1] = u[i - 1] BY <1>1, <1>9, <2>2
    <3>3. u[i].from \notin labels BY <1>1, <1>2, <1>4, <2>2
    <3>4. v[i].slot < IF i = 1 THEN buy.slot ELSE v[i - 1].slot BY <1>2, <2>2, <3>1, <3>2
    <3> QED BY <1>2, <2>2, <3>1, <3>3, <3>4
  <2> QED BY <1>1, <2>1, <2>2
<1>12. ASSUME NEW i \in 1 .. k + 2, NEW j \in 1 .. k + 2, m[i] = m[j]
       PROVE  i = j
  <2>1. \A a \in 1 .. k + 2 : a = k + 2 \/ a \in 1 .. k + 1 BY <1>1
  <2> QED BY <1>2, <1>9, <1>10, <1>12, <2>1
<1>13. m[1] = buy.wallet BY <1>1, <1>9
<1>14. \A q : Real(q) <=>
        /\ q \in ItemType
        /\ Len(q.nodes) = Len(q.used) + 1 /\ Len(q.used) <= MaxHops
        /\ q.nodes[1] = buy.wallet
        /\ \A i \in 1 .. Len(q.used) :
             /\ q.nodes[i + 1] = q.used[i].from /\ q.used[i].to = q.nodes[i]
             /\ q.used[i].slot < IF i = 1 THEN buy.slot ELSE q.used[i - 1].slot
             /\ q.used[i].from \in labels => i = Len(q.used)
        /\ \A i, j \in 1 .. Len(q.nodes) : q.nodes[i] = q.nodes[j] => i = j
  BY DEF Real
<1>15. Len(m) = Len(v) + 1 /\ Len(v) <= MaxHops BY <1>1, <1>5, <1>9
<1>16. /\ \A i \in 1 .. Len(v) :
           /\ m[i + 1] = v[i].from /\ v[i].to = m[i]
           /\ v[i].slot < IF i = 1 THEN buy.slot ELSE v[i - 1].slot
           /\ v[i].from \in labels => i = Len(v)
      /\ \A i, j \in 1 .. Len(m) : m[i] = m[j] => i = j
  BY <1>9, <1>11, <1>12
<1> QED BY <1>7, <1>8, <1>13, <1>14, <1>15, <1>16, Zenon

\* An item that has reached a label is a chain of the reference.
LEMMA ReachedChain ==
  ASSUME NEW p, Real(p), Reached(p)
  PROVE  p.used \in Chains(buy.wallet, buy.slot)
<1> DEFINE n == p.nodes
           u == p.used
           k == Len(u)
<1>1. /\ n \in Seq(Addresses) /\ u \in Seq(Evidence) /\ k \in Nat /\ Len(n) = k + 1
      /\ n[1] = buy.wallet /\ k <= MaxHops /\ MaxHops \in Nat
  BY BundleAssumption DEF Real, ItemType
<1>2. /\ \A i \in 1 .. k :
           /\ n[i + 1] = u[i].from /\ u[i].to = n[i]
           /\ u[i].slot < IF i = 1 THEN buy.slot ELSE u[i - 1].slot
           /\ u[i].from \in labels => i = k
      /\ \A i, j \in 1 .. k + 1 : n[i] = n[j] => i = j
  BY <1>1 DEF Real
<1>3. k >= 1 /\ n[k + 1] \in labels BY <1>1 DEF Reached, At
<1> HIDE DEF n, u, k
<1>4. k \in 1 .. MaxHops BY <1>1, <1>3
<1>5. ASSUME NEW i \in 1 .. k
      PROVE  /\ u[i].to = IF i = 1 THEN buy.wallet ELSE u[i - 1].from
             /\ u[i].slot < IF i = 1 THEN buy.slot ELSE u[i - 1].slot
             /\ u[i].from \in labels <=> i = k
  <2>1. u[i].to = n[i] BY <1>2
  <2>2. i # 1 => n[i] = u[i - 1].from
    <3>1. i # 1 => i - 1 \in 1 .. k /\ (i - 1) + 1 = i BY <1>1
    <3> QED BY <1>2, <3>1
  <2>3. u[i].slot < IF i = 1 THEN buy.slot ELSE u[i - 1].slot BY <1>2
  <2>4. u[i].from \in labels <=> i = k BY <1>1, <1>2, <1>3
  <2> QED BY <1>1, <2>1, <2>2, <2>3, <2>4
<1>6. \A i \in 1 .. k : u[i].from = n[i + 1] /\ i + 1 \in 1 .. k + 1 /\ 1 \in 1 .. k + 1
                       /\ i + 1 # 1
  BY <1>1, <1>2
<1>7. \A i \in 1 .. k : u[i].from # buy.wallet BY <1>1, <1>2, <1>6
<1>8. ASSUME NEW i \in 1 .. k, NEW j \in 1 .. k, u[i].from = u[j].from
      PROVE  i = j
  <2>1. i + 1 = j + 1 BY <1>2, <1>6, <1>8
  <2> QED BY <2>1
<1>9. Chain(u, buy.wallet, buy.slot) BY <1>1, <1>4, <1>5, <1>7, <1>8 DEF Chain, k
<1> QED BY <1>9, ChainsAre DEF u

\* An item never comes back to an address.
LEMMA NoReturn ==
  ASSUME NEW p, Real(p)
  PROVE  Cardinality(Nodes(p)) = Len(p.nodes)
<1> DEFINE n == p.nodes
           S == ToSet(n)
<1>1. n \in Seq(Addresses) /\ Len(n) \in Nat /\ DOMAIN n = 1 .. Len(n)
      /\ n \in [1 .. Len(n) -> S]
  BY DEF Real, ItemType, ToSet
<1>2. \A i, j \in 1 .. Len(n) : n[i] = n[j] => i = j BY DEF Real
<1>3. \A x \in S : \E i \in 1 .. Len(n) : n[i] = x BY <1>1 DEF ToSet
<1>4. n \in Bijection(1 .. Len(n), S)
  BY <1>1, <1>2, <1>3 DEF Bijection, Injection, Surjection, IsInjective
<1>5. ExistsBijection(1 .. Len(n), S) BY <1>4 DEF ExistsBijection
<1> HIDE DEF n, S
<1>6. Cardinality(S) = Len(n) BY <1>1, <1>5, FS_CountingElements
<1> QED BY <1>6 DEF n, S, Nodes

\* An unlabelled item that begins a chain can be followed one transfer further along it.
LEMMA Onward ==
  ASSUME StateType, NEW p, Real(p), ~Reached(p), NEW c \in Chains(buy.wallet, buy.slot),
         Begins(p, c)
  PROVE  \E e \in Candidates(p) : Len(p.used) < MaxHops /\ Begins(Extend(p, e), c)
<1> DEFINE n == p.nodes
           u == p.used
           k == Len(u)
           e == c[k + 1]
<1>1. /\ n \in Seq(Addresses) /\ u \in Seq(Evidence) /\ k \in Nat /\ Len(n) = k + 1
      /\ n[1] = buy.wallet
      /\ \A i \in 1 .. k : n[i + 1] = u[i].from
  BY DEF Real, ItemType
<1>2. Chain(c, buy.wallet, buy.slot) BY ChainsAre
<1>3. /\ c \in Seq(Evidence) /\ Len(c) \in 1 .. MaxHops /\ MaxHops \in Nat
      /\ \A i \in 1 .. Len(c) :
           /\ c[i].to = IF i = 1 THEN buy.wallet ELSE c[i - 1].from
           /\ c[i].slot < IF i = 1 THEN buy.slot ELSE c[i - 1].slot
           /\ c[i].from \in labels <=> i = Len(c)
      /\ \A i \in 1 .. Len(c) : c[i].from # buy.wallet
      /\ \A i, j \in 1 .. Len(c) : c[i].from = c[j].from => i = j
  BY <1>2, BundleAssumption DEF Chain
<1>4. k <= Len(c) /\ \A i \in 1 .. k : u[i] = c[i] BY DEF Begins
<1>5. k # Len(c)
  <2> SUFFICES ASSUME k = Len(c) PROVE FALSE
    OBVIOUS
  <2>1. k \in 1 .. k /\ k \in 1 .. Len(c) /\ k # 0 BY <1>1, <1>3
  <2>2. n[k + 1] = c[k].from /\ c[k].from \in labels BY <1>1, <1>3, <1>4, <2>1
  <2>3. Len(n) > 1 /\ n[Len(n)] \in labels BY <1>1, <2>1, <2>2
  <2> QED BY <2>3 DEF Reached, At
<1>6. k + 1 \in 1 .. Len(c) /\ k < MaxHops BY <1>1, <1>3, <1>4, <1>5
<1>7. e \in Evidence BY <1>3, <1>6
<1>8. e.to = n[k + 1] /\ e.slot < Cutoff(p)
  <2>1. u = <<>> <=> k = 0 BY <1>1
  <2>2. CASE k = 0 BY <1>1, <1>3, <1>6, <2>1, <2>2 DEF Cutoff
  <2>3. CASE k # 0
    <3>1. k \in 1 .. k /\ k + 1 # 1 /\ (k + 1) - 1 = k BY <1>1, <2>3
    <3>2. n[k + 1] = c[k].from /\ u[k] = c[k] BY <1>1, <1>4, <3>1
    <3>3. e.to = c[k].from /\ e.slot < c[k].slot BY <1>3, <1>6, <3>1
    <3>4. Cutoff(p) = u[k].slot BY <2>1, <2>3 DEF Cutoff
    <3> QED BY <3>2, <3>3, <3>4
  <2> QED BY <2>2, <2>3
<1>9. e.from \notin ToSet(n)
  <2> SUFFICES ASSUME NEW i \in 1 .. k + 1, n[i] = e.from PROVE FALSE
    <3>1. ToSet(n) = {n[i] : i \in 1 .. k + 1} BY <1>1 DEF ToSet
    <3> QED BY <3>1
  <2>1. CASE i = 1 BY <1>1, <1>3, <1>6, <2>1
  <2>2. CASE i # 1
    <3>1. i - 1 \in 1 .. k /\ (i - 1) + 1 = i /\ i - 1 \in 1 .. Len(c) /\ i - 1 # k + 1
      BY <1>1, <1>3, <1>4, <2>2
    <3>2. n[i] = c[i - 1].from BY <1>1, <1>4, <3>1
    <3> QED BY <1>3, <1>6, <3>1, <3>2
  <2> QED BY <2>1, <2>2
<1>10. e \in Candidates(p) BY <1>1, <1>7, <1>8, <1>9 DEF Candidates, Evidence, At
<1>11. Extend(p, e).used = Append(u, e) BY DEF Extend, Item
<1> HIDE DEF e
<1>12. /\ Len(Append(u, e)) = k + 1
       /\ \A i \in 1 .. k + 1 : Append(u, e)[i] = IF i = k + 1 THEN e ELSE u[i]
  BY <1>1, <1>7
<1>13. \A i \in 1 .. k + 1 : Append(u, e)[i] = c[i]
  <2>1. \A i \in 1 .. k + 1 : i = k + 1 \/ i \in 1 .. k BY <1>1
  <2> QED BY <1>4, <1>12, <2>1 DEF e
<1>14. k + 1 <= Len(c) BY <1>6
<1> HIDE DEF k, u
<1>15. Begins(Extend(p, e), c) BY <1>11, <1>12, <1>13, <1>14 DEF Begins
<1> QED BY <1>6, <1>10, <1>15 DEF k, u

\* A labelled item that begins a chain is the whole of it.
LEMMA Whole ==
  ASSUME NEW p, Real(p), Reached(p), NEW c \in Chains(buy.wallet, buy.slot), Begins(p, c)
  PROVE  p.used = c
<1> DEFINE u == p.used
           k == Len(u)
<1>1. /\ u \in Seq(Evidence) /\ k \in Nat /\ Len(p.nodes) = k + 1
      /\ \A i \in 1 .. k : p.nodes[i + 1] = u[i].from
  BY DEF Real, ItemType
<1>2. Chain(c, buy.wallet, buy.slot) BY ChainsAre
<1>3. /\ c \in Seq(Evidence) /\ Len(c) \in Nat
      /\ \A i \in 1 .. Len(c) : c[i].from \in labels <=> i = Len(c)
  BY <1>2 DEF Chain
<1>4. k <= Len(c) /\ \A i \in 1 .. k : u[i] = c[i] BY DEF Begins
<1>5. k \in 1 .. k /\ p.nodes[k + 1] \in labels BY <1>1 DEF Reached, At
<1>6. c[k].from \in labels /\ k \in 1 .. Len(c) BY <1>1, <1>3, <1>4, <1>5
<1>7. k = Len(c) BY <1>3, <1>6
<1> HIDE DEF u
<1>8. u = c BY <1>1, <1>3, <1>4, <1>7
<1> QED BY <1>8 DEF u

\* A transfer of the evidence stays one, and so do the chains, while the bundle stands.
LEMMA BundleStands ==
  ASSUME edges' = edges, labels' = labels
  PROVE  /\ Evidence' = Evidence /\ ItemType' = ItemType /\ (Uncut' <=> Uncut)
         /\ \A w, s : Chains(w, s)' = Chains(w, s)
         /\ \A p : Reached(p)' <=> Reached(p)
<1>1. Evidence' = Evidence BY DEF Evidence
<1>2. ItemType' = ItemType BY <1>1 DEF ItemType, Addresses
<1>3. Uncut' <=> Uncut BY DEF Uncut
<1>4. \A w, s : Chains(w, s)' = Chains(w, s) BY DEF Chains
<1>5. \A p : Reached(p)' <=> Reached(p) BY DEF Reached, At
<1> QED BY <1>1, <1>2, <1>3, <1>4, <1>5

\* And so do the items of a search.
LEMMA ItemsStand ==
  ASSUME edges' = edges, labels' = labels, buy' = buy, NEW p
  PROVE  Real(p)' <=> Real(p)
BY BundleStands DEF Real

-----------------------------------------------------------------------------
(* Steps *)

\* Where neither the search nor its buy changes, what it has traced stays.
LEMMA TracedStays ==
  ASSUME Traced, UNCHANGED <<bundle, buy, search>>, first' = first,
         pc' = "search" => pc = "search", pc' # "search" => queue = <<>>
  PROVE  Traced'
<1>1. edges' = edges /\ labels' = labels /\ buy' = buy /\ queue' = queue /\ paths' = paths
  BY DEF bundle, search
<1>2. \A p : Real(p)' <=> Real(p) BY <1>1, ItemsStand
<1>3. \A p : Reached(p)' <=> Reached(p) BY <1>1, BundleStands
<1>4. Items' = Items BY <1>1 DEF Items
<1>5. ItemType' = ItemType BY <1>1, BundleStands
<1> QED BY <1>1, <1>2, <1>3, <1>4, <1>5 DEF Traced

\* The first buyers are chosen, one buy of each.
LEMMA SelectStep ==
  ASSUME Scored, SelectBuyers
  PROVE  Scored'
<1> USE DEF Scored
<1>1. /\ pc = "start" /\ first' = FirstBuyers /\ pc' = "next"
      /\ buys' = buys /\ edges' = edges /\ labels' = labels /\ claimed' = claimed
      /\ buy' = buy /\ queue' = queue /\ paths' = paths
      /\ finding' = finding /\ status' = status
  BY DEF SelectBuyers, bundle, search
<1>2. FirstBuyers \subseteq buys BY DEF FirstBuyers, FirstBuys
<1>3. first = {} /\ queue = <<>> /\ status = "none" /\ \A w \in Wallets : finding[w] = "none"
  BY <1>1 DEF Judged, Traced
<1>4. StateType' BY <1>1, <1>2, <1>3 DEF StateType
<1>5. Traced'
  <2>1. \A p : Real(p)' <=> Real(p) BY <1>1, ItemsStand
  <2>2. \A p : Reached(p)' <=> Reached(p) BY <1>1, BundleStands
  <2>3. Items' = Items BY <1>1 DEF Items
  <2>4. ItemType' = ItemType BY <1>1, BundleStands
  <2> QED BY <1>1, <1>3, <2>1, <2>2, <2>3, <2>4 DEF Traced
<1>6. Pending' BY <1>1 DEF Pending
<1>7. \A b \in buys : b.wallet \in Wallets /\ b.slot \in Nat /\ b.order \in Nat
  BY BundleAssumption DEF StateType
<1>8. ASSUME NEW b \in FirstBuyers, NEW c \in FirstBuyers, b.wallet = c.wallet
      PROVE  b = c
  <2>1. b \in buys /\ c \in buys /\ ~Earlier(b, c) /\ ~Earlier(c, b)
    BY <1>8 DEF FirstBuyers, FirstBuys
  <2>2. b.slot = c.slot /\ b.order = c.order BY <1>7, <2>1 DEF Earlier
  <2> QED BY <2>1, <2>2, BundleAssumption DEF StateType
<1>9. \A b \in FirstBuyers : finding[b.wallet] = "none" BY <1>2, <1>3, <1>7
<1>10. Judged' BY <1>1, <1>3, <1>8, <1>9 DEF Judged, Right
<1> QED BY <1>4, <1>5, <1>6, <1>10

\* A search starts at the wallet: nothing found, and everything to be found ahead.
LEMMA StartStep ==
  ASSUME Scored, StartSearch
  PROVE  Scored'
<1> USE DEF Scored
<1>1. PICK b \in Todo : buy' = b /\ queue' = <<Item(<<b.wallet>>, <<>>)>>
  BY DEF StartSearch
<1>2. /\ pc = "next" /\ pc' = "search" /\ paths' = {} /\ first' = first
      /\ buys' = buys /\ edges' = edges /\ labels' = labels /\ claimed' = claimed
      /\ finding' = finding /\ status' = status
  BY DEF StartSearch, bundle
<1> DEFINE p == Item(<<b.wallet>>, <<>>)
<1>3. b \in first /\ b.wallet \in Wallets BY BundleAssumption DEF Todo, StateType
<1>4. StateType' BY <1>1, <1>2, <1>3 DEF StateType
<1>5. p \in ItemType /\ p.nodes = <<b.wallet>> /\ p.used = <<>>
  BY <1>3 DEF Item, ItemType, Addresses
<1>6. ItemType' = ItemType BY <1>2, BundleStands
<1> HIDE DEF p
<1>7. Items' = {p}
  <2>1. queue' = <<p>> BY <1>1 DEF p
  <2> QED BY <2>1 DEF Items, ToSet
<1>8. Real(p)'
  <2>1. Len(p.used) = 0 /\ Len(p.nodes) = 1 /\ p.nodes[1] = buy'.wallet BY <1>1, <1>5
  <2>2. MaxHops \in Nat BY BundleAssumption
  <2> QED BY <1>5, <1>6, <2>1, <2>2 DEF Real
<1>9. queue' \in Seq(ItemType') BY <1>1, <1>5, <1>6 DEF p
<1>10. Traced' BY <1>1, <1>2, <1>3, <1>7, <1>8, <1>9 DEF Traced
<1>11. ASSUME NEW c \in Chains(buy.wallet, buy.slot)'
       PROVE  Begins(p, c)'
  <2>1. c \in Chains(buy'.wallet, buy'.slot) BY <1>2, <1>11, BundleStands
  <2>2. Chain(c, buy'.wallet, buy'.slot) BY <2>1, ChainsAre
  <2>3. c \in Seq(Evidence) BY <2>2 DEF Chain
  <2>4. Len(c) \in Nat /\ Len(p.used) = 0 BY <1>5, <2>3
  <2> QED BY <2>4 DEF Begins
<1>12. Pending' BY <1>7, <1>11 DEF Pending
<1>13. \A w, s : Chains(w, s)' = Chains(w, s) BY <1>2, BundleStands
<1>14. Uncut' <=> Uncut BY <1>2, BundleStands
<1>15. Judged' BY <1>2, <1>13, <1>14 DEF Judged, Right
<1> QED BY <1>4, <1>10, <1>12, <1>15

\* What is in a queue whose first item is taken and to which others are added.
LEMMA QueueItems ==
  ASSUME NEW S, NEW q \in Seq(S), q # <<>>, NEW r \in Seq(S)
  PROVE  /\ Head(q) \in S /\ Tail(q) \o r \in Seq(S)
         /\ ToSet(q) = {Head(q)} \cup ToSet(Tail(q))
         /\ ToSet(Tail(q) \o r) = ToSet(Tail(q)) \cup ToSet(r)
<1>1. /\ Len(q) \in Nat /\ Len(q) # 0 /\ Head(q) = q[1] /\ Tail(q) \in Seq(S)
      /\ Len(Tail(q)) = Len(q) - 1 /\ \A i \in 1 .. Len(q) - 1 : Tail(q)[i] = q[i + 1]
  OBVIOUS
<1> DEFINE t == Tail(q)
<1>2. ToSet(q) = {Head(q)} \cup ToSet(t)
  <2>1. DOMAIN q = 1 .. Len(q) /\ DOMAIN t = 1 .. Len(q) - 1 BY <1>1
  <2>2. ASSUME NEW i \in 1 .. Len(q), i # 1
        PROVE  i - 1 \in 1 .. Len(q) - 1 /\ t[i - 1] = q[i]
    BY <1>1, <2>2
  <2>3. ASSUME NEW i \in 1 .. Len(q) - 1
        PROVE  i + 1 \in 1 .. Len(q) /\ t[i] = q[i + 1]
    BY <1>1
  <2>4. 1 \in 1 .. Len(q) BY <1>1
  <2> HIDE DEF t
  <2>5. ASSUME NEW i \in 1 .. Len(q)
        PROVE  q[i] = q[1] \/ \E j \in DOMAIN t : t[j] = q[i]
    BY <2>1, <2>2
  <2>6. ASSUME NEW j \in DOMAIN t
        PROVE  \E i \in DOMAIN q : q[i] = t[j]
    BY <2>1, <2>3
  <2>7. 1 \in DOMAIN q BY <2>1, <2>4
  <2> QED BY <1>1, <2>1, <2>5, <2>6, <2>7 DEF ToSet
<1> HIDE DEF t
<1>3. t \in Seq(S) BY <1>1 DEF t
<1>4. ToSet(t \o r) = ToSet(t) \cup ToSet(r)
  <2>1. /\ Len(t) \in Nat /\ Len(r) \in Nat /\ DOMAIN t = 1 .. Len(t) /\ DOMAIN r = 1 .. Len(r)
        /\ DOMAIN (t \o r) = 1 .. Len(t) + Len(r)
    BY <1>3
  <2>2. \A i \in 1 .. Len(t) : i \in 1 .. Len(t) + Len(r) /\ (t \o r)[i] = t[i] BY <1>3, <2>1
  <2>3. ASSUME NEW i \in 1 .. Len(r)
        PROVE  i + Len(t) \in 1 .. Len(t) + Len(r) /\ (t \o r)[i + Len(t)] = r[i]
    BY <1>3, <2>1
  <2>4. ASSUME NEW i \in 1 .. Len(t) + Len(r), i \notin 1 .. Len(t)
        PROVE  i - Len(t) \in 1 .. Len(r) /\ (t \o r)[i] = r[i - Len(t)]
    BY <1>3, <2>1, <2>4
  <2> QED BY <2>1, <2>2, <2>3, <2>4 DEF ToSet
<1> QED BY <1>1, <1>2, <1>3, <1>4 DEF t

\* What follows an item: nothing where it ends, or the preferred transfers to it.
Following(item) ==
  IF Reached(item) \/ Len(item.used) >= MaxHops THEN <<>>
  ELSE [i \in DOMAIN Preferred(Candidates(item)) |->
          Extend(item, Preferred(Candidates(item))[i])]

\* The items that follow a real one are real, and where nothing is cut a chain it begins is
\* begun by one of them, unless the item is that chain.
LEMMA FollowingItems ==
  ASSUME StateType, NEW item, Real(item)
  PROVE  /\ Following(item) \in Seq(ItemType) /\ \A p \in ToSet(Following(item)) : Real(p)
         /\ Uncut /\ ~Reached(item) =>
              \A c \in Chains(buy.wallet, buy.slot) :
                Begins(item, c) => \E p \in ToSet(Following(item)) : Begins(p, c)
<1> DEFINE C == Candidates(item)
           next == Preferred(C)
           more == [i \in DOMAIN next |-> Extend(item, next[i])]
<1>1. C \in SUBSET edges /\ edges \subseteq Transfers BY DEF Candidates, StateType
<1>2. Len(item.used) \in Nat /\ MaxHops \in Nat BY BundleAssumption DEF Real, ItemType
<1>3. PICK m \in Nat : DOMAIN next = 1 .. m BY <1>1, PreferredAre
<1>4. \A i \in 1 .. m : next[i] \in C BY <1>1, <1>3, PreferredAre
<1>5. Uncut => Cardinality(C) <= MaxBranch
  <2> SUFFICES ASSUME Uncut PROVE Cardinality(C) <= MaxBranch
    OBVIOUS
  <2>0. MaxBranch \in Nat BY BundleAssumption
  <2>1. CASE C = {}
    <3>1. Cardinality(C) = 0 BY <2>1, FS_EmptySet
    <3> QED BY <2>0, <3>1
  <2>2. CASE C # {}
    <3>1. PICK e \in C : TRUE BY <2>2
    <3> DEFINE B == {f \in edges : f.to = e.to}
    <3>2. C \in SUBSET B BY <1>1, <3>1 DEF Candidates
    <3>3. B \in SUBSET Transfers /\ IsFiniteSet(Transfers) BY <1>1, BundleAssumption
    <3>4. Cardinality(B) <= MaxBranch BY <1>1, <3>1 DEF Uncut
    <3> HIDE DEF B, C
    <3>5. IsFiniteSet(B) BY <3>3, FS_Subset
    <3>6. IsFiniteSet(C) /\ Cardinality(C) <= Cardinality(B) BY <3>2, <3>5, FS_Subset
    <3>7. Cardinality(C) \in Nat /\ Cardinality(B) \in Nat BY <3>5, <3>6, FS_CardinalityType
    <3> QED BY <2>0, <3>4, <3>6, <3>7
  <2> QED BY <2>1, <2>2
<1>6. Uncut => \A e \in C : \E i \in 1 .. m : next[i] = e BY <1>1, <1>3, <1>5, PreferredAre
<1>7. Following(item) = IF Reached(item) \/ Len(item.used) >= MaxHops THEN <<>> ELSE more
  BY DEF Following
<1> HIDE DEF C, next
<1>8. more = [i \in 1 .. m |-> Extend(item, next[i])] BY <1>3
<1>9. DOMAIN more = 1 .. m /\ \A i \in 1 .. m : more[i] = Extend(item, next[i]) BY <1>8
<1>10. ASSUME ~Reached(item), ~(Len(item.used) >= MaxHops), NEW i \in 1 .. m
       PROVE  Real(more[i])
  <2>1. Len(item.used) < MaxHops BY <1>2, <1>10
  <2> QED BY <1>4, <1>9, <1>10, <2>1, ExtendReal DEF C
<1>11. CASE Reached(item) \/ Len(item.used) >= MaxHops
  <2>1. Following(item) = <<>> BY <1>7, <1>11
  <2>2. <<>> \in Seq(ItemType) /\ ToSet(<<>>) = {} BY DEF ToSet
  <2>3. ASSUME ~Reached(item), NEW c \in Chains(buy.wallet, buy.slot), Begins(item, c)
        PROVE  FALSE
    <3>1. Len(item.used) < MaxHops BY <2>3, Onward
    <3> QED BY <1>2, <1>11, <2>3, <3>1
  <2> QED BY <2>1, <2>2, <2>3
<1>12. CASE ~(Reached(item) \/ Len(item.used) >= MaxHops)
  <2>1. Following(item) = more BY <1>7, <1>12
  <2> HIDE DEF more
  <2>2. \A i \in 1 .. m : more[i] \in ItemType /\ Real(more[i]) BY <1>10, <1>12 DEF Real
  <2>3. more = [i \in 1 .. m |-> more[i]] BY <1>8 DEF more
  <2>4. more \in Seq(ItemType) BY <2>2, <2>3
  <2>5. ToSet(more) = {more[i] : i \in 1 .. m} BY <1>9 DEF ToSet
  <2>6. ASSUME Uncut, ~Reached(item), NEW c \in Chains(buy.wallet, buy.slot), Begins(item, c)
        PROVE  \E p \in ToSet(more) : Begins(p, c)
    <3>1. PICK e \in C : Begins(Extend(item, e), c) BY <2>6, Onward DEF C
    <3>2. PICK i \in 1 .. m : next[i] = e BY <1>6, <2>6, <3>1
    <3> QED BY <1>9, <2>5, <3>1, <3>2
  <2> QED BY <2>1, <2>2, <2>4, <2>5, <2>6
<1> QED BY <1>11, <1>12

\* One turn of the loop.
LEMMA TurnStep ==
  ASSUME Scored, Step
  PROVE  Scored'
<1> USE DEF Scored
<1> DEFINE item == Head(queue)
<1>1. /\ pc = "search" /\ queue # <<>>
      /\ paths' = IF Reached(item) THEN paths \cup {item} ELSE paths
      /\ queue' = Tail(queue) \o Following(item)
      /\ pc' = pc /\ first' = first /\ buy' = buy /\ finding' = finding /\ status' = status
      /\ buys' = buys /\ edges' = edges /\ labels' = labels /\ claimed' = claimed
  BY DEF Step, Following, bundle
<1>2. queue \in Seq(ItemType) /\ \A p \in Items \cup paths : Real(p) BY DEF Traced
<1>3. item \in Items /\ ToSet(Tail(queue)) \subseteq Items
  <2>1. <<>> \in Seq(ItemType) OBVIOUS
  <2> QED BY <1>1, <1>2, <2>1, QueueItems DEF Items
<1>4. Real(item) BY <1>2, <1>3
<1> HIDE DEF item
<1>5. Following(item) \in Seq(ItemType) /\ \A p \in ToSet(Following(item)) : Real(p)
  BY <1>4, FollowingItems
<1>6. /\ queue' \in Seq(ItemType)
      /\ Items = {item} \cup ToSet(Tail(queue))
      /\ Items' = ToSet(Tail(queue)) \cup ToSet(Following(item))
  BY <1>1, <1>2, <1>5, QueueItems DEF Items, item
<1>7. StateType' BY <1>1 DEF StateType
<1>8. Traced'
  <2>1. \A p \in Items' \cup paths' : Real(p) BY <1>1, <1>2, <1>3, <1>4, <1>5, <1>6
  <2>2. \A p \in paths' : Reached(p) BY <1>1 DEF Traced
  <2>3. (\A p : Real(p)' <=> Real(p)) /\ (\A p : Reached(p)' <=> Reached(p))
        /\ ItemType' = ItemType
    BY <1>1, ItemsStand, BundleStands
  <2> QED BY <1>1, <1>6, <2>1, <2>2, <2>3 DEF Traced
<1>9. ASSUME Uncut, NEW c \in Chains(buy.wallet, buy.slot)
      PROVE  c \in Found' \/ \E p \in Items' : Begins(p, c)
  <2>1. CASE c \in Found
    <3>1. paths \subseteq paths' BY <1>1
    <3> QED BY <2>1, <3>1 DEF Found
  <2>2. CASE \E p \in ToSet(Tail(queue)) : Begins(p, c) BY <1>6, <2>2
  <2>3. CASE Begins(item, c)
    <3>1. CASE Reached(item)
      <4>1. item.used = c /\ item \in paths' BY <1>1, <1>4, <1>9, <2>3, <3>1, Whole
      <4> QED BY <4>1 DEF Found
    <3>2. CASE ~Reached(item)
      <4>1. \E p \in ToSet(Following(item)) : Begins(p, c)
        BY <1>4, <1>9, <2>3, <3>2, FollowingItems
      <4> QED BY <1>6, <4>1
    <3> QED BY <3>1, <3>2
  <2> QED BY <1>1, <1>6, <1>9, <2>1, <2>2, <2>3 DEF Pending
<1>10. (Uncut' <=> Uncut) /\ \A w, s : Chains(w, s)' = Chains(w, s) BY <1>1, BundleStands
<1>11. Pending' BY <1>1, <1>9, <1>10 DEF Pending, Begins
<1>12. Judged' BY <1>1, <1>10 DEF Judged, Right
<1> QED BY <1>7, <1>8, <1>11, <1>12

\* The verdict on a buyer follows what the search has found, all of it when it is over.
LEMMA JudgeStep ==
  ASSUME Scored, Judge
  PROVE  Scored'
<1> USE DEF Scored
<1>1. PICK won \in BOOLEAN, pnlComplete \in BOOLEAN :
        finding' = [finding EXCEPT ![buy.wallet] = Verdict(won, pnlComplete)]
  BY Zenon DEF Judge
<1>2. /\ pc = "search" /\ queue = <<>> /\ pc' = "next" /\ first' = first /\ buy' = buy
      /\ queue' = queue /\ paths' = paths /\ status' = status
      /\ buys' = buys /\ edges' = edges /\ labels' = labels /\ claimed' = claimed
  BY DEF Judge, bundle, search
<1> DEFINE v == Verdict(won, pnlComplete)
<1>3. buy \in first /\ buy.wallet \in Wallets /\ first \subseteq buys
      /\ \A b \in first : b.wallet \in Wallets
  BY <1>2, BundleAssumption DEF Traced, StateType
<1>4. v \in {"unknown", "unfunded", "unprofitable", "qualified"} BY Zenon DEF Verdict
<1>5. v = "unfunded" => paths = {} /\ buy.wallet \in claimed BY Zenon DEF Verdict
<1>6. v \in {"unprofitable", "qualified"} => paths # {} BY Zenon DEF Verdict
<1> HIDE DEF v
<1>7. finding' \in [Wallets -> {"none", "unknown", "unfunded", "unprofitable", "qualified"}]
      /\ finding'[buy.wallet] = v
      /\ \A w \in Wallets : w # buy.wallet => finding'[w] = finding[w]
  BY <1>1, <1>3, <1>4 DEF StateType, v
<1>8. StateType' BY <1>2, <1>7 DEF StateType
<1>9. Traced'
  <2>1. UNCHANGED <<bundle, buy, search>> BY <1>2 DEF bundle, search
  <2> QED BY <1>2, <2>1, TracedStays
<1>10. Pending' BY <1>2 DEF Pending
<1>11. v = "unfunded" /\ Uncut => Chains(buy.wallet, buy.slot) = {}
  <2>1. Items = {} BY <1>2 DEF Items, ToSet
  <2>2. paths = {} => Found = {} BY DEF Found
  <2> QED BY <1>2, <1>5, <2>1, <2>2 DEF Pending
<1>12. v \in {"unprofitable", "qualified"} => Chains(buy.wallet, buy.slot) # {}
  <2> SUFFICES ASSUME NEW p \in paths PROVE Chains(buy.wallet, buy.slot) # {}
    BY <1>6
  <2>1. p.used \in Chains(buy.wallet, buy.slot) BY ReachedChain DEF Traced
  <2> QED BY <2>1
<1>13. (Uncut' <=> Uncut) /\ \A w, s : Chains(w, s)' = Chains(w, s) BY <1>2, BundleStands
<1>14. ASSUME NEW b \in first
       PROVE  /\ finding'[b.wallet] = "unfunded" =>
                   b.wallet \in claimed /\ (Uncut => Chains(b.wallet, b.slot) = {})
              /\ finding'[b.wallet] \in {"unprofitable", "qualified"} =>
                   Chains(b.wallet, b.slot) # {}
  <2>1. CASE b.wallet = buy.wallet
    <3>1. b = buy BY <1>3, <2>1 DEF Judged
    <3> QED BY <1>5, <1>7, <1>11, <1>12, <3>1
  <2>2. CASE b.wallet # buy.wallet
    <3>1. finding'[b.wallet] = finding[b.wallet] BY <1>3, <1>7, <2>2
    <3>2. Right(b) BY DEF Judged
    <3> QED BY <3>1, <3>2 DEF Right
  <2> QED BY <2>1, <2>2
<1>15. Judged' BY <1>2, <1>13, <1>14 DEF Judged, Right
<1> QED BY <1>8, <1>9, <1>10, <1>15

\* A report is made when everybody has been judged.
LEMMA ReportStep ==
  ASSUME Scored, Report
  PROVE  Scored'
<1> USE DEF Scored
<1>1. PICK buyersComplete \in BOOLEAN :
        status' = IF buyersComplete /\ \A b \in first : finding[b.wallet] # "unknown"
                  THEN "complete" ELSE "partial"
  BY Zenon DEF Report
<1>2. /\ pc = "next" /\ Todo = {} /\ pc' = "done" /\ first' = first /\ buy' = buy
      /\ queue' = queue /\ paths' = paths /\ finding' = finding
      /\ buys' = buys /\ edges' = edges /\ labels' = labels /\ claimed' = claimed
  BY DEF Report, bundle, search
<1>3. /\ status' \in {"partial", "complete"}
      /\ status' = "complete" => \A b \in first : finding[b.wallet] # "unknown"
  BY <1>1, Zenon
<1>4. StateType' BY <1>2, <1>3 DEF StateType
<1>5. Traced'
  <2>1. UNCHANGED <<bundle, buy, search>> BY <1>2 DEF bundle, search
  <2>2. queue = <<>> BY <1>2 DEF Traced
  <2> QED BY <1>2, <2>1, <2>2, TracedStays
<1>6. Pending' BY <1>2 DEF Pending
<1>7. (Uncut' <=> Uncut) /\ \A w, s : Chains(w, s)' = Chains(w, s) BY <1>2, BundleStands
<1>8. \A b \in first : finding[b.wallet] # "none" BY <1>2 DEF Todo
<1>9. Judged' BY <1>2, <1>3, <1>7, <1>8 DEF Judged, Right
<1> QED BY <1>4, <1>5, <1>6, <1>9

\* Nothing has been searched for.
LEMMA ScoredInit == Init => Scored
<1> SUFFICES ASSUME Init PROVE Scored
  OBVIOUS
<1>1. /\ buys \subseteq Buys /\ edges \subseteq Transfers /\ labels \subseteq Labels
      /\ claimed \subseteq Wallets /\ pc = "start" /\ first = {} /\ buy = NoBuy
      /\ queue = <<>> /\ paths = {} /\ finding = [w \in Wallets |-> "none"]
      /\ status = "none"
  BY DEF Init
<1>2. StateType BY <1>1 DEF StateType
<1>3. Traced
  <2>1. Items = {} BY <1>1 DEF Items, ToSet
  <2>2. queue \in Seq(ItemType) BY <1>1
  <2> QED BY <1>1, <2>1, <2>2 DEF Traced
<1>4. Pending BY <1>1 DEF Pending
<1>5. Judged BY <1>1 DEF Judged
<1> QED BY <1>2, <1>3, <1>4, <1>5 DEF Scored

\* What the scoring keeps, it keeps to the end.
LEMMA AlwaysScored == Spec => []Scored
<1>1. ASSUME Scored, [Next]_vars
      PROVE  Scored'
  <2>1. CASE UNCHANGED vars
    <3>1. /\ buys' = buys /\ edges' = edges /\ labels' = labels /\ claimed' = claimed
          /\ pc' = pc /\ first' = first /\ buy' = buy /\ queue' = queue /\ paths' = paths
          /\ finding' = finding /\ status' = status
      BY <2>1 DEF vars, bundle, search
    <3>2. StateType' BY <1>1, <3>1 DEF StateType, Scored
    <3>3. UNCHANGED <<bundle, buy, search>> BY <3>1 DEF bundle, search
    <3>4. pc # "search" => queue = <<>> BY <1>1 DEF Scored, Traced
    <3>5. Traced' BY <1>1, <3>1, <3>3, <3>4, TracedStays DEF Scored
    <3>6. (Uncut' <=> Uncut) /\ \A w, s : Chains(w, s)' = Chains(w, s)
      BY <3>1, BundleStands
    <3>7. Items' = Items /\ Found' = Found BY <3>1 DEF Items, Found
    <3>8. Pending' BY <1>1, <3>1, <3>6, <3>7 DEF Scored, Pending, Begins
    <3>9. Judged' BY <1>1, <3>1, <3>6 DEF Scored, Judged, Right
    <3> QED BY <3>2, <3>5, <3>8, <3>9 DEF Scored
  <2> QED BY <1>1, <2>1, SelectStep, StartStep, TurnStep, JudgeStep, ReportStep DEF Next
<1> QED BY <1>1, ScoredInit, PTL DEF Spec

-----------------------------------------------------------------------------
(* Theorems *)

\* The types, and the bounds of trace_paths: however many transfers there are, an item has
\* no more hops than MaxHops and never comes back to an address, in the queue or in a path.
THEOREM TypeCorrect == Spec => []TypeOK
<1>1. ASSUME Scored
      PROVE  TypeOK
  <2>1. ASSUME NEW p \in ToSet(queue) \cup paths
        PROVE  /\ p.nodes \in Seq(Addresses) /\ p.used \in Seq(edges)
               /\ Len(p.nodes) = Len(p.used) + 1 /\ Len(p.used) <= MaxHops
               /\ Cardinality(Nodes(p)) = Len(p.nodes)
    <3>1. Real(p) BY <1>1, <2>1 DEF Scored, Traced, Items
    <3>2. p.nodes \in Seq(Addresses) /\ p.used \in Seq(Evidence) BY <3>1 DEF Real, ItemType
    <3>3. Evidence \subseteq edges BY DEF Evidence
    <3>4. p.used \in Seq(edges) BY <3>2, <3>3
    <3> QED BY <3>1, <3>2, <3>4, NoReturn DEF Real
  <2> QED BY <1>1, <2>1 DEF TypeOK, Scored, StateType
<1> QED BY <1>1, AlwaysScored, PTL

\* "explicit transfer evidence only": whatever the bundle holds and wherever branches had to
\* be cut, every path trace_paths reports is a chain of verified transfers in time order.
THEOREM OnlyEvidence == Spec => []PathsReal
<1>1. ASSUME Scored
      PROVE  PathsReal
  <2>1. \A p \in paths : p.used \in Chains(buy.wallet, buy.slot)
    BY <1>1, ReachedChain DEF Scored, Traced
  <2> QED BY <2>1 DEF PathsReal, Found
<1> QED BY <1>1, AlwaysScored, PTL

\* And where no address has more incoming transfers than the search follows, it reports all
\* the chains there are.
THEOREM AllEvidence == Spec => []PathsComplete
<1>1. ASSUME Scored
      PROVE  PathsComplete
  <2>1. \A p \in paths : p.used \in Chains(buy.wallet, buy.slot)
    BY <1>1, ReachedChain DEF Scored, Traced
  <2>2. ASSUME pc = "search", queue = <<>>, Uncut
        PROVE  Chains(buy.wallet, buy.slot) \subseteq Found
    <3>1. Items = {} BY <2>2 DEF Items, ToSet
    <3> QED BY <1>1, <2>2, <3>1 DEF Scored, Pending
  <2> QED BY <2>1, <2>2 DEF PathsComplete, Found
<1> QED BY <1>1, AlwaysScored, PTL

\* "Missing evidence is unknown, never a negative finding": in a report of score_bundle that
\* calls itself complete, every first buyer is what the evidence and the indexer's claims
\* make it.
THEOREM CompleteReports == Spec => []CompleteReportHolds
<1>1. ASSUME Scored
      PROVE  CompleteReportHolds
  <2> SUFFICES ASSUME pc = "done", status = "complete", NEW b \in first
               PROVE  IF finding[b.wallet] = "unfunded"
                      THEN b.wallet \in claimed /\ (Uncut => Chains(b.wallet, b.slot) = {})
                      ELSE Chains(b.wallet, b.slot) # {}
    BY DEF CompleteReportHolds
  <2>1. b.wallet \in Wallets BY <1>1, BundleAssumption DEF Scored, StateType
  <2>2. finding[b.wallet] \in {"none", "unknown", "unfunded", "unprofitable", "qualified"}
    BY <1>1, <2>1 DEF Scored, StateType
  <2>3. finding[b.wallet] # "none" /\ finding[b.wallet] # "unknown" /\ Right(b)
    BY <1>1 DEF Scored, Judged
  <2> QED BY <2>2, <2>3 DEF Right
<1> QED BY <1>1, AlwaysScored, PTL
=============================================================================
