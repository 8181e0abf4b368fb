------------------------- MODULE StreamCompare_proof -------------------------
(***************************************************************************)
(* Proofs about the stream comparison, for any number of transactions, any *)
(* budget and any frames: what the experiment may cost, that nothing is    *)
(* missing from the window it looks at, and that its advice is grounded in *)
(* what the chain and the provider have done.                              *)
(***************************************************************************)
EXTENDS StreamCompare, FiniteSetTheorems, WellFoundedInduction, TLAPS

USE DEF chain, taps

(* Least and greatest numbers *)

\* A set of naturals that is not empty has a least element.
LEMMA LeastNat ==
  ASSUME NEW S \in SUBSET Nat, S # {}
  PROVE  Min(S) \in S /\ \A x \in S : Min(S) <= x
<1>1. PICK m \in S : \A y \in S : ~(<<y, m>> \in OpToRel(<, Nat))
  BY NatLessThanWellFounded, WFMin, Zenon
<1>2. \A y \in S : y < m => <<y, m>> \in OpToRel(<, Nat)
  BY DEF OpToRel
<1>3. \A y \in S : ~(y < m)
  BY <1>1, <1>2, Zenon
<1>4. \A y \in S : m <= y
  BY <1>3
<1> QED BY <1>4 DEF Min

\* Of finitely many there is a greatest: the one with the fewest above it.
LEMMA GreatestOf ==
  ASSUME NEW S, IsFiniteSet(S), S # {}, NEW f, \A x \in S : f[x] \in Nat
  PROVE  /\ Max({f[x] : x \in S}) \in {f[x] : x \in S}
         /\ \A x \in S : f[x] <= Max({f[y] : y \in S})
<1> DEFINE Above(x) == {y \in S : f[x] < f[y]}
           C == {Cardinality(Above(x)) : x \in S}
<1>1. ASSUME NEW x \in S
      PROVE  IsFiniteSet(Above(x)) /\ Cardinality(Above(x)) \in Nat
  <2>1. Above(x) \in SUBSET S OBVIOUS
  <2>2. IsFiniteSet(Above(x)) BY <2>1, FS_Subset
  <2> QED BY <2>2, FS_CardinalityType
<1>2. C \in SUBSET Nat /\ C # {} BY <1>1
<1>3. Min(C) \in C /\ \A c \in C : Min(C) <= c BY <1>2, LeastNat
<1>4. PICK g \in S : \A x \in S : Cardinality(Above(g)) <= Cardinality(Above(x))
  BY <1>3
<1>5. ASSUME NEW x \in S, ~(f[x] <= f[g])
      PROVE  FALSE
  <2>1. x \in Above(g) /\ x \notin Above(x) BY <1>5
  <2>2. Above(x) \in SUBSET (Above(g) \ {x})
    <3> SUFFICES ASSUME NEW y \in S, f[x] < f[y]
                 PROVE  f[g] < f[y] /\ y # x
      OBVIOUS
    <3> QED BY <1>5
  <2> HIDE DEF Above
  <2>3. Cardinality(Above(g) \ {x}) = Cardinality(Above(g)) - 1
    BY <1>1, <2>1, FS_RemoveElement
  <2>4. IsFiniteSet(Above(g) \ {x}) BY <1>1, <2>1, FS_RemoveElement
  <2>5. Cardinality(Above(x)) <= Cardinality(Above(g) \ {x}) BY <2>2, <2>4, FS_Subset
  <2> QED BY <1>1, <1>4, <2>3, <2>5
<1>6. \A x \in S : f[x] <= f[g] BY <1>5
<1> QED BY <1>6 DEF Max

-----------------------------------------------------------------------------
(* Types *)

\* The chain, the subscriptions and the taps.
StateType ==
  /\ mode \in Modes
  /\ kind \in Histories /\ slot \in Slots /\ confirmed \in 0 .. MaxTx
  /\ queue \in [mode -> SUBSET (1 .. confirmed)]
  /\ lost \in [mode -> SUBSET (1 .. confirmed)]
  /\ phase \in [mode -> {"connecting", "checking", "receiving", "ended", "failed"}]
  /\ bytes \in [mode -> Nat]
  /\ records \in [mode -> SUBSET (1 .. confirmed)]

Flags == stop \in BOOLEAN /\ timer \in BOOLEAN

Reported ==
  /\ report \in {"none", "inconclusive", "probe", "do not enable", "safe to try"}
  /\ report # "none" => \A s \in mode : phase[s] \in {"ended", "failed"}

\* The types, in three parts.
LEMMA Typed == /\ TypeOK <=> StateType /\ Flags /\ Reported
               /\ TypeOK' <=> StateType' /\ Flags' /\ Reported'
BY Zenon DEF TypeOK, StateType, Flags, Reported

\* A stream that has used up its budget has stopped the experiment, and takes no more.
Spent ==
  \A s \in mode : bytes[s] >= Budget => stop /\ phase[s] \notin {"connecting", "receiving"}

\* Of each stream, the records go before what waits; what is neither there nor lost came
\* before it was subscribed to, or after it was given up.
Swept(s) ==
  /\ phase[s] = "connecting" => records[s] = {} /\ queue[s] = {}
  /\ \A r \in records[s], q \in queue[s] : r < q
  /\ \A x \in 1 .. confirmed :
       Matches(s, x) /\ x \notin records[s] \cup queue[s] \cup lost[s] =>
         \/ \A y \in records[s] \cup queue[s] : x < y
         \/ phase[s] \in {"ended", "failed"} /\ \A y \in records[s] \cup queue[s] : y < x

\* What the listeners keep.
Listening == TypeOK /\ Spent /\ \A s \in mode : Swept(s)

\* Numbers and modes.
LEMMA Sizes ==
  ASSUME StateType
  PROVE  /\ mode \subseteq {"program", "creations"} /\ "creations" \in mode /\ IsFiniteSet(mode)
         /\ MaxTx \in Nat /\ confirmed \in Nat /\ Budget \in Nat /\ Budget # 0
         /\ MARGIN_SLOTS \in Nat /\ slot \in [1 .. MaxTx -> Nat]
         /\ \A s \in mode : /\ bytes[s] \in Nat
                           /\ records[s] \in SUBSET Nat /\ queue[s] \in SUBSET Nat
<1>0. mode = {"program", "creations"} \/ mode = {"creations"}
  BY RequestAssumption, Zenon DEF StateType
<1>1. mode \subseteq {"program", "creations"} /\ "creations" \in mode BY <1>0
<1>2. IsFiniteSet({"program", "creations"})
  <2>1. IsFiniteSet({"program"}) BY FS_Singleton
  <2>2. IsFiniteSet({"program"} \cup {"creations"}) BY <2>1, FS_AddElement
  <2>3. {"program"} \cup {"creations"} = {"program", "creations"} OBVIOUS
  <2> QED BY <2>2, <2>3
<1>3. IsFiniteSet(mode) BY <1>1, <1>2, FS_Subset
<1>4. MaxTx \in Nat /\ Budget \in Nat \ {0} /\ MARGIN_SLOTS \in Nat
      /\ Slots \subseteq [1 .. MaxTx -> Nat]
  BY RequestAssumption, Zenon
<1>5. /\ slot \in Slots /\ confirmed \in 0 .. MaxTx /\ bytes \in [mode -> Nat]
      /\ queue \in [mode -> SUBSET (1 .. confirmed)]
      /\ records \in [mode -> SUBSET (1 .. confirmed)]
  BY Zenon DEF StateType
<1>6. confirmed \in Nat /\ 1 .. confirmed \subseteq Nat /\ slot \in [1 .. MaxTx -> Nat]
  BY <1>4, <1>5
<1>7. \A s \in mode : bytes[s] \in Nat /\ records[s] \in SUBSET Nat /\ queue[s] \in SUBSET Nat
  BY <1>5, <1>6
<1> QED BY <1>1, <1>3, <1>4, <1>6, <1>7

\* No frame is larger than the largest.
LEMMA Frames == MaxFrame \in Nat /\ \A n \in FrameSizes : n \in Nat /\ n # 0 /\ n <= MaxFrame
<1> DEFINE f == [n \in FrameSizes |-> n]
<1>1. \A n \in FrameSizes : f[n] = n /\ f[n] \in Nat /\ n # 0 BY RequestAssumption
<1>2. {f[n] : n \in FrameSizes} = FrameSizes BY <1>1
<1> HIDE DEF f
<1>3. IsFiniteSet(FrameSizes) /\ FrameSizes # {} BY RequestAssumption
<1>4. /\ Max({f[n] : n \in FrameSizes}) \in {f[n] : n \in FrameSizes}
      /\ \A n \in FrameSizes : f[n] <= Max({f[m] : m \in FrameSizes})
  BY <1>1, <1>3, GreatestOf
<1>5. MaxFrame = Max({f[n] : n \in FrameSizes}) BY <1>2 DEF MaxFrame
<1> QED BY <1>1, <1>2, <1>4, <1>5

-----------------------------------------------------------------------------
(* Steps *)

\* The phases a listener may go through one after the other.
Onward(s) ==
  /\ phase'[s] = "connecting" => phase[s] = "connecting"
  /\ phase[s] \in {"ended", "failed"} => phase'[s] \in {"ended", "failed"}

\* A stream that takes nothing keeps what it has.
LEMMA SweptStays ==
  ASSUME NEW s, Swept(s), Onward(s), records'[s] = records[s], queue'[s] = queue[s],
         lost[s] \subseteq lost'[s], confirmed' = confirmed, kind' = kind
  PROVE  Swept(s)'
BY DEF Swept, Onward, Matches

\* What the provider confirms comes after everything before it.
LEMMA ConfirmStep ==
  ASSUME StateType, \A s \in mode : Swept(s), Confirm
  PROVE  StateType' /\ \A s \in mode : Swept(s)'
<1> DEFINE n == confirmed + 1
           to == {s \in Subscribed : Matches(s, n)}
<1>1. PICK drop \in SUBSET (to \cap Lossy) :
        /\ queue' = [s \in mode |-> IF s \in to \ drop THEN queue[s] \cup {n} ELSE queue[s]]
        /\ lost' = [s \in mode |-> IF s \in drop THEN lost[s] \cup {n} ELSE lost[s]]
  BY Zenon DEF Confirm
<1>2. /\ queue' = [s \in mode |-> IF s \in to \ drop THEN queue[s] \cup {n} ELSE queue[s]]
      /\ lost' = [s \in mode |-> IF s \in drop THEN lost[s] \cup {n} ELSE lost[s]]
  BY <1>1, Zenon
<1>3. /\ confirmed < MaxTx /\ confirmed' = n
      /\ UNCHANGED <<mode, kind, slot, phase, bytes, records>>
  BY Zenon DEF Confirm
<1>4. /\ confirmed \in Nat /\ n \in Nat /\ n \in 1 .. n /\ 1 .. confirmed \subseteq 1 .. n
      /\ \A x \in 1 .. n : x = n \/ x \in 1 .. confirmed
      /\ \A x \in 1 .. confirmed : x < n
  BY Sizes
<1>5. confirmed' \in 0 .. MaxTx BY <1>3, <1>4, Sizes
<1> HIDE DEF n
<1>6. /\ queue \in [mode -> SUBSET (1 .. confirmed)]
      /\ lost \in [mode -> SUBSET (1 .. confirmed)]
      /\ records \in [mode -> SUBSET (1 .. confirmed)]
  BY DEF StateType
<1>7. ASSUME NEW s \in mode
      PROVE  /\ queue[s] \subseteq 1 .. confirmed /\ records[s] \subseteq 1 .. confirmed
             /\ queue'[s] = IF s \in to \ drop THEN queue[s] \cup {n} ELSE queue[s]
             /\ lost'[s] = IF s \in drop THEN lost[s] \cup {n} ELSE lost[s]
  BY <1>2, <1>6
<1>8. queue' \in [mode -> SUBSET (1 .. n)] /\ lost' \in [mode -> SUBSET (1 .. n)]
      /\ records \in [mode -> SUBSET (1 .. n)]
  BY <1>2, <1>4, <1>6
<1>9. StateType' BY <1>3, <1>5, <1>8 DEF StateType
<1>10. ASSUME NEW s \in mode
       PROVE  Swept(s)'
  <2> USE <1>7
  <2>1. s \in to => phase[s] \in {"checking", "receiving"} BY DEF Subscribed
  <2>2. phase[s] \in {"connecting", "checking", "receiving", "ended", "failed"}
    BY DEF StateType
  <2>3. queue'[s] \subseteq queue[s] \cup {n} /\ queue[s] \subseteq queue'[s] OBVIOUS
  <2>4. phase'[s] = "connecting" => records'[s] = {} /\ queue'[s] = {}
    BY <1>3, <2>1 DEF Swept
  <2>5. \A r \in records'[s], q \in queue'[s] : r < q
    BY <1>3, <1>4, <2>3 DEF Swept
  <2>6. ASSUME NEW x \in 1 .. confirmed, Matches(s, x),
               x \notin records[s] \cup queue'[s] \cup lost'[s]
        PROVE  \/ \A y \in records[s] \cup queue'[s] : x < y
               \/ phase[s] \in {"ended", "failed"} /\ \A y \in records[s] \cup queue'[s] : y < x
    <3>1. x \notin records[s] \cup queue[s] \cup lost[s] BY <2>3, <2>6
    <3>2. CASE \A y \in records[s] \cup queue[s] : x < y BY <1>4, <2>3, <3>2
    <3>3. CASE phase[s] \in {"ended", "failed"} /\ \A y \in records[s] \cup queue[s] : y < x
      <4>1. queue'[s] = queue[s] BY <2>1, <3>3
      <4> QED BY <3>3, <4>1
    <3> QED BY <2>6, <3>1, <3>2, <3>3 DEF Swept
  <2>7. ASSUME Matches(s, n), n \notin records[s] \cup queue'[s] \cup lost'[s]
        PROVE  \/ \A y \in records[s] \cup queue'[s] : n < y
               \/ phase[s] \in {"ended", "failed"} /\ \A y \in records[s] \cup queue'[s] : y < n
    <3>1. s \notin to
      <4> SUFFICES ASSUME s \in to PROVE FALSE
        OBVIOUS
      <4>1. s \in drop BY <2>7
      <4> QED BY <1>2, <2>7, <4>1
    <3>2. phase[s] \notin {"checking", "receiving"} BY <2>7, <3>1 DEF Subscribed
    <3>3. queue'[s] = queue[s] BY <3>1
    <3>4. CASE phase[s] = "connecting" BY <3>3, <3>4 DEF Swept
    <3>5. CASE phase[s] \in {"ended", "failed"} BY <1>4, <3>3, <3>5
    <3> QED BY <2>2, <3>2, <3>4, <3>5
  <2> HIDE DEF to
  <2>8. \A x : Matches(s, x)' <=> Matches(s, x) BY <1>3 DEF Matches
  <2> QED BY <1>3, <1>4, <2>4, <2>5, <2>6, <2>7, <2>8 DEF Swept
<1> QED BY <1>3, <1>9, <1>10

\* What a tap takes is the oldest that waits, and it counts its frame.
LEMMA TakeStep ==
  ASSUME StateType, Spent, \A u \in mode : Swept(u), NEW s \in mode, Take(s)
  PROVE  StateType' /\ Spent' /\ \A u \in mode : Swept(u)' /\ Onward(u)
<1> DEFINE x == Min(queue[s])
<1>1. /\ phase[s] = "receiving" /\ queue[s] # {}
      /\ queue' = [queue EXCEPT ![s] = @ \ {x}]
      /\ \/ records' = [records EXCEPT ![s] = @ \cup {x}] /\ lost' = lost
         \/ lost' = [lost EXCEPT ![s] = @ \cup {x}] /\ records' = records
      /\ phase' = [phase EXCEPT ![s] = "checking"]
      /\ UNCHANGED <<mode, kind, slot, confirmed>>
  BY Zenon DEF Take
<1>2. PICK n \in FrameSizes : bytes' = [bytes EXCEPT ![s] = @ + n]
  BY Zenon DEF Take
<1>3. (bytes'[s] >= Budget => stop') /\ (stop => stop') BY Zenon DEF Take
<1>4. x \in queue[s] /\ \A q \in queue[s] : x <= q BY <1>1, Sizes, LeastNat
<1> HIDE DEF x
<1>5. /\ queue \in [mode -> SUBSET (1 .. confirmed)]
      /\ lost \in [mode -> SUBSET (1 .. confirmed)]
      /\ records \in [mode -> SUBSET (1 .. confirmed)] /\ bytes \in [mode -> Nat]
      /\ phase \in [mode -> {"connecting", "checking", "receiving", "ended", "failed"}]
      /\ x \in 1 .. confirmed
  BY <1>4 DEF StateType
<1>6. /\ queue'[s] = queue[s] \ {x} /\ phase'[s] = "checking" /\ bytes'[s] = bytes[s] + n
      /\ records'[s] \subseteq records[s] \cup {x} /\ records[s] \subseteq records'[s]
      /\ lost[s] \subseteq lost'[s] /\ x \in records'[s] \cup lost'[s]
  BY <1>1, <1>2, <1>5
<1>7. ASSUME NEW u \in mode, u # s
      PROVE  /\ queue'[u] = queue[u] /\ phase'[u] = phase[u] /\ bytes'[u] = bytes[u]
             /\ records'[u] = records[u] /\ lost'[u] = lost[u]
  BY <1>1, <1>2, <1>5, <1>7
<1>8. StateType'
  <2>1. queue' \in [mode -> SUBSET (1 .. confirmed)] BY <1>1, <1>5
  <2>2. records' \in [mode -> SUBSET (1 .. confirmed)] 
        /\ lost' \in [mode -> SUBSET (1 .. confirmed)]
    BY <1>1, <1>5
  <2>3. bytes' \in [mode -> Nat] BY <1>2, <1>5, Frames
  <2>4. phase' \in [mode -> {"connecting", "checking", "receiving", "ended", "failed"}]
    BY <1>1, <1>5
  <2> QED BY <1>1, <2>1, <2>2, <2>3, <2>4 DEF StateType
<1>9. Spent'
  <2>1. ASSUME NEW u \in mode, bytes'[u] >= Budget
        PROVE  stop' /\ phase'[u] \notin {"connecting", "receiving"}
    <3>1. CASE u = s BY <1>3, <1>6, <2>1, <3>1
    <3>2. CASE u # s
      <4>1. bytes[u] >= Budget /\ phase'[u] = phase[u] BY <1>7, <2>1, <3>2
      <4> QED BY <1>3, <4>1, Zenon DEF Spent
    <3> QED BY <3>1, <3>2
  <2> QED BY <1>1, <2>1, Zenon DEF Spent
<1>10. Swept(s)'
  <2> USE Sizes
  <2>1. \A r \in records'[s], q \in queue'[s] : r < q
    <3>1. \A r \in records[s], q \in queue[s] : r < q BY DEF Swept
    <3>2. \A q \in queue[s] : q # x => x < q BY <1>4
    <3> QED BY <1>6, <3>1, <3>2
  <2>2. records'[s] \cup queue'[s] \subseteq records[s] \cup queue[s] BY <1>4, <1>6
  <2>3. ASSUME NEW y \in 1 .. confirmed, Matches(s, y),
               y \notin records'[s] \cup queue'[s] \cup lost'[s]
        PROVE  \A z \in records'[s] \cup queue'[s] : y < z
    <3>1. y \notin records[s] \cup queue[s] \cup lost[s] BY <1>6, <2>3
    <3>2. \A z \in records[s] \cup queue[s] : y < z BY <1>1, <2>3, <3>1 DEF Swept
    <3> QED BY <2>2, <3>2
  <2>4. \A y : Matches(s, y)' <=> Matches(s, y) BY <1>1 DEF Matches
  <2> QED BY <1>1, <1>6, <2>1, <2>3, <2>4 DEF Swept
<1>11. ASSUME NEW u \in mode, u # s
       PROVE  Swept(u)'
  BY <1>1, <1>6, <1>7, <1>11, SweptStays DEF Onward
<1>12. \A u \in mode : Onward(u) BY <1>1, <1>6, <1>7 DEF Onward
<1> QED BY <1>1, <1>8, <1>9, <1>10, <1>11, <1>12

\* A listener that moves on without taking anything.
LEMMA PhaseStep ==
  ASSUME StateType, Spent, \A u \in mode : Swept(u), NEW s \in mode,
         NEW p \in {"checking", "receiving", "ended", "failed"},
         phase' = [phase EXCEPT ![s] = p], phase[s] \notin {"ended", "failed"},
         p = "receiving" => ~(bytes[s] >= Budget), stop => stop',
         UNCHANGED <<chain, queue, lost, taps>>
  PROVE  StateType' /\ Spent' /\ \A u \in mode : Swept(u)' /\ Onward(u)
<1>1. UNCHANGED <<mode, kind, slot, confirmed, queue, lost, bytes, records>> BY Zenon
<1>2. phase \in [mode -> {"connecting", "checking", "receiving", "ended", "failed"}]
  BY DEF StateType
<1>3. phase' \in [mode -> {"connecting", "checking", "receiving", "ended", "failed"}]
      /\ phase'[s] = p /\ \A u \in mode : u # s => phase'[u] = phase[u]
  BY <1>2
<1>4. StateType' BY <1>1, <1>3, Zenon DEF StateType
<1>5. \A u \in mode : Onward(u) BY <1>3 DEF Onward
<1>6. \A u \in mode : Swept(u)' BY <1>1, <1>5, SweptStays
<1>7. ASSUME NEW u \in mode, bytes[u] >= Budget
      PROVE  stop' /\ phase'[u] \notin {"connecting", "receiving"}
  <2>1. stop' BY <1>7, Zenon DEF Spent
  <2>2. phase[u] \notin {"connecting", "receiving"} BY <1>7, Zenon DEF Spent
  <2>3. phase'[u] \notin {"connecting", "receiving"} BY <1>3, <1>7, <2>2
  <2> QED BY <2>1, <2>3
<1>8. Spent' BY <1>1, <1>7, Zenon DEF Spent
<1> QED BY <1>1, <1>4, <1>5, <1>6, <1>8

\* Where nothing of the streams changes.
LEMMA StreamsStand ==
  ASSUME StateType, Spent, \A u \in mode : Swept(u), stop => stop',
         UNCHANGED <<chain, queue, lost, phase, taps>>
  PROVE  StateType' /\ Spent' /\ \A u \in mode : Swept(u)' /\ Onward(u)
<1>1. UNCHANGED <<mode, kind, slot, confirmed, queue, lost, phase, bytes, records>> BY Zenon
<1>2. StateType' BY <1>1, Zenon DEF StateType
<1>3. \A u \in mode : Swept(u)' /\ Onward(u) BY <1>1, SweptStays DEF Onward
<1>4. Spent' BY <1>1, Zenon DEF Spent
<1> QED BY <1>1, <1>2, <1>3, <1>4

\* What is concluded is one of four things.
LEMMA Conclusions ==
  ASSUME NEW sample
  PROVE  Assessment(sample) \in {"inconclusive", "probe", "do not enable", "safe to try"}
BY Zenon DEF Assessment

\* Every step keeps what the listeners keep.
LEMMA ListenStep ==
  ASSUME Listening, [Next]_vars
  PROVE  Listening'
<1>1. StateType /\ Flags /\ Reported /\ Spent /\ \A s \in mode : Swept(s)
  BY Typed, Zenon DEF Listening
<1>2. ASSUME mode' = mode, StateType', Flags', Reported', Spent', \A s \in mode : Swept(s)'
      PROVE  Listening'
  BY <1>2, Typed, Zenon DEF Listening
<1>3. ASSUME mode' = mode, report' = report, \A s \in mode : Onward(s)
      PROVE  Reported'
  <2>1. \A s \in mode : phase[s] \in {"ended", "failed"} => phase'[s] \in {"ended", "failed"}
    BY <1>3 DEF Onward
  <2> QED BY <1>1, <1>3, <2>1, Zenon DEF Reported
<1>4. CASE Confirm
  <2>1. mode' = mode /\ phase' = phase /\ report' = report /\ stop' = stop /\ timer' = timer
    BY <1>4, Zenon DEF Confirm
  <2>2. StateType' /\ \A s \in mode : Swept(s)' BY <1>1, <1>4, ConfirmStep
  <2>3. Flags' BY <1>1, <2>1, Zenon DEF Flags
  <2>4. \A s \in mode : Onward(s) BY <2>1 DEF Onward
  <2>5. Reported' BY <1>3, <2>1, <2>4
  <2>6. bytes' = bytes BY <1>4, Zenon DEF Confirm
  <2>7. Spent' BY <1>1, <2>1, <2>6, Zenon DEF Spent
  <2> QED BY <1>2, <2>1, <2>2, <2>3, <2>5, <2>7
<1>5. ASSUME NEW s \in mode, Take(s)
      PROVE  Listening'
  <2>1. mode' = mode /\ report' = report /\ timer' = timer
        /\ \E b \in BOOLEAN : stop' = b
    BY <1>5, Zenon DEF Take
  <2>2. StateType' /\ Spent' /\ \A u \in mode : Swept(u)' /\ Onward(u)
    BY <1>1, <1>5, TakeStep
  <2>3. Flags' BY <1>1, <2>1, Zenon DEF Flags
  <2>4. Reported' BY <1>3, <2>1, <2>2
  <2> QED BY <1>2, <2>1, <2>2, <2>3, <2>4
<1>6. ASSUME NEW s \in mode, Connect(s) \/ CheckStop(s) \/ ReceiveTimesOut(s) \/ ListenFails(s)
      PROVE  Listening'
  <2>1. /\ UNCHANGED <<chain, queue, lost, taps>> /\ timer' = timer /\ report' = report
        /\ (stop => stop') /\ (stop' = stop \/ stop' = TRUE)
    <3>1. CASE Connect(s) BY <3>1, Zenon DEF Connect
    <3>2. CASE CheckStop(s) BY <3>2, Zenon DEF CheckStop
    <3>3. CASE ReceiveTimesOut(s) BY <3>3, Zenon DEF ReceiveTimesOut
    <3>4. CASE ListenFails(s) BY <3>4, Zenon DEF ListenFails
    <3> QED BY <1>6, <3>1, <3>2, <3>3, <3>4, Zenon
  <2>2. PICK p \in {"checking", "receiving", "ended", "failed"} :
          /\ phase' = [phase EXCEPT ![s] = p]
          /\ phase[s] \notin {"ended", "failed"} /\ (p = "receiving" => ~(bytes[s] >= Budget))
    <3>1. CASE Connect(s)
      <4>1. phase[s] = "connecting" /\ phase' = [phase EXCEPT ![s] = "checking"]
        BY <3>1, Zenon DEF Connect
      <4> QED BY <4>1
    <3>2. CASE CheckStop(s)
      <4>1. phase[s] = "checking" BY <3>2, Zenon DEF CheckStop
      <4>2. CASE stop
        <5>1. phase' = [phase EXCEPT ![s] = "ended"] BY <3>2, <4>2, Zenon DEF CheckStop
        <5> QED BY <4>1, <5>1
      <4>3. CASE ~stop
        <5>1. phase' = [phase EXCEPT ![s] = "receiving"] BY <3>2, <4>3, Zenon DEF CheckStop
        <5>2. ~(bytes[s] >= Budget) BY <1>1, <4>3, Zenon DEF Spent
        <5> QED BY <4>1, <5>1, <5>2
      <4> QED BY <4>2, <4>3
    <3>3. CASE ReceiveTimesOut(s)
      <4>1. phase[s] = "receiving" /\ phase' = [phase EXCEPT ![s] = "checking"]
        BY <3>3, Zenon DEF ReceiveTimesOut
      <4> QED BY <4>1
    <3>4. CASE ListenFails(s)
      <4>1. phase[s] \in {"connecting", "receiving"} /\ phase' = [phase EXCEPT ![s] = "failed"]
        BY <3>4, Zenon DEF ListenFails
      <4> QED BY <4>1
    <3> QED BY <1>6, <3>1, <3>2, <3>3, <3>4
  <2>3. StateType' /\ Spent' /\ \A u \in mode : Swept(u)' /\ Onward(u)
    BY <1>1, <2>1, <2>2, PhaseStep
  <2>4. Flags' BY <1>1, <2>1, Zenon DEF Flags
  <2>5. mode' = mode BY <2>1, Zenon
  <2>6. Reported' BY <1>3, <2>1, <2>3, <2>5
  <2> QED BY <1>2, <2>3, <2>4, <2>5, <2>6
<1>7. CASE Timer
  <2>1. /\ UNCHANGED <<chain, queue, lost, phase, taps, report>> /\ timer' = FALSE
        /\ stop' = TRUE
    BY <1>7, Zenon DEF Timer
  <2>2. StateType' /\ Spent' /\ \A u \in mode : Swept(u)' /\ Onward(u)
    BY <1>1, <2>1, StreamsStand, Zenon
  <2>3. Flags' BY <2>1, Zenon DEF Flags
  <2>4. mode' = mode /\ report' = report BY <2>1, Zenon
  <2>5. Reported' BY <1>3, <2>2, <2>4
  <2> QED BY <1>2, <2>2, <2>3, <2>4, <2>5
<1>8. CASE Report
  <2>1. /\ UNCHANGED <<chain, queue, lost, phase, taps, stop, timer>>
        /\ \E sample \in Samples : report' = Assessment(sample)
        /\ \A s \in mode : phase[s] \in {"ended", "failed"}
    BY <1>8, Zenon DEF Report
  <2>2. StateType' /\ Spent' /\ \A u \in mode : Swept(u)' /\ Onward(u)
    BY <1>1, <2>1, StreamsStand, Zenon
  <2>3. Flags' BY <1>1, <2>1, Zenon DEF Flags
  <2>4. mode' = mode BY <2>1, Zenon
  <2>5. report' \in {"none", "inconclusive", "probe", "do not enable", "safe to try"}
    BY <2>1, Conclusions, Zenon
  <2>6. Reported' BY <2>1, <2>4, <2>5, Zenon DEF Reported
  <2> QED BY <1>2, <2>2, <2>3, <2>4, <2>6
<1>9. CASE UNCHANGED vars
  <2>1. UNCHANGED <<chain, queue, lost, phase, taps, stop, timer, report>>
    BY <1>9, Zenon DEF vars
  <2>2. StateType' /\ Spent' /\ \A u \in mode : Swept(u)' /\ Onward(u)
    BY <1>1, <2>1, StreamsStand, Zenon
  <2>3. Flags' BY <1>1, <2>1, Zenon DEF Flags
  <2>4. mode' = mode /\ report' = report BY <2>1, Zenon
  <2>5. Reported' BY <1>3, <2>2, <2>4
  <2> QED BY <1>2, <2>2, <2>3, <2>4, <2>5
<1> QED BY <1>4, <1>5, <1>6, <1>7, <1>8, <1>9, Zenon DEF Next, Listen

\* Nothing has been asked for, sent or noted.
LEMMA ListenInit == Init => Listening
<1> SUFFICES ASSUME Init PROVE Listening
  OBVIOUS
<1>1. /\ mode \in Modes /\ kind \in Histories /\ slot \in Slots /\ confirmed = 0
      /\ queue = [s \in mode |-> {}] /\ lost = [s \in mode |-> {}]
      /\ phase = [s \in mode |-> "connecting"]
      /\ bytes = [s \in mode |-> 0] /\ records = [s \in mode |-> {}]
  BY Zenon DEF Init, Requested
<1>2. stop = FALSE /\ timer = TRUE /\ report = "none" BY Zenon DEF Init
<1>3. MaxTx \in Nat /\ Budget \in Nat \ {0} BY RequestAssumption, Zenon
<1>4. StateType BY <1>1, <1>3 DEF StateType
<1>5. Flags BY <1>2, Zenon DEF Flags
<1>6. Reported BY <1>2, Zenon DEF Reported
<1>7. Spent
  <2>1. \A s \in mode : ~(bytes[s] >= Budget) BY <1>1, <1>3
  <2> QED BY <2>1, Zenon DEF Spent
<1>8. \A s \in mode : Swept(s) BY <1>1 DEF Swept
<1> QED BY <1>4, <1>5, <1>6, <1>7, <1>8, Typed, Zenon DEF Listening

\* What the listeners keep, they keep for the whole experiment.
LEMMA AlwaysListening == Spec => []Listening
BY ListenInit, ListenStep, PTL DEF Spec

\* The types of the experiment, and that a report is only made of recordings that have
\* ended (run awaits both listeners), hold for ever.
THEOREM TypeCorrect == Spec => []TypeOK
<1>1. Listening => TypeOK BY Zenon DEF Listening
<1> QED BY <1>1, AlwaysListening, PTL

-----------------------------------------------------------------------------
(* What it may cost *)

\* A stream takes a frame only where it has some of its budget left.
LEMMA SpendStep ==
  ASSUME Listening, SpendCapped, [Next]_vars
  PROVE  SpendCapped'
<1>1. StateType /\ Spent BY Typed, Zenon DEF Listening
<1>2. ASSUME mode' = mode, bytes' = bytes
      PROVE  SpendCapped'
  BY <1>2 DEF SpendCapped, MaxFrame
<1>3. ASSUME NEW s \in mode, Take(s)
      PROVE  SpendCapped'
  <2>1. phase[s] = "receiving" /\ mode' = mode BY <1>3, Zenon DEF Take
  <2>2. ~(bytes[s] >= Budget) BY <1>1, <2>1, Zenon DEF Spent
  <2>3. PICK n \in FrameSizes : bytes' = [bytes EXCEPT ![s] = @ + n] BY <1>3, Zenon DEF Take
  <2>4. bytes \in [mode -> Nat] /\ Budget \in Nat BY <1>1, Sizes DEF StateType
  <2>5. n \in Nat /\ n <= MaxFrame /\ MaxFrame \in Nat BY Frames
  <2>6. MaxFrame' = MaxFrame BY DEF MaxFrame
  <2>7. bytes'[s] = bytes[s] + n /\ \A u \in mode : u # s => bytes'[u] = bytes[u]
    BY <2>3, <2>4
  <2>8. \A u \in mode : bytes'[u] < Budget + MaxFrame
    BY <2>2, <2>4, <2>5, <2>7 DEF SpendCapped
  <2> QED BY <2>1, <2>6, <2>8 DEF SpendCapped
<1>4. CASE Confirm
  <2>1. mode' = mode /\ bytes' = bytes BY <1>4, Zenon DEF Confirm
  <2> QED BY <1>2, <2>1
<1>5. ASSUME NEW s \in mode, Connect(s) \/ CheckStop(s) \/ ReceiveTimesOut(s) \/ ListenFails(s)
      PROVE  SpendCapped'
  <2>1. CASE Connect(s) BY <1>2, <2>1, Zenon DEF Connect
  <2>2. CASE CheckStop(s) BY <1>2, <2>2, Zenon DEF CheckStop
  <2>3. CASE ReceiveTimesOut(s) BY <1>2, <2>3, Zenon DEF ReceiveTimesOut
  <2>4. CASE ListenFails(s) BY <1>2, <2>4, Zenon DEF ListenFails
  <2> QED BY <1>5, <2>1, <2>2, <2>3, <2>4
<1>6. CASE Timer BY <1>2, <1>6, Zenon DEF Timer
<1>7. CASE Report BY <1>2, <1>7, Zenon DEF Report
<1>8. CASE UNCHANGED vars BY <1>2, <1>8, Zenon DEF vars
<1> QED BY <1>3, <1>4, <1>5, <1>6, <1>7, <1>8, Zenon DEF Next, Listen

\* "hard-capped in time AND in streamed bytes": whatever the budget and the frames, a
\* stream passes its budget by less than the largest frame, for listen() looks at the
\* budget after every frame.
THEOREM SpendingCapped == Spec => []SpendCapped
<1>1. Init => SpendCapped
  <2> SUFFICES ASSUME Init PROVE SpendCapped
    OBVIOUS
  <2>1. bytes = [s \in mode |-> 0] BY Zenon DEF Init
  <2>2. Budget \in Nat \ {0} BY RequestAssumption, Zenon
  <2> QED BY <2>1, <2>2, Frames DEF SpendCapped
<1> QED BY <1>1, AlwaysListening, SpendStep, PTL DEF Spec

-----------------------------------------------------------------------------
(* The window *)

\* Of two streams with records, the window begins a margin after the first record of each,
\* and ends a margin before the last one.
LEMMA WindowEdges ==
  ASSUME StateType, NEW s \in mode, NEW w \in Window
  PROVE  /\ records[s] # {} /\ w \in Int
         /\ \E r \in records[s] : slot[r] + MARGIN_SLOTS <= w
         /\ \E r \in records[s] : w <= slot[r] - MARGIN_SLOTS
<1>1. \A u \in mode : records[u] # {} BY DEF Window
<1>2. w \in (Max({First(u) : u \in mode}) + MARGIN_SLOTS) ..
            (Min({Last(u) : u \in mode}) - MARGIN_SLOTS)
  BY <1>1 DEF Window
<1>3. ASSUME NEW u \in mode
      PROVE  /\ First(u) \in Nat /\ \A r \in records[u] : First(u) <= slot[r]
             /\ \E r \in records[u] : First(u) = slot[r]
             /\ Last(u) \in Nat /\ \E r \in records[u] : Last(u) = slot[r]
  <2>1. records[u] \subseteq 1 .. confirmed /\ 1 .. confirmed \subseteq 1 .. MaxTx
        /\ confirmed \in Nat
    BY Sizes DEF StateType
  <2>2. \A r \in records[u] : slot[r] \in Nat BY <2>1, Sizes
  <2>3. {slot[r] : r \in records[u]} \in SUBSET Nat /\ {slot[r] : r \in records[u]} # {}
    BY <1>1, <2>2
  <2>4. First(u) \in {slot[r] : r \in records[u]}
        /\ \A y \in {slot[r] : r \in records[u]} : First(u) <= y
    BY <2>3, LeastNat DEF First
  <2>5. IsFiniteSet(records[u])
    <3>1. IsFiniteSet(1 .. confirmed) BY <2>1, FS_Interval
    <3> QED BY <2>1, <3>1, FS_Subset
  <2>6. Last(u) \in {slot[r] : r \in records[u]}
    BY <1>1, <2>2, <2>5, GreatestOf DEF Last
  <2> QED BY <2>2, <2>4, <2>6
<1>4. Max({First(u) : u \in mode}) \in Nat /\ First(s) <= Max({First(u) : u \in mode})
  <2> DEFINE f == [u \in mode |-> First(u)]
  <2>1. {f[u] : u \in mode} = {First(u) : u \in mode} OBVIOUS
  <2>2. \A u \in mode : f[u] \in Nat BY <1>3
  <2>3. f[s] = First(s) OBVIOUS
  <2> HIDE DEF f
  <2>4. mode # {} /\ IsFiniteSet(mode) BY Sizes
  <2>5. /\ Max({f[u] : u \in mode}) \in {f[u] : u \in mode}
        /\ \A u \in mode : f[u] <= Max({f[y] : y \in mode})
    BY <2>2, <2>4, GreatestOf
  <2>6. Max({f[u] : u \in mode}) \in Nat /\ f[s] <= Max({f[u] : u \in mode})
    BY <2>2, <2>5
  <2> QED BY <2>1, <2>3, <2>6
<1>5. Min({Last(u) : u \in mode}) \in Nat /\ Min({Last(u) : u \in mode}) <= Last(s)
  <2>1. {Last(u) : u \in mode} \in SUBSET Nat /\ Last(s) \in {Last(u) : u \in mode} BY <1>3
  <2>2. Min({Last(u) : u \in mode}) \in {Last(u) : u \in mode}
        /\ \A y \in {Last(u) : u \in mode} : Min({Last(u) : u \in mode}) <= y
    BY <2>1, LeastNat
  <2> QED BY <2>1, <2>2
<1>6. MARGIN_SLOTS \in Nat BY Sizes
<1>7. w \in Int /\ First(s) + MARGIN_SLOTS <= w /\ w <= Last(s) - MARGIN_SLOTS
  BY <1>2, <1>3, <1>4, <1>5, <1>6
<1> QED BY <1>1, <1>3, <1>7

\* What was confirmed in the window and is not lost has been noted: what came before a
\* stream's records lies before the window, and what came after them behind it.
LEMMA NotedInWindow ==
  ASSUME Listening, NEW s \in mode, NEW x \in (1 .. confirmed) \ lost[s], slot[x] \in Window,
         Matches(s, x)
  PROVE  x \in records[s]
<1> SUFFICES ASSUME x \notin records[s] PROVE FALSE
  OBVIOUS
<1>1. StateType BY Typed, Zenon DEF Listening
<1>2. /\ records[s] \subseteq 1 .. MaxTx /\ x \in 1 .. MaxTx /\ slot \in Slots
      /\ slot \in [1 .. MaxTx -> Nat] /\ MARGIN_SLOTS \in Nat
  BY <1>1, Sizes DEF StateType
<1>3. (\A r \in records[s] : x < r) \/ (\A r \in records[s] : r < x)
  BY Zenon DEF Listening, Swept
<1>4. PICK a \in records[s] : slot[a] + MARGIN_SLOTS <= slot[x] BY <1>1, WindowEdges
<1>5. PICK z \in records[s] : slot[x] <= slot[z] - MARGIN_SLOTS BY <1>1, WindowEdges
<1>6. a \in 1 .. MaxTx /\ z \in 1 .. MaxTx BY <1>2
<1>7. CASE x < a
  <2>1. slot[x] < slot[a] + MARGIN_SLOTS BY <1>2, <1>6, <1>7, MarginAssumption
  <2> QED BY <1>2, <1>4, <1>6, <2>1
<1>8. CASE z < x
  <2>1. slot[z] < slot[x] + MARGIN_SLOTS BY <1>2, <1>6, <1>8, MarginAssumption
  <2> QED BY <1>2, <1>5, <1>6, <2>1
<1> QED BY <1>3, <1>7, <1>8

\* "inside the slot range both were live for": however late a stream subscribed, fell behind
\* or stopped, what the provider confirmed in the window compare() looks at and did not lose
\* is in the records, as long as slots do not arrive further out of order than the margin.
THEOREM WindowHolds == Spec => []WindowComplete
<1>1. Listening => WindowComplete BY NotedInWindow DEF WindowComplete
<1> QED BY <1>1, AlwaysListening, PTL

-----------------------------------------------------------------------------
(* What is advised *)

\* What the two answers say of the recordings.
Founded ==
  /\ report \in {"safe to try", "do not enable"} =>
       "program" \in mode /\ \A s \in mode : phase[s] # "failed"
  /\ report = "safe to try" => Missed = {}
  /\ report = "do not enable" =>
       Missed # {} \/ \E x \in Launches : ~Matches("creations", x)

\* An answer is about the recordings at hand.
LEMMA Answered ==
  ASSUME NEW sample \in Samples,
         Assessment(sample) \in {"safe to try", "do not enable"}
  PROVE  /\ "program" \in mode /\ \A s \in mode : phase[s] # "failed"
         /\ Assessment(sample) = "safe to try" => Missed = {}
         /\ Assessment(sample) = "do not enable" =>
              Missed # {} \/ \E x \in Launches : ~Matches("creations", x)
<1>1. "program" \in mode /\ \A s \in mode : phase[s] # "failed"
  BY Zenon DEF Assessment
<1>2. Assessment(sample) = "safe to try" => Missed = {} BY <1>1, Zenon DEF Assessment
<1>3. Assessment(sample) = "do not enable" => Missed # {} \/ Absent(sample) # {}
  BY <1>1, Zenon DEF Assessment
<1>4. sample \subseteq Launches BY <1>1, Zenon DEF Samples
<1>5. Absent(sample) # {} => \E x \in Launches : ~Matches("creations", x)
  BY <1>4, Zenon DEF Absent
<1> QED BY <1>1, <1>2, <1>3, <1>5, Zenon

\* Once there is a report the recordings are over.
LEMMA AfterReport ==
  ASSUME Listening, report # "none", [Next]_vars
  PROVE  UNCHANGED <<mode, kind, slot, phase, records, report>>
<1>1. \A s \in mode : phase[s] \in {"ended", "failed"}
  BY Typed, Zenon DEF Listening, Reported
<1>2. \A s \in mode : phase[s] \notin {"connecting", "checking", "receiving"} BY <1>1
<1>3. ASSUME NEW s \in mode, Listen(s) \/ ListenFails(s)
      PROVE  FALSE
  <2>1. CASE Connect(s) BY <1>2, <2>1, Zenon DEF Connect
  <2>2. CASE CheckStop(s) BY <1>2, <2>2, Zenon DEF CheckStop
  <2>3. CASE ReceiveTimesOut(s) BY <1>2, <2>3, Zenon DEF ReceiveTimesOut
  <2>4. CASE Take(s) BY <1>2, <2>4, Zenon DEF Take
  <2>5. CASE ListenFails(s) BY <1>2, <2>5, Zenon DEF ListenFails
  <2> QED BY <1>3, <2>1, <2>2, <2>3, <2>4, <2>5, Zenon DEF Listen
<1>4. CASE Confirm BY <1>4, Zenon DEF Confirm
<1>5. CASE Timer BY <1>5, Zenon DEF Timer
<1>6. CASE Report BY <1>6, Zenon DEF Report
<1>7. CASE UNCHANGED vars BY <1>7, Zenon DEF vars
<1> QED BY <1>3, <1>4, <1>5, <1>6, <1>7, Zenon DEF Next

\* Before there is one only Report makes one, and it changes nothing else.
LEMMA OnlyReport ==
  ASSUME report = "none", [Next]_vars
  PROVE  report' = "none" \/ Report
<1>1. ASSUME NEW s \in mode, Listen(s) \/ ListenFails(s)
      PROVE  report' = report
  <2>1. CASE Connect(s) BY <2>1, Zenon DEF Connect
  <2>2. CASE CheckStop(s) BY <2>2, Zenon DEF CheckStop
  <2>3. CASE ReceiveTimesOut(s) BY <2>3, Zenon DEF ReceiveTimesOut
  <2>4. CASE Take(s) BY <2>4, Zenon DEF Take
  <2>5. CASE ListenFails(s) BY <2>5, Zenon DEF ListenFails
  <2> QED BY <1>1, <2>1, <2>2, <2>3, <2>4, <2>5, Zenon DEF Listen
<1>2. CASE Confirm BY <1>2, Zenon DEF Confirm
<1>3. CASE Timer BY <1>3, Zenon DEF Timer
<1>4. CASE UNCHANGED vars BY <1>4, Zenon DEF vars
<1> QED BY <1>1, <1>2, <1>3, <1>4, Zenon DEF Next

\* Missed and the rest are made of the recordings alone.
LEMMA SameRecordings ==
  ASSUME UNCHANGED <<mode, kind, slot, records>>
  PROVE  /\ Missed' = Missed /\ Launches' = Launches
         /\ \A x : Matches("creations", x)' <=> Matches("creations", x)
<1>1. \A s : First(s)' = First(s) /\ Last(s)' = Last(s) BY Zenon DEF First, Last
<1>2. Window' = Window BY <1>1 DEF Window
<1>3. Inside("program")' = Inside("program") BY <1>2 DEF Inside
<1>4. Noted("program", "creation")' = Noted("program", "creation") BY <1>3 DEF Noted
<1>5. Launches' = Launches BY <1>4 DEF Launches
<1>6. Missed' = Missed BY <1>5 DEF Missed
<1>7. \A x : Matches("creations", x)' <=> Matches("creations", x) BY Zenon DEF Matches
<1> QED BY <1>5, <1>6, <1>7

\* Answers stay founded.
LEMMA FoundedStep ==
  ASSUME Listening, Founded, [Next]_vars
  PROVE  Founded'
<1>1. CASE report # "none"
  <2>1. UNCHANGED <<mode, kind, slot, phase, records, report>> BY <1>1, AfterReport, Zenon
  <2>2. /\ Missed' = Missed /\ Launches' = Launches
        /\ \A x : Matches("creations", x)' <=> Matches("creations", x)
    BY <2>1, SameRecordings, Zenon
  <2> QED BY <2>1, <2>2, Zenon DEF Founded
<1>2. CASE report = "none"
  <2>1. CASE report' = "none"
    <3>1. report' # "safe to try" /\ report' # "do not enable" BY <2>1, Zenon
    <3> QED BY <3>1, Zenon DEF Founded
  <2>2. CASE Report
    <3>1. UNCHANGED <<mode, kind, slot, phase, records>> BY <2>2, Zenon DEF Report
    <3>2. PICK sample \in Samples : report' = Assessment(sample)
      BY <2>2, Zenon DEF Report
    <3>3. /\ Missed' = Missed /\ Launches' = Launches
          /\ \A x : Matches("creations", x)' <=> Matches("creations", x)
      BY <3>1, SameRecordings, Zenon
    <3> QED BY <3>1, <3>2, <3>3, Answered, Zenon DEF Founded
  <2> QED BY <1>2, <2>1, <2>2, OnlyReport, Zenon
<1> QED BY <1>1, <1>2

\* What is founded on the recordings is grounded in the chain, for the window is complete.
LEMMA FoundedGrounded ==
  ASSUME Listening, Founded
  PROVE  AdviceGrounded
<1>1. StateType BY Typed, Zenon DEF Listening
<1>2. "creations" \in mode /\ confirmed \in Nat BY <1>1, Sizes
<1>3. ASSUME report = "safe to try", NEW x \in Evident, x \notin lost["program"]
      PROVE  x \in records["creations"]
  <2>1. "program" \in mode /\ Missed = {} BY <1>3, Zenon DEF Founded
  <2>2. x \in 1 .. confirmed /\ slot[x] \in Window /\ Verdict[kind[x]] = "creation"
    BY DEF Evident
  <2>3. Matches("program", x) BY DEF Matches
  <2>4. x \in records["program"] BY <1>3, <2>1, <2>2, <2>3, NotedInWindow
  <2>5. x \in Launches BY <2>2, <2>4 DEF Launches, Noted, Inside
  <2> QED BY <2>1, <2>5 DEF Missed
<1>4. ASSUME report = "do not enable"
      PROVE  \E x \in Evident : x \in lost["creations"] \/ ~Matches("creations", x)
  <2>1. "program" \in mode BY <1>4, Zenon DEF Founded
  <2>2. \E x \in Launches : x \in Missed \/ ~Matches("creations", x)
    <3>1. Missed # {} \/ \E x \in Launches : ~Matches("creations", x)
      BY <1>4, Zenon DEF Founded
    <3>2. \A x \in Missed : x \in Launches BY DEF Missed
    <3> QED BY <3>1, <3>2
  <2>3. PICK x \in Launches : x \in Missed \/ ~Matches("creations", x) BY <2>2
  <2>4. x \in records["program"] /\ slot[x] \in Window /\ Verdict[kind[x]] = "creation"
    BY <2>3 DEF Launches, Noted, Inside
  <2>5. x \in 1 .. confirmed BY <1>1, <2>1, <2>4 DEF StateType
  <2>6. x \in Evident BY <2>4, <2>5 DEF Evident
  <2>7. Matches("creations", x) => x \in lost["creations"]
    <3>1. Matches("creations", x) => x \notin records["creations"] BY <2>3 DEF Missed
    <3> QED BY <1>2, <2>4, <2>5, <3>1, NotedInWindow
  <2> QED BY <2>6, <2>7
<1> QED BY <1>3, <1>4, Zenon DEF AdviceGrounded

\* Both answers of assess() are about the chain, whatever either stream has lost and however
\* their recordings lie: "safe to try" is said when each creation of the window that the
\* program stream did not lose has come on the creations stream, "do not enable" when one was
\* lost there or does not mention the authority.
THEOREM AdviceIsGrounded == Spec => []AdviceGrounded
<1>1. Init => Founded
  <2> SUFFICES ASSUME Init PROVE Founded
    OBVIOUS
  <2>1. report = "none" BY Zenon DEF Init
  <2>2. report # "safe to try" /\ report # "do not enable" BY <2>1, Zenon
  <2> QED BY <2>2, Zenon DEF Founded
<1>2. Spec => []Founded BY <1>1, FoundedStep, AlwaysListening, PTL DEF Spec
<1>3. Listening /\ Founded => AdviceGrounded BY FoundedGrounded
<1> QED BY <1>2, <1>3, AlwaysListening, PTL
=============================================================================
