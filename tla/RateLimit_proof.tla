--------------------------- MODULE RateLimit_proof ---------------------------
(***************************************************************************)
(* Proofs about the rate limiter, for any threads, limits and bounds: its  *)
(* type invariant, that a window admits no more than the limit, and that a *)
(* key without a time to live has a request that is about to give it one.  *)
(***************************************************************************)
EXTENDS RateLimit, FiniteSetTheorems, TLAPS

USE DEF key, locals

\* Threads whose INCR is still to come.
Waiting == {t \in Threads : pc[t] = "incr"}

\* Every increment and every window has used up a request that no longer waits.
Accounted == count + window + Cardinality(Waiting) <= requests

\* How many threads wait, as they come and go.
LEMMA WaitingCount ==
  ASSUME TypeOK
  PROVE  /\ Cardinality(Waiting) \in Nat
         /\ \A t \in Threads : \A p : pc' = [pc EXCEPT ![t] = p] =>
              /\ Cardinality(Waiting)' \in Nat
              /\ (p # "incr" => Cardinality(Waiting)' <= Cardinality(Waiting))
              /\ (p # "incr" /\ pc[t] = "incr"
                    => Cardinality(Waiting)' + 1 = Cardinality(Waiting))
              /\ (p = "incr" => Cardinality(Waiting)' <= Cardinality(Waiting) + 1)
         /\ \A S \in SUBSET Threads :
              pc' = [t \in Threads |-> IF t \in S THEN "idle" ELSE pc[t]] =>
                /\ Cardinality(Waiting)' \in Nat
                /\ Cardinality(Waiting)' <= Cardinality(Waiting)
<1>1. IsFiniteSet(Waiting) /\ Cardinality(Waiting) \in Nat
  <2>1. Waiting \in SUBSET Threads BY DEF Waiting
  <2>2. IsFiniteSet(Waiting) BY <2>1, FS_Subset, LimitsAssumption
  <2> QED BY <2>2, FS_CardinalityType
<1>2. ASSUME NEW T \in SUBSET Waiting
      PROVE  Cardinality(T) \in Nat /\ Cardinality(T) <= Cardinality(Waiting)
  <2>1. IsFiniteSet(T) /\ Cardinality(T) <= Cardinality(Waiting) BY <1>1, FS_Subset
  <2> QED BY <2>1, FS_CardinalityType
<1>3. ASSUME NEW t \in Threads, NEW p, pc' = [pc EXCEPT ![t] = p]
      PROVE  /\ Cardinality(Waiting)' \in Nat
             /\ (p # "incr" => Cardinality(Waiting)' <= Cardinality(Waiting))
             /\ (p # "incr" /\ pc[t] = "incr"
                    => Cardinality(Waiting)' + 1 = Cardinality(Waiting))
             /\ (p = "incr" => Cardinality(Waiting)' <= Cardinality(Waiting) + 1)
  <2>1. CASE p # "incr"
    <3>1. Waiting' = Waiting \ {t} BY <2>1, <1>3 DEF Waiting, TypeOK
    <3>2. Waiting \ {t} \in SUBSET Waiting OBVIOUS
    <3>3. Cardinality(Waiting \ {t}) =
            IF t \in Waiting THEN Cardinality(Waiting) - 1 ELSE Cardinality(Waiting)
      BY <1>1, FS_RemoveElement
    <3>4. t \in Waiting <=> pc[t] = "incr" BY DEF Waiting
    <3> QED BY <3>1, <3>2, <3>3, <3>4, <1>1, <1>2, <2>1
  <2>2. CASE p = "incr"
    <3>1. Waiting' = Waiting \cup {t} BY <2>2, <1>3 DEF Waiting, TypeOK
    <3>2. Cardinality(Waiting \cup {t}) =
            IF t \in Waiting THEN Cardinality(Waiting) ELSE Cardinality(Waiting) + 1
      BY <1>1, FS_AddElement
    <3> QED BY <3>1, <3>2, <1>1, <2>2
  <2> QED BY <2>1, <2>2
<1>4. ASSUME NEW S \in SUBSET Threads,
             pc' = [t \in Threads |-> IF t \in S THEN "idle" ELSE pc[t]]
      PROVE  /\ Cardinality(Waiting)' \in Nat
             /\ Cardinality(Waiting)' <= Cardinality(Waiting)
  <2>1. Waiting' \in SUBSET Waiting BY <1>4 DEF Waiting, TypeOK
  <2> QED BY <2>1, <1>2
<1> QED BY <1>1, <1>3, <1>4

\* Every variable keeps its type, and every request stays accounted for.
LEMMA TypeStep ==
  ASSUME TypeOK, Accounted, [Next]_vars
  PROVE  TypeOK' /\ Accounted'
<1> USE LimitsAssumption
<1>0. /\ count \in Nat /\ window \in Nat /\ requests \in Nat /\ faults \in Nat
      /\ requests <= MaxRequests /\ Cardinality(Waiting) \in Nat
  BY WaitingCount DEF TypeOK
<1>1. ASSUME NEW t \in Threads, Arrive(t)
      PROVE  TypeOK' /\ Accounted'
  <2>1. /\ Cardinality(Waiting)' \in Nat
        /\ Cardinality(Waiting)' <= Cardinality(Waiting) + 1
    BY <1>1, WaitingCount DEF Arrive
  <2>2. Accounted' BY <1>0, <1>1, <2>1 DEF Arrive, Accounted
  <2>3. TypeOK' BY <1>0, <1>1 DEF Arrive, TypeOK
  <2> QED BY <2>2, <2>3
<1>2. ASSUME NEW t \in Threads, NEW p, p # "incr", pc[t] = "incr", Increment(t),
             pc' = [pc EXCEPT ![t] = p], UNCHANGED <<window, requests>>
      PROVE  Accounted' /\ count' \in 1 .. MaxRequests
             /\ got' \in [Threads -> 0 .. MaxRequests]
             /\ since' \in [Threads -> 0 .. MaxRequests]
  <2>1. /\ Cardinality(Waiting)' \in Nat
        /\ Cardinality(Waiting)' + 1 = Cardinality(Waiting)
    BY <1>2, WaitingCount
  <2>2. Accounted' BY <1>0, <1>2, <2>1 DEF Increment, Accounted
  <2>3. count + 1 \in 1 .. MaxRequests BY <1>0, <2>1 DEF Accounted
  <2> QED BY <1>2, <2>2, <2>3 DEF Increment, TypeOK
<1>3. ASSUME NEW t \in Threads, NEW p, p # "incr", pc' = [pc EXCEPT ![t] = p],
             UNCHANGED <<count, window, requests>>
      PROVE  Accounted'
  <2>1. /\ Cardinality(Waiting)' \in Nat /\ Cardinality(Waiting)' <= Cardinality(Waiting)
    BY <1>3, WaitingCount
  <2> QED BY <1>0, <1>3, <2>1 DEF Accounted
<1>4. ASSUME NEW t \in Threads, Incr(t)
      PROVE  TypeOK' /\ Accounted'
  <2>1. \E p \in {"expire", "check"} : pc' = [pc EXCEPT ![t] = p]
    BY <1>4 DEF Incr
  <2>2. Accounted' /\ count' \in 1 .. MaxRequests /\ got' \in [Threads -> 0 .. MaxRequests]
        /\ since' \in [Threads -> 0 .. MaxRequests]
    BY <1>2, <1>4, <2>1 DEF Incr
  <2>3. pc' \in [Threads -> {"idle", "incr", "expire", "check"}]
    BY <2>1 DEF TypeOK
  <2>4. count' \in 0 .. MaxRequests /\ count' # 0 BY <2>2
  <2> QED BY <1>4, <2>2, <2>3, <2>4 DEF Incr, TypeOK
<1>5. ASSUME NEW t \in Threads, Expire(t)
      PROVE  TypeOK' /\ Accounted'
  <2>1. Accounted' BY <1>3, <1>5 DEF Expire
  <2> QED BY <1>5, <2>1 DEF Expire, TypeOK
<1>6. ASSUME NEW t \in Threads, Check(t)
      PROVE  TypeOK' /\ Accounted'
  <2>1. Accounted' BY <1>3, <1>6 DEF Check
  <2>2. admitted' \in Seq(Admissions)
    <3>1. ASSUME got[t] <= limit[t]
          PROVE  [window |-> since[t], limit |-> limit[t], reply |-> got[t]] \in Admissions
      BY <1>6, <3>1 DEF Check, TypeOK, Admissions
    <3>2. admitted \in Seq(Admissions) BY Zenon DEF TypeOK
    <3>3. got[t] \in Nat /\ limit[t] \in Nat
      <4>1. got[t] \in 0 .. MaxRequests /\ limit[t] \in Limits BY Zenon DEF TypeOK
      <4>2. limit[t] \in Nat BY <4>1
      <4>3. got[t] \in Nat BY <4>1
      <4> QED BY <4>2, <4>3
    <3>4. CASE got[t] > limit[t] BY <1>6, <3>2, <3>4 DEF Check
    <3>5. CASE got[t] <= limit[t] BY <1>6, <3>1, <3>2, <3>3, <3>5 DEF Check, Admit
    <3> QED BY <3>3, <3>4, <3>5
  <2> QED BY <1>6, <2>1, <2>2 DEF Check, TypeOK
<1>7. ASSUME NEW t \in Threads, CommandFails(t)
      PROVE  TypeOK' /\ Accounted'
  <2>1. CASE UNCHANGED <<key, got, since>>
    <3>1. Accounted' BY <1>3, <1>7, <2>1 DEF CommandFails
    <3> QED BY <1>0, <1>7, <2>1, <3>1 DEF CommandFails, Fault, TypeOK
  <2>2. CASE pc[t] = "incr" /\ Increment(t) /\ UNCHANGED <<ttl, window>>
    <3>1. Accounted' /\ count' \in 1 .. MaxRequests
          /\ got' \in [Threads -> 0 .. MaxRequests]
          /\ since' \in [Threads -> 0 .. MaxRequests]
      BY <1>2, <1>7, <2>2 DEF CommandFails
    <3>2. count' \in 0 .. MaxRequests /\ count' # 0 BY <3>1
    <3>3. faults' \in 0 .. MaxFaults BY <1>0, <1>7 DEF CommandFails, Fault
    <3>4. pc' \in [Threads -> {"idle", "incr", "expire", "check"}]
      BY <1>7 DEF CommandFails, TypeOK
    <3> QED BY <1>7, <2>2, <3>1, <3>2, <3>3, <3>4, Zenon DEF CommandFails, TypeOK
  <2>3. CASE pc[t] = "expire" /\ ttl' = (count # 0) /\ UNCHANGED <<count, window, got, since>>
    <3>1. Accounted' BY <1>3, <1>7, <2>3 DEF CommandFails
    <3> QED BY <1>0, <1>7, <2>3, <3>1 DEF CommandFails, Fault, TypeOK
  <2> QED BY <1>7, <2>1, <2>2, <2>3 DEF CommandFails
<1>8. CASE Crash
  <2>1. /\ Cardinality(Waiting)' \in Nat /\ Cardinality(Waiting)' <= Cardinality(Waiting)
    BY <1>8, WaitingCount DEF Crash
  <2>2. Accounted' BY <1>0, <1>8, <2>1 DEF Crash, Accounted
  <2>3. TypeOK' BY <1>0, <1>8 DEF Crash, Fault, TypeOK
  <2> QED BY <2>2, <2>3
<1>9. CASE KeyExpires
  <2>1. Waiting' = Waiting BY <1>9 DEF KeyExpires, Waiting
  <2>2. count # 0 BY <1>9 DEF KeyExpires, TypeOK
  <2>3. Accounted' /\ window + 1 <= MaxRequests
    BY <1>0, <1>9, <2>1, <2>2 DEF KeyExpires, Accounted
  <2>4. window' \in 0 .. MaxRequests /\ count' \in 0 .. MaxRequests
    BY <1>0, <1>9, <2>3 DEF KeyExpires
  <2>5. ttl' \in BOOLEAN /\ ~ttl' BY <1>9, Zenon DEF KeyExpires
  <2> QED BY <1>9, <2>3, <2>4, <2>5, Zenon DEF KeyExpires, TypeOK
<1>10. CASE UNCHANGED vars
  <2>1. Waiting' = Waiting BY <1>10 DEF vars, Waiting
  <2> QED BY <1>10, <2>1 DEF vars, TypeOK, Accounted
<1> QED BY <1>1, <1>4, <1>5, <1>6, <1>7, <1>8, <1>9, <1>10 DEF Next, Serve

\* The first state is well typed and nobody waits.
LEMMA TypeInit ==
  ASSUME Init
  PROVE  TypeOK /\ Accounted
<1>1. Waiting = {} BY DEF Init, Waiting
<1>2. Accounted BY <1>1, FS_EmptySet DEF Init, Accounted
<1>3. limit \in [Threads -> Limits] /\ admitted \in Seq(Admissions)
  BY LimitsAssumption DEF Init
<1>4. /\ got \in [Threads -> 0 .. MaxRequests]
      /\ pc \in [Threads -> {"idle", "incr", "expire", "check"}]
      /\ 0 \in 0 .. MaxRequests /\ 0 \in 0 .. MaxFaults
  BY LimitsAssumption DEF Init
<1>5. TypeOK BY <1>3, <1>4, Zenon DEF Init, TypeOK
<1> QED BY <1>2, <1>5

\* Every variable has its type, and only a key that exists has a time to live (main.py:87-98).
THEOREM TypeCorrect == Spec => []TypeOK
<1>1. Init => TypeOK /\ Accounted BY TypeInit
<1>2. TypeOK /\ Accounted /\ [Next]_vars => (TypeOK /\ Accounted)' BY TypeStep
<1> QED BY <1>1, <1>2, PTL DEF Spec

-----------------------------------------------------------------------------

\* A thread between the reply of INCR and the comparison with the limit.
Holding(t) == pc[t] \in {"expire", "check"}

\* A reply that is held counts the increments of its window so far.
HeldCounted ==
  \A t \in Threads : Holding(t) =>
    /\ 1 <= got[t] /\ since[t] <= window
    /\ (since[t] = window => got[t] <= count)

\* So did every reply that was let in, and it was within its limit.
AdmittedCounted ==
  \A i \in DOMAIN admitted :
    /\ 1 <= admitted[i].reply /\ admitted[i].reply <= admitted[i].limit
    /\ admitted[i].window <= window
    /\ (admitted[i].window = window => admitted[i].reply <= count)

\* No reply of a window is given twice: to two threads, to a thread and a request that was
\* let in, to two requests that were let in.
HeldDistinct ==
  \A t, u \in Threads :
    (Holding(t) /\ Holding(u) /\ t # u /\ since[t] = since[u]) => got[t] # got[u]

HeldAreNew ==
  \A t \in Threads, i \in DOMAIN admitted :
    (Holding(t) /\ admitted[i].window = since[t]) => admitted[i].reply # got[t]

AdmittedDistinct ==
  \A i, j \in DOMAIN admitted :
    (i # j /\ admitted[i].window = admitted[j].window)
      => admitted[i].reply # admitted[j].reply

Replies == HeldCounted /\ AdmittedCounted /\ HeldDistinct /\ HeldAreNew /\ AdmittedDistinct

\* The values the proof computes with, without the ones that are true or false.
LEMMA Numbers ==
  ASSUME TypeOK
  PROVE  /\ count \in Nat /\ window \in Nat
         /\ got \in [Threads -> Nat] /\ since \in [Threads -> Nat]
         /\ limit \in [Threads -> Nat]
         /\ pc \in [Threads -> {"idle", "incr", "expire", "check"}]
         /\ admitted \in Seq(Admissions)
         /\ \A i \in DOMAIN admitted :
              /\ admitted[i].window \in Nat /\ admitted[i].limit \in Limits
              /\ admitted[i].limit \in Nat /\ admitted[i].reply \in Nat
<1> USE LimitsAssumption
<1>1. /\ count \in 0 .. MaxRequests /\ window \in 0 .. MaxRequests
      /\ got \in [Threads -> 0 .. MaxRequests] /\ since \in [Threads -> 0 .. MaxRequests]
      /\ limit \in [Threads -> Limits]
      /\ pc \in [Threads -> {"idle", "incr", "expire", "check"}]
      /\ admitted \in Seq(Admissions)
  BY Zenon DEF TypeOK
<1>2. \A i \in DOMAIN admitted : admitted[i] \in Admissions BY <1>1
<1>3. \A a \in Admissions : a.window \in Nat /\ a.limit \in Limits /\ a.reply \in Nat
  BY DEF Admissions
<1>4. Limits \subseteq Nat OBVIOUS
<1>5. count \in Nat /\ window \in Nat BY <1>1
<1>6. got \in [Threads -> Nat] BY <1>1
<1>7. since \in [Threads -> Nat] BY <1>1
<1>8. limit \in [Threads -> Nat] BY <1>1, <1>4
<1> QED BY <1>1, <1>2, <1>3, <1>4, <1>5, <1>6, <1>7, <1>8

\* A request that is let in is added at the end of the history.
LEMMA AdmitAppends ==
  ASSUME TypeOK, NEW t \in Threads, Check(t), got[t] <= limit[t]
  PROVE  /\ DOMAIN admitted' = DOMAIN admitted \cup {Len(admitted) + 1}
         /\ Len(admitted) + 1 \notin DOMAIN admitted
         /\ \A i \in DOMAIN admitted : admitted'[i] = admitted[i]
         /\ admitted'[Len(admitted) + 1]
              = [window |-> since[t], limit |-> limit[t], reply |-> got[t]]
<1> DEFINE a == [window |-> since[t], limit |-> limit[t], reply |-> got[t]]
<1>1. admitted \in Seq(Admissions) /\ got[t] \in Nat /\ limit[t] \in Nat
      /\ since[t] \in Nat
  BY Numbers
<1>2. admitted' = Append(admitted, a) BY <1>1 DEF Check, Admit
<1> HIDE DEF a
<1>3. /\ DOMAIN Append(admitted, a) = DOMAIN admitted \cup {Len(admitted) + 1}
      /\ Len(admitted) + 1 \notin DOMAIN admitted
      /\ \A i \in DOMAIN admitted : Append(admitted, a)[i] = admitted[i]
      /\ Append(admitted, a)[Len(admitted) + 1] = a
  BY <1>1
<1> QED BY <1>2, <1>3 DEF a

\* The increment hands out a reply that nobody of its window has had.
LEMMA IncrementReplies ==
  ASSUME TypeOK, Replies, NEW t \in Threads, ~Holding(t), Increment(t),
         NEW p, pc' = [pc EXCEPT ![t] = p], UNCHANGED <<window, admitted>>
  PROVE  Replies'
<1> USE Numbers DEF Increment, Holding
<1>1. \A u \in Threads : u # t =>
        got'[u] = got[u] /\ since'[u] = since[u] /\ pc'[u] = pc[u]
  OBVIOUS
<1>2. got'[t] = count + 1 /\ since'[t] = window /\ count' = count + 1 OBVIOUS
<1>3. HeldCounted' BY <1>1, <1>2 DEF Replies, HeldCounted
<1>4. AdmittedCounted' BY <1>2 DEF Replies, AdmittedCounted
<1>5. HeldDistinct'
  <2>1. ASSUME NEW u \in Threads, u # t, Holding(u), since[u] = window
        PROVE  got[u] # count + 1
    BY <2>1 DEF Replies, HeldCounted
  <2> QED BY <1>1, <1>2, <2>1 DEF Replies, HeldDistinct
<1>6. HeldAreNew'
  <2>1. ASSUME NEW i \in DOMAIN admitted, admitted[i].window = window
        PROVE  admitted[i].reply # count + 1
    BY <2>1 DEF Replies, AdmittedCounted
  <2> QED BY <1>1, <1>2, <2>1 DEF Replies, HeldAreNew
<1>7. AdmittedDistinct' BY DEF Replies, AdmittedDistinct
<1> QED BY <1>3, <1>4, <1>5, <1>6, <1>7 DEF Replies

\* Threads that come to hold no reply, or hold the one they held, disturb nothing.
LEMMA KeepReplies ==
  ASSUME TypeOK, Replies, UNCHANGED <<count, window, got, since, admitted>>,
         \A t \in Threads : Holding(t)' => Holding(t)
  PROVE  Replies'
BY DEF Replies, HeldCounted, AdmittedCounted, HeldDistinct, HeldAreNew, AdmittedDistinct,
  Holding

\* What is known of the replies survives every step.
LEMMA RepliesStep ==
  ASSUME TypeOK, Replies, [Next]_vars
  PROVE  Replies'
<1>1. ASSUME NEW t \in Threads, Arrive(t)
      PROVE  Replies'
  <2>1. \A u \in Threads : Holding(u)' => Holding(u)
    BY <1>1, Numbers DEF Arrive, Holding
  <2> QED BY <1>1, <2>1, KeepReplies DEF Arrive
<1>2. ASSUME NEW t \in Threads, Incr(t)
      PROVE  Replies'
  <2>1. ~Holding(t) BY <1>2 DEF Incr, Holding
  <2>2. \E p : pc' = [pc EXCEPT ![t] = p] BY <1>2 DEF Incr
  <2> QED BY <1>2, <2>1, <2>2, IncrementReplies DEF Incr
<1>3. ASSUME NEW t \in Threads, Expire(t)
      PROVE  Replies'
  <2>1. \A u \in Threads : Holding(u)' => Holding(u)
    BY <1>3, Numbers DEF Expire, Holding
  <2> QED BY <1>3, <2>1, KeepReplies DEF Expire
<1>4. ASSUME NEW t \in Threads, Check(t)
      PROVE  Replies'
  <2>1. Holding(t) /\ ~Holding(t)' /\ (\A u \in Threads : Holding(u)' => Holding(u) /\ u # t)
    BY <1>4, Numbers DEF Check, Holding
  <2>2. UNCHANGED <<count, window, got, since>> BY <1>4 DEF Check
  <2>3. CASE got[t] > limit[t]
    BY <1>4, <2>1, <2>2, <2>3, KeepReplies DEF Check
  <2>4. CASE got[t] <= limit[t]
    <3> DEFINE n == Len(admitted) + 1
    <3>1. /\ DOMAIN admitted' = DOMAIN admitted \cup {n} /\ n \notin DOMAIN admitted
          /\ \A i \in DOMAIN admitted : admitted'[i] = admitted[i]
          /\ admitted'[n].window = since[t] /\ admitted'[n].limit = limit[t]
          /\ admitted'[n].reply = got[t]
      <4>1. admitted'[n] = [window |-> since[t], limit |-> limit[t], reply |-> got[t]]
        BY <1>4, <2>4, AdmitAppends
      <4>2. /\ DOMAIN admitted' = DOMAIN admitted \cup {n} /\ n \notin DOMAIN admitted
            /\ \A i \in DOMAIN admitted : admitted'[i] = admitted[i]
        BY <1>4, <2>4, AdmitAppends
      <4> HIDE DEF n
      <4> QED BY <4>1, <4>2
    <3> HIDE DEF n
    <3>2. AdmittedCounted'
      BY <2>1, <2>2, <2>4, <3>1 DEF Replies, HeldCounted, AdmittedCounted
    <3>3. HeldCounted' BY <2>1, <2>2 DEF Replies, HeldCounted
    <3>4. HeldDistinct' BY <2>1, <2>2 DEF Replies, HeldDistinct
    <3>5. HeldAreNew' BY <2>1, <2>2, <3>1 DEF Replies, HeldAreNew, HeldDistinct
    <3>6. AdmittedDistinct'
      <4>1. \A i \in DOMAIN admitted :
              admitted[i].window = since[t] => admitted[i].reply # got[t]
        BY <2>1 DEF Replies, HeldAreNew
      <4> QED BY <3>1, <4>1 DEF Replies, AdmittedDistinct
    <3> QED BY <3>2, <3>3, <3>4, <3>5, <3>6 DEF Replies
  <2> QED BY <2>3, <2>4, Numbers
<1>5. ASSUME NEW t \in Threads, CommandFails(t)
      PROVE  Replies'
  <2>1. \A u \in Threads : Holding(u)' => Holding(u)
    BY <1>5, Numbers DEF CommandFails, Holding
  <2>2. CASE UNCHANGED <<key, got, since>> BY <1>5, <2>1, <2>2, KeepReplies DEF CommandFails
  <2>3. CASE pc[t] = "incr" /\ Increment(t) /\ UNCHANGED <<ttl, window>>
    <3>1. ~Holding(t) BY <2>3 DEF Holding
    <3> QED BY <1>5, <2>3, <3>1, IncrementReplies DEF CommandFails
  <2>4. CASE pc[t] = "expire" /\ ttl' = (count # 0) /\ UNCHANGED <<count, window, got, since>>
    BY <1>5, <2>1, <2>4, KeepReplies DEF CommandFails
  <2> QED BY <1>5, <2>2, <2>3, <2>4 DEF CommandFails
<1>6. CASE Crash
  <2>1. \A u \in Threads : Holding(u)' => Holding(u)
    BY <1>6, Numbers DEF Crash, Holding
  <2> QED BY <1>6, <2>1, KeepReplies DEF Crash
<1>7. CASE KeyExpires
  <2>1. window' = window + 1 /\ UNCHANGED <<pc, got, since, admitted>>
    BY <1>7 DEF KeyExpires
  <2>2. HeldCounted' BY <2>1, Numbers DEF Replies, HeldCounted, Holding
  <2>3. AdmittedCounted' BY <2>1, Numbers DEF Replies, AdmittedCounted
  <2>4. HeldDistinct' /\ HeldAreNew' /\ AdmittedDistinct'
    BY <2>1 DEF Replies, HeldDistinct, HeldAreNew, AdmittedDistinct, Holding
  <2> QED BY <2>2, <2>3, <2>4 DEF Replies
<1>8. CASE UNCHANGED vars
  BY <1>8, KeepReplies DEF vars, Holding
<1> QED BY <1>1, <1>2, <1>3, <1>4, <1>5, <1>6, <1>7, <1>8 DEF Next, Serve

\* The replies of the requests let in are different numbers up to the limit.
LEMMA RepliesBoundAdmissions ==
  ASSUME TypeOK, Replies
  PROVE  AdmittedWithinLimit
<1> SUFFICES ASSUME NEW w \in 0 .. window, NEW l \in Limits
             PROVE  Cardinality({i \in DOMAIN admitted :
                                   admitted[i].window = w /\ admitted[i].limit <= l}) <= l
  BY DEF AdmittedWithinLimit
<1> DEFINE A == {i \in DOMAIN admitted : admitted[i].window = w /\ admitted[i].limit <= l}
           f == [i \in A |-> admitted[i].reply]
<1>1. l \in Nat BY LimitsAssumption
<1>2. \A i \in A : admitted[i].reply \in 1 .. l
  BY <1>1, Numbers DEF Replies, AdmittedCounted
<1>3. \A i, j \in A : i # j => admitted[i].reply # admitted[j].reply
  BY DEF Replies, AdmittedDistinct
<1>4. f \in Injection(A, 1 .. l)
  BY <1>2, <1>3 DEF Injection, IsInjective
<1>5. IsFiniteSet(1 .. l) /\ Cardinality(1 .. l) = l
  BY <1>1, FS_Interval
<1> HIDE DEF f, A
<1>6. Cardinality(A) <= Cardinality(1 .. l) BY <1>4, <1>5, FS_Injection
<1> QED BY <1>5, <1>6 DEF A

\* In one window at most l requests are admitted under limits up to l, however the threads,
\* the failures and the expiry of the key interleave with the check (main.py:95).
THEOREM WithinLimit == Spec => []AdmittedWithinLimit
<1>1. Init => TypeOK /\ Accounted BY TypeInit
<1>2. TypeOK /\ Accounted /\ [Next]_vars => (TypeOK /\ Accounted)' BY TypeStep
<1>3. Init => Replies
  BY DEF Init, Replies, HeldCounted, AdmittedCounted, HeldDistinct, HeldAreNew,
    AdmittedDistinct, Holding
<1>4. TypeOK /\ Replies /\ [Next]_vars => Replies' BY RepliesStep
<1>5. TypeOK /\ Replies => AdmittedWithinLimit BY RepliesBoundAdmissions
<1> QED BY <1>1, <1>2, <1>3, <1>4, <1>5, PTL DEF Spec

-----------------------------------------------------------------------------

\* As long as nothing has failed, the request that created the key is still there to give it
\* a time to live.
LEMMA ExpirySetStep ==
  ASSUME TypeOK, SomeoneSetsExpiry, [Next]_vars
  PROVE  SomeoneSetsExpiry'
<1> SUFFICES ASSUME faults' = 0, count' # 0, ~ttl'
             PROVE  \E u \in Threads : pc'[u] = "expire" /\ since'[u] = window'
  BY DEF SomeoneSetsExpiry
<1>0. faults \in Nat /\ count \in Nat
  <2>1. faults \in 0 .. MaxFaults BY Zenon DEF TypeOK
  <2> QED BY <2>1, Numbers, LimitsAssumption
<1>1. ASSUME NEW t \in Threads, Arrive(t)
      PROVE  \E u \in Threads : pc'[u] = "expire" /\ since'[u] = window'
  <2>1. PICK u \in Threads : pc[u] = "expire" /\ since[u] = window
    BY <1>1, Zenon DEF Arrive, SomeoneSetsExpiry
  <2> QED BY <1>1, <2>1, Numbers DEF Arrive
<1>2. ASSUME NEW t \in Threads, Incr(t)
      PROVE  \E u \in Threads : pc'[u] = "expire" /\ since'[u] = window'
  <2>1. CASE count = 0
    BY <1>2, <2>1, Numbers DEF Incr, Increment
  <2>2. CASE count # 0
    <3>1. PICK u \in Threads : pc[u] = "expire" /\ since[u] = window
      BY <1>2, <2>2, Zenon DEF Incr, SomeoneSetsExpiry
    <3> QED BY <1>2, <3>1, Numbers DEF Incr, Increment
  <2> QED BY <2>1, <2>2
<1>3. ASSUME NEW t \in Threads, Expire(t)
      PROVE  \E u \in Threads : pc'[u] = "expire" /\ since'[u] = window'
  BY <1>3, Zenon DEF Expire
<1>4. ASSUME NEW t \in Threads, Check(t)
      PROVE  \E u \in Threads : pc'[u] = "expire" /\ since'[u] = window'
  <2>1. PICK u \in Threads : pc[u] = "expire" /\ since[u] = window
    BY <1>4, Zenon DEF Check, SomeoneSetsExpiry
  <2> QED BY <1>4, <2>1, Numbers DEF Check
<1>5. ASSUME NEW t \in Threads, CommandFails(t)
      PROVE  FALSE
  BY <1>0, <1>5 DEF CommandFails, Fault
<1>6. CASE Crash
  BY <1>0, <1>6 DEF Crash, Fault
<1>7. CASE KeyExpires
  BY <1>7 DEF KeyExpires
<1>8. CASE UNCHANGED vars
  BY <1>8, Zenon DEF vars, SomeoneSetsExpiry
<1> QED BY <1>1, <1>2, <1>3, <1>4, <1>5, <1>6, <1>7, <1>8 DEF Next, Serve

\* As long as nothing has failed, a key that lacks a time to live is about to get one from
\* the very request that created it (main.py:92-93).
THEOREM ExpirySet == Spec => []SomeoneSetsExpiry
<1>1. Init => TypeOK /\ Accounted BY TypeInit
<1>2. TypeOK /\ Accounted /\ [Next]_vars => (TypeOK /\ Accounted)' BY TypeStep
<1>3. Init => SomeoneSetsExpiry BY DEF Init, SomeoneSetsExpiry
<1>4. TypeOK /\ SomeoneSetsExpiry /\ [Next]_vars => SomeoneSetsExpiry' BY ExpirySetStep
<1> QED BY <1>1, <1>2, <1>3, <1>4, PTL DEF Spec
=============================================================================
