------------------------------ MODULE RateLimit ------------------------------
(***************************************************************************)
(* enforce_rate_limit of main.py for one scope: a Redis counter that is    *)
(* created by the first INCR, given a time to live by the request that got *)
(* 1, and compared with the limit afterwards.  Requests of the same scope  *)
(* run in several threads and instances; every Redis command is a step of  *)
(* its own and may fail before or after it has taken effect.               *)
(***************************************************************************)
EXTENDS Naturals, Sequences, FiniteSets

CONSTANTS
  Threads,      \* threads that can be serving a request of this scope
  Limits,       \* the limits callers pass (the plan of an organization may change)
  MaxRequests,  \* bound on the requests ever made
  MaxFaults     \* bound on failed Redis commands and process crashes

ASSUME LimitsAssumption ==
  /\ IsFiniteSet(Threads)
  /\ Limits # {} /\ Limits \subseteq Nat \ {0}
  /\ MaxRequests \in Nat /\ MaxFaults \in Nat

VARIABLES
  count, ttl,        \* the key: 0 when it does not exist; has it a time to live?
  pc, got, limit,    \* of each thread: its next command, the reply of INCR, the limit
  window, since,     \* history: windows ended so far; the one the thread's INCR ran in
  admitted,          \* history: the requests let in, with what they were compared with
  requests, faults

key     == <<count, ttl, window>>
locals  == <<pc, got, limit, since>>
vars    == <<key, locals, admitted, requests, faults>>

Fault == faults < MaxFaults /\ faults' = faults + 1

-----------------------------------------------------------------------------

\* A request of the scope reaches enforce_rate_limit.
Arrive(t) ==
  /\ pc[t] = "idle" /\ requests < MaxRequests
  /\ \E l \in Limits : limit' = [limit EXCEPT ![t] = l]
  /\ pc' = [pc EXCEPT ![t] = "incr"]
  /\ requests' = requests + 1
  /\ UNCHANGED <<key, got, since, admitted, faults>>

\* Mutant of Increment: the replies add up over the requests of a thread.
IncrementTwice(t) ==
  /\ count' = count + 1
  /\ got' = [got EXCEPT ![t] = got[t] + count + 1]
  /\ since' = [since EXCEPT ![t] = window]

\* INCR creates the key, without a time to live, or counts one more.
Increment(t) ==
  /\ count' = count + 1
  /\ got' = [got EXCEPT ![t] = count + 1]
  /\ since' = [since EXCEPT ![t] = window]

\* Mutant of Incr: the reply is taken for the value before the increment.
IncrMisread(t) ==
  /\ pc[t] = "incr"
  /\ Increment(t)
  /\ pc' = [pc EXCEPT ![t] = IF got'[t] = 0 THEN "expire" ELSE "check"]
  /\ UNCHANGED <<ttl, window, limit, admitted, requests, faults>>

\* Mutant of Incr: over the limit, the request is refused before EXPIRE is considered, and
\* EXPIRE is left to the second request.
IncrRefusesFirst(t) ==
  /\ pc[t] = "incr"
  /\ Increment(t)
  /\ pc' = [pc EXCEPT ![t] = IF got'[t] > limit[t] THEN "idle"
                             ELSE IF got'[t] = 2 THEN "expire" ELSE "check"]
  /\ UNCHANGED <<ttl, window, limit, admitted, requests, faults>>

Incr(t) ==
  /\ pc[t] = "incr"
  /\ Increment(t)
  /\ pc' = [pc EXCEPT ![t] = IF got'[t] = 1 THEN "expire" ELSE "check"]
  /\ UNCHANGED <<ttl, window, limit, admitted, requests, faults>>

\* EXPIRE does nothing to a key that is gone.
Expire(t) ==
  /\ pc[t] = "expire"
  /\ ttl' = (count # 0)
  /\ pc' = [pc EXCEPT ![t] = "check"]
  /\ UNCHANGED <<count, window, got, limit, since, admitted, requests, faults>>

Admit(t) ==
  admitted' = Append(admitted, [window |-> since[t], limit |-> limit[t], reply |-> got[t]])

\* Mutant of Check: the comparison lets one request too many through.
CheckLoosely(t) ==
  /\ pc[t] = "check"
  /\ IF got[t] > limit[t] + 1 THEN UNCHANGED admitted ELSE Admit(t)
  /\ pc' = [pc EXCEPT ![t] = "idle"]
  /\ UNCHANGED <<key, got, limit, since, requests, faults>>

\* The request is answered 429, or goes on.
Check(t) ==
  /\ pc[t] = "check"
  /\ IF got[t] > limit[t] THEN UNCHANGED admitted ELSE Admit(t)
  /\ pc' = [pc EXCEPT ![t] = "idle"]
  /\ UNCHANGED <<key, got, limit, since, requests, faults>>

\* The command raises: it did not run, or its reply was lost. The request ends with a 500.
CommandFails(t) ==
  /\ pc[t] \in {"incr", "expire"}
  /\ Fault
  /\ \/ UNCHANGED <<key, got, since>>
     \/ pc[t] = "incr" /\ Increment(t) /\ UNCHANGED <<ttl, window>>
     \/ pc[t] = "expire" /\ ttl' = (count # 0) /\ UNCHANGED <<count, window, got, since>>
  /\ pc' = [pc EXCEPT ![t] = "idle"]
  /\ UNCHANGED <<limit, admitted, requests>>

\* An instance of the API is killed with the requests of some threads in flight.
Crash ==
  /\ Fault
  /\ \E S \in SUBSET Threads : /\ \E t \in S : pc[t] # "idle"
                               /\ pc' = [t \in Threads |-> IF t \in S THEN "idle" ELSE pc[t]]
  /\ UNCHANGED <<key, got, limit, since, admitted, requests>>

\* Redis, external: sixty seconds after EXPIRE the key is gone.
KeyExpires ==
  /\ ttl
  /\ count' = 0 /\ ttl' = FALSE /\ window' = window + 1
  /\ UNCHANGED <<locals, admitted, requests, faults>>

Init ==
  /\ count = 0 /\ ttl = FALSE /\ window = 0
  /\ pc = [t \in Threads |-> "idle"]
  /\ got = [t \in Threads |-> 0] /\ since = got
  /\ limit \in [Threads -> {CHOOSE l \in Limits : TRUE}]
  /\ admitted = <<>>
  /\ requests = 0 /\ faults = 0

Serve(t) == Incr(t) \/ Expire(t) \/ Check(t)

Next == \/ \E t \in Threads : Arrive(t) \/ Serve(t) \/ CommandFails(t)
        \/ Crash
        \/ KeyExpires

Spec == Init /\ [][Next]_vars

\* Requests in flight are served, and Redis keeps its promise.
FairSpec == Spec /\ WF_vars(KeyExpires) /\ \A t \in Threads : WF_vars(Serve(t))

-----------------------------------------------------------------------------
(* Properties *)

Admissions == [window : 0 .. MaxRequests, limit : Limits, reply : 0 .. MaxRequests]

\* Every variable has its type, and only a key that exists has a time to live.
TypeOK ==
  /\ count \in 0 .. MaxRequests /\ ttl \in BOOLEAN /\ (ttl => count # 0)
  /\ window \in 0 .. MaxRequests
  /\ pc \in [Threads -> {"idle", "incr", "expire", "check"}]
  /\ got \in [Threads -> 0 .. MaxRequests] /\ since \in [Threads -> 0 .. MaxRequests]
  /\ limit \in [Threads -> Limits]
  /\ admitted \in Seq(Admissions)
  /\ requests \in 0 .. MaxRequests /\ faults \in 0 .. MaxFaults

\* In one window at most l requests are admitted under limits up to l, however the threads,
\* the failures and the expiry of the key interleave with the check (main.py:95).
AdmittedWithinLimit ==
  \A w \in 0 .. window, l \in Limits :
    Cardinality({i \in DOMAIN admitted : admitted[i].window = w /\ admitted[i].limit <= l}) <= l

\* As long as nothing has failed, a key that lacks a time to live is about to get one from
\* the very request that created it (main.py:92-93).
SomeoneSetsExpiry ==
  (faults = 0 /\ count # 0 /\ ~ttl) => \E t \in Threads : pc[t] = "expire" /\ since[t] = window

\* As long as nothing fails, a counter that has passed a limit goes away by itself.
RefusalsEnd == \A l \in Limits : (count > l) ~> (count = 0 \/ faults # 0)

\* "Rate limit exceeded. Try again in a minute." (main.py:97), whatever has failed.
TryAgainInAMinute == \A l \in Limits : (count > l) ~> (count = 0)
=============================================================================
