---------------------------- MODULE StreamCompare ----------------------------
(***************************************************************************)
(* pump_stream_compare.py: two log subscriptions listened to side by side  *)
(* until the time or the byte budget is used up, and what the tool then    *)
(* concludes about the cheaper one.  A transaction is its position in the  *)
(* order in which the provider confirms it.                                *)
(***************************************************************************)
EXTENDS Integers, FiniteSets, FiniteSetsExt

CONSTANTS
  MaxTx,          \* transactions confirmed during the experiment
  Slots,          \* functions 1 .. MaxTx -> Nat: the slots they may have
  Histories,      \* functions from 1 .. MaxTx: the kinds they may have
  Modes,          \* subscriptions a request may ask for: both, or "creations" alone
  Budget,         \* max_bytes
  FrameSizes,     \* bytes of a notification
  MARGIN_SLOTS, MIN_LAUNCHES,
  Lossy           \* streams of which a notification may be lost or unreadable

ASSUME RequestAssumption ==
  /\ MaxTx \in Nat /\ Slots \subseteq [1 .. MaxTx -> Nat]
  /\ Histories \subseteq [1 .. MaxTx -> {"launch", "foreign", "hidden", "attempt", "trade"}]
  /\ Modes \subseteq {{"program", "creations"}, {"creations"}}
  /\ Budget \in Nat \ {0} /\ IsFiniteSet(FrameSizes) /\ FrameSizes \subseteq Nat \ {0}
  /\ FrameSizes # {}
  /\ MARGIN_SLOTS \in Nat /\ MIN_LAUNCHES \in Nat \ {0}
  /\ Lossy \subseteq {"program", "creations"}

\* Slots arrive slightly out of order: by less than the margin the tool leaves at the edges.
ASSUME MarginAssumption ==
  \A f \in Slots : \A x, y \in 1 .. MaxTx : x < y => f[x] < f[y] + MARGIN_SLOTS

VARIABLES
  mode,                   \* the request: streams
  kind, slot, confirmed,  \* the chain: kind and slot of each transaction, how many there are
  queue, lost,            \* of each subscription: sent and not yet taken; never noted
  phase,                  \* of each listener
  bytes, records,         \* of each Tap: bytes, and the signatures in records
  stop, timer,            \* the event that ends the experiment; is its timer running?
  report                  \* what run() returns, once it has

chain == <<mode, kind, slot, confirmed>>
taps  == <<bytes, records>>
vars  == <<chain, queue, lost, phase, taps, stop, timer, report>>

\* A "hidden" launch has missing or truncated logs, an "attempt" is a launch that failed. A
\* "trade" does not mention the mint authority, nor does a "foreign" transaction, though its
\* logs have a line like that of a launch: another program's Create.
Matches(s, x) == s = "program" \/ kind[x] \notin {"foreign", "trade"}

\* log_verdict of the logs, or "failed".
Verdict == [launch |-> "creation", foreign |-> "creation", hidden |-> "unknown",
            attempt |-> "failed", trade |-> "other"]

-----------------------------------------------------------------------------
(* The provider, and listen() *)

Subscribed == {s \in mode : phase[s] \in {"checking", "receiving"}}

\* The provider, external.
Confirm ==
  LET x == confirmed + 1
      to == {s \in Subscribed : Matches(s, x)}
  IN
  /\ confirmed < MaxTx
  /\ confirmed' = x
  /\ \E drop \in SUBSET (to \cap Lossy) :
       /\ queue' = [s \in mode |-> IF s \in to \ drop THEN queue[s] \cup {x} ELSE queue[s]]
       /\ lost' = [s \in mode |-> IF s \in drop THEN lost[s] \cup {x} ELSE lost[s]]
  /\ UNCHANGED <<mode, kind, slot, phase, taps, stop, timer, report>>

Connect(s) ==
  /\ phase[s] = "connecting"
  /\ phase' = [phase EXCEPT ![s] = "checking"]
  /\ UNCHANGED <<chain, queue, lost, taps, stop, timer, report>>

\* while not stop.is_set()
CheckStop(s) ==
  /\ phase[s] = "checking"
  /\ phase' = [phase EXCEPT ![s] = IF stop THEN "ended" ELSE "receiving"]
  /\ UNCHANGED <<chain, queue, lost, taps, stop, timer, report>>

\* Nothing for a quarter of a second.
ReceiveTimesOut(s) ==
  /\ phase[s] = "receiving" /\ queue[s] = {}
  /\ phase' = [phase EXCEPT ![s] = "checking"]
  /\ UNCHANGED <<chain, queue, lost, taps, stop, timer, report>>

\* Mutant of Take: the experiment stops when the budget is passed, not when it is reached.
TakeBeyond(s) ==
  /\ phase[s] = "receiving" /\ queue[s] # {}
  /\ LET x == Min(queue[s]) IN
     /\ queue' = [queue EXCEPT ![s] = @ \ {x}]
     /\ \E n \in FrameSizes : bytes' = [bytes EXCEPT ![s] = @ + n]
     /\ records' = [records EXCEPT ![s] = @ \cup {x}]
     /\ stop' = (stop \/ bytes'[s] > Budget)
     /\ UNCHANGED lost
  /\ phase' = [phase EXCEPT ![s] = "checking"]
  /\ UNCHANGED <<chain, timer, report>>

\* Tap.take counts every frame and notes the readable ones; then the budget is compared.
Take(s) ==
  /\ phase[s] = "receiving" /\ queue[s] # {}
  /\ LET x == Min(queue[s]) IN
     /\ queue' = [queue EXCEPT ![s] = @ \ {x}]
     /\ \E n \in FrameSizes : bytes' = [bytes EXCEPT ![s] = @ + n]
     /\ \/ records' = [records EXCEPT ![s] = @ \cup {x}] /\ UNCHANGED lost
        \/ s \in Lossy /\ lost' = [lost EXCEPT ![s] = @ \cup {x}] /\ UNCHANGED records
     /\ stop' = (stop \/ bytes'[s] >= Budget)
  /\ phase' = [phase EXCEPT ![s] = "checking"]
  /\ UNCHANGED <<chain, timer, report>>

\* An exception ends the experiment of both.
ListenFails(s) ==
  /\ phase[s] \in {"connecting", "receiving"}
  /\ phase' = [phase EXCEPT ![s] = "failed"]
  /\ stop' = TRUE
  /\ UNCHANGED <<chain, queue, lost, taps, timer, report>>

\* Mutant of Timer: the timer runs out without telling the listeners.
TimerForgets ==
  /\ timer
  /\ timer' = FALSE
  /\ UNCHANGED <<chain, queue, lost, phase, taps, stop, report>>

\* The time is up, or somebody else has stopped the experiment.
Timer ==
  /\ timer
  /\ timer' = FALSE /\ stop' = TRUE
  /\ UNCHANGED <<chain, queue, lost, phase, taps, report>>

-----------------------------------------------------------------------------
(* run(): what the two recordings show *)

First(s) == Min({slot[x] : x \in records[s]})
Last(s) == Max({slot[x] : x \in records[s]})

\* Mutant of Window: no slots are left out at the edges.
WindowToTheEdges ==
  IF \E s \in mode : records[s] = {} THEN {}
  ELSE Max({First(s) : s \in mode}) .. Min({Last(s) : s \in mode})

\* Mutant of Window: up to the last slot any stream has seen.
WindowToTheLast ==
  IF \E s \in mode : records[s] = {} THEN {}
  ELSE (Max({First(s) : s \in mode}) + MARGIN_SLOTS) ..
       (Max({Last(s) : s \in mode}) - MARGIN_SLOTS)

\* The slots both streams were live for, without the edges.
Window ==
  IF \E s \in mode : records[s] = {} THEN {}
  ELSE (Max({First(s) : s \in mode}) + MARGIN_SLOTS) ..
       (Min({Last(s) : s \in mode}) - MARGIN_SLOTS)

Inside(s) == {x \in records[s] : slot[x] \in Window}
Noted(s, verdict) == {x \in Inside(s) : Verdict[kind[x]] = verdict}

\* compare: launches the program stream noted, and those of them the other did not.
Launches == Noted("program", "creation")
Missed == Launches \ records["creations"]

\* choose_sample and what could be fetched of it: any of the launches. (What a probe samples
\* makes no difference to its answer.)
Samples == IF "program" \in mode THEN SUBSET Launches ELSE {{}}

\* inspect_sample: those of the sample that do not list the authority.
Absent(sample) == {x \in sample : ~Matches("creations", x)}

\* assess
Assessment(sample) ==
  CASE \E s \in mode : phase[s] = "failed"       -> "inconclusive"
    [] "program" \notin mode                      -> "probe"
    [] OTHER -> IF Cardinality(Launches) < MIN_LAUNCHES THEN "inconclusive"
                ELSE IF Missed # {} \/ Absent(sample) # {} THEN "do not enable"
                ELSE "safe to try"

\* Mutant of Report: the report is made as soon as one listener has ended.
ReportEarly ==
  /\ report = "none" /\ ~timer /\ \E s \in mode : phase[s] \in {"ended", "failed"}
  /\ report' = Assessment({})
  /\ UNCHANGED <<chain, queue, lost, phase, taps, stop, timer>>

\* gather() has returned: compare or probe, then inspect_sample, then assess.
Report ==
  /\ report = "none" /\ ~timer /\ \A s \in mode : phase[s] \in {"ended", "failed"}
  /\ \E sample \in Samples : report' = Assessment(sample)
  /\ UNCHANGED <<chain, queue, lost, phase, taps, stop, timer>>

-----------------------------------------------------------------------------

\* A request that read_request accepts asks for one of the modes.
Requested == mode \in Modes

Init ==
  /\ Requested
  /\ kind \in Histories /\ slot \in Slots /\ confirmed = 0
  /\ queue = [s \in mode |-> {}] /\ lost = queue
  /\ phase = [s \in mode |-> "connecting"]
  /\ bytes = [s \in mode |-> 0] /\ records = queue
  /\ stop = FALSE /\ timer = TRUE /\ report = "none"

Listen(s) == Connect(s) \/ CheckStop(s) \/ ReceiveTimesOut(s) \/ Take(s)

Next == \/ Confirm
        \/ \E s \in mode : Listen(s) \/ ListenFails(s)
        \/ Timer \/ Report

Spec == Init /\ [][Next]_vars

\* The clock runs, and a listener that can go on does.
FairSpec == Spec /\ WF_vars(Timer) /\ WF_vars(Report)
            /\ \A s \in {"program", "creations"} : WF_vars(s \in mode /\ Listen(s))

-----------------------------------------------------------------------------
(* Properties *)

MaxFrame == Max(FrameSizes)

\* Every variable has its type; what a tap has noted the chain has confirmed, and a report
\* is only made of recordings that have ended.
TypeOK ==
  /\ mode \in Modes
  /\ kind \in Histories /\ slot \in Slots /\ confirmed \in 0 .. MaxTx
  /\ queue \in [mode -> SUBSET (1 .. confirmed)]
  /\ lost \in [mode -> SUBSET (1 .. confirmed)]
  /\ phase \in [mode -> {"connecting", "checking", "receiving", "ended", "failed"}]
  /\ bytes \in [mode -> Nat]
  /\ records \in [mode -> SUBSET (1 .. confirmed)]
  /\ stop \in BOOLEAN /\ timer \in BOOLEAN
  /\ report \in {"none", "inconclusive", "probe", "do not enable", "safe to try"}
  /\ report # "none" => \A s \in mode : phase[s] \in {"ended", "failed"}

\* "inside the slot range both were live for" (compare): what the provider confirmed in the
\* window and did not lose is in the records of both streams, however late either of them
\* subscribed, fell behind or stopped, and though slots arrive slightly out of order.
WindowComplete ==
  (report # "none" /\ \A s \in mode : phase[s] = "ended") =>
    \A s \in mode : \A x \in (1 .. confirmed) \ lost[s] :
      (slot[x] \in Window /\ Matches(s, x)) => x \in records[s]

\* Transactions of the window whose logs show a creation.
Evident == {x \in 1 .. confirmed : slot[x] \in Window /\ Verdict[kind[x]] = "creation"}

\* The cheaper stream may replace the other "only if it never misses a launch the first one
\* sees" (module comment), and assess answers with a word about the chain.  "Safe to try": each
\* creation of the window that the program stream could see has come on the creations stream.
\* "Do not enable": one was lost there, or is none which that stream could have.  Edges, late
\* starts, backlogs and slots out of order are mistaken for neither.
AdviceGrounded ==
  /\ report = "safe to try" => Evident \ lost["program"] \subseteq records["creations"]
  /\ report = "do not enable" =>
       \E x \in Evident : x \in lost["creations"] \/ ~Matches("creations", x)

\* "hard-capped in time AND in streamed bytes" (module comment): each stream that is run can
\* pass the budget by one frame, and no more.
SpendCapped == \A s \in mode : bytes[s] < Budget + MaxFrame

\* The experiment comes to an end by itself.
Ends == <>(report # "none")
=============================================================================
