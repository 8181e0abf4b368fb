----------------------------- MODULE PumpWorker -----------------------------
(***************************************************************************)
(* The launch watcher of pump_worker.py: one process that subscribes to    *)
(* live notifications, replays what it missed since its durable cursor,    *)
(* and then handles notifications one at a time.  The model has the        *)
(* provider (chain, listing node, subscription), the Postgres tables, and  *)
(* the process with every point at which it awaits something.              *)
(*                                                                         *)
(* A transaction signature is its position 1..MaxTx in the chain's order;  *)
(* 0 stands for None.  `pc' names the await the process is suspended in    *)
(* (or the synchronous code it is about to run); `after' is where a flush, *)
(* a heartbeat or a save returns to.                                       *)
(***************************************************************************)
EXTENDS Naturals, FiniteSets

CONSTANTS
  MaxTx,          \* transactions the chain ever confirms
  InitTip,        \* transactions confirmed before the first start
  Kinds,          \* which kinds of transaction occur
  FilterLogs,     \* TRUE: stream `program', FALSE: stream `creations'
  PageLimits,     \* values of max_backfill_pages x 1000 an operator may set
  Width,          \* backfill_concurrency
  FlushEvery,     \* CURSOR_FLUSH_EVERY
  ListingLag,     \* how far the listing node may be behind the subscription
  FirstLag,       \* the same for the first listing, made without `commitment'
  ReorderWindow,  \* how far a notification may overtake earlier ones
  Unreadable,     \* may a notification arrive malformed?
  MaxFaults,      \* bound on provider and database failures
  MaxCrashes      \* bound on kills and SIGTERMs

ASSUME ConstantsAssumption ==
  /\ MaxTx \in Nat /\ InitTip \in 0 .. MaxTx
  /\ Kinds \subseteq {"launch", "hidden", "trade", "opaque", "failed"}
  /\ FilterLogs \in BOOLEAN /\ Unreadable \in BOOLEAN
  /\ PageLimits \subseteq Nat \ {0}
  /\ Width \in Nat \ {0} /\ FlushEvery \in Nat \ {0}
  /\ ListingLag \in Nat /\ FirstLag \in Nat /\ ReorderWindow \in Nat
  /\ MaxFaults \in Nat /\ MaxCrashes \in Nat

VARIABLES
  kind, tip,                        \* the chain
  open, inflight,                   \* the subscription; delivered but not yet received
  dbCursor, dbLaunches, dbStatus,   \* tables pump_worker_cursor, pump_launches, _heartbeat
  base, resume,                     \* history: first cursor written; last cursor replayed from
  pc, after, beating,               \* control
  cursor, persisted, status,        \* WorkerState
  counted,                          \* WorkerState.counters['launches']
  lo, hi, last, bad, since, limit,  \* locals of backfill
  call, orphan,                     \* the Store.save awaited; one left running by a cancel
  stopping, faults, crashes

chain   == <<kind, tip>>
net     == <<open, inflight>>
tables  == <<dbCursor, dbLaunches, base>>
control == <<pc, after, beating>>
memory  == <<cursor, persisted>>
replay  == <<lo, hi, last, bad, since>>
process == <<limit, stopping>>
budget  == <<faults, crashes>>

vars == <<chain, net, tables, dbStatus, resume, control, memory, status, counted,
          replay, call, orphan, process, budget>>

NoCall == [sig |-> 0, launch |-> FALSE, attempt |-> 0]
Save(s, isLaunch) == [sig |-> s, launch |-> isLaunch, attempt |-> 1]

\* "hidden" is a launch and "opaque" a trade whose logs are missing or truncated.
IsLaunch(q) == kind[q] \in {"launch", "hidden"}
Launches == {q \in 1 .. tip : IsLaunch(q)}

\* What a node that may lag answers as the newest transaction.
Seen(lag) == {v \in 0 .. tip : tip <= v + lag}

Fault == faults < MaxFaults /\ faults' = faults + 1 /\ UNCHANGED crashes
NoFault == UNCHANGED budget

-----------------------------------------------------------------------------
(* Provider *)

Confirm ==
  /\ tip < MaxTx
  /\ tip' = tip + 1
  /\ inflight' = IF open THEN inflight \cup {tip + 1} ELSE inflight
  /\ UNCHANGED <<kind, open, tables, dbStatus, resume, control, memory, status,
                 counted, replay, call, orphan, process, budget>>

-----------------------------------------------------------------------------
(* Store *)

\* Mutant of Commit: autocommit, so that the cursor may be written without its launch.
CommitPiecewise(c) ==
  /\ dbCursor' = c.sig
  /\ \/ UNCHANGED dbLaunches
     \/ c.launch /\ dbLaunches' = dbLaunches \cup {c.sig}
  /\ base' = IF base = 0 THEN c.sig ELSE base

\* One committed transaction of Store.save: the launch if there is one, and the cursor.
Commit(c) ==
  /\ dbCursor' = c.sig
  /\ dbLaunches' = IF c.launch THEN dbLaunches \cup {c.sig} ELSE dbLaunches
  /\ base' = IF base = 0 THEN c.sig ELSE base

\* An exception inside watch_once: the connection is lost, the final flush follows.
Raise(next) ==
  /\ open' = FALSE /\ inflight' = {}
  /\ pc' = "flush" /\ after' = next /\ beating' = FALSE
  /\ call' = NoCall

\* beat(): flush the cursor, write the heartbeat row, return to `next'.
Beat(st, next) ==
  /\ status' = st
  /\ pc' = "flush" /\ after' = next /\ beating' = TRUE

\* flush_cursor returns to the rest of beat() or to its caller.
FlushReturn == /\ pc' = IF beating THEN "heartbeat" ELSE after
               /\ UNCHANGED <<after, beating>>

FlushNothing ==
  /\ pc = "flush" /\ (cursor = 0 \/ cursor = persisted)
  /\ FlushReturn
  /\ UNCHANGED <<chain, net, tables, dbStatus, resume, memory, status, counted,
                 replay, call, orphan, process, budget>>

\* Mutant of FlushBegin: the cursor counts as persisted before the save has run.
FlushMarksFirst ==
  /\ pc = "flush" /\ cursor # 0 /\ cursor # persisted
  /\ call' = Save(cursor, FALSE) /\ persisted' = cursor
  /\ pc' = "flushing"
  /\ UNCHANGED <<chain, net, tables, dbStatus, resume, after, beating, cursor, status,
                 counted, replay, orphan, process, budget>>

FlushBegin ==
  /\ pc = "flush" /\ cursor # 0 /\ cursor # persisted
  /\ call' = Save(cursor, FALSE)
  /\ pc' = "flushing"
  /\ UNCHANGED <<chain, net, tables, dbStatus, resume, after, beating, memory, status,
                 counted, replay, orphan, process, budget>>

FlushOk ==
  /\ pc = "flushing"
  /\ Commit(call)
  /\ persisted' = call.sig
  /\ call' = NoCall
  /\ FlushReturn
  /\ UNCHANGED <<chain, net, dbStatus, resume, cursor, status, counted, replay,
                 orphan, process, budget>>

\* Only a heartbeat and the final flush survive a failed save.
FlushFails ==
  /\ call' = NoCall
  /\ IF beating \/ after \in {"settle", "blocked"}
     THEN FlushReturn /\ UNCHANGED net
     ELSE Raise("settle")

\* An attempt of Store._run fails. A connection that drops, whether or not the commit has
\* reached the server, is tried again once; any other error is rolled back and raised at once.
AttemptFails ==
  /\ pc \in {"saving", "flushing"}
  /\ Fault
  /\ Commit(call) \/ UNCHANGED tables
  /\ \/ /\ call.attempt = 1
        /\ call' = [call EXCEPT !.attempt = 2]
        /\ UNCHANGED <<net, control>>
     \/ /\ call.attempt = 2 \/ UNCHANGED tables
        /\ (pc = "saving" /\ Raise("settle")) \/ (pc = "flushing" /\ FlushFails)
  /\ UNCHANGED <<chain, dbStatus, resume, memory, status, counted, replay, orphan,
                 process>>

\* store.save returned: `inserted' counts a launch, state.saved moves both cursors.
SaveOk ==
  /\ pc = "saving"
  /\ Commit(call)
  /\ cursor' = call.sig /\ persisted' = call.sig
  /\ counted' = IF call.launch /\ call.sig \notin dbLaunches THEN counted + 1 ELSE counted
  /\ call' = NoCall
  /\ pc' = after
  /\ UNCHANGED <<chain, net, dbStatus, resume, after, beating, status, replay, orphan,
                 process, budget>>

\* store.beat; a failure is logged and ignored.
HeartbeatWrite ==
  /\ pc = "heartbeat"
  /\ \/ dbStatus' = status /\ NoFault
     \/ dbStatus' = dbStatus /\ Fault
  /\ pc' = after
  /\ UNCHANGED <<chain, net, tables, resume, after, beating, memory, status, counted,
                 replay, call, orphan, process>>

-----------------------------------------------------------------------------
(* watch_once: subscribe, then replay, then stream *)

\* run(): the tables are prepared, a fresh WorkerState starts the first watch_once.
Start ==
  /\ pc = "down"
  /\ \E l \in PageLimits : limit' = l
  /\ pc' = "connect" /\ status' = "connecting"
  /\ UNCHANGED <<chain, net, tables, dbStatus, resume, after, beating, memory, counted,
                 replay, call, orphan, stopping, budget>>

\* The subscription is acknowledged: everything confirmed from now on is delivered.
Connect ==
  /\ pc = "connect"
  /\ open' = TRUE /\ inflight' = {}
  /\ Beat("backfilling", "cursor")
  /\ UNCHANGED <<chain, tables, dbStatus, resume, memory, counted, replay, call, orphan,
                 process, budget>>

\* connect, logsSubscribe or its reply failed: no final flush on this path.
ConnectFails ==
  /\ pc = "connect"
  /\ Fault
  /\ pc' = "settle"
  /\ UNCHANGED <<chain, net, tables, dbStatus, resume, after, beating, memory, status,
                 counted, replay, call, orphan, process>>

ReadCursor ==
  /\ pc = "cursor"
  /\ IF dbCursor = 0
     THEN pc' = "firstListing" /\ UNCHANGED <<memory, resume>>
     ELSE /\ cursor' = dbCursor /\ persisted' = dbCursor
          /\ resume' = dbCursor
          /\ pc' = "listing"
  /\ UNCHANGED <<chain, net, tables, dbStatus, after, beating, status, counted, replay,
                 call, orphan, process, budget>>

\* First start: "monitor from now". An empty listing leaves no cursor behind.
FirstListing ==
  /\ pc = "firstListing"
  /\ \E v \in Seen(FirstLag) :
        IF v = 0
        THEN pc' = "caughtUp" /\ UNCHANGED <<after, call>>
        ELSE pc' = "saving" /\ after' = "caughtUp" /\ call' = Save(v, FALSE)
  /\ UNCHANGED <<chain, net, tables, dbStatus, resume, beating, memory, status, counted,
                 replay, orphan, process, budget>>

\* Mutant of MissedItems: only the oldest `limit' transactions of a larger gap are replayed.
MissedTruncated ==
  /\ pc = "listing"
  /\ \E v \in Seen(ListingLag) :
        /\ cursor <= v
        /\ lo' = cursor + 1 /\ hi' = IF v < cursor + limit THEN v ELSE cursor + limit
  /\ last' = 0 /\ bad' = 0 /\ since' = 0
  /\ pc' = "chunk"
  /\ UNCHANGED <<chain, net, tables, dbStatus, resume, after, beating, memory, status,
                 counted, call, orphan, process, budget>>

\* Mutant of MissedItems: the paging runs past the cursor to the oldest transaction.
MissedFromOldest ==
  /\ pc = "listing"
  /\ \E v \in Seen(ListingLag) : cursor <= v /\ lo' = 1 /\ hi' = v
  /\ last' = 0 /\ bad' = 0 /\ since' = 0
  /\ pc' = "chunk"
  /\ UNCHANGED <<chain, net, tables, dbStatus, resume, after, beating, memory, status,
                 counted, call, orphan, process, budget>>

\* missed_items found the cursor within its page limit: positions cursor+1..v, in order.
\* Exactly `limit' missed transactions fill the last page before the cursor is seen.
MissedItems ==
  /\ pc = "listing"
  /\ \E v \in Seen(ListingLag) :
        /\ cursor <= v /\ v < cursor + limit
        /\ lo' = cursor + 1 /\ hi' = v
  /\ last' = 0 /\ bad' = 0 /\ since' = 0
  /\ pc' = "chunk"
  /\ UNCHANGED <<chain, net, tables, dbStatus, resume, after, beating, memory, status,
                 counted, call, orphan, process, budget>>

\* ManualBackfillRequired: too many pages, or the node does not list the cursor (it lags,
\* or, a failure, it has truncated its history).
GapNotCovered ==
  /\ pc = "listing"
  /\ \/ NoFault /\ \E v \in Seen(ListingLag) : v < cursor \/ v >= cursor + limit
     \/ Fault
  /\ Raise("blocked")
  /\ UNCHANGED <<chain, tables, dbStatus, resume, memory, status, counted, replay, orphan,
                 process>>

\* The read of the cursor, a listing or a getTransaction raises.
CallFails ==
  /\ pc \in {"cursor", "firstListing", "listing", "fetch"}
  /\ Fault
  /\ Raise("settle")
  /\ UNCHANGED <<chain, tables, dbStatus, resume, memory, status, counted, replay, orphan,
                 process>>

-----------------------------------------------------------------------------
(* backfill: chunks fetched concurrently, applied strictly in order *)

\* Mutant of ChunkEnd: the last chunk is not cut at the end of the list.
ChunkEndUncut == lo + Width - 1

ChunkEnd == IF lo + Width - 1 <= hi THEN lo + Width - 1 ELSE hi

\* asyncio.gather over one chunk; `bad' is the first transaction that stayed unavailable.
FetchChunk ==
  /\ pc = "chunk" /\ lo <= hi
  /\ last' = ChunkEnd
  /\ \/ bad' = 0 /\ NoFault
     \/ Fault /\ \E b \in {q \in lo .. ChunkEnd : kind[q] # "failed"} : bad' = b
  /\ pc' = "apply"
  /\ UNCHANGED <<chain, net, tables, dbStatus, resume, after, beating, memory, status,
                 counted, lo, hi, since, call, orphan, process>>

\* A launch is saved with the cursor, at once; `since_flush' restarts.
ApplyLaunch ==
  /\ pc = "apply" /\ lo <= last /\ lo # bad /\ IsLaunch(lo)
  /\ call' = Save(lo, TRUE)
  /\ pc' = "saving" /\ after' = "apply"
  /\ lo' = lo + 1 /\ since' = 0
  /\ UNCHANGED <<chain, net, tables, dbStatus, resume, beating, memory, status, counted,
                 hi, last, bad, orphan, process, budget>>

\* Anything else only moves the cursor in memory.
ApplyOther ==
  /\ pc = "apply" /\ lo <= last /\ lo # bad /\ ~IsLaunch(lo)
  /\ cursor' = lo
  /\ lo' = lo + 1
  /\ since' = IF since < FlushEvery THEN since + 1 ELSE since
  /\ UNCHANGED <<chain, net, tables, dbStatus, resume, control, persisted, status, counted,
                 hi, last, bad, call, orphan, process, budget>>

\* Mutant of ApplyBad: an unavailable transaction is logged and skipped.
SkipUnavailable ==
  /\ pc = "apply" /\ lo <= last /\ lo = bad
  /\ cursor' = lo /\ lo' = lo + 1
  /\ UNCHANGED <<chain, net, tables, dbStatus, resume, control, persisted, status, counted,
                 hi, last, bad, since, call, orphan, process, budget>>

\* Head of line: what comes after an unavailable transaction is not applied.
ApplyBad ==
  /\ pc = "apply" /\ lo <= last /\ lo = bad
  /\ Raise("settle")
  /\ UNCHANGED <<chain, tables, dbStatus, resume, memory, status, counted, replay, orphan,
                 process, budget>>

\* After a chunk: a flush if enough was skipped, then a heartbeat if one is due.
ChunkDone ==
  /\ pc = "apply" /\ last < lo
  /\ IF FlushEvery <= since
     THEN pc' = "flush" /\ after' = "pause" /\ beating' = FALSE /\ since' = 0
     ELSE pc' = "pause" /\ UNCHANGED <<after, beating, since>>
  /\ UNCHANGED <<chain, net, tables, dbStatus, resume, memory, status, counted, lo, hi,
                 last, bad, call, orphan, process, budget>>

ChunkPause ==
  /\ pc = "pause"
  /\ \/ Beat(status, "chunk")
     \/ pc' = "chunk" /\ UNCHANGED <<after, beating, status>>
  /\ UNCHANGED <<chain, net, tables, dbStatus, resume, memory, counted, replay, call,
                 orphan, process, budget>>

BackfillDone ==
  /\ pc = "chunk" /\ hi < lo
  /\ pc' = "flush" /\ after' = "caughtUp" /\ beating' = FALSE
  /\ UNCHANGED <<chain, net, tables, dbStatus, resume, memory, status, counted, replay,
                 call, orphan, process, budget>>

\* Mutant of CaughtUp: what queued up during the replay is thrown away.
CaughtUpDrained ==
  /\ pc = "caughtUp"
  /\ inflight' = {}
  /\ Beat("streaming", "stream")
  /\ UNCHANGED <<chain, open, tables, dbStatus, resume, memory, counted, replay, call,
                 orphan, process, budget>>

CaughtUp ==
  /\ pc = "caughtUp"
  /\ Beat("streaming", "stream")
  /\ UNCHANGED <<chain, net, tables, dbStatus, resume, memory, counted, replay, call,
                 orphan, process, budget>>

-----------------------------------------------------------------------------
(* stream: one notification at a time *)

\* Mutant of Skipped: without readable logs a transaction counts as no launch.
SkippedUnread(p) ==
  kind[p] \in {"failed", "hidden", "opaque"} \/ (FilterLogs /\ kind[p] = "trade")

\* classify: what the notification alone settles, without a getTransaction.
Skipped(p) == kind[p] = "failed" \/ (FilterLogs /\ kind[p] = "trade")

\* The provider delivers in order, up to ReorderWindow positions.
Deliverable(p) == \A q \in inflight : p <= q + ReorderWindow

\* Mutant of Handle: the cursor moves on receipt, before the transaction is fetched.
HandleEarly(p) ==
  /\ cursor' = p
  /\ IF Skipped(p) THEN UNCHANGED <<pc, call>>
     ELSE pc' = "fetch" /\ call' = Save(p, IsLaunch(p))

\* handle: a skipped transaction moves the cursor in memory, any other is fetched.
Handle(p) ==
  IF Skipped(p)
  THEN cursor' = p /\ UNCHANGED <<pc, call>>
  ELSE /\ pc' = "fetch" /\ call' = Save(p, IsLaunch(p))
       /\ UNCHANGED cursor

Receive ==
  /\ pc = "stream"
  /\ \E p \in inflight :
        /\ Deliverable(p)
        /\ \/ inflight' = inflight \ {p} /\ NoFault
           \/ inflight' = inflight /\ Fault           \* it will be delivered again
        /\ Handle(p)
  /\ UNCHANGED <<chain, open, tables, dbStatus, resume, after, beating, persisted, status,
                 counted, replay, orphan, process>>

\* A message that cannot be read is counted and dropped.
ReceiveMalformed ==
  /\ pc = "stream" /\ Unreadable
  /\ \E p \in inflight : Deliverable(p) /\ inflight' = inflight \ {p}
  /\ Fault
  /\ UNCHANGED <<chain, open, tables, dbStatus, resume, control, memory, status, counted,
                 replay, call, orphan, process>>

\* process: getTransaction answered and was decoded; its save is next.
Fetched ==
  /\ pc = "fetch"
  /\ pc' = "saving" /\ after' = "stream"
  /\ UNCHANGED <<chain, net, tables, dbStatus, resume, beating, memory, status, counted,
                 replay, call, orphan, process, budget>>

HeartbeatDue ==
  /\ pc = "stream"
  /\ Beat(status, "stream")
  /\ UNCHANGED <<chain, net, tables, dbStatus, resume, memory, counted, replay, call,
                 orphan, process, budget>>

\* The connection drops, or StreamStalled: silence for stall_seconds.
StreamEnds ==
  /\ pc = "stream"
  /\ Fault
  /\ Raise("settle")
  /\ UNCHANGED <<chain, tables, dbStatus, resume, memory, status, counted, replay, orphan,
                 process>>

-----------------------------------------------------------------------------
(* run: reconnect, stop, crash *)

\* Mutant of Settle: a gap that needs a person is reported as a reconnect.
SettleQuietly ==
  /\ \/ pc \in {"settle", "blocked"} /\ stopping /\ Beat("stopped", "exit")
     \/ pc \in {"settle", "blocked"} /\ ~stopping /\ Beat("reconnecting", "sleep")
  /\ UNCHANGED <<chain, net, tables, dbStatus, resume, memory, counted, replay, call,
                 orphan, process, budget>>

\* After the final flush: the reconnect heartbeat, or the last one when stopping.
Settle ==
  /\ \/ pc \in {"settle", "blocked"} /\ stopping /\ Beat("stopped", "exit")
     \/ pc = "settle" /\ ~stopping /\ Beat("reconnecting", "sleep")
     \/ pc = "blocked" /\ ~stopping /\ Beat("needs_manual_backfill", "sleep")
  /\ UNCHANGED <<chain, net, tables, dbStatus, resume, memory, counted, replay, call,
                 orphan, process, budget>>

WakeUp ==
  /\ pc = "sleep"
  /\ pc' = "connect" /\ status' = "connecting"
  /\ UNCHANGED <<chain, net, tables, dbStatus, resume, after, beating, memory, counted,
                 replay, call, orphan, process, budget>>

\* Everything in memory is gone.
Forget ==
  /\ pc' = "down" /\ after' = "down" /\ beating' = FALSE
  /\ open' = FALSE /\ inflight' = {}
  /\ cursor' = 0 /\ persisted' = 0 /\ status' = "starting" /\ counted' = 0
  /\ lo' = 1 /\ hi' = 0 /\ last' = 0 /\ bad' = 0 /\ since' = 0 /\ limit' = 0
  /\ call' = NoCall /\ stopping' = FALSE

\* The process waits for its threads before it ends; the platform starts the next one.
Exit ==
  /\ pc = "exit" /\ orphan.attempt = 0
  /\ Forget
  /\ orphan' = NoCall
  /\ UNCHANGED <<chain, tables, dbStatus, resume, budget>>

Crash ==
  /\ pc # "down"
  /\ crashes < MaxCrashes /\ crashes' = crashes + 1
  /\ Forget
  /\ orphan' = NoCall
  /\ UNCHANGED <<chain, tables, dbStatus, resume, faults>>

Awaiting == {"connect", "sleep", "flushing", "heartbeat", "cursor", "firstListing",
             "listing", "chunk", "fetch", "saving", "stream"}

\* Awaits of run() itself or of watch_once's finally: the cancel goes to run's finally.
OutsideTry ==
  \/ pc \in {"connect", "sleep"}
  \/ pc \in {"flushing", "heartbeat"} /\ after \in {"settle", "blocked", "sleep"}

\* SIGTERM cancels the task at the await it is suspended in. A save already handed to a
\* thread keeps running there, as does the write of a heartbeat, which is taken to end at
\* once; one still queued is dropped.
Cancel ==
  /\ pc \in Awaiting /\ ~stopping
  /\ crashes < MaxCrashes /\ crashes' = crashes + 1
  /\ stopping' = TRUE
  /\ \/ pc \in {"saving", "flushing"} /\ orphan' = call
     \/ UNCHANGED orphan
  /\ dbStatus' = dbStatus \/ (pc = "heartbeat" /\ dbStatus' = status)
  /\ IF OutsideTry
     THEN /\ pc' = "settle" /\ open' = FALSE /\ inflight' = {} /\ call' = NoCall
          /\ UNCHANGED <<after, beating>>
     ELSE Raise("settle")
  /\ UNCHANGED <<chain, tables, resume, memory, status, counted, replay, limit,
                 faults>>

\* The thread a cancel left behind finishes (attempt 0); the lock of the store keeps it out
\* of a retry.
OrphanEnds ==
  /\ orphan.attempt # 0 /\ call.attempt # 2
  /\ \/ Commit(orphan) /\ NoFault
     \/ UNCHANGED tables /\ Fault
  /\ orphan' = [orphan EXCEPT !.attempt = 0]
  /\ UNCHANGED <<chain, net, dbStatus, resume, control, memory, status, counted, replay,
                 call, process>>

-----------------------------------------------------------------------------

Init ==
  /\ kind \in [1 .. MaxTx -> Kinds] /\ tip = InitTip
  /\ open = FALSE /\ inflight = {}
  /\ dbCursor = 0 /\ dbLaunches = {} /\ dbStatus = "none"
  /\ base = 0 /\ resume = 0
  /\ pc = "down" /\ after = "down" /\ beating = FALSE
  /\ cursor = 0 /\ persisted = 0 /\ status = "starting" /\ counted = 0
  /\ lo = 1 /\ hi = 0 /\ last = 0 /\ bad = 0 /\ since = 0 /\ limit = 0
  /\ call = NoCall /\ orphan = NoCall
  /\ stopping = FALSE /\ faults = 0 /\ crashes = 0

\* What the process does when nothing goes wrong.
Work ==
  \/ Start \/ Connect \/ FlushNothing \/ FlushBegin \/ FlushOk \/ SaveOk \/ HeartbeatWrite
  \/ ReadCursor \/ FirstListing \/ MissedItems \/ GapNotCovered
  \/ FetchChunk \/ ApplyLaunch \/ ApplyOther \/ ApplyBad \/ ChunkDone \/ ChunkPause
  \/ BackfillDone \/ CaughtUp
  \/ Receive \/ Fetched \/ HeartbeatDue
  \/ Settle \/ WakeUp \/ Exit \/ OrphanEnds

Trouble ==
  \/ AttemptFails \/ ConnectFails \/ CallFails \/ ReceiveMalformed \/ StreamEnds
  \/ Crash \/ Cancel

Next == Confirm \/ Work \/ Trouble

Spec == Init /\ [][Next]_vars

\* The process never stops working by itself, and the provider keeps delivering: a
\* heartbeat is due now and then, a notification is received in between.
FairSpec == Spec /\ WF_vars(Work /\ NoFault) /\ SF_vars(Receive /\ NoFault)
                 /\ WF_vars(OrphanEnds /\ NoFault)

-----------------------------------------------------------------------------
(* Properties *)

PCs == Awaiting \cup {"down", "flush", "apply", "pause", "caughtUp", "settle", "blocked",
                      "exit"}
Statuses == {"none", "starting", "connecting", "backfilling", "streaming", "reconnecting",
             "needs_manual_backfill", "stopped"}
Positions == 0 .. MaxTx
Calls == [sig : Positions, launch : BOOLEAN, attempt : 0 .. 2]
IsCall(c) == c \in Calls /\ c.sig <= tip /\ (c.launch => c.sig # 0)

ChainType == kind \in [1 .. MaxTx -> Kinds] /\ tip \in Positions
NetType == open \in BOOLEAN /\ inflight \subseteq 1 .. tip
TableType == /\ dbCursor \in 0 .. tip /\ dbLaunches \subseteq 1 .. tip
             /\ base \in 0 .. tip /\ resume \in 0 .. tip
ControlType == /\ pc \in PCs /\ after \in PCs /\ beating \in BOOLEAN
               /\ status \in Statuses /\ dbStatus \in Statuses /\ stopping \in BOOLEAN
MemoryType == cursor \in 0 .. tip /\ persisted \in 0 .. tip /\ counted \in Nat
ReplayType == /\ lo \in 1 .. tip + 1 /\ hi \in 0 .. tip
              /\ last \in 0 .. tip /\ bad \in 0 .. tip
              /\ since \in 0 .. FlushEvery /\ limit \in PageLimits \cup {0}
CallType == IsCall(call) /\ IsCall(orphan)
BudgetType == faults \in 0 .. MaxFaults /\ crashes \in 0 .. MaxCrashes

\* Every variable has its type; no position is beyond what the chain has confirmed.
TypeOK == /\ ChainType /\ NetType /\ TableType /\ ControlType
          /\ MemoryType /\ ReplayType /\ CallType /\ BudgetType

\* Launches confirmed after the first cursor and not recorded yet.
Missing == {q \in Launches : base # 0 /\ base < q /\ q \notin dbLaunches}

\* "The cursor never moves past an unverified creation" (module comment, point 3): whatever
\* crashed, failed or was cancelled, no unrecorded launch lies at or before the durable
\* cursor.
CursorNeverPassesCreation == \A q \in Missing : dbCursor < q

\* "Nothing falls between the checkpoint and the stream" (point 1): while the process
\* streams, every launch it has not recorded is still coming on this subscription.
NothingBetween == pc = "stream" => Missing \subseteq inflight

\* A connection replays from a point no earlier than the one the connection before it
\* replayed from, although live duplicates and abandoned saves move the cursor back.
ResumeNeverRegresses == [][resume <= resume']_vars

\* "finish with a final cursor flush" (main): a process that stops on a signal while the
\* database answers leaves its cursor in the table, unless a save it abandoned wrote there.
StopKeepsProgress ==
  (pc = "exit" /\ orphan.attempt = 0 /\ faults = 0 /\ cursor # 0)
     => dbCursor \in {cursor, orphan.sig}

\* A launch confirmed after the first cursor is recorded, whatever failed meanwhile, or the
\* operator is told of a gap that only a person can close: it fills the page limit.
RecordedOrReported ==
  \A q \in 1 .. MaxTx :
    (q \in Missing) ~> \/ q \in dbLaunches
                      \/ /\ dbStatus = "needs_manual_backfill"
                         /\ limit # 0 /\ dbCursor + limit <= tip

\* The tables keep the promise of LaunchLog.
Log == INSTANCE LaunchLog WITH checkpoint <- dbCursor, launches <- dbLaunches
Implements == Log!Spec

-----------------------------------------------------------------------------
(* The inductive invariant behind CursorNeverPassesCreation and NothingBetween *)

\* A provider whose listing is never behind its subscription, which delivers in order and
\* readably, for a program that had transactions before the first start.
ReliableProvider ==
  /\ ListingLag = 0 /\ FirstLag = 0 /\ ReorderWindow = 0 /\ ~Unreadable /\ InitTip # 0

\* The process is at one of the points S, or in a flush or heartbeat that returns there.
At(S) == pc \in S \/ (pc \in {"flush", "flushing", "heartbeat"} /\ after \in S)

Replaying == At({"chunk", "pause"}) \/ pc = "apply" \/ (pc = "saving" /\ after = "apply")
Streaming == \/ At({"stream", "caughtUp"}) \/ pc = "fetch"
             \/ (pc = "saving" /\ after = "stream")
Founding == pc = "saving" /\ after = "caughtUp"
Connected == \/ At({"cursor", "firstListing", "listing"})
             \/ Replaying \/ Streaming \/ Founding

\* The transaction being fetched or saved.
InHand == IF pc \in {"fetch", "saving"} THEN {call.sig} ELSE {}

\* Saving c makes no missing launch unreachable.
SafeSave(c) == \A q \in Missing : c.sig < q \/ (c.launch /\ c.sig = q)

\* Nothing in memory, in a thread or in the table is past a missing launch.
CursorsSafe ==
  /\ \A q \in Missing : dbCursor < q /\ cursor < q /\ persisted < q
  /\ SafeSave(call) /\ SafeSave(orphan)

\* Replay still has every missing launch ahead of it, or the subscription has it.
ReplayCovers ==
  Replaying =>
    /\ \A q \in Missing : lo <= q \/ q \in InHand
    /\ \A q \in Missing : q <= hi \/ q \in inflight \cup InHand

StreamCovers == Streaming => Missing \subseteq inflight \cup InHand

\* Before the first cursor is written there is nothing to lose; while it is being written
\* everything after it is already on the subscription.
FoundingSafe ==
  /\ tip # 0
  /\ base = 0 <=> dbCursor = 0
  /\ base = 0 => /\ cursor = 0 /\ persisted = 0
                 /\ ~Replaying /\ ~Streaming /\ pc # "listing"
  /\ pc = "firstListing" => base = 0
  /\ Founding => /\ base \in {0, call.sig} /\ call.sig # 0 /\ ~call.launch
                 /\ (call.sig + 1) .. tip \subseteq inflight

\* A save outstanding is a real one; a cancel leaves at most one behind.
ControlSafe ==
  /\ Connected => open
  /\ pc \in {"fetch", "saving", "flushing"} => call.sig # 0 /\ call.attempt # 0
  /\ pc = "flushing" => ~call.launch /\ call.sig = cursor
  /\ pc = "saving" => after \in {"caughtUp", "apply", "stream"}
  /\ pc \in {"flush", "flushing", "heartbeat"} =>
       after \in {"cursor", "pause", "chunk", "caughtUp", "stream", "settle", "blocked",
                  "sleep", "exit"}
  /\ pc \notin {"fetch", "saving", "flushing"} => call = NoCall
  /\ orphan # NoCall => stopping /\ orphan.sig # 0
  /\ stopping => At({"settle", "blocked", "exit"})

\* Only launches are saved as launches.
SavesReal ==
  (call.launch => IsLaunch(call.sig)) /\ (orphan.launch => IsLaunch(orphan.sig))

IInv == /\ TypeOK /\ CursorsSafe /\ ReplayCovers /\ StreamCovers /\ FoundingSafe
        /\ ControlSafe /\ SavesReal
=============================================================================
