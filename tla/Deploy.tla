-------------------------------- MODULE Deploy --------------------------------
(***************************************************************************)
(* A deploy of the watcher.  render.yaml asks for one instance, and the    *)
(* watcher has no leader election: while the platform replaces it, the new *)
(* process already runs against the same tables and the same provider as   *)
(* the old one, until the old one has ended.                               *)
(*                                                                         *)
(* The new process is PumpWorker itself; the old one is an instance of it  *)
(* with a memory and a subscription of its own.  The chain, the tables and *)
(* the heartbeat row are shared.                                           *)
(***************************************************************************)
EXTENDS PumpWorker

VARIABLES
  oldOpen, oldInflight, oldResume, oldPc, oldAfter, oldBeating,
  oldCursor, oldPersisted, oldStatus, oldCounted,
  oldLo, oldHi, oldLast, oldBad, oldSince, oldLimit,
  oldCall, oldOrphan, oldStopping, oldCrashes

Old == INSTANCE PumpWorker WITH
  open <- oldOpen, inflight <- oldInflight, resume <- oldResume,
  pc <- oldPc, after <- oldAfter, beating <- oldBeating,
  cursor <- oldCursor, persisted <- oldPersisted, status <- oldStatus,
  counted <- oldCounted, lo <- oldLo, hi <- oldHi, last <- oldLast, bad <- oldBad,
  since <- oldSince, limit <- oldLimit, call <- oldCall, orphan <- oldOrphan,
  stopping <- oldStopping, crashes <- oldCrashes, MaxCrashes <- 1

newProcess == <<net, resume, control, memory, status, counted, replay, call, orphan,
                process, crashes>>
oldProcess == <<oldOpen, oldInflight, oldResume, oldPc, oldAfter, oldBeating,
                oldCursor, oldPersisted, oldStatus, oldCounted,
                oldLo, oldHi, oldLast, oldBad, oldSince, oldLimit,
                oldCall, oldOrphan, oldStopping, oldCrashes>>
shared == <<chain, tables, dbStatus, faults>>
deployVars == <<shared, newProcess, oldProcess>>

\* The old process has been streaming since its first start; the new one is about to start.
DeployInit ==
  /\ kind \in [1 .. MaxTx -> Kinds] /\ tip = InitTip
  /\ \A q \in 1 .. InitTip : kind[q] = CHOOSE k \in Kinds : TRUE
  /\ dbCursor = InitTip /\ base = InitTip /\ dbLaunches = {} /\ dbStatus = "streaming"
  /\ open = FALSE /\ inflight = {} /\ resume = 0
  /\ pc = "down" /\ after = "down" /\ beating = FALSE
  /\ cursor = 0 /\ persisted = 0 /\ status = "starting" /\ counted = 0
  /\ lo = 1 /\ hi = 0 /\ last = 0 /\ bad = 0 /\ since = 0 /\ limit = 0
  /\ call = NoCall /\ orphan = NoCall
  /\ stopping = FALSE /\ faults = 0 /\ crashes = 0
  /\ oldOpen = TRUE /\ oldInflight = {} /\ oldResume = 0
  /\ oldPc = "stream" /\ oldAfter = "stream" /\ oldBeating = TRUE
  /\ oldCursor = InitTip /\ oldPersisted = InitTip /\ oldStatus = "streaming"
  /\ oldCounted = 0
  /\ oldLo = 1 /\ oldHi = 0 /\ oldLast = 0 /\ oldBad = 0 /\ oldSince = 0
  /\ oldLimit \in PageLimits
  /\ oldCall = NoCall /\ oldOrphan = NoCall
  /\ oldStopping = FALSE /\ oldCrashes = 0

\* The provider serves both subscriptions.
ConfirmBoth == Confirm /\ Old!Confirm

NewStep == (Work \/ Trouble) /\ UNCHANGED oldProcess

\* SIGTERM or a crash ends the old process at any point of its work, or of the new one's.
\* Once it has ended the old process is not started again.
OldStep ==
  /\ oldPc # "down"
  /\ Old!Work \/ Old!Trouble
  /\ UNCHANGED newProcess

DeployNext == ConfirmBoth \/ NewStep \/ OldStep

DeploySpec == DeployInit /\ [][DeployNext]_deployVars

-----------------------------------------------------------------------------
(* Properties *)

\* With two writers, each with a cursor of its own and whichever writes last, no unrecorded
\* launch lies at or before the cursor in the table.
TwoCursorsSafe == CursorNeverPassesCreation

\* Whichever of the two is streaming, every launch neither has recorded is still coming on
\* its subscription: neither relies on what the other has only received.
NothingBetweenEither == NothingBetween /\ Old!NothingBetween

\* Each process keeps its part of the invariant whatever the other writes to the tables.
IInvEither == IInv /\ Old!IInv

\* Every step of either process, its abandoned and repeated saves included, is a step of
\* the log the tables promise to be.
LogSteps == [][Log!Next]_(Log!vars)
=============================================================================
