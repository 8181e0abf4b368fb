----------------------------- MODULE Deploy_proof -----------------------------
(***************************************************************************)
(* Proofs about a deploy of the watcher, for every value of the constants  *)
(* and a reliable provider: with two processes writing the same tables, no *)
(* cursor passes an unrecorded launch, and neither leaves a gap.           *)
(*                                                                         *)
(* The theorems about one process are used twice: as they stand for the    *)
(* new process, and instantiated for the old one.                          *)
(***************************************************************************)
EXTENDS Deploy, PumpWorker_proof

OldProof == INSTANCE PumpWorker_proof WITH
  open <- oldOpen, inflight <- oldInflight, resume <- oldResume,
  pc <- oldPc, after <- oldAfter, beating <- oldBeating,
  cursor <- oldCursor, persisted <- oldPersisted, status <- oldStatus,
  counted <- oldCounted, lo <- oldLo, hi <- oldHi, last <- oldLast, bad <- oldBad,
  since <- oldSince, limit <- oldLimit, call <- oldCall, orphan <- oldOrphan,
  stopping <- oldStopping, crashes <- oldCrashes, MaxCrashes <- 1

\* The instance the theorems are taken from is the instance the model is made of.
LEMMA SameInvariant == Old!IInv <=> OldProof!IInv
BY DEF Old!IInv, OldProof!IInv, Old!SavesReal, OldProof!SavesReal, Old!IsLaunch,
  OldProof!IsLaunch, Old!ControlSafe, OldProof!ControlSafe, Old!At, OldProof!At,
  Old!NoCall, OldProof!NoCall, Old!Connected, OldProof!Connected, Old!Founding,
  OldProof!Founding, Old!Streaming, OldProof!Streaming, Old!Replaying,
  OldProof!Replaying, Old!FoundingSafe, OldProof!FoundingSafe, Old!StreamCovers,
  OldProof!StreamCovers, Old!InHand, OldProof!InHand, Old!Missing, OldProof!Missing,
  Old!Launches, OldProof!Launches, Old!ReplayCovers, OldProof!ReplayCovers,
  Old!CursorsSafe, OldProof!CursorsSafe, Old!SafeSave, OldProof!SafeSave, Old!TypeOK,
  OldProof!TypeOK, Old!BudgetType, OldProof!BudgetType, Old!CallType, OldProof!CallType,
  Old!IsCall, OldProof!IsCall, Old!Calls, OldProof!Calls, Old!Positions,
  OldProof!Positions, Old!ReplayType, OldProof!ReplayType, Old!MemoryType,
  OldProof!MemoryType, Old!ControlType, OldProof!ControlType, Old!Statuses,
  OldProof!Statuses, Old!PCs, OldProof!PCs, Old!Awaiting, OldProof!Awaiting,
  Old!TableType, OldProof!TableType, Old!NetType, OldProof!NetType, Old!ChainType,
  OldProof!ChainType

\* So are its confirmations ...
LEMMA SameConfirm == Old!Confirm <=> OldProof!Confirm
BY DEF Old!Confirm, OldProof!Confirm, Old!budget, OldProof!budget, Old!process,
  OldProof!process, Old!replay, OldProof!replay, Old!memory, OldProof!memory,
  Old!control, OldProof!control, Old!tables, OldProof!tables

\* ... and all other steps of the old process.
LEMMA SameSteps == (Old!Work \/ Old!Trouble) <=> (OldProof!Work \/ OldProof!Trouble)
BY DEF Old!Work, OldProof!Work, Old!OrphanEnds, OldProof!OrphanEnds, Old!process,
  OldProof!process, Old!replay, OldProof!replay, Old!memory, OldProof!memory,
  Old!control, OldProof!control, Old!net, OldProof!net, Old!chain, OldProof!chain,
  Old!Fault, OldProof!Fault, Old!tables, OldProof!tables, Old!NoFault, OldProof!NoFault,
  Old!budget, OldProof!budget, Old!Commit, OldProof!Commit, Old!Exit, OldProof!Exit,
  Old!NoCall, OldProof!NoCall, Old!Forget, OldProof!Forget, Old!WakeUp, OldProof!WakeUp,
  Old!Settle, OldProof!Settle, Old!Beat, OldProof!Beat, Old!HeartbeatDue,
  OldProof!HeartbeatDue, Old!Fetched, OldProof!Fetched, Old!Receive, OldProof!Receive,
  Old!Handle, OldProof!Handle, Old!IsLaunch, OldProof!IsLaunch, Old!Save, OldProof!Save,
  Old!Skipped, OldProof!Skipped, Old!Deliverable, OldProof!Deliverable, Old!CaughtUp,
  OldProof!CaughtUp, Old!BackfillDone, OldProof!BackfillDone, Old!ChunkPause,
  OldProof!ChunkPause, Old!ChunkDone, OldProof!ChunkDone, Old!ApplyBad,
  OldProof!ApplyBad, Old!Raise, OldProof!Raise, Old!ApplyOther, OldProof!ApplyOther,
  Old!ApplyLaunch, OldProof!ApplyLaunch, Old!FetchChunk, OldProof!FetchChunk,
  Old!ChunkEnd, OldProof!ChunkEnd, Old!GapNotCovered, OldProof!GapNotCovered, Old!Seen,
  OldProof!Seen, Old!MissedItems, OldProof!MissedItems, Old!FirstListing,
  OldProof!FirstListing, Old!ReadCursor, OldProof!ReadCursor, Old!HeartbeatWrite,
  OldProof!HeartbeatWrite, Old!SaveOk, OldProof!SaveOk, Old!FlushOk, OldProof!FlushOk,
  Old!FlushReturn, OldProof!FlushReturn, Old!FlushBegin, OldProof!FlushBegin,
  Old!FlushNothing, OldProof!FlushNothing, Old!Connect, OldProof!Connect, Old!Start,
  OldProof!Start, Old!Trouble, OldProof!Trouble, Old!Cancel, OldProof!Cancel,
  Old!OutsideTry, OldProof!OutsideTry, Old!Awaiting, OldProof!Awaiting, Old!Crash,
  OldProof!Crash, Old!StreamEnds, OldProof!StreamEnds, Old!ReceiveMalformed,
  OldProof!ReceiveMalformed, Old!CallFails, OldProof!CallFails, Old!ConnectFails,
  OldProof!ConnectFails, Old!AttemptFails, OldProof!AttemptFails, Old!FlushFails,
  OldProof!FlushFails

\* What the theorems about one process assume.
LEMMA OldAssumptions ==
  ReliableProvider => OldProof!ConstantsAssumption /\ OldProof!ReliableProvider
BY ConstantsAssumption DEF OldProof!ConstantsAssumption, ReliableProvider,
  OldProof!ReliableProvider

\* A write that is safe for one process is safe for the other: what is missing is shared.
LEMMA SharedWrites ==
  /\ SafeWrite <=> OldProof!SafeWrite
  /\ Statuses = OldProof!Statuses
  /\ UNCHANGED newProcess => Paused
  /\ UNCHANGED oldProcess => OldProof!Paused
<1>1. SafeWrite <=> OldProof!SafeWrite
  BY DEF SafeWrite, OldProof!SafeWrite, tables, OldProof!tables, Calls, OldProof!Calls,
    Positions, OldProof!Positions, IsCall, OldProof!IsCall, SafeSave, OldProof!SafeSave,
    Missing, OldProof!Missing, Launches, OldProof!Launches, IsLaunch, OldProof!IsLaunch,
    Commit, OldProof!Commit
<1>2. Statuses = OldProof!Statuses BY DEF Statuses, OldProof!Statuses
<1>3. UNCHANGED newProcess => Paused BY DEF newProcess, Paused
<1>4. UNCHANGED oldProcess => OldProof!Paused
  BY DEF oldProcess, OldProof!Paused, OldProof!net, OldProof!control, OldProof!memory,
    OldProof!replay, OldProof!process
<1> QED BY <1>1, <1>2, <1>3, <1>4

BothJoined == Joined /\ OldProof!Joined

\* Both processes keep their invariants whichever of them moves.
LEMMA BothStep ==
  ASSUME BothJoined, [DeployNext]_deployVars, ReliableProvider
  PROVE  BothJoined'
<1> USE OldAssumptions DEF BothJoined
<1>1. CASE ConfirmBoth
  <2>1. Next /\ OldProof!Next
    BY <1>1, SameConfirm DEF ConfirmBoth, Next, OldProof!Next
  <2> QED BY <2>1, JoinedStep, OldProof!JoinedStep
<1>2. CASE NewStep
  <2>1. Joined' BY <1>2, JoinedStep DEF NewStep, Next
  <2>2. SafeWrite /\ UNCHANGED chain /\ dbStatus' \in Statuses /\ faults' \in 0 .. MaxFaults
    BY <1>2, StepWrites DEF NewStep, Joined
  <2>3. OldProof!SafeWrite /\ OldProof!Paused /\ UNCHANGED OldProof!chain
        /\ dbStatus' \in OldProof!Statuses
    BY <1>2, <2>2, SharedWrites DEF NewStep, chain, OldProof!chain
  <2> QED BY <2>1, <2>2, <2>3, OldProof!JoinedForeign
<1>3. CASE OldStep
  <2>1. OldProof!Work \/ OldProof!Trouble BY <1>3, SameSteps DEF OldStep
  <2>2. OldProof!Joined' BY <2>1, OldProof!JoinedStep DEF OldProof!Next
  <2>3. OldProof!SafeWrite /\ UNCHANGED OldProof!chain /\ dbStatus' \in OldProof!Statuses
        /\ faults' \in 0 .. MaxFaults
    BY <2>1, OldProof!StepWrites DEF OldProof!Joined
  <2>4. SafeWrite /\ Paused /\ UNCHANGED chain /\ dbStatus' \in Statuses
    BY <1>3, <2>3, SharedWrites DEF OldStep, chain, OldProof!chain
  <2> QED BY <2>2, <2>3, <2>4, JoinedForeign
<1>4. CASE UNCHANGED deployVars
  <2>1. UNCHANGED <<chain, tables, dbStatus, faults>> /\ UNCHANGED newProcess
        /\ UNCHANGED oldProcess
    BY <1>4 DEF deployVars, shared
  <2>2. SafeWrite /\ dbStatus' \in Statuses /\ faults' \in 0 .. MaxFaults
    BY <2>1 DEF SafeWrite, Joined, IInv, TypeOK, ControlType, BudgetType
  <2>3. OldProof!SafeWrite /\ OldProof!Paused /\ UNCHANGED OldProof!chain
        /\ dbStatus' \in OldProof!Statuses /\ Paused
    BY <2>1, <2>2, SharedWrites DEF chain, OldProof!chain
  <2> QED BY <2>1, <2>2, <2>3, JoinedForeign, OldProof!JoinedForeign
<1> QED BY <1>1, <1>2, <1>3, <1>4 DEF DeployNext

\* The deploy begins with an old process that is streaming and misses nothing.
LEMMA BothInit ==
  ASSUME DeployInit, ReliableProvider
  PROVE  BothJoined
<1> USE DEF DeployInit
<1>0. /\ InitTip \in Nat /\ InitTip # 0 /\ tip = InitTip /\ MaxTx \in Nat /\ tip <= MaxTx
      /\ tip \in 0 .. MaxTx /\ tip \in 0 .. tip /\ 0 \in 0 .. tip
      /\ MaxFaults \in Nat /\ MaxCrashes \in Nat /\ FlushEvery \in Nat
      /\ 0 \in 0 .. MaxTx /\ 1 \in 1 .. tip + 1
  BY ConstantsAssumption DEF ReliableProvider
<1>1. Joined
  <2>1. Missing = {}
    BY <1>0 DEF Missing, Launches
  <2>2. ChainType /\ NetType /\ TableType
    BY <1>0 DEF ChainType, Positions, NetType, TableType
  <2>3. ControlType
    BY DEF ControlType, PCs, Awaiting, Statuses
  <2>4. MemoryType /\ ReplayType /\ BudgetType
    BY <1>0 DEF MemoryType, ReplayType, BudgetType
  <2>5. CallType
    BY <1>0 DEF CallType, IsCall, Calls, NoCall, Positions
  <2>6. CursorsSafe /\ ReplayCovers /\ StreamCovers
    BY <2>1 DEF CursorsSafe, SafeSave, ReplayCovers, StreamCovers
  <2>7. FoundingSafe /\ ~Founding
    BY <1>0 DEF FoundingSafe, Founding, Replaying, Streaming, At
  <2>8. ControlSafe /\ SavesReal
    BY DEF ControlSafe, Connected, Replaying, Streaming, Founding, At, SavesReal, NoCall
  <2> QED BY <1>0, <2>2, <2>3, <2>4, <2>5, <2>6, <2>7, <2>8 DEF Joined, IInv, TypeOK
<1>2. OldProof!Joined
  <2>1. OldProof!Missing = {}
    BY <1>0 DEF OldProof!Missing, OldProof!Launches
  <2>2. OldProof!ChainType /\ OldProof!NetType /\ OldProof!TableType
    BY <1>0 DEF OldProof!ChainType, OldProof!Positions, OldProof!NetType,
      OldProof!TableType
  <2>3. OldProof!ControlType
    BY DEF OldProof!ControlType, OldProof!PCs, OldProof!Awaiting, OldProof!Statuses
  <2>4. OldProof!MemoryType /\ OldProof!ReplayType /\ OldProof!BudgetType
    BY <1>0 DEF OldProof!MemoryType, OldProof!ReplayType, OldProof!BudgetType
  <2>5. OldProof!CallType
    BY <1>0 DEF OldProof!CallType, OldProof!IsCall, OldProof!Calls, OldProof!Positions,
      NoCall
  <2>6. OldProof!CursorsSafe /\ OldProof!ReplayCovers /\ OldProof!StreamCovers
    BY <2>1 DEF OldProof!CursorsSafe, OldProof!SafeSave, OldProof!ReplayCovers,
      OldProof!StreamCovers
  <2>7. OldProof!FoundingSafe /\ ~OldProof!Founding
    BY <1>0 DEF OldProof!FoundingSafe, OldProof!Founding
  <2>8. OldProof!ControlSafe /\ OldProof!SavesReal
    BY DEF OldProof!ControlSafe, OldProof!Connected, OldProof!Replaying,
      OldProof!Streaming, OldProof!Founding, OldProof!At, OldProof!SavesReal,
      OldProof!NoCall, NoCall
  <2> QED BY <1>0, <2>2, <2>3, <2>4, <2>5, <2>6, <2>7, <2>8 DEF OldProof!Joined,
    OldProof!IInv, OldProof!TypeOK
<1> QED BY <1>1, <1>2 DEF BothJoined

-----------------------------------------------------------------------------

\* Whatever the other process writes to the tables it shares, each keeps its own part of
\* the invariant (pump_worker.py: no lock and no leader; render.yaml asks for one instance).
THEOREM EachKeepsItsPart == ReliableProvider => (DeploySpec => []IInvEither)
<1> SUFFICES ASSUME ReliableProvider PROVE DeploySpec => []IInvEither
  OBVIOUS
<1>1. DeployInit => BothJoined BY BothInit
<1>2. BothJoined /\ [DeployNext]_deployVars => BothJoined' BY BothStep
<1>3. BothJoined => IInvEither
  BY SameInvariant DEF BothJoined, Joined, OldProof!Joined, IInvEither
<1> QED BY <1>1, <1>2, <1>3, PTL DEF DeploySpec

\* With two writers, whichever writes last, no unrecorded launch lies at or before the
\* cursor in the table (Store.save).
THEOREM TwoCursors == ReliableProvider => (DeploySpec => []TwoCursorsSafe)
<1> SUFFICES ASSUME ReliableProvider PROVE DeploySpec => []TwoCursorsSafe
  OBVIOUS
<1>1. DeployInit => BothJoined BY BothInit
<1>2. BothJoined /\ [DeployNext]_deployVars => BothJoined' BY BothStep
<1>3. BothJoined => TwoCursorsSafe
  BY DEF BothJoined, Joined, IInv, CursorsSafe, TwoCursorsSafe, CursorNeverPassesCreation
<1> QED BY <1>1, <1>2, <1>3, PTL DEF DeploySpec

\* Whichever of the two is streaming, every launch neither has recorded is still coming on
\* its own subscription (watch_once: subscribe before replaying).
THEOREM NoGapEither == ReliableProvider => (DeploySpec => []NothingBetweenEither)
<1> SUFFICES ASSUME ReliableProvider PROVE DeploySpec => []NothingBetweenEither
  OBVIOUS
<1>1. DeployInit => BothJoined BY BothInit
<1>2. BothJoined /\ [DeployNext]_deployVars => BothJoined' BY BothStep
<1>3. BothJoined => NothingBetween
  BY DEF BothJoined, Joined, IInv, StreamCovers, Streaming, At, InHand, NothingBetween
<1>4. BothJoined => Old!NothingBetween
  BY SameInvariant DEF BothJoined, OldProof!Joined, Old!IInv, Old!StreamCovers,
    Old!Streaming, Old!At, Old!InHand, Old!NothingBetween
<1> QED BY <1>1, <1>2, <1>3, <1>4, PTL DEF DeploySpec, NothingBetweenEither

-----------------------------------------------------------------------------

\* A step of the old process is one of the log the new process writes to.
LEMMA SameLog ==
  [OldProof!Log!Next]_(OldProof!Log!vars) <=> [Log!Next]_(Log!vars)
BY DEF OldProof!Log!Next, Log!Next, OldProof!Log!vars, Log!vars, OldProof!Log!Confirm,
  Log!Confirm, OldProof!Log!RecordLaunch, Log!RecordLaunch, OldProof!Log!MoveCheckpoint,
  Log!MoveCheckpoint, OldProof!Log!First, Log!First, OldProof!Log!Complete, Log!Complete,
  OldProof!Log!LaunchKinds, Log!LaunchKinds

\* Every step of a deploy is a step of the log, or leaves it alone.
LEMMA DeployLogs ==
  ASSUME BothJoined, BothJoined', [DeployNext]_deployVars, ReliableProvider
  PROVE  [Log!Next]_(Log!vars)
<1> USE OldAssumptions DEF BothJoined, Joined, OldProof!Joined
<1>1. CASE ConfirmBoth
  BY <1>1, StepImplements DEF ConfirmBoth, Next
<1>2. CASE NewStep
  BY <1>2, StepImplements DEF NewStep, Next
<1>3. CASE OldStep
  <2>1. OldProof!Next BY <1>3, SameSteps DEF OldStep, OldProof!Next
  <2> QED BY <2>1, OldProof!StepImplements, SameLog
<1>4. CASE UNCHANGED deployVars
  BY <1>4 DEF deployVars, shared, chain, tables, Log!vars
<1> QED BY <1>1, <1>2, <1>3, <1>4 DEF DeployNext

\* Every step of either process, its abandoned and repeated saves included, is a step of
\* the log the tables promise to be.
THEOREM DeployImplementsLog == ReliableProvider => (DeploySpec => LogSteps)
<1> SUFFICES ASSUME ReliableProvider PROVE DeploySpec => LogSteps
  OBVIOUS
<1>1. DeployInit => BothJoined BY BothInit
<1>2. BothJoined /\ [DeployNext]_deployVars => BothJoined' BY BothStep
<1>3. BothJoined /\ BothJoined' /\ [DeployNext]_deployVars => [Log!Next]_(Log!vars)
  BY DeployLogs
<1> QED BY <1>1, <1>2, <1>3, PTL DEF DeploySpec, LogSteps
=============================================================================
