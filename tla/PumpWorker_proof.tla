-------------------------- MODULE PumpWorker_proof --------------------------
(***************************************************************************)
(* Proofs about the launch watcher, for every value of the constants: its  *)
(* type invariant, and, for a reliable provider, that the durable cursor   *)
(* never passes an unrecorded launch.                                      *)
(***************************************************************************)
EXTENDS PumpWorker, TLAPS

USE DEF chain, net, tables, control, memory, replay, process, budget

\* Positions are bounded naturals.
LEMMA TipNat ==
  ASSUME TypeOK
  PROVE  MaxTx \in Nat /\ tip \in Nat /\ tip <= MaxTx
BY ConstantsAssumption DEF TypeOK, ChainType, Positions

\* The fields of a save that has its type.
LEMMA CallFields ==
  ASSUME TypeOK, NEW c, IsCall(c)
  PROVE  c.sig \in 0 .. tip /\ (c.launch => c.sig \in 1 .. tip)
BY TipNat DEF IsCall, Calls, Positions

\* One committed Store.save keeps the tables well typed.
LEMMA CommitType ==
  ASSUME TypeOK, NEW c, IsCall(c), Commit(c), UNCHANGED <<tip, resume>>
  PROVE  TableType'
<1>1. c.sig \in 0 .. tip /\ (c.launch => c.sig \in 1 .. tip)
  BY CallFields
<1> QED BY <1>1, TipNat DEF Commit, TypeOK, TableType

\* Calls as the actions make them; what was a call stays one when its fields are kept.
LEMMA CallsMade ==
  ASSUME TypeOK
  PROVE  /\ IsCall(NoCall)
         /\ \A s \in 1 .. tip : \A l \in BOOLEAN : IsCall(Save(s, l))
         /\ \A s \in 0 .. tip : IsCall(Save(s, FALSE))
         /\ IsCall([call EXCEPT !.attempt = 2])
         /\ IsCall([orphan EXCEPT !.attempt = 0])
<1>1. IsCall(NoCall) BY TipNat DEF IsCall, NoCall, Calls, Positions
<1>2. \A s \in 1 .. tip : \A l \in BOOLEAN : IsCall(Save(s, l))
  BY TipNat DEF IsCall, Save, Calls, Positions
<1>3. \A s \in 0 .. tip : IsCall(Save(s, FALSE))
  BY TipNat DEF IsCall, Save, Calls, Positions
<1>4. IsCall([call EXCEPT !.attempt = 2])
  BY TipNat DEF TypeOK, CallType, IsCall, Calls, Positions
<1>5. IsCall([orphan EXCEPT !.attempt = 0])
  BY TipNat DEF TypeOK, CallType, IsCall, Calls, Positions
<1> QED BY <1>1, <1>2, <1>3, <1>4, <1>5

\* The provider only ever confirms the next position.
LEMMA ChainTypeStep ==
  ASSUME TypeOK, Next
  PROVE  ChainType'
<1> USE TipNat DEF TypeOK, ChainType, Positions
<1>1. CASE Confirm
  BY <1>1, ConstantsAssumption DEF Confirm
<1>2. CASE Start \/ Connect \/ FlushNothing \/ FlushBegin \/ FlushOk \/ SaveOk \/
    HeartbeatWrite \/ ReadCursor \/ FirstListing \/ MissedItems \/ GapNotCovered \/
    FetchChunk \/ ApplyLaunch \/ ApplyOther \/ ApplyBad \/ ChunkDone \/ ChunkPause \/
    BackfillDone \/ CaughtUp \/ Receive \/ Fetched \/ HeartbeatDue \/ Settle \/ WakeUp
    \/ Exit \/ OrphanEnds \/ AttemptFails \/ ConnectFails \/ CallFails \/
    ReceiveMalformed \/ StreamEnds \/ Crash \/ Cancel
  BY <1>2 DEF Start, Connect, FlushNothing, FlushBegin, FlushOk, SaveOk, HeartbeatWrite,
    ReadCursor, FirstListing, MissedItems, GapNotCovered, FetchChunk, ApplyLaunch,
    ApplyOther, ApplyBad, ChunkDone, ChunkPause, BackfillDone, CaughtUp, Receive,
    Fetched, HeartbeatDue, Settle, WakeUp, Exit, OrphanEnds, AttemptFails, ConnectFails,
    CallFails, ReceiveMalformed, StreamEnds, Crash, Cancel, Beat, FlushReturn, Commit,
    Fault, NoFault, Raise, Handle, Forget, FlushFails, OutsideTry
<1> QED BY <1>1, <1>2 DEF Next, Work, Trouble

\* The subscription holds confirmed transactions, whatever opens or loses it.
LEMMA NetTypeStep ==
  ASSUME TypeOK, Next
  PROVE  NetType'
<1> USE TipNat DEF TypeOK, NetType
<1>1. CASE Confirm
  <2>1. tip' = tip + 1 /\ open' \in BOOLEAN /\ inflight' \subseteq inflight \cup {tip + 1}
    BY <1>1 DEF Confirm
  <2>2. \A q \in inflight \cup {tip + 1} : q \in 1 .. tip + 1
    <3>1. tip \in Nat BY TipNat
    <3>2. \A q \in inflight : q \in 1 .. tip OBVIOUS
    <3> QED BY <3>1, <3>2
  <2> QED BY <2>1, <2>2
<1>2. CASE Connect
  BY <1>2 DEF Connect, Beat
<1>3. CASE GapNotCovered
  BY <1>3 DEF GapNotCovered, Raise, Fault, NoFault
<1>4. CASE ApplyBad
  BY <1>4 DEF ApplyBad, Raise
<1>5. CASE Receive
  BY <1>5 DEF Receive, Fault, NoFault, Handle
<1>6. CASE Exit
  BY <1>6 DEF Exit, Forget
<1>7. CASE AttemptFails
  BY <1>7 DEF AttemptFails, Commit, Raise, FlushFails, Fault, FlushReturn
<1>8. CASE CallFails
  BY <1>8 DEF CallFails, Raise, Fault
<1>9. CASE ReceiveMalformed
  BY <1>9 DEF ReceiveMalformed, Fault
<1>10. CASE StreamEnds
  BY <1>10 DEF StreamEnds, Raise, Fault
<1>11. CASE Crash
  BY <1>11 DEF Crash, Forget
<1>12. CASE Cancel
  BY <1>12 DEF Cancel, Raise, OutsideTry
<1>13. CASE Start \/ FlushNothing \/ FlushBegin \/ FlushOk \/ SaveOk \/ HeartbeatWrite
    \/ ReadCursor \/ FirstListing \/ MissedItems \/ FetchChunk \/ ApplyLaunch \/
    ApplyOther \/ ChunkDone \/ ChunkPause \/ BackfillDone \/ CaughtUp \/ Fetched \/
    HeartbeatDue \/ Settle \/ WakeUp \/ OrphanEnds \/ ConnectFails
  BY <1>13 DEF Start, FlushNothing, FlushBegin, FlushOk, SaveOk, HeartbeatWrite,
    ReadCursor, FirstListing, MissedItems, FetchChunk, ApplyLaunch, ApplyOther,
    ChunkDone, ChunkPause, BackfillDone, CaughtUp, Fetched, HeartbeatDue, Settle,
    WakeUp, OrphanEnds, ConnectFails, FlushReturn, Commit, Fault, NoFault, Beat
<1> QED BY <1>1, <1>2, <1>3, <1>4, <1>5, <1>6, <1>7, <1>8, <1>9, <1>10, <1>11, <1>12,
    <1>13 DEF Next, Work, Trouble

\* The tables are only written by committed saves, of confirmed positions.
LEMMA TableTypeStep ==
  ASSUME TypeOK, Next
  PROVE  TableType'
<1>0. IsCall(call) /\ IsCall(orphan) BY DEF TypeOK, CallType
<1> USE TipNat DEF TypeOK, TableType
<1>1. CASE Confirm
  BY <1>1 DEF Confirm
<1>2. CASE FlushOk
  BY <1>2, <1>0, CommitType DEF FlushOk
<1>3. CASE SaveOk
  BY <1>3, <1>0, CommitType DEF SaveOk
<1>4. CASE ReadCursor
  BY <1>4 DEF ReadCursor
<1>5. CASE OrphanEnds
  <2>1. CASE Commit(orphan) BY <1>5, <2>1, <1>0, CommitType DEF OrphanEnds
  <2>2. CASE UNCHANGED tables BY <1>5, <2>2 DEF OrphanEnds
  <2> QED BY <1>5, <2>1, <2>2 DEF OrphanEnds
<1>6. CASE AttemptFails
  <2>1. CASE Commit(call) BY <1>6, <2>1, <1>0, CommitType DEF AttemptFails
  <2>2. CASE UNCHANGED tables BY <1>6, <2>2 DEF AttemptFails
  <2> QED BY <1>6, <2>1, <2>2 DEF AttemptFails
<1>7. CASE Start \/ Connect \/ FlushNothing \/ FlushBegin \/ HeartbeatWrite \/
    FirstListing \/ MissedItems \/ GapNotCovered \/ FetchChunk \/ ApplyLaunch \/
    ApplyOther \/ ApplyBad \/ ChunkDone \/ ChunkPause \/ BackfillDone \/ CaughtUp \/
    Receive \/ Fetched \/ HeartbeatDue \/ Settle \/ WakeUp \/ Exit \/ ConnectFails \/
    CallFails \/ ReceiveMalformed \/ StreamEnds \/ Crash \/ Cancel
  BY <1>7 DEF Start, Connect, FlushNothing, FlushBegin, HeartbeatWrite, FirstListing,
    MissedItems, GapNotCovered, FetchChunk, ApplyLaunch, ApplyOther, ApplyBad,
    ChunkDone, ChunkPause, BackfillDone, CaughtUp, Receive, Fetched, HeartbeatDue,
    Settle, WakeUp, Exit, ConnectFails, CallFails, ReceiveMalformed, StreamEnds, Crash,
    Cancel, Beat, FlushReturn, Fault, NoFault, Raise, Handle, Forget, OutsideTry
<1> QED BY <1>1, <1>2, <1>3, <1>4, <1>5, <1>6, <1>7 DEF Next, Work, Trouble

\* Every await leads to a known one, with a known heartbeat status.
LEMMA ControlTypeStep ==
  ASSUME TypeOK, Next
  PROVE  ControlType'
<1> USE DEF TypeOK, ControlType, PCs, Awaiting, Statuses
<1>1. CASE Start
  BY <1>1 DEF Start
<1>2. CASE Connect
  BY <1>2 DEF Connect, Beat
<1>3. CASE FlushNothing
  BY <1>3 DEF FlushNothing, FlushReturn
<1>4. CASE FlushBegin
  BY <1>4 DEF FlushBegin
<1>5. CASE FlushOk
  BY <1>5 DEF FlushOk, Commit, FlushReturn
<1>6. CASE SaveOk
  BY <1>6 DEF SaveOk, Commit
<1>7. CASE HeartbeatWrite
  BY <1>7 DEF HeartbeatWrite, Fault, NoFault
<1>8. CASE ReadCursor
  BY <1>8 DEF ReadCursor
<1>9. CASE FirstListing
  BY <1>9 DEF FirstListing
<1>10. CASE MissedItems
  BY <1>10 DEF MissedItems
<1>11. CASE GapNotCovered
  BY <1>11 DEF GapNotCovered, Raise, Fault, NoFault
<1>12. CASE FetchChunk
  BY <1>12 DEF FetchChunk, Fault, NoFault
<1>13. CASE ApplyLaunch
  BY <1>13 DEF ApplyLaunch
<1>14. CASE ApplyBad
  BY <1>14 DEF ApplyBad, Raise
<1>15. CASE ChunkDone
  BY <1>15 DEF ChunkDone
<1>16. CASE ChunkPause
  BY <1>16 DEF ChunkPause, Beat
<1>17. CASE BackfillDone
  BY <1>17 DEF BackfillDone
<1>18. CASE CaughtUp
  BY <1>18 DEF CaughtUp, Beat
<1>19. CASE Receive
  BY <1>19 DEF Receive, Fault, NoFault, Handle
<1>20. CASE Fetched
  BY <1>20 DEF Fetched
<1>21. CASE HeartbeatDue
  BY <1>21 DEF HeartbeatDue, Beat
<1>22. CASE Settle
  BY <1>22 DEF Settle, Beat
<1>23. CASE WakeUp
  BY <1>23 DEF WakeUp
<1>24. CASE Exit
  BY <1>24 DEF Exit, Forget
<1>25. CASE AttemptFails
  BY <1>25 DEF AttemptFails, Commit, Raise, FlushFails, Fault, FlushReturn
<1>26. CASE ConnectFails
  BY <1>26 DEF ConnectFails, Fault
<1>27. CASE CallFails
  BY <1>27 DEF CallFails, Raise, Fault
<1>28. CASE StreamEnds
  BY <1>28 DEF StreamEnds, Raise, Fault
<1>29. CASE Crash
  BY <1>29 DEF Crash, Forget
<1>30. CASE Cancel
  BY <1>30 DEF Cancel, Raise, OutsideTry
<1>31. CASE Confirm \/ ApplyOther \/ OrphanEnds \/ ReceiveMalformed
  BY <1>31 DEF Confirm, ApplyOther, OrphanEnds, ReceiveMalformed, Commit, Fault, NoFault
<1> QED BY <1>1, <1>2, <1>3, <1>4, <1>5, <1>6, <1>7, <1>8, <1>9, <1>10, <1>11, <1>12,
    <1>13, <1>14, <1>15, <1>16, <1>17, <1>18, <1>19, <1>20, <1>21, <1>22, <1>23, <1>24,
    <1>25, <1>26, <1>27, <1>28, <1>29, <1>30, <1>31 DEF Next, Work, Trouble

\* WorkerState never holds a position the chain has not confirmed.
LEMMA MemoryTypeStep ==
  ASSUME TypeOK, Next
  PROVE  MemoryType'
<1>0. IsCall(call) BY DEF TypeOK, CallType
<1> USE TipNat DEF TypeOK, MemoryType, TableType, NetType, ReplayType
<1>1. CASE Confirm
  BY <1>1 DEF Confirm
<1>2. CASE FlushOk
  <2>1. persisted' = call.sig /\ UNCHANGED <<tip, cursor, counted>>
    BY <1>2 DEF FlushOk
  <2> QED BY <1>0, <2>1, CallFields
<1>3. CASE SaveOk
  <2>1. cursor' = call.sig /\ persisted' = call.sig /\ UNCHANGED tip
    BY <1>3 DEF SaveOk
  <2>2. counted' \in {counted, counted + 1}
    BY <1>3 DEF SaveOk
  <2> QED BY <1>0, <2>1, <2>2, CallFields
<1>4. CASE ReadCursor
  BY <1>4 DEF ReadCursor
<1>5. CASE ApplyOther
  BY <1>5 DEF ApplyOther
<1>6. CASE Receive
  BY <1>6 DEF Receive, Fault, NoFault, Handle
<1>7. CASE Exit
  BY <1>7 DEF Exit, Forget
<1>8. CASE Crash
  BY <1>8 DEF Crash, Forget
<1>9. CASE Start \/ Connect \/ FlushNothing \/ FlushBegin \/ HeartbeatWrite \/
    FirstListing \/ MissedItems \/ GapNotCovered \/ FetchChunk \/ ApplyLaunch \/
    ApplyBad \/ ChunkDone \/ ChunkPause \/ BackfillDone \/ CaughtUp \/ Fetched \/
    HeartbeatDue \/ Settle \/ WakeUp \/ OrphanEnds \/ AttemptFails \/ ConnectFails \/
    CallFails \/ ReceiveMalformed \/ StreamEnds \/ Cancel
  BY <1>9 DEF Start, Connect, FlushNothing, FlushBegin, HeartbeatWrite, FirstListing,
    MissedItems, GapNotCovered, FetchChunk, ApplyLaunch, ApplyBad, ChunkDone,
    ChunkPause, BackfillDone, CaughtUp, Fetched, HeartbeatDue, Settle, WakeUp,
    OrphanEnds, AttemptFails, ConnectFails, CallFails, ReceiveMalformed, StreamEnds,
    Cancel, Beat, FlushReturn, Fault, NoFault, Raise, Commit, FlushFails, OutsideTry
<1> QED BY <1>1, <1>2, <1>3, <1>4, <1>5, <1>6, <1>7, <1>8, <1>9 DEF Next, Work, Trouble

\* The locals of backfill stay inside the list that missed_items returned.
LEMMA ReplayTypeStep ==
  ASSUME TypeOK, Next
  PROVE  ReplayType'
<1> USE TipNat DEF TypeOK, ReplayType, MemoryType, Seen, ChunkEnd
<1>1. CASE Confirm
  BY <1>1, ConstantsAssumption DEF Confirm
<1>2. CASE Start
  BY <1>2, ConstantsAssumption DEF Start
<1>3. CASE MissedItems
  BY <1>3, ConstantsAssumption DEF MissedItems
<1>4. CASE FetchChunk
  BY <1>4, ConstantsAssumption DEF FetchChunk, Fault, NoFault
<1>5. CASE ApplyLaunch
  BY <1>5, ConstantsAssumption DEF ApplyLaunch
<1>6. CASE ApplyOther
  BY <1>6, ConstantsAssumption DEF ApplyOther
<1>7. CASE ChunkDone
  BY <1>7, ConstantsAssumption DEF ChunkDone
<1>8. CASE Exit
  BY <1>8, ConstantsAssumption DEF Exit, Forget
<1>9. CASE Crash
  BY <1>9, ConstantsAssumption DEF Crash, Forget
<1>10. CASE Connect \/ FlushNothing \/ FlushBegin \/ FlushOk \/ SaveOk \/ HeartbeatWrite
    \/ ReadCursor \/ FirstListing \/ GapNotCovered \/ ApplyBad \/ ChunkPause \/
    BackfillDone \/ CaughtUp \/ Receive \/ Fetched \/ HeartbeatDue \/ Settle \/ WakeUp
    \/ OrphanEnds \/ AttemptFails \/ ConnectFails \/ CallFails \/ ReceiveMalformed \/
    StreamEnds \/ Cancel
  BY <1>10 DEF Connect, FlushNothing, FlushBegin, FlushOk, SaveOk, HeartbeatWrite,
    ReadCursor, FirstListing, GapNotCovered, ApplyBad, ChunkPause, BackfillDone,
    CaughtUp, Receive, Fetched, HeartbeatDue, Settle, WakeUp, OrphanEnds, AttemptFails,
    ConnectFails, CallFails, ReceiveMalformed, StreamEnds, Cancel, Beat, FlushReturn,
    Commit, Fault, NoFault, Raise, Handle, FlushFails, OutsideTry
<1> QED BY <1>1, <1>2, <1>3, <1>4, <1>5, <1>6, <1>7, <1>8, <1>9, <1>10 DEF Next, Work,
    Trouble

\* Saves, awaited or abandoned, are of confirmed positions.
LEMMA CallTypeStep ==
  ASSUME TypeOK, Next
  PROVE  CallType'
<1> USE TipNat, CallsMade DEF TypeOK, CallType, IsCall
<1>1. CASE Confirm
  <2>1. tip' = tip + 1 /\ UNCHANGED <<call, orphan>> BY <1>1 DEF Confirm
  <2>2. \A n \in Nat : n <= tip => n <= tip + 1 BY TipNat
  <2>3. call.sig \in Nat /\ orphan.sig \in Nat BY DEF Calls, Positions
  <2> QED BY <2>1, <2>2, <2>3
<1>2. CASE FlushBegin
  BY <1>2 DEF FlushBegin, MemoryType
<1>3. CASE FlushOk
  BY <1>3 DEF FlushOk, Commit, FlushReturn
<1>4. CASE SaveOk
  BY <1>4 DEF SaveOk, Commit
<1>5. CASE FirstListing
  BY <1>5 DEF FirstListing, Seen
<1>6. CASE GapNotCovered
  BY <1>6 DEF GapNotCovered, Raise, Fault, NoFault
<1>7. CASE ApplyLaunch
  <2>1. lo \in 1 .. tip BY <1>7 DEF ApplyLaunch, ReplayType
  <2>2. UNCHANGED <<tip, orphan>> /\ call' = Save(lo, TRUE) BY <1>7 DEF ApplyLaunch
  <2> QED BY <2>1, <2>2
<1>8. CASE ApplyBad
  BY <1>8 DEF ApplyBad, Raise
<1>9. CASE Receive
  <2>1. PICK p \in 1 .. tip : Handle(p)
    BY <1>9 DEF Receive, NetType
  <2>2. UNCHANGED <<tip, orphan>>
    BY <1>9 DEF Receive
  <2>3. CASE UNCHANGED call
    BY <2>2, <2>3
  <2>4. CASE call' = Save(p, IsLaunch(p))
    <3>1. IsLaunch(p) \in BOOLEAN BY DEF IsLaunch
    <3>2. IsCall(Save(p, IsLaunch(p))) BY <3>1
    <3> QED BY <2>2, <2>4, <3>2
  <2> QED BY <2>1, <2>3, <2>4 DEF Handle
<1>10. CASE Exit
  BY <1>10 DEF Exit, Forget
<1>11. CASE OrphanEnds
  <2>1. UNCHANGED <<tip, call>> /\ orphan' = [orphan EXCEPT !.attempt = 0]
    BY <1>11 DEF OrphanEnds
  <2>2. IsCall([orphan EXCEPT !.attempt = 0]) BY CallsMade
  <2> QED BY <2>1, <2>2
<1>12. CASE AttemptFails
  <2>1. call' \in {NoCall, [call EXCEPT !.attempt = 2]}
    BY <1>12 DEF AttemptFails, Raise, FlushFails
  <2>2. UNCHANGED <<tip, orphan>>
    BY <1>12 DEF AttemptFails
  <2>3. IsCall(NoCall) /\ IsCall([call EXCEPT !.attempt = 2]) BY CallsMade
  <2> QED BY <2>1, <2>2, <2>3
<1>13. CASE CallFails
  BY <1>13 DEF CallFails, Raise, Fault
<1>14. CASE StreamEnds
  BY <1>14 DEF StreamEnds, Raise, Fault
<1>15. CASE Crash
  BY <1>15 DEF Crash, Forget
<1>16. CASE Cancel
  <2>1. UNCHANGED tip /\ call' = NoCall /\ orphan' \in {orphan, call}
    BY <1>16 DEF Cancel, Raise
  <2> QED BY <2>1
<1>17. CASE Start \/ Connect \/ FlushNothing \/ HeartbeatWrite \/ ReadCursor \/
    MissedItems \/ FetchChunk \/ ApplyOther \/ ChunkDone \/ ChunkPause \/ BackfillDone
    \/ CaughtUp \/ Fetched \/ HeartbeatDue \/ Settle \/ WakeUp \/ ConnectFails \/
    ReceiveMalformed
  BY <1>17 DEF Start, Connect, FlushNothing, HeartbeatWrite, ReadCursor, MissedItems,
    FetchChunk, ApplyOther, ChunkDone, ChunkPause, BackfillDone, CaughtUp, Fetched,
    HeartbeatDue, Settle, WakeUp, ConnectFails, ReceiveMalformed, Beat, FlushReturn,
    Fault, NoFault
<1> QED BY <1>1, <1>2, <1>3, <1>4, <1>5, <1>6, <1>7, <1>8, <1>9, <1>10, <1>11, <1>12,
    <1>13, <1>14, <1>15, <1>16, <1>17 DEF Next, Work, Trouble

\* Failures and kills stay within their bounds.
LEMMA BudgetTypeStep ==
  ASSUME TypeOK, Next
  PROVE  BudgetType'
<1> USE DEF TypeOK, BudgetType
<1>1. CASE HeartbeatWrite
  BY <1>1, ConstantsAssumption DEF HeartbeatWrite, Fault, NoFault
<1>2. CASE GapNotCovered
  BY <1>2, ConstantsAssumption DEF GapNotCovered, Raise, Fault, NoFault
<1>3. CASE FetchChunk
  BY <1>3, ConstantsAssumption DEF FetchChunk, Fault, NoFault
<1>4. CASE Receive
  BY <1>4, ConstantsAssumption DEF Receive, Fault, NoFault, Handle
<1>5. CASE OrphanEnds
  BY <1>5, ConstantsAssumption DEF OrphanEnds, Commit, Fault, NoFault
<1>6. CASE AttemptFails
  BY <1>6, ConstantsAssumption DEF AttemptFails, Commit, Raise, FlushFails, Fault,
    FlushReturn
<1>7. CASE ConnectFails
  BY <1>7, ConstantsAssumption DEF ConnectFails, Fault
<1>8. CASE CallFails
  BY <1>8, ConstantsAssumption DEF CallFails, Raise, Fault
<1>9. CASE ReceiveMalformed
  BY <1>9, ConstantsAssumption DEF ReceiveMalformed, Fault
<1>10. CASE StreamEnds
  BY <1>10, ConstantsAssumption DEF StreamEnds, Raise, Fault
<1>11. CASE Crash
  BY <1>11, ConstantsAssumption DEF Crash, Forget
<1>12. CASE Cancel
  BY <1>12, ConstantsAssumption DEF Cancel, Raise, OutsideTry
<1>13. CASE Confirm \/ Start \/ Connect \/ FlushNothing \/ FlushBegin \/ FlushOk \/
    SaveOk \/ ReadCursor \/ FirstListing \/ MissedItems \/ ApplyLaunch \/ ApplyOther \/
    ApplyBad \/ ChunkDone \/ ChunkPause \/ BackfillDone \/ CaughtUp \/ Fetched \/
    HeartbeatDue \/ Settle \/ WakeUp \/ Exit
  BY <1>13 DEF Confirm, Start, Connect, FlushNothing, FlushBegin, FlushOk, SaveOk,
    ReadCursor, FirstListing, MissedItems, ApplyLaunch, ApplyOther, ApplyBad, ChunkDone,
    ChunkPause, BackfillDone, CaughtUp, Fetched, HeartbeatDue, Settle, WakeUp, Exit,
    Beat, FlushReturn, Commit, Raise, Forget
<1> QED BY <1>1, <1>2, <1>3, <1>4, <1>5, <1>6, <1>7, <1>8, <1>9, <1>10, <1>11, <1>12,
    <1>13 DEF Next, Work, Trouble

\* TypeOK is inductive.
LEMMA TypeStep ==
  ASSUME TypeOK, [Next]_vars
  PROVE  TypeOK'
<1>1. CASE Next
  BY <1>1, ChainTypeStep, NetTypeStep, TableTypeStep, ControlTypeStep, MemoryTypeStep,
     ReplayTypeStep, CallTypeStep, BudgetTypeStep DEF TypeOK
<1>2. CASE UNCHANGED vars
  BY <1>2 DEF vars, TypeOK, ChainType, NetType, TableType, ControlType, MemoryType,
     ReplayType, CallType, IsCall, BudgetType
<1> QED BY <1>1, <1>2

\* A first start on empty tables has the types.
LEMMA TypeInit == Init => TypeOK
<1> SUFFICES ASSUME Init PROVE TypeOK
  OBVIOUS
<1>0. InitTip \in Nat /\ tip = InitTip /\ tip \in 0 .. MaxTx
  BY ConstantsAssumption DEF Init
<1>1. ChainType
  BY <1>0 DEF Init, ChainType, Positions
<1>5. 0 \in 0 .. tip
  BY <1>0
<1>6. NetType
  BY DEF Init, NetType
<1>7. TableType
  BY <1>5 DEF Init, TableType
<1>8. MemoryType
  BY <1>5 DEF Init, MemoryType
<1>2. ControlType
  BY DEF Init, ControlType, PCs, Awaiting, Statuses
<1>3. ReplayType /\ BudgetType
  BY ConstantsAssumption DEF Init, ReplayType, BudgetType
<1>4. CallType
  BY ConstantsAssumption DEF Init, CallType, IsCall, Calls, NoCall, Positions
<1> QED BY <1>1, <1>2, <1>3, <1>4, <1>6, <1>7, <1>8 DEF TypeOK

\* The watcher's variables keep their types, however many transactions, failures and
\* crashes there are.
THEOREM TypeCorrect == Spec => []TypeOK
BY TypeInit, TypeStep, PTL DEF Spec

-----------------------------------------------------------------------------
(* What the actions do to the set of missing launches *)

\* Only the chain and the tables decide what is missing.
LEMMA MissingKept ==
  ASSUME UNCHANGED <<chain, tables>>
  PROVE  Missing' = Missing
BY DEF Missing, Launches, IsLaunch

\* A missing launch is a confirmed one, after the first cursor.
LEMMA MissingPositive ==
  ASSUME TypeOK, NEW q \in Missing
  PROVE  q \in 1 .. tip /\ 0 < q /\ IsLaunch(q) /\ base # 0 /\ q \notin dbLaunches
BY TipNat DEF Missing, Launches

\* A confirmation adds at most the transaction confirmed.
LEMMA MissingConfirm ==
  ASSUME TypeOK, Confirm, NEW q \in Missing'
  PROVE  q \in Missing \/ q = tip + 1
BY TipNat DEF Missing, Launches, IsLaunch, Confirm

\* A save when a cursor exists only takes launches out of the set.
LEMMA MissingCommit ==
  ASSUME TypeOK, NEW c, Commit(c), UNCHANGED chain, base # 0, NEW q \in Missing'
  PROVE  q \in Missing /\ ~(c.launch /\ c.sig = q)
BY DEF Missing, Launches, IsLaunch, Commit

\* The first save ever defines where the promise begins.
LEMMA MissingFounded ==
  ASSUME TypeOK, NEW c, IsCall(c), Commit(c), UNCHANGED chain, base = 0,
         NEW q \in Missing'
  PROVE  q \in (c.sig + 1) .. tip /\ c.sig < q
<1>1. q \in 1 .. tip /\ c.sig < q
  BY DEF Missing, Launches, Commit
<1>2. c.sig \in Nat
  BY CallFields, TipNat
<1> QED BY <1>1, <1>2, TipNat

-----------------------------------------------------------------------------
(* The conjuncts of IInv, one lemma each *)

\* Each action leaves the control state, the call and the abandoned save consistent.
LEMMA ControlStep ==
  ASSUME TypeOK, ControlSafe, Next
  PROVE  ControlSafe'
<1> USE DEF ControlSafe, Connected, Founding, Streaming, Replaying, At
<1>1. CASE Confirm
    BY <1>1 DEF Confirm
<1>2. CASE Start
    BY <1>2 DEF Start
<1>3. CASE Connect
    BY <1>3 DEF Connect, Beat
<1>4. CASE FlushNothing
    BY <1>4 DEF FlushNothing, FlushReturn
<1>5. CASE FlushBegin
    BY <1>5 DEF FlushBegin, Save, NoCall
<1>6. CASE FlushOk
    BY <1>6 DEF FlushOk, Commit, FlushReturn, NoCall
<1>7. CASE SaveOk
    BY <1>7 DEF SaveOk, Commit, NoCall
<1>8. CASE HeartbeatWrite
    BY <1>8 DEF HeartbeatWrite, Fault, NoFault
<1>9. CASE ReadCursor
    BY <1>9 DEF ReadCursor
<1>10. CASE FirstListing
    BY <1>10 DEF FirstListing, Save, NoCall
<1>11. CASE MissedItems
    BY <1>11 DEF MissedItems
<1>12. CASE GapNotCovered
    BY <1>12 DEF GapNotCovered, Raise, Fault, NoFault, NoCall
<1>13. CASE FetchChunk
    BY <1>13 DEF FetchChunk, Fault, NoFault
<1>14. CASE ApplyLaunch
    <2>1. lo # 0
    BY TipNat DEF TypeOK, ReplayType
  <2> QED BY <1>14, <2>1 DEF ApplyLaunch, Save, NoCall
<1>15. CASE ApplyOther
    BY <1>15 DEF ApplyOther
<1>16. CASE ApplyBad
    BY <1>16 DEF ApplyBad, Raise, NoCall
<1>17. CASE ChunkDone
    BY <1>17 DEF ChunkDone
<1>18. CASE ChunkPause
    BY <1>18 DEF ChunkPause, Beat
<1>19. CASE BackfillDone
    BY <1>19 DEF BackfillDone
<1>20. CASE CaughtUp
    BY <1>20 DEF CaughtUp, Beat
<1>21. CASE Receive
    <2>1. PICK p \in inflight : Handle(p)
    BY <1>21 DEF Receive
  <2>2. p # 0
    BY TipNat DEF TypeOK, NetType
  <2>3. pc = "stream" /\ UNCHANGED <<open, after, beating, orphan, stopping>>
    BY <1>21 DEF Receive
  <2> QED BY <2>1, <2>2, <2>3 DEF Handle, Save, NoCall
<1>22. CASE Fetched
    BY <1>22 DEF Fetched
<1>23. CASE HeartbeatDue
    BY <1>23 DEF HeartbeatDue, Beat
<1>24. CASE Settle
    BY <1>24 DEF Settle, Beat
<1>25. CASE WakeUp
    BY <1>25 DEF WakeUp
<1>26. CASE Exit
    BY <1>26 DEF Exit, Forget, NoCall
<1>27. CASE OrphanEnds
    <2>1. orphan \in Calls
    BY DEF TypeOK, CallType, IsCall
  <2>2. orphan # NoCall /\ orphan'.sig = orphan.sig
    BY <1>27, <2>1 DEF OrphanEnds, Calls, NoCall
  <2>3. UNCHANGED <<control, open, call, cursor, stopping>>
    BY <1>27 DEF OrphanEnds
  <2> QED BY <2>2, <2>3
<1>28. CASE AttemptFails
    <2>1. UNCHANGED <<cursor, orphan, stopping>> /\ pc \in {"saving", "flushing"}
    BY <1>28 DEF AttemptFails
  <2>2. CASE call' = [call EXCEPT !.attempt = 2] /\ UNCHANGED <<net, control>>
    <3>1. call \in Calls
      BY DEF TypeOK, CallType, IsCall
    <3>2. call'.attempt = 2 /\ call'.sig = call.sig /\ call'.launch = call.launch
      BY <2>2, <3>1 DEF Calls
    <3> QED BY <2>1, <2>2, <3>2
  <2>3. CASE Raise("settle")
    BY <2>1, <2>3 DEF Raise
  <2>4. CASE FlushFails /\ pc = "flushing"
    BY <2>1, <2>4 DEF FlushFails, FlushReturn, Raise
  <2> QED BY <1>28, <2>2, <2>3, <2>4 DEF AttemptFails
<1>29. CASE ConnectFails
    BY <1>29 DEF ConnectFails, Fault
<1>30. CASE CallFails
    BY <1>30 DEF CallFails, Raise, Fault, NoCall
<1>31. CASE ReceiveMalformed
    BY <1>31 DEF ReceiveMalformed, Fault
<1>32. CASE StreamEnds
    BY <1>32 DEF StreamEnds, Raise, Fault, NoCall
<1>33. CASE Crash
    BY <1>33 DEF Crash, Forget, NoCall
<1>34. CASE Cancel
    BY <1>34 DEF Cancel, Raise, OutsideTry, NoCall
<1> QED BY <1>1, <1>2, <1>3, <1>4, <1>5, <1>6, <1>7, <1>8, <1>9, <1>10, <1>11, <1>12,
    <1>13, <1>14, <1>15, <1>16, <1>17, <1>18, <1>19, <1>20, <1>21, <1>22, <1>23, <1>24,
    <1>25, <1>26, <1>27, <1>28, <1>29, <1>30, <1>31, <1>32, <1>33, <1>34 DEF Next, Work,
    Trouble

\* What is saved as a launch is one.
LEMMA SavesRealStep ==
  ASSUME TypeOK, SavesReal, Next
  PROVE  SavesReal'
<1>a. UNCHANGED kind
  BY DEF Next, Work, Trouble, Confirm, Start, Connect, FlushNothing, FlushBegin, FlushOk,
     SaveOk, HeartbeatWrite, ReadCursor, FirstListing, MissedItems, GapNotCovered,
     FetchChunk, ApplyLaunch, ApplyOther, ApplyBad, ChunkDone, ChunkPause, BackfillDone,
     CaughtUp, Receive, Fetched, HeartbeatDue, Settle, WakeUp, Exit, OrphanEnds,
     AttemptFails, ConnectFails, CallFails, ReceiveMalformed, StreamEnds, Crash, Cancel
<1>b. \A q : IsLaunch(q)' <=> IsLaunch(q)
  BY <1>a DEF IsLaunch
<1>c. ASSUME \/ call' \in {call, NoCall} \/ ~call'.launch
             \/ call'.launch = call.launch /\ call'.sig = call.sig,
             \/ orphan' \in {orphan, NoCall, call}
             \/ orphan'.launch = orphan.launch /\ orphan'.sig = orphan.sig
      PROVE  SavesReal'
  BY <1>a, <1>c DEF SavesReal, IsLaunch, NoCall
<1>1. CASE ApplyLaunch
  BY <1>1, <1>a DEF ApplyLaunch, SavesReal, Save, IsLaunch
<1>2. CASE Receive
  <2>1. PICK p \in inflight : Handle(p)
    BY <1>2 DEF Receive
  <2>2. UNCHANGED orphan
    BY <1>2 DEF Receive
  <2>3. CASE Skipped(p)
    BY <1>c, <2>1, <2>2, <2>3 DEF Handle
  <2>4. CASE ~Skipped(p)
    <3>1. call' = Save(p, IsLaunch(p))
      BY <2>1, <2>4 DEF Handle
    <3>2. call'.sig = p /\ call'.launch = IsLaunch(p)
      BY <3>1 DEF Save
    <3>3. call'.launch => IsLaunch(call'.sig)
      BY <3>2
    <3> QED BY <1>b, <2>2, <3>3, <1>a DEF SavesReal, IsLaunch
  <2> QED BY <2>3, <2>4
<1>3. CASE FlushBegin \/ FirstListing
  BY <1>3, <1>c DEF FlushBegin, FirstListing, Save
<1>4. CASE AttemptFails
  <2>1. \/ call' = NoCall
        \/ call'.launch = call.launch /\ call'.sig = call.sig
    BY <1>4 DEF AttemptFails, Raise, FlushFails, TypeOK, CallType, IsCall, Calls
  <2> QED BY <1>4, <1>c, <2>1 DEF AttemptFails
<1>5. CASE OrphanEnds
  <2>1. orphan'.launch = orphan.launch /\ orphan'.sig = orphan.sig /\ UNCHANGED call
    BY <1>5 DEF OrphanEnds, TypeOK, CallType, IsCall, Calls
  <2> QED BY <1>c, <2>1
<1>6. CASE \/ Confirm \/ Start \/ Connect \/ FlushNothing \/ FlushOk \/ SaveOk
           \/ HeartbeatWrite \/ ReadCursor \/ MissedItems \/ GapNotCovered \/ FetchChunk
           \/ ApplyOther \/ ApplyBad \/ ChunkDone \/ ChunkPause \/ BackfillDone
           \/ CaughtUp \/ Fetched \/ HeartbeatDue \/ Settle \/ WakeUp \/ Exit
           \/ ConnectFails \/ CallFails \/ ReceiveMalformed \/ StreamEnds \/ Crash
           \/ Cancel
  <2>1. call' \in {call, NoCall} /\ orphan' \in {orphan, NoCall, call}
    BY <1>6 DEF Confirm, Start, Connect, FlushNothing, FlushOk, SaveOk, HeartbeatWrite,
       ReadCursor, MissedItems, GapNotCovered, FetchChunk, ApplyOther, ApplyBad,
       ChunkDone, ChunkPause, BackfillDone, CaughtUp, Fetched, HeartbeatDue, Settle,
       WakeUp, Exit, ConnectFails, CallFails, ReceiveMalformed, StreamEnds, Crash, Cancel,
       Raise, Forget
  <2> QED BY <1>c, <2>1
<1> QED BY <1>1, <1>2, <1>3, <1>4, <1>5, <1>6 DEF Next, Work, Trouble

\* Before and while the first cursor is written.
LEMMA FoundingStep ==
  ASSUME TypeOK, ControlSafe, FoundingSafe, Next, ReliableProvider
  PROVE  FoundingSafe'
<1> USE DEF FoundingSafe, Founding, Replaying, Streaming, At
<1>1. CASE Confirm
    <2>1. tip \in Nat /\ tip' = tip + 1 /\ tip' # 0
    BY <1>1, TipNat DEF Confirm
  <2>2. Founding => inflight' = inflight \cup {tip + 1}
    BY <1>1 DEF Confirm, ControlSafe, Connected
  <2>3. call.sig \in Nat
    BY CallFields, TipNat DEF TypeOK, CallType
  <2>4. \A q \in (call.sig + 1) .. (tip + 1) : q \in (call.sig + 1) .. tip \/ q = tip + 1
    BY <2>1, <2>3
  <2>5. UNCHANGED <<base, dbCursor, cursor, persisted, pc, after, call>>
    BY <1>1 DEF Confirm
  <2> QED BY <2>1, <2>2, <2>4, <2>5
<1>2. CASE Start
    BY <1>2 DEF Start
<1>3. CASE Connect
    BY <1>3 DEF Connect, Beat
<1>4. CASE FlushNothing
    BY <1>4 DEF FlushNothing, FlushReturn, ControlSafe
<1>5. CASE FlushBegin
    BY <1>5 DEF FlushBegin, Save, NoCall
<1>6. CASE FlushOk
    <2>1. base # 0 /\ call.sig # 0
    BY <1>6 DEF FlushOk, ControlSafe
  <2>2. base' = base /\ dbCursor' = call.sig /\ UNCHANGED tip
    BY <1>6, <2>1 DEF FlushOk, Commit
  <2>3. pc' # "firstListing" /\ ~Founding'
    BY <1>6 DEF FlushOk, FlushReturn, ControlSafe
  <2> QED BY <2>1, <2>2, <2>3
<1>7. CASE SaveOk
    <2>1. call.sig # 0 /\ after \in {"caughtUp", "apply", "stream"}
    BY <1>7 DEF SaveOk, ControlSafe
  <2>2. base' # 0 /\ dbCursor' # 0 /\ UNCHANGED tip
    BY <1>7, <2>1 DEF SaveOk, Commit
  <2>3. pc' # "firstListing" /\ ~Founding'
    BY <1>7, <2>1 DEF SaveOk
  <2> QED BY <2>2, <2>3
<1>8. CASE HeartbeatWrite
    BY <1>8 DEF HeartbeatWrite, ControlSafe
<1>9. CASE ReadCursor
    BY <1>9 DEF ReadCursor
<1>10. CASE FirstListing
    <2>1. PICK v \in Seen(FirstLag) :
               IF v = 0
               THEN pc' = "caughtUp" /\ UNCHANGED <<after, call>>
               ELSE pc' = "saving" /\ after' = "caughtUp" /\ call' = Save(v, FALSE)
    BY <1>10 DEF FirstListing
  <2>2. v = tip
    BY TipNat DEF Seen, ReliableProvider
  <2>3. pc' = "saving" /\ after' = "caughtUp" /\ call' = Save(tip, FALSE)
    BY <2>1, <2>2
  <2>4. base = 0 /\ UNCHANGED <<tip, inflight, base, dbCursor, cursor, persisted>>
    BY <1>10 DEF FirstListing
  <2>5. (tip + 1) .. tip = {}
    BY TipNat
  <2> QED BY <2>3, <2>4, <2>5 DEF Save
<1>11. CASE MissedItems
    BY <1>11 DEF MissedItems
<1>12. CASE GapNotCovered
    BY <1>12 DEF GapNotCovered, Raise, Fault, NoFault, NoCall
<1>13. CASE FetchChunk
    BY <1>13 DEF FetchChunk, Fault, NoFault
<1>14. CASE ApplyLaunch
    BY <1>14 DEF ApplyLaunch, Save, NoCall
<1>15. CASE ApplyOther
    BY <1>15 DEF ApplyOther
<1>16. CASE ApplyBad
    BY <1>16 DEF ApplyBad, Raise, NoCall
<1>17. CASE ChunkDone
    BY <1>17 DEF ChunkDone
<1>18. CASE ChunkPause
    BY <1>18 DEF ChunkPause, Beat
<1>19. CASE BackfillDone
    BY <1>19 DEF BackfillDone
<1>20. CASE CaughtUp
    BY <1>20 DEF CaughtUp, Beat
<1>21. CASE Receive
    BY <1>21 DEF Receive, Fault, NoFault, Handle, NoCall
<1>22. CASE Fetched
    BY <1>22 DEF Fetched
<1>23. CASE HeartbeatDue
    BY <1>23 DEF HeartbeatDue, Beat
<1>24. CASE Settle
    BY <1>24 DEF Settle, Beat
<1>25. CASE WakeUp
    BY <1>25 DEF WakeUp
<1>26. CASE Exit
    BY <1>26 DEF Exit, Forget, NoCall
<1>27. CASE OrphanEnds
    <2>1. orphan.sig # 0 /\ At({"settle", "blocked", "exit"})
    BY <1>27 DEF OrphanEnds, ControlSafe, NoCall
  <2>2. UNCHANGED <<tip, cursor, persisted, pc, after, call, inflight>>
    BY <1>27 DEF OrphanEnds
  <2>3. ~Founding /\ ~Replaying /\ ~Streaming /\ pc # "firstListing" /\ pc # "listing"
    BY <2>1
  <2>4. UNCHANGED tables \/ (base' # 0 /\ dbCursor' # 0)
    BY <1>27, <2>1 DEF OrphanEnds, Commit
  <2> QED BY <2>2, <2>3, <2>4
<1>28. CASE AttemptFails
    <2>1. pc \in {"saving", "flushing"} /\ call.sig # 0
        /\ UNCHANGED <<tip, cursor, persisted>>
    BY <1>28 DEF AttemptFails, ControlSafe
  <2>2. UNCHANGED tables \/ (base' # 0 /\ dbCursor' = call.sig
                            /\ base' = IF base = 0 THEN call.sig ELSE base)
    BY <1>28, <2>1 DEF AttemptFails, Commit
  <2>3. CASE call' = [call EXCEPT !.attempt = 2] /\ UNCHANGED <<net, control>>
    <3>1. call'.sig = call.sig /\ call'.launch = call.launch
      BY <2>3 DEF TypeOK, CallType, IsCall, Calls
    <3> QED BY <2>1, <2>2, <2>3, <3>1
  <2>4. CASE Raise("settle")
    BY <2>1, <2>2, <2>4 DEF Raise
  <2>5. CASE FlushFails /\ pc = "flushing"
    <3>1. base # 0
      BY <2>1, <2>5 DEF ControlSafe
    <3>2. pc' # "firstListing" /\ ~Founding'
      BY <2>5 DEF FlushFails, FlushReturn, Raise, ControlSafe
    <3> QED BY <2>1, <2>2, <3>1, <3>2
  <2> QED BY <1>28, <2>3, <2>4, <2>5 DEF AttemptFails
<1>29. CASE ConnectFails
    BY <1>29 DEF ConnectFails, Fault
<1>30. CASE CallFails
    BY <1>30 DEF CallFails, Raise, Fault, NoCall
<1>31. CASE ReceiveMalformed
    BY <1>31 DEF ReceiveMalformed, Fault
<1>32. CASE StreamEnds
    BY <1>32 DEF StreamEnds, Raise, Fault, NoCall
<1>33. CASE Crash
    BY <1>33 DEF Crash, Forget, NoCall
<1>34. CASE Cancel
    BY <1>34 DEF Cancel, Raise, OutsideTry, NoCall
<1> QED BY <1>1, <1>2, <1>3, <1>4, <1>5, <1>6, <1>7, <1>8, <1>9, <1>10, <1>11, <1>12,
    <1>13, <1>14, <1>15, <1>16, <1>17, <1>18, <1>19, <1>20, <1>21, <1>22, <1>23, <1>24,
    <1>25, <1>26, <1>27, <1>28, <1>29, <1>30, <1>31, <1>32, <1>33, <1>34 DEF Next, Work,
    Trouble

\* No save, and a save of what is not past a missing launch, are harmless.
LEMMA SafeCalls ==
  ASSUME TypeOK
  PROVE  /\ SafeSave(NoCall)
         /\ \A s : (\A q \in Missing : s < q) => SafeSave(Save(s, FALSE))
BY MissingPositive DEF SafeSave, NoCall, Save

\* Without a cursor there is at most one save under way, the first one.
LEMMA EmptyStore ==
  ASSUME TypeOK, ControlSafe, FoundingSafe, base = 0
  PROVE  /\ cursor = 0 /\ persisted = 0 /\ pc # "flushing" /\ pc # "stream" /\ pc # "fetch"
         /\ pc = "saving" => orphan = NoCall
         /\ orphan # NoCall => call = NoCall
BY DEF ControlSafe, FoundingSafe, Streaming, Replaying, At

\* A committed save leaves every cursor and every other save safe.
LEMMA CommitSafe ==
  ASSUME TypeOK, ControlSafe, FoundingSafe, CursorsSafe,
         NEW c, IsCall(c), SafeSave(c), Commit(c), UNCHANGED chain,
         NEW q \in Missing'
  PROVE  /\ c.sig < q /\ cursor < q /\ persisted < q /\ dbCursor' < q
         /\ base # 0 => q \in Missing
<1>1. CASE base # 0
  <2>1. q \in Missing /\ ~(c.launch /\ c.sig = q)
    BY <1>1, MissingCommit
  <2> QED BY <1>1, <2>1 DEF CursorsSafe, SafeSave, Commit
<1>2. CASE base = 0
  <2>1. c.sig < q
    BY <1>2, MissingFounded
  <2>2. cursor = 0 /\ persisted = 0
    BY <1>2, EmptyStore
  <2>3. 0 < q
    BY <1>2, MissingFounded, CallFields, TipNat
  <2> QED BY <1>2, <2>1, <2>2, <2>3 DEF Commit
<1> QED BY <1>1, <1>2

\* No step moves a cursor, in memory or in the table, past a missing launch.
LEMMA CursorsStep ==
  ASSUME TypeOK, ControlSafe, FoundingSafe, CursorsSafe, ReplayCovers, StreamCovers, Next,
         ReliableProvider
  PROVE  CursorsSafe'
<1>a. IsCall(call) /\ IsCall(orphan) /\ SafeSave(call) /\ SafeSave(orphan)
  BY DEF TypeOK, CallType, CursorsSafe
<1>b. ASSUME UNCHANGED <<chain, tables>> PROVE Missing' = Missing
  BY <1>b, MissingKept
<1>c. SafeSave(NoCall)
  BY SafeCalls
<1>d. ASSUME UNCHANGED <<chain, tables, cursor, persisted, orphan>>, SafeSave(call')
      PROVE  CursorsSafe'
  BY <1>b, <1>d DEF CursorsSafe, SafeSave
<1>e. ASSUME UNCHANGED <<chain, tables, cursor, persisted, orphan>>, call' \in {call, NoCall}
      PROVE  CursorsSafe'
  BY <1>a, <1>c, <1>d, <1>e
<1>1. CASE Confirm
  <2>1. UNCHANGED <<dbCursor, cursor, persisted, call, orphan>>
    BY <1>1 DEF Confirm
  <2>2. /\ dbCursor < tip + 1 /\ cursor < tip + 1 /\ persisted < tip + 1
        /\ call.sig < tip + 1 /\ orphan.sig < tip + 1
    BY <1>a, CallFields, TipNat DEF TypeOK, TableType, MemoryType
  <2>3. \A q \in Missing' : q \in Missing \/ q = tip + 1
    BY <1>1, MissingConfirm
  <2> QED BY <2>1, <2>2, <2>3 DEF CursorsSafe, SafeSave
<1>2. CASE FlushBegin
  <2>1. SafeSave(Save(cursor, FALSE))
    BY SafeCalls DEF CursorsSafe
  <2> QED BY <1>2, <1>d, <2>1 DEF FlushBegin
<1>3. CASE FlushOk
  <2>1. /\ Commit(call) /\ UNCHANGED <<chain, cursor, orphan>>
        /\ persisted' = call.sig /\ call' = NoCall /\ base # 0
    BY <1>3, EmptyStore DEF FlushOk
  <2>2. \A q \in Missing' : call.sig < q /\ cursor < q /\ dbCursor' < q /\ q \in Missing
    BY <1>a, <2>1, CommitSafe
  <2>3. SafeSave(call)'
    BY <1>c, <2>1, <2>2 DEF SafeSave
  <2>4. SafeSave(orphan)'
    BY <1>a, <2>1, <2>2 DEF SafeSave
  <2> QED BY <2>1, <2>2, <2>3, <2>4 DEF CursorsSafe
<1>4. CASE SaveOk
  <2>1. /\ Commit(call) /\ UNCHANGED <<chain, orphan>> /\ pc = "saving"
        /\ cursor' = call.sig /\ persisted' = call.sig /\ call' = NoCall
    BY <1>4 DEF SaveOk
  <2>2. \A q \in Missing' : call.sig < q /\ dbCursor' < q /\ (base # 0 => q \in Missing)
    BY <1>a, <2>1, CommitSafe
  <2>3. \A q \in Missing' : 0 < q
    BY <1>a, <2>2, CallFields, TipNat, MissingPositive, <2>1, MissingFounded
  <2>4. SafeSave(call)'
    BY <2>1, <2>3 DEF SafeSave, NoCall
  <2>5. orphan = NoCall \/ base # 0
    BY <2>1, EmptyStore
  <2>6. SafeSave(orphan)'
    BY <1>a, <2>1, <2>2, <2>3, <2>5 DEF SafeSave, NoCall
  <2> QED BY <2>1, <2>2, <2>4, <2>6 DEF CursorsSafe
<1>5. CASE ReadCursor
  <2>1. UNCHANGED <<chain, tables, call, orphan>>
    BY <1>5 DEF ReadCursor
  <2>2. (cursor' = cursor /\ persisted' = persisted)
        \/ (cursor' = dbCursor /\ persisted' = dbCursor)
    BY <1>5 DEF ReadCursor
  <2> QED BY <1>a, <1>b, <2>1, <2>2 DEF CursorsSafe, SafeSave
<1>6. CASE FirstListing
  <2>1. base = 0
    BY <1>6 DEF FirstListing, FoundingSafe
  <2>2. Missing = {}
    BY <2>1 DEF Missing
  <2>3. SafeSave(call')
    BY <2>2 DEF SafeSave
  <2> QED BY <1>6, <1>d, <2>3 DEF FirstListing
<1>7. CASE ApplyLaunch
  <2>1. \A q \in Missing : lo <= q
    BY <1>7 DEF ApplyLaunch, ReplayCovers, Replaying, InHand
  <2>2. \A q \in Missing : lo < q \/ lo = q
    BY <2>1, MissingPositive, TipNat DEF TypeOK, ReplayType
  <2>3. SafeSave(Save(lo, TRUE))
    BY <2>2 DEF SafeSave, Save
  <2> QED BY <1>7, <1>d, <2>3 DEF ApplyLaunch
<1>8. CASE ApplyOther
  <2>1. \A q \in Missing : lo <= q /\ lo # q
    BY <1>8, MissingPositive DEF ApplyOther, ReplayCovers, Replaying, InHand
  <2>2. \A q \in Missing : lo < q
    BY <2>1, MissingPositive, TipNat DEF TypeOK, ReplayType
  <2>3. UNCHANGED <<chain, tables, persisted, call, orphan>> /\ cursor' = lo
    BY <1>8 DEF ApplyOther
  <2> QED BY <1>a, <1>b, <2>2, <2>3 DEF CursorsSafe, SafeSave
<1>9. CASE Receive
  <2>1. PICK p \in inflight : Deliverable(p) /\ Handle(p)
    BY <1>9 DEF Receive
  <2>2. pc = "stream" /\ UNCHANGED <<chain, tables, persisted, orphan>>
    BY <1>9 DEF Receive
  <2>3. Missing \subseteq inflight
    BY <2>2 DEF StreamCovers, Streaming, At, InHand
  <2>4. \A q \in Missing : p < q \/ p = q
    BY <2>1, <2>3, TipNat DEF Deliverable, ReliableProvider, TypeOK, NetType
  <2>5. CASE Skipped(p)
    <3>1. \A q \in Missing : p < q
      BY <2>4, <2>5, MissingPositive DEF Skipped, IsLaunch
    <3>2. cursor' = p /\ UNCHANGED call
      BY <2>1, <2>5 DEF Handle
    <3> QED BY <1>a, <1>b, <2>2, <3>1, <3>2 DEF CursorsSafe, SafeSave
  <2>6. CASE ~Skipped(p)
    <3>1. call' = Save(p, IsLaunch(p)) /\ UNCHANGED cursor
      BY <2>1, <2>6 DEF Handle
    <3>2. \A q \in Missing : p < q \/ (IsLaunch(p) /\ p = q)
      BY <2>4, MissingPositive
    <3>3. SafeSave(call')
      BY <3>1, <3>2 DEF SafeSave, Save
    <3> QED BY <1>d, <2>2, <3>1, <3>3
  <2> QED BY <2>5, <2>6
<1>10. CASE ReceiveMalformed
  BY <1>10 DEF ReceiveMalformed, ReliableProvider
<1>11. CASE Exit \/ Crash
  <2>1. /\ UNCHANGED <<chain, tables>> /\ cursor' = 0 /\ persisted' = 0
        /\ call' = NoCall /\ orphan' = NoCall
    BY <1>11 DEF Exit, Crash, Forget
  <2>2. \A q \in Missing : 0 < q
    BY MissingPositive
  <2> QED BY <1>b, <1>c, <2>1, <2>2 DEF CursorsSafe, SafeSave
<1>12. CASE Cancel
  <2>1. /\ UNCHANGED <<chain, tables, cursor, persisted>>
        /\ call' = NoCall /\ orphan' \in {orphan, call}
    BY <1>12 DEF Cancel, Raise
  <2> QED BY <1>a, <1>b, <1>c, <2>1 DEF CursorsSafe, SafeSave
<1>13. CASE OrphanEnds
  <2>1. /\ UNCHANGED <<chain, cursor, persisted, call>> /\ orphan # NoCall
        /\ orphan'.sig = orphan.sig /\ orphan'.launch = orphan.launch
    BY <1>13, <1>a DEF OrphanEnds, NoCall, IsCall, Calls
  <2>2. CASE UNCHANGED tables
    BY <1>a, <1>b, <2>1, <2>2 DEF CursorsSafe, SafeSave
  <2>3. CASE Commit(orphan)
    <3>1. \A q \in Missing' : /\ orphan.sig < q /\ cursor < q /\ persisted < q
                              /\ dbCursor' < q /\ (base # 0 => q \in Missing)
      BY <1>a, <2>1, <2>3, CommitSafe
    <3>2. base # 0 \/ call = NoCall
      BY <2>1, EmptyStore
    <3>3. \A q \in Missing' : 0 < q
      BY <1>a, <2>1, <2>3, <3>1, CallFields, TipNat, MissingPositive, MissingFounded
    <3>4. SafeSave(call)'
      BY <1>a, <2>1, <3>1, <3>2, <3>3 DEF SafeSave, NoCall
    <3> QED BY <2>1, <3>1, <3>4 DEF CursorsSafe, SafeSave
  <2> QED BY <1>13, <2>2, <2>3 DEF OrphanEnds
<1>14. CASE AttemptFails
  <2>1. UNCHANGED <<chain, cursor, persisted, orphan>> /\ pc \in {"saving", "flushing"}
    BY <1>14 DEF AttemptFails
  <2>2. \/ call' = NoCall
        \/ call'.sig = call.sig /\ call'.launch = call.launch
    BY <1>14, <1>a DEF AttemptFails, Raise, FlushFails, IsCall, Calls
  <2>3. CASE UNCHANGED tables
    BY <1>a, <1>b, <1>c, <2>1, <2>2, <2>3 DEF CursorsSafe, SafeSave
  <2>4. CASE Commit(call)
    <3>1. \A q \in Missing' : /\ call.sig < q /\ cursor < q /\ persisted < q
                              /\ dbCursor' < q /\ (base # 0 => q \in Missing)
      BY <1>a, <2>1, <2>4, CommitSafe
    <3>2. base # 0 \/ orphan = NoCall
      BY <2>1, EmptyStore
    <3>3. \A q \in Missing' : 0 < q
      BY <1>a, <2>1, <2>4, <3>1, CallFields, TipNat, MissingPositive, MissingFounded
    <3>4. SafeSave(orphan)'
      BY <1>a, <2>1, <3>1, <3>2, <3>3 DEF SafeSave, NoCall
    <3>5. SafeSave(call)'
      BY <2>2, <3>1, <3>3 DEF SafeSave, NoCall
    <3> QED BY <2>1, <3>1, <3>4, <3>5 DEF CursorsSafe
  <2> QED BY <1>14, <2>3, <2>4 DEF AttemptFails
<1>15. CASE GapNotCovered \/ CallFails \/ ApplyBad \/ StreamEnds
  BY <1>15, <1>e DEF GapNotCovered, CallFails, ApplyBad, StreamEnds, Raise
<1>16. CASE \/ Start \/ Connect \/ FlushNothing \/ HeartbeatWrite \/ MissedItems
            \/ FetchChunk \/ ChunkDone \/ ChunkPause \/ BackfillDone \/ CaughtUp
            \/ Fetched \/ HeartbeatDue \/ Settle \/ WakeUp \/ ConnectFails
  BY <1>16, <1>e DEF Start, Connect, FlushNothing, HeartbeatWrite, MissedItems,
     FetchChunk, ChunkDone, ChunkPause, BackfillDone, CaughtUp, Fetched, HeartbeatDue,
     Settle, WakeUp, ConnectFails
<1> QED
  BY <1>1, <1>2, <1>3, <1>4, <1>5, <1>6, <1>7, <1>8, <1>9, <1>10, <1>11, <1>12, <1>13,
     <1>14, <1>15, <1>16 DEF Next, Work, Trouble

\* While the process replays or streams, a save only takes launches out of Missing.
LEMMA CommitWhileConnected ==
  ASSUME TypeOK, ControlSafe, FoundingSafe, CursorsSafe, Replaying \/ Streaming,
         Commit(call), UNCHANGED chain
  PROVE  Missing' \subseteq Missing /\ \A q \in Missing' : call.sig < q
<1>1. base # 0
  BY DEF FoundingSafe
<1> QED BY <1>1, CommitSafe DEF TypeOK, CallType, CursorsSafe

\* While the process replays, a missing launch is ahead of it or on the subscription.
LEMMA ReplayStep ==
  ASSUME TypeOK, ControlSafe, FoundingSafe, CursorsSafe, ReplayCovers, Next,
         ReliableProvider
  PROVE  ReplayCovers'
<1> USE DEF Replaying, At, InHand
<1>a. ASSUME UNCHANGED <<chain, tables>> PROVE Missing' = Missing
  BY <1>a, MissingKept
<1>b. \A q \in Missing : q \in Nat
  BY MissingPositive, TipNat
<1>c. lo \in Nat /\ lo <= tip + 1
  BY TipNat DEF TypeOK, ReplayType
<1>d. pc \in {"flush", "flushing", "heartbeat"} => after \notin {"apply", "saving", "fetch"}
  BY DEF ControlSafe
<1>1. CASE Confirm
  <2>1. UNCHANGED <<lo, hi, pc, after, call>>
    BY <1>1 DEF Confirm
  <2>2. Replaying => inflight' = inflight \cup {tip + 1}
    BY <1>1 DEF Confirm, ControlSafe, Connected
  <2>3. \A q \in Missing' : q \in Missing \/ q = tip + 1
    BY <1>1, MissingConfirm
  <2> QED BY <1>c, <2>1, <2>2, <2>3 DEF ReplayCovers
<1>2. CASE MissedItems
  <2>1. UNCHANGED <<chain, tables>> /\ pc' = "chunk" /\ lo' = cursor + 1 /\ hi' = tip
    BY <1>2, TipNat DEF MissedItems, Seen, ReliableProvider
  <2>2. cursor \in Nat
    BY TipNat DEF TypeOK, MemoryType
  <2>3. \A q \in Missing : cursor + 1 <= q /\ q <= tip
    BY <1>b, <2>2, MissingPositive, TipNat DEF CursorsSafe
  <2> QED BY <1>a, <2>1, <2>3 DEF ReplayCovers
<1>3. CASE ApplyLaunch
  <2>1. /\ UNCHANGED <<chain, tables, inflight, hi>> /\ pc = "apply" /\ pc' = "saving"
        /\ call' = Save(lo, TRUE) /\ lo' = lo + 1
    BY <1>3 DEF ApplyLaunch
  <2>2. \A q \in Missing : lo + 1 <= q \/ q = lo
    BY <1>b, <1>c, <2>1 DEF ReplayCovers
  <2> QED BY <1>a, <2>1, <2>2 DEF ReplayCovers, Save
<1>4. CASE ApplyOther
  <2>1. /\ UNCHANGED <<chain, tables, inflight, hi, pc, after>> /\ pc = "apply"
        /\ lo' = lo + 1 /\ ~IsLaunch(lo)
    BY <1>4 DEF ApplyOther
  <2>2. \A q \in Missing : lo + 1 <= q
    BY <1>b, <1>c, <2>1, MissingPositive DEF ReplayCovers
  <2> QED BY <1>a, <2>1, <2>2 DEF ReplayCovers
<1>5. CASE FlushOk
  <2>1. Replaying' => Replaying /\ Missing' \subseteq Missing
    BY <1>5, <1>d, CommitWhileConnected DEF FlushOk, FlushReturn
  <2> QED BY <1>5, <2>1 DEF FlushOk, FlushReturn, ReplayCovers
<1>6. CASE SaveOk
  <2>1. CASE after = "apply"
    <3>1. Missing' \subseteq Missing /\ \A q \in Missing' : call.sig < q
      BY <1>6, <2>1, CommitWhileConnected DEF SaveOk
    <3>2. pc = "saving" /\ pc' = "apply" /\ UNCHANGED <<inflight, lo, hi>>
      BY <1>6, <2>1 DEF SaveOk
    <3>3. \A q \in Missing' : q # call.sig
      BY <3>1, CallFields, TipNat DEF TypeOK, CallType
    <3> QED BY <2>1, <3>1, <3>2, <3>3 DEF ReplayCovers
  <2>2. CASE after # "apply"
    BY <1>6, <2>2 DEF SaveOk, ControlSafe, ReplayCovers
  <2> QED BY <2>1, <2>2
<1>7. CASE AttemptFails
  <2>1. CASE call' = [call EXCEPT !.attempt = 2] /\ UNCHANGED <<net, control>>
    <3>1. call'.sig = call.sig
      BY <2>1 DEF TypeOK, CallType, IsCall, Calls
    <3>2. Replaying => Missing' \subseteq Missing
      BY <1>7, <1>a, CommitWhileConnected DEF AttemptFails
    <3>3. UNCHANGED <<lo, hi>>
      BY <1>7 DEF AttemptFails
    <3> QED BY <2>1, <3>1, <3>2, <3>3 DEF ReplayCovers
  <2>2. CASE Raise("settle")
    BY <2>2 DEF Raise, ReplayCovers
  <2>3. CASE FlushFails /\ pc = "flushing" /\ ~Raise("settle")
    <3>1. Replaying' => Replaying
      BY <1>d, <2>3 DEF FlushFails, FlushReturn
    <3>2. Replaying => Missing' \subseteq Missing
      BY <1>7, <1>a, CommitWhileConnected DEF AttemptFails
    <3>3. UNCHANGED <<lo, hi, inflight>> /\ InHand' = {} /\ InHand = {}
      BY <1>7, <1>d, <2>3 DEF AttemptFails, FlushFails, FlushReturn, ControlSafe
    <3> QED BY <3>1, <3>2, <3>3 DEF ReplayCovers
  <2> QED BY <1>7, <2>1, <2>2, <2>3 DEF AttemptFails
<1>8. CASE FlushNothing \/ FlushBegin \/ HeartbeatWrite
  <2>1. UNCHANGED <<chain, tables, inflight, lo, hi>> /\ (Replaying' => Replaying)
    BY <1>8, <1>d DEF FlushNothing, FlushBegin, HeartbeatWrite, FlushReturn
  <2>2. InHand' = {} /\ InHand = {}
    BY <1>8, <1>d DEF FlushNothing, FlushBegin, HeartbeatWrite, FlushReturn, ControlSafe
  <2> QED BY <1>a, <2>1, <2>2 DEF ReplayCovers
<1>9. CASE FetchChunk \/ ChunkDone \/ ChunkPause
  BY <1>9, <1>a DEF FetchChunk, ChunkDone, ChunkPause, Beat, ReplayCovers
<1>10. CASE \/ Start \/ Connect \/ ReadCursor \/ FirstListing \/ BackfillDone \/ CaughtUp
            \/ Receive \/ Fetched \/ HeartbeatDue \/ Settle \/ WakeUp \/ ConnectFails
            \/ ReceiveMalformed
  <2>1. ~Replaying'
    BY <1>10 DEF Start, Connect, ReadCursor, FirstListing, BackfillDone, CaughtUp,
       Receive, Handle, Fetched, HeartbeatDue, Settle, WakeUp, ConnectFails,
       ReceiveMalformed, Beat
  <2> QED BY <2>1 DEF ReplayCovers
<1>11. CASE \/ GapNotCovered \/ CallFails \/ ApplyBad \/ StreamEnds \/ Exit \/ Crash
            \/ Cancel
  <2>1. ~Replaying'
    BY <1>11 DEF GapNotCovered, CallFails, ApplyBad, StreamEnds, Exit, Crash, Cancel,
       Raise, Forget, OutsideTry
  <2> QED BY <2>1 DEF ReplayCovers
<1>12. CASE OrphanEnds
  <2>1. ~Replaying'
    BY <1>12 DEF OrphanEnds, ControlSafe, NoCall
  <2> QED BY <2>1 DEF ReplayCovers
<1> QED
  BY <1>1, <1>2, <1>3, <1>4, <1>5, <1>6, <1>7, <1>8, <1>9, <1>10, <1>11, <1>12
     DEF Next, Work, Trouble

\* While the process streams, a missing launch is in hand or on the subscription.
LEMMA StreamStep ==
  ASSUME TypeOK, ControlSafe, FoundingSafe, CursorsSafe, ReplayCovers, StreamCovers, Next,
         ReliableProvider
  PROVE  StreamCovers'
<1> USE DEF Streaming, At, InHand
<1>a. ASSUME UNCHANGED <<chain, tables>> PROVE Missing' = Missing
  BY <1>a, MissingKept
<1>d. pc \in {"flush", "flushing", "heartbeat"} => after \notin {"apply", "saving", "fetch"}
  BY DEF ControlSafe
<1>1. CASE Confirm
  <2>1. UNCHANGED <<pc, after, call>>
    BY <1>1 DEF Confirm
  <2>2. Streaming => inflight' = inflight \cup {tip + 1}
    BY <1>1 DEF Confirm, ControlSafe, Connected
  <2>3. \A q \in Missing' : q \in Missing \/ q = tip + 1
    BY <1>1, MissingConfirm
  <2> QED BY <2>1, <2>2, <2>3 DEF StreamCovers
<1>2. CASE FlushOk
  <2>1. Streaming' => Streaming /\ Missing' \subseteq Missing
    BY <1>2, <1>d, CommitWhileConnected DEF FlushOk, FlushReturn
  <2> QED BY <1>2, <2>1 DEF FlushOk, FlushReturn, StreamCovers
<1>3. CASE SaveOk
  <2>1. /\ pc = "saving" /\ pc' = after /\ Commit(call) /\ UNCHANGED chain
        /\ UNCHANGED inflight
    BY <1>3 DEF SaveOk
  <2>2. CASE after = "stream"
    <3>1. Missing' \subseteq Missing /\ \A q \in Missing' : call.sig < q
      BY <2>1, <2>2, CommitWhileConnected
    <3>2. \A q \in Missing' : q # call.sig
      BY <3>1, CallFields, TipNat DEF TypeOK, CallType
    <3> QED BY <2>1, <2>2, <3>1, <3>2 DEF StreamCovers
  <2>3. CASE after = "caughtUp"
    <3>1. base \in {0, call.sig} /\ (call.sig + 1) .. tip \subseteq inflight
      BY <2>1, <2>3 DEF FoundingSafe, Founding
    <3>2. \A q \in Missing' : q \in (call.sig + 1) .. tip
      <4>1. IsCall(call) /\ call.sig \in Nat
        BY CallFields, TipNat DEF TypeOK, CallType
      <4>2. CASE base = 0
        BY <2>1, <4>1, <4>2, MissingFounded
      <4>3. CASE base # 0
        <5>1. \A q \in Missing' : q \in Missing
          BY <2>1, <4>3, MissingCommit
        <5>2. \A q \in Missing : base < q /\ q \in 1 .. tip
          BY DEF Missing, Launches
        <5> QED BY <3>1, <4>1, <4>3, <5>1, <5>2, TipNat
      <4> QED BY <4>2, <4>3
    <3> QED BY <2>1, <2>3, <3>1, <3>2 DEF StreamCovers
  <2>4. CASE after \notin {"stream", "caughtUp"}
    BY <2>1, <2>4 DEF ControlSafe, StreamCovers
  <2> QED BY <2>2, <2>3, <2>4
<1>4. CASE BackfillDone
  <2>1. /\ pc = "chunk" /\ hi < lo /\ UNCHANGED <<chain, tables, inflight>> /\ pc' = "flush"
    BY <1>4 DEF BackfillDone
  <2>2. \A q \in Missing : lo <= q /\ (q <= hi \/ q \in inflight)
    BY <2>1 DEF ReplayCovers, Replaying
  <2>3. Missing \subseteq inflight
    BY <2>1, <2>2, MissingPositive, TipNat DEF TypeOK, ReplayType
  <2> QED BY <1>a, <2>1, <2>3 DEF StreamCovers
<1>5. CASE Receive
  <2>1. PICK p \in inflight : Handle(p) /\ inflight' \in {inflight \ {p}, inflight}
    BY <1>5 DEF Receive
  <2>2. pc = "stream" /\ UNCHANGED <<chain, tables>> /\ Missing \subseteq inflight
    BY <1>5 DEF Receive, StreamCovers
  <2>3. CASE Skipped(p)
    <3>1. p \notin Missing
      BY <2>3, MissingPositive DEF Skipped, IsLaunch
    <3> QED BY <1>a, <2>1, <2>2, <2>3, <3>1 DEF Handle, StreamCovers
  <2>4. CASE ~Skipped(p)
    <3>1. pc' = "fetch" /\ call'.sig = p
      BY <2>1, <2>4 DEF Handle, Save
    <3> QED BY <1>a, <2>1, <2>2, <3>1 DEF StreamCovers
  <2> QED BY <2>3, <2>4
<1>6. CASE ReceiveMalformed
  BY <1>6 DEF ReceiveMalformed, ReliableProvider
<1>7. CASE FirstListing
  <2>1. pc' = "saving" /\ after' = "caughtUp"
    <3>1. \A v \in Seen(FirstLag) : v # 0
      BY TipNat DEF Seen, ReliableProvider, FoundingSafe
    <3> QED BY <1>7, <3>1 DEF FirstListing
  <2> QED BY <2>1 DEF StreamCovers
<1>8. CASE AttemptFails
  <2>1. CASE call' = [call EXCEPT !.attempt = 2] /\ UNCHANGED <<net, control>>
    <3>1. call'.sig = call.sig
      BY <2>1 DEF TypeOK, CallType, IsCall, Calls
    <3>2. Streaming => Missing' \subseteq Missing
      BY <1>8, <1>a, CommitWhileConnected DEF AttemptFails
    <3> QED BY <2>1, <3>1, <3>2 DEF StreamCovers
  <2>2. CASE Raise("settle")
    BY <2>2 DEF Raise, StreamCovers
  <2>3. CASE FlushFails /\ pc = "flushing" /\ ~Raise("settle")
    <3>1. Streaming' => Streaming
      BY <1>d, <2>3 DEF FlushFails, FlushReturn
    <3>2. Streaming => Missing' \subseteq Missing
      BY <1>8, <1>a, CommitWhileConnected DEF AttemptFails
    <3>3. UNCHANGED inflight /\ InHand' = {} /\ InHand = {}
      BY <1>8, <1>d, <2>3 DEF AttemptFails, FlushFails, FlushReturn, ControlSafe
    <3> QED BY <3>1, <3>2, <3>3 DEF StreamCovers
  <2> QED BY <1>8, <2>1, <2>2, <2>3 DEF AttemptFails
<1>9. CASE FlushNothing \/ FlushBegin \/ HeartbeatWrite
  <2>1. UNCHANGED <<chain, tables, inflight>> /\ (Streaming' => Streaming)
    BY <1>9, <1>d DEF FlushNothing, FlushBegin, HeartbeatWrite, FlushReturn
  <2>2. InHand' = {} /\ InHand = {}
    BY <1>9, <1>d DEF FlushNothing, FlushBegin, HeartbeatWrite, FlushReturn, ControlSafe
  <2> QED BY <1>a, <2>1, <2>2 DEF StreamCovers
<1>10. CASE CaughtUp \/ Fetched \/ HeartbeatDue
  BY <1>10, <1>a DEF CaughtUp, Fetched, HeartbeatDue, Beat, StreamCovers
<1>11. CASE \/ Start \/ Connect \/ ReadCursor \/ MissedItems \/ FetchChunk \/ ApplyLaunch
            \/ ApplyOther \/ ChunkDone \/ ChunkPause \/ Settle \/ WakeUp \/ ConnectFails
  <2>1. ~Streaming'
    BY <1>11 DEF Start, Connect, ReadCursor, MissedItems, FetchChunk, ApplyLaunch,
       ApplyOther, ChunkDone, ChunkPause, Settle, WakeUp, ConnectFails, Beat
  <2> QED BY <2>1 DEF StreamCovers
<1>12. CASE \/ GapNotCovered \/ CallFails \/ ApplyBad \/ StreamEnds \/ Exit \/ Crash
            \/ Cancel
  <2>1. ~Streaming'
    BY <1>12 DEF GapNotCovered, CallFails, ApplyBad, StreamEnds, Exit, Crash, Cancel,
       Raise, Forget, OutsideTry
  <2> QED BY <2>1 DEF StreamCovers
<1>13. CASE OrphanEnds
  <2>1. ~Streaming'
    BY <1>13 DEF OrphanEnds, ControlSafe, NoCall
  <2> QED BY <2>1 DEF StreamCovers
<1> QED
  BY <1>1, <1>2, <1>3, <1>4, <1>5, <1>6, <1>7, <1>8, <1>9, <1>10, <1>11, <1>12, <1>13
     DEF Next, Work, Trouble

-----------------------------------------------------------------------------

\* IInv is inductive for a reliable provider.
LEMMA InductiveStep ==
  ASSUME IInv, [Next]_vars, ReliableProvider
  PROVE  IInv'
<1> USE DEF IInv
<1>1. TypeOK'
  BY TypeStep
<1>2. CASE Next
  BY <1>1, <1>2, ControlStep, FoundingStep, CursorsStep, ReplayStep, StreamStep,
     SavesRealStep
<1>3. CASE UNCHANGED vars
  <2>1. Missing' = Missing /\ (Replaying' <=> Replaying) /\ (Streaming' <=> Streaming)
        /\ (Founding' <=> Founding) /\ InHand' = InHand
    BY <1>3, MissingKept DEF vars, Replaying, Streaming, Founding, At, InHand
  <2>2. CursorsSafe' /\ ReplayCovers' /\ StreamCovers'
    BY <1>3, <2>1 DEF vars, CursorsSafe, SafeSave, ReplayCovers, StreamCovers
  <2>3. FoundingSafe'
    BY <1>3, <2>1 DEF vars, FoundingSafe
  <2>4. ControlSafe'
    BY <1>3, <2>1 DEF vars, ControlSafe, Connected, At
  <2>5. SavesReal'
    BY <1>3 DEF vars, SavesReal, IsLaunch
  <2> QED BY <1>1, <2>2, <2>3, <2>4, <2>5
<1> QED BY <1>2, <1>3

\* IInv holds of the first start.
LEMMA InductiveInit ==
  ASSUME Init, ReliableProvider
  PROVE  IInv
<1>1. TypeOK
  BY TypeInit
<1>2. Missing = {}
  BY DEF Init, Missing
<1>3. CursorsSafe
  BY <1>2 DEF CursorsSafe, SafeSave
<1>4. ReplayCovers /\ StreamCovers /\ FoundingSafe
  BY <1>2 DEF Init, ReplayCovers, StreamCovers, FoundingSafe, Replaying, Streaming,
     Founding, At, ReliableProvider
<1>5. ControlSafe
  BY DEF Init, ControlSafe, Connected, Replaying, Streaming, Founding, At, NoCall
<1>6. SavesReal
  BY DEF Init, SavesReal, NoCall
<1> QED BY <1>1, <1>3, <1>4, <1>5, <1>6 DEF IInv

\* With a provider whose listing is not behind its subscription and which delivers in order,
\* no crash, failed save, cancelled save or unavailable transaction, in any number, moves the
\* durable cursor past a launch that is not recorded (backfill, process, flush_cursor).
THEOREM CursorSafety == ReliableProvider => (Spec => []CursorNeverPassesCreation)
<1>1. IInv => CursorNeverPassesCreation
  BY DEF IInv, CursorsSafe, CursorNeverPassesCreation
<1> SUFFICES ASSUME ReliableProvider PROVE Spec => []CursorNeverPassesCreation
  OBVIOUS
<1>2. Init => IInv
  BY InductiveInit
<1>3. IInv /\ [Next]_vars => IInv'
  BY InductiveStep
<1> QED BY <1>1, <1>2, <1>3, PTL DEF Spec

\* Under the same assumption, whenever the process streams, every launch it has not recorded
\* is still to come on its subscription: subscribing before the replay leaves no gap.
THEOREM NoGap == ReliableProvider => (Spec => []NothingBetween)
<1>1. IInv => NothingBetween
  BY DEF IInv, StreamCovers, Streaming, At, InHand, NothingBetween
<1> SUFFICES ASSUME ReliableProvider PROVE Spec => []NothingBetween
  OBVIOUS
<1>2. Init => IInv
  BY InductiveInit
<1>3. IInv /\ [Next]_vars => IInv'
  BY InductiveStep
<1> QED BY <1>1, <1>2, <1>3, PTL DEF Spec

\* The invariant the two theorems above rest on holds of every reachable state.
THEOREM InductiveInvariant == ReliableProvider => (Spec => []IInv)
<1> SUFFICES ASSUME ReliableProvider PROVE Spec => []IInv
  OBVIOUS
<1>1. Init => IInv
  BY InductiveInit
<1>2. IInv /\ [Next]_vars => IInv'
  BY InductiveStep
<1> QED BY <1>1, <1>2, PTL DEF Spec

-----------------------------------------------------------------------------
(* The tables implement LaunchLog *)

\* A committed save is a step of LaunchLog: it records a launch or moves the checkpoint.
LEMMA CommitImplements ==
  ASSUME TypeOK, NEW c, IsCall(c), c.sig # 0, c.launch => IsLaunch(c.sig),
         Commit(c), UNCHANGED chain, CursorsSafe'
  PROVE  Log!RecordLaunch(c.sig) \/ Log!MoveCheckpoint(c.sig)
<1> USE DEF Log!First, Log!LaunchKinds
<1>1. dbCursor' = c.sig /\ base' = Log!First(c.sig) /\ UNCHANGED <<kind, tip>>
  BY DEF Commit
<1>2. base' # 0
  BY DEF Commit
<1>3. ASSUME NEW q \in 1 .. tip, base' < q, q <= c.sig, kind[q] \in Log!LaunchKinds
      PROVE  q \in dbLaunches'
  <2>1. q \notin Missing'
    BY <1>1, <1>3, CallFields, TipNat DEF CursorsSafe
  <2> QED BY <1>1, <1>2, <1>3, <2>1 DEF Missing, Launches, IsLaunch
<1>4. Log!Complete(Log!First(c.sig), c.sig, dbLaunches')
  BY <1>1, <1>3 DEF Log!Complete
<1>5. CASE c.launch
  <2>1. kind[c.sig] \in Log!LaunchKinds /\ dbLaunches' = dbLaunches \cup {c.sig}
    BY <1>5 DEF IsLaunch, Commit
  <2> QED BY <1>1, <1>4, <2>1 DEF Log!RecordLaunch
<1>6. CASE ~c.launch
  <2>1. dbLaunches' = dbLaunches
    BY <1>6 DEF Commit
  <2> QED BY <1>1, <1>4, <2>1 DEF Log!MoveCheckpoint
<1> QED BY <1>5, <1>6

\* Every step of the watcher is one of LaunchLog on the tables, or a stutter.
LEMMA StepImplements ==
  ASSUME IInv, IInv', Next
  PROVE  [Log!Next]_(Log!vars)
<1> USE DEF IInv
<1>a. IsCall(call) /\ IsCall(orphan) /\ call.sig \in 0 .. tip /\ orphan.sig \in 0 .. tip
  BY CallFields DEF TypeOK, CallType
<1>b. ASSUME UNCHANGED <<chain, tables>> PROVE UNCHANGED Log!vars
  BY <1>b DEF Log!vars
<1>c. ASSUME NEW c, IsCall(c), c.sig \in 0 .. tip, c.sig # 0,
             c.launch => IsLaunch(c.sig), Commit(c), UNCHANGED chain
      PROVE  Log!Next
  <2>1. c.sig \in 1 .. tip
    BY <1>c, TipNat
  <2> QED BY <1>c, <2>1, CommitImplements DEF Log!Next
<1>1. CASE Confirm
  BY <1>1 DEF Confirm, Log!Next, Log!Confirm
<1>2. CASE FlushOk \/ SaveOk
  BY <1>2, <1>a, <1>c DEF FlushOk, SaveOk, ControlSafe, SavesReal
<1>3. CASE AttemptFails
  BY <1>3, <1>a, <1>b, <1>c DEF AttemptFails, ControlSafe, SavesReal
<1>4. CASE OrphanEnds
  BY <1>4, <1>a, <1>b, <1>c DEF OrphanEnds, ControlSafe, SavesReal, NoCall
<1>5. CASE \/ Start \/ Connect \/ FlushNothing \/ FlushBegin \/ HeartbeatWrite
           \/ ReadCursor \/ FirstListing \/ MissedItems \/ GapNotCovered \/ FetchChunk
           \/ ApplyLaunch \/ ApplyOther \/ ApplyBad \/ ChunkDone \/ ChunkPause
           \/ BackfillDone \/ CaughtUp \/ Receive \/ Fetched \/ HeartbeatDue \/ Settle
           \/ WakeUp \/ Exit \/ ConnectFails \/ CallFails \/ ReceiveMalformed
           \/ StreamEnds \/ Crash \/ Cancel
  <2>1. UNCHANGED <<chain, tables>>
    BY <1>5 DEF Start, Connect, FlushNothing, FlushBegin, HeartbeatWrite, ReadCursor,
       FirstListing, MissedItems, GapNotCovered, FetchChunk, ApplyLaunch, ApplyOther,
       ApplyBad, ChunkDone, ChunkPause, BackfillDone, CaughtUp, Receive, Fetched,
       HeartbeatDue, Settle, WakeUp, Exit, ConnectFails, CallFails, ReceiveMalformed,
       StreamEnds, Crash, Cancel
  <2> QED BY <1>b, <2>1
<1> QED BY <1>1, <1>2, <1>3, <1>4, <1>5 DEF Next, Work, Trouble

\* Every step of the watcher, with its crashes, failures and abandoned saves, is a step of
\* LaunchLog on the tables or leaves them alone.
THEOREM Refinement == ReliableProvider => (Spec => Implements)
<1> SUFFICES ASSUME ReliableProvider PROVE Spec => Implements
  OBVIOUS
<1>1. Init => IInv
  BY InductiveInit
<1>2. IInv /\ [Next]_vars => IInv'
  BY InductiveStep
<1>3. Init => Log!Init
  BY ConstantsAssumption DEF Init, Log!Init
<1>4. IInv /\ IInv' /\ [Next]_vars => [Log!Next]_(Log!vars)
  <2>1. UNCHANGED vars => UNCHANGED Log!vars
    BY DEF vars, Log!vars
  <2> QED BY <2>1, StepImplements
<1> QED BY <1>1, <1>2, <1>3, <1>4, PTL DEF Spec, Implements, Log!Spec

-----------------------------------------------------------------------------
(* Stopping and resuming, whatever the provider does *)

\* ControlSafe does not depend on the provider.
LEMMA ControlInvariant ==
  /\ Init => TypeOK /\ ControlSafe
  /\ TypeOK /\ ControlSafe /\ [Next]_vars => (TypeOK /\ ControlSafe)'
<1>1. Init => ControlSafe
  BY DEF Init, ControlSafe, Connected, Replaying, Streaming, Founding, At, NoCall
<1>2. ASSUME TypeOK, ControlSafe, UNCHANGED vars
      PROVE  ControlSafe'
  BY <1>2 DEF vars, ControlSafe, Connected, Replaying, Streaming, Founding, At
<1> QED BY <1>1, <1>2, TypeInit, TypeStep, ControlStep

\* Everything that may become the cursor, and everything that may be replayed or received,
\* is no earlier than where the last replay began.
ResumeSafe ==
  /\ resume <= dbCursor
  /\ cursor # 0 => resume <= cursor
  /\ call # NoCall => resume <= call.sig
  /\ orphan # NoCall => resume <= orphan.sig
  /\ pc = "firstListing" => resume = 0
  /\ pc = "listing" => cursor # 0
  /\ Replaying => resume <= lo
  /\ Connected => \A p \in inflight : resume <= p
  /\ At({"cursor"}) => \A p \in inflight : dbCursor <= p /\ cursor <= p

\* While the cursor is being read no save is under way but the flush of that cursor.
LEMMA ReadingAlone ==
  ASSUME TypeOK, ControlSafe
  PROVE  /\ orphan # NoCall =>
              /\ ~At({"cursor"}) /\ ~Replaying /\ ~Connected /\ pc # "listing"
              /\ pc # "firstListing" /\ pc # "saving" /\ pc # "fetch" /\ pc # "stream"
         /\ pc = "flushing" => call.sig = cursor /\ call # NoCall
         /\ pc = "saving" => call # NoCall
BY DEF ControlSafe, At, Replaying, Connected, Streaming, Founding, NoCall

\* A step never moves what is ahead of the replay point behind it, nor the point back.
LEMMA ResumeStep ==
  ASSUME TypeOK, ControlSafe, ResumeSafe, Next
  PROVE  ResumeSafe' /\ resume <= resume'
<1> USE TipNat DEF TypeOK, TableType, MemoryType, NetType, ReplayType
<1>n. /\ resume \in Nat /\ dbCursor \in Nat /\ cursor \in Nat /\ lo \in Nat
      /\ call.sig \in Nat /\ orphan.sig \in Nat /\ tip \in Nat
      /\ resume <= tip /\ dbCursor <= tip /\ cursor <= tip
      /\ inflight \subseteq Nat
  BY CallFields DEF CallType
<1> DEFINE Ahead == \A p \in inflight : resume <= p
<1>1. CASE Confirm
  <2>1. /\ UNCHANGED <<resume, dbCursor, cursor, call, orphan, pc, after, lo>>
        /\ inflight' \subseteq inflight \cup {tip + 1}
    BY <1>1 DEF Confirm
  <2>2. /\ Replaying' <=> Replaying
        /\ Connected' <=> Connected
        /\ At({"cursor"})' <=> At({"cursor"})
    BY <2>1 DEF Replaying, Connected, Streaming, Founding, At
  <2>3. resume <= tip + 1 /\ dbCursor <= tip + 1 /\ cursor <= tip + 1 BY <1>n
  <2> QED BY <1>n, <2>1, <2>2, <2>3 DEF ResumeSafe
<1>2. CASE Connect
  <2>1. /\ UNCHANGED <<resume, dbCursor, cursor, call, orphan, lo>> /\ inflight' = {}
        /\ pc' = "flush" /\ after' = "cursor"
    BY <1>2 DEF Connect, Beat
  <2>2. ~Replaying' BY <2>1 DEF Replaying, At
  <2> QED BY <1>n, <2>1, <2>2 DEF ResumeSafe
<1>3. CASE FlushBegin
  <2>1. /\ UNCHANGED <<resume, dbCursor, cursor, orphan, after, lo, inflight>>
        /\ call'.sig = cursor /\ pc = "flush" /\ pc' = "flushing" /\ cursor # 0
    BY <1>3 DEF FlushBegin, Save
  <2>2. (Replaying' <=> Replaying) /\ (Connected' <=> Connected)
        /\ (At({"cursor"})' <=> At({"cursor"}))
    BY <2>1 DEF Replaying, Connected, Streaming, Founding, At
  <2> QED BY <1>n, <2>1, <2>2 DEF ResumeSafe
<1>4. CASE FlushOk
  <2>1. /\ UNCHANGED <<resume, cursor, orphan, after, lo, inflight>> /\ dbCursor' = call.sig
        /\ call' = NoCall /\ pc = "flushing" /\ pc' \in {"heartbeat", after}
    BY <1>4 DEF FlushOk, FlushReturn, Commit
  <2>2. (Replaying' => Replaying) /\ (Connected' => Connected)
        /\ (At({"cursor"})' => At({"cursor"})) /\ pc' # "firstListing" /\ pc' # "listing"
    BY <2>1 DEF Replaying, Connected, Streaming, Founding, At, ControlSafe
  <2>3. call.sig = cursor /\ call # NoCall BY <2>1, ReadingAlone
  <2> QED BY <1>n, <2>1, <2>2, <2>3 DEF ResumeSafe
<1>5. CASE SaveOk
  <2>1. /\ UNCHANGED <<resume, orphan, after, lo, inflight>>
        /\ dbCursor' = call.sig /\ cursor' = call.sig
        /\ call' = NoCall /\ pc = "saving" /\ pc' = after
    BY <1>5 DEF SaveOk, Commit
  <2>2. (Replaying' => Replaying) /\ (Connected' => Connected)
        /\ ~At({"cursor"})' /\ pc' # "firstListing" /\ pc' # "listing"
    BY <2>1 DEF Replaying, Connected, Streaming, Founding, At, ControlSafe
  <2>3. call # NoCall BY <2>1, ReadingAlone
  <2> QED BY <1>n, <2>1, <2>2, <2>3 DEF ResumeSafe
<1>6. CASE ReadCursor
  <2>1. /\ UNCHANGED <<dbCursor, call, orphan, after, lo, inflight>> /\ pc = "cursor"
        /\ call = NoCall /\ orphan = NoCall /\ At({"cursor"})
    BY <1>6, ReadingAlone DEF ReadCursor, ControlSafe, At
  <2>2. ~Replaying' /\ ~At({"cursor"})' BY <1>6 DEF ReadCursor, Replaying, At
  <2>3. CASE dbCursor = 0
    <3>1. pc' = "firstListing" /\ UNCHANGED <<cursor, resume>> /\ resume = 0
      BY <1>6, <1>n, <2>3 DEF ReadCursor, ResumeSafe
    <3> QED BY <1>n, <2>1, <2>2, <3>1 DEF ResumeSafe
  <2>4. CASE dbCursor # 0
    <3>1. pc' = "listing" /\ cursor' = dbCursor /\ resume' = dbCursor
      BY <1>6, <2>4 DEF ReadCursor
    <3> QED BY <1>n, <2>1, <2>2, <2>4, <3>1 DEF ResumeSafe
  <2> QED BY <2>3, <2>4
<1>7. CASE FirstListing
  <2>1. /\ UNCHANGED <<resume, dbCursor, cursor, orphan, lo, inflight>> /\ resume = 0
        /\ pc = "firstListing" /\ pc' \in {"caughtUp", "saving"}
        /\ (pc' = "saving" => after' = "caughtUp")
    BY <1>7 DEF FirstListing, ResumeSafe
  <2>2. call'.sig \in Nat
    BY <1>7, <1>n DEF FirstListing, Save, Seen
  <2>3. ~Replaying' /\ ~At({"cursor"})' BY <2>1 DEF Replaying, At
  <2> QED BY <1>n, <2>1, <2>2, <2>3 DEF ResumeSafe
<1>8. CASE MissedItems
  <2>1. /\ UNCHANGED <<resume, dbCursor, cursor, call, orphan, after, inflight>>
        /\ pc = "listing" /\ pc' = "chunk" /\ lo' = cursor + 1
    BY <1>8 DEF MissedItems
  <2>2. Connected /\ ~At({"cursor"})' BY <2>1 DEF Connected, At
  <2>3. resume <= cursor /\ cursor # 0 BY <2>1 DEF ResumeSafe
  <2> QED BY <1>n, <2>1, <2>2, <2>3 DEF ResumeSafe
<1>9. CASE ApplyLaunch
  <2>1. /\ UNCHANGED <<resume, dbCursor, cursor, orphan, inflight>>
        /\ pc = "apply" /\ pc' = "saving" /\ after' = "apply"
        /\ call'.sig = lo /\ lo' = lo + 1
    BY <1>9 DEF ApplyLaunch, Save
  <2>2. Replaying /\ Connected /\ ~At({"cursor"})' BY <2>1 DEF Replaying, Connected, At
  <2> QED BY <1>n, <2>1, <2>2 DEF ResumeSafe
<1>10. CASE ApplyOther
  <2>1. /\ UNCHANGED <<resume, dbCursor, call, orphan, inflight, pc, after>>
        /\ pc = "apply" /\ cursor' = lo /\ lo' = lo + 1
    BY <1>10 DEF ApplyOther
  <2>2. Replaying /\ Connected /\ ~At({"cursor"})' BY <2>1 DEF Replaying, Connected, At
  <2> QED BY <1>n, <2>1, <2>2 DEF ResumeSafe
<1>11. CASE Receive
  <2>1. PICK p \in inflight : Handle(p) BY <1>11 DEF Receive
  <2>2. /\ UNCHANGED <<resume, dbCursor, orphan, after, lo>> /\ pc = "stream"
        /\ inflight' \subseteq inflight
    BY <1>11 DEF Receive
  <2>3. \/ cursor' = p /\ UNCHANGED <<pc, call>>
        \/ pc' = "fetch" /\ call' = Save(p, IsLaunch(p)) /\ UNCHANGED cursor
    BY <2>1 DEF Handle
  <2>4. Connected /\ ~At({"cursor"})' /\ ~Replaying' /\ p \in Nat
    BY <1>n, <2>2, <2>3 DEF Connected, Streaming, Replaying, At
  <2>5. resume <= p BY <2>4 DEF ResumeSafe
  <2>6. call' = call \/ call'.sig = p BY <2>3 DEF Save
  <2> QED BY <1>n, <2>2, <2>3, <2>4, <2>5, <2>6 DEF ResumeSafe
<1>12. CASE Exit \/ Crash
  <2>1. /\ UNCHANGED <<resume, dbCursor>> /\ pc' = "down" /\ inflight' = {} /\ cursor' = 0
        /\ call' = NoCall /\ orphan' = NoCall
    BY <1>12 DEF Exit, Crash, Forget
  <2>2. ~Replaying' /\ ~At({"cursor"})' BY <2>1 DEF Replaying, At
  <2> QED BY <1>n, <2>1, <2>2 DEF ResumeSafe
<1>13. CASE OrphanEnds
  <2>1. /\ UNCHANGED <<resume, cursor, call, pc, after, lo, inflight>> /\ orphan # NoCall
        /\ dbCursor' \in {dbCursor, orphan.sig}
    BY <1>13 DEF OrphanEnds, Commit, NoCall
  <2>2. orphan'.sig = orphan.sig
    BY <1>13 DEF OrphanEnds, CallType, IsCall, Calls
  <2>3. (Replaying' <=> Replaying) /\ (Connected' <=> Connected) /\ ~At({"cursor"})'
    BY <2>1, ReadingAlone DEF Replaying, Connected, Streaming, Founding, At
  <2> QED BY <1>n, <2>1, <2>2, <2>3 DEF ResumeSafe
<1>14. CASE AttemptFails
  <2>1. /\ UNCHANGED <<resume, cursor, orphan, lo>> /\ pc \in {"saving", "flushing"}
        /\ dbCursor' \in {dbCursor, call.sig} /\ call # NoCall
        /\ inflight' \subseteq inflight
    BY <1>14, ReadingAlone DEF AttemptFails, Commit, Raise, FlushFails
  <2>2. call' = NoCall \/ call'.sig = call.sig
    BY <1>14 DEF AttemptFails, Raise, FlushFails, CallType, IsCall, Calls
  <2>3. /\ (Replaying' => Replaying) /\ (Connected' => Connected)
        /\ pc' # "firstListing" /\ pc' # "listing"
        /\ (At({"cursor"})' => At({"cursor"}) /\ pc = "flushing")
    BY <1>14 DEF AttemptFails, Raise, FlushFails, FlushReturn, Replaying, Connected,
       Streaming, Founding, At, ControlSafe
  <2>4. pc = "flushing" => call.sig = cursor BY ReadingAlone
  <2> QED BY <1>n, <2>1, <2>2, <2>3, <2>4 DEF ResumeSafe
<1>15. CASE Cancel
  <2>1. /\ UNCHANGED <<resume, dbCursor, cursor, lo>> /\ call' = NoCall
        /\ orphan' \in {orphan, call} /\ inflight' = {}
        /\ \/ pc' = "flush" /\ after' = "settle"
           \/ pc' = "settle"
    BY <1>15 DEF Cancel, Raise
  <2>2. ~Replaying' /\ ~At({"cursor"})' BY <2>1 DEF Replaying, At
  <2> QED BY <1>n, <2>1, <2>2 DEF ResumeSafe
<1>16. CASE GapNotCovered \/ CallFails \/ ApplyBad \/ StreamEnds
  <2>1. /\ UNCHANGED <<resume, dbCursor, cursor, orphan, lo>> /\ call' = NoCall
        /\ inflight' = {} /\ pc' = "flush" /\ after' \in {"settle", "blocked"}
    BY <1>16 DEF GapNotCovered, CallFails, ApplyBad, StreamEnds, Raise
  <2>2. ~Replaying' /\ ~At({"cursor"})' BY <2>1 DEF Replaying, At
  <2> QED BY <1>n, <2>1, <2>2 DEF ResumeSafe
<1>17. CASE \/ Start \/ FlushNothing \/ HeartbeatWrite \/ FetchChunk \/ ChunkDone
            \/ ChunkPause \/ BackfillDone \/ CaughtUp \/ Fetched \/ HeartbeatDue
            \/ Settle \/ WakeUp \/ ConnectFails \/ ReceiveMalformed
  <2>1. /\ UNCHANGED <<resume, dbCursor, cursor, call, orphan, lo>>
        /\ inflight' \subseteq inflight
    BY <1>17 DEF Start, FlushNothing, HeartbeatWrite, FetchChunk, ChunkDone, ChunkPause,
       BackfillDone, CaughtUp, Fetched, HeartbeatDue, Settle, WakeUp, ConnectFails,
       ReceiveMalformed
  <2>2. /\ (Replaying' => Replaying) /\ (Connected' => Connected)
        /\ pc' # "firstListing" /\ pc' # "listing"
        /\ (At({"cursor"})' => At({"cursor"}))
    BY <1>17 DEF Start, FlushNothing, FlushReturn, HeartbeatWrite, FetchChunk, ChunkDone,
       ChunkPause, BackfillDone, CaughtUp, Fetched, HeartbeatDue, Settle, WakeUp,
       ConnectFails, ReceiveMalformed, Beat, Replaying, Connected, Streaming, Founding, At,
       ControlSafe
  <2> QED BY <1>n, <2>1, <2>2 DEF ResumeSafe
<1> QED
  BY <1>1, <1>2, <1>3, <1>4, <1>5, <1>6, <1>7, <1>8, <1>9, <1>10, <1>11, <1>12, <1>13,
     <1>14, <1>15, <1>16, <1>17 DEF Next, Work, Trouble

\* A connection replays from a point no earlier than the one the connection before it
\* replayed from, even when the provider lags, reorders or garbles what it delivers
\* (watch_once: load_cursor, missed_items).
THEOREM ResumeAdvances == Spec => ResumeNeverRegresses
<1>1. Init => ResumeSafe
  BY DEF Init, ResumeSafe, Replaying, Connected, At
<1>2. TypeOK /\ ControlSafe /\ ResumeSafe /\ [Next]_vars
        => ResumeSafe' /\ [resume <= resume']_vars
  <2>1. ASSUME TypeOK, ResumeSafe, UNCHANGED vars PROVE ResumeSafe'
    BY <2>1 DEF vars, ResumeSafe, Replaying, Connected, Streaming, Founding, At
  <2> QED BY <2>1, ResumeStep
<1> QED BY <1>1, <1>2, ControlInvariant, PTL DEF Spec, ResumeNeverRegresses

\* As long as nothing has failed the table holds what was last persisted, or what an
\* abandoned save has written since; the last flush persists the cursor.
ProgressSafe ==
  faults = 0 =>
    /\ persisted # 0 => \/ dbCursor = persisted
                        \/ orphan # NoCall /\ dbCursor = orphan.sig
    /\ (pc = "exit" \/ (pc = "heartbeat" /\ after = "exit")) => cursor \in {0, persisted}

\* Every save and every flush keeps the table and the persisted cursor together.
LEMMA ProgressStep ==
  ASSUME TypeOK, ControlSafe, ProgressSafe, Next
  PROVE  ProgressSafe'
<1> USE DEF ControlSafe
<1>0. /\ faults \in Nat
      /\ (faults' = faults \/ faults' = faults + 1) => (faults' = 0 => faults = 0)
  BY ConstantsAssumption DEF TypeOK, BudgetType
<1> SUFFICES ASSUME faults' = 0 PROVE ProgressSafe'
  BY DEF ProgressSafe
<1>1. CASE FlushOk
  BY <1>1 DEF FlushOk, Commit, ProgressSafe
<1>2. CASE SaveOk
  BY <1>2 DEF SaveOk, Commit, ProgressSafe
<1>3. CASE FlushNothing
  BY <1>3, <1>0 DEF FlushNothing, FlushReturn, ProgressSafe
<1>4. CASE HeartbeatWrite
  BY <1>4, <1>0 DEF HeartbeatWrite, Fault, NoFault, ProgressSafe
<1>5. CASE ReadCursor
  BY <1>5, <1>0 DEF ReadCursor, ProgressSafe
<1>6. CASE Exit \/ Crash
  BY <1>6 DEF Exit, Crash, Forget, ProgressSafe
<1>7. CASE OrphanEnds
  <2>1. orphan'.sig = orphan.sig /\ orphan # NoCall
    BY <1>7 DEF OrphanEnds, TypeOK, CallType, IsCall, Calls, NoCall
  <2>2. orphan.sig # 0 BY <2>1
  <2>3. UNCHANGED <<persisted, cursor, pc, after>> /\ faults = 0 /\ dbCursor' = orphan.sig
    BY <1>7, <1>0 DEF OrphanEnds, Commit, Fault, NoFault
  <2> QED BY <2>1, <2>2, <2>3 DEF ProgressSafe, NoCall
<1>8. CASE Cancel
  <2>1. UNCHANGED <<persisted, cursor, dbCursor, faults>> /\ orphan = NoCall
        /\ pc' \in {"flush", "settle"}
    BY <1>8 DEF Cancel, Raise
  <2> QED BY <2>1 DEF ProgressSafe
<1>9. CASE AttemptFails \/ ConnectFails \/ CallFails \/ ReceiveMalformed \/ StreamEnds
  BY <1>9, <1>0 DEF AttemptFails, ConnectFails, CallFails, ReceiveMalformed, StreamEnds, Fault
<1>10. CASE \/ Confirm \/ Start \/ Connect \/ FlushBegin \/ FirstListing \/ MissedItems
            \/ GapNotCovered \/ FetchChunk \/ ApplyLaunch \/ ApplyOther \/ ApplyBad
            \/ ChunkDone \/ ChunkPause \/ BackfillDone \/ CaughtUp \/ Receive \/ Fetched
            \/ HeartbeatDue \/ Settle \/ WakeUp
  BY <1>10, <1>0 DEF Confirm, Start, Connect, FlushBegin, FirstListing, MissedItems,
     GapNotCovered, FetchChunk, ApplyLaunch, ApplyOther, ApplyBad, ChunkDone, ChunkPause,
     BackfillDone, CaughtUp, Receive, Handle, Fetched, HeartbeatDue, Settle, WakeUp, Beat,
     Raise, Fault, NoFault, ProgressSafe
<1> QED
  BY <1>1, <1>2, <1>3, <1>4, <1>5, <1>6, <1>7, <1>8, <1>9, <1>10 DEF Next, Work, Trouble

\* A process that stops on a signal while the database answers leaves its cursor in the
\* table, unless a save it abandoned wrote there (main: "finish with a final cursor flush").
THEOREM StopLeavesCursor == Spec => []StopKeepsProgress
<1>1. Init => ProgressSafe
  BY DEF Init, ProgressSafe
<1>2. TypeOK /\ ControlSafe /\ ProgressSafe /\ [Next]_vars => ProgressSafe'
  <2>1. ASSUME ProgressSafe, UNCHANGED vars PROVE ProgressSafe'
    BY <2>1 DEF vars, ProgressSafe
  <2> QED BY <2>1, ProgressStep
<1>3. ProgressSafe => StopKeepsProgress
  BY DEF ProgressSafe, StopKeepsProgress
<1> QED BY <1>1, <1>2, <1>3, ControlInvariant, PTL DEF Spec

-----------------------------------------------------------------------------
(* A process that shares the tables with another one *)

\* The process takes part after the first cursor has been written, by whoever wrote it.
Joined == IInv /\ base # 0 /\ ~Founding

\* Nothing of the process itself moves.
Paused == UNCHANGED <<net, resume, control, memory, status, counted, replay, call, orphan,
                      process, crashes>>

\* What a step of a watcher does to the tables: at most one committed save, of a position
\* that is not past a missing launch.
SafeWrite ==
  \/ UNCHANGED tables
  \/ \E c \in Calls : /\ IsCall(c) /\ c.sig # 0 /\ SafeSave(c)
                      /\ (c.launch => IsLaunch(c.sig)) /\ Commit(c)

\* Every step of a watcher is a confirmation or a safe write.
LEMMA StepWrites ==
  ASSUME IInv, Work \/ Trouble
  PROVE  SafeWrite /\ UNCHANGED chain /\ dbStatus' \in Statuses /\ faults' \in 0 .. MaxFaults
<1> USE DEF IInv
<1>a. call \in Calls /\ orphan \in Calls /\ IsCall(call) /\ IsCall(orphan)
  BY DEF TypeOK, CallType, IsCall
<1>b. TypeOK'
  BY TypeStep DEF Next
<1>c. dbStatus' \in Statuses /\ faults' \in 0 .. MaxFaults
  BY <1>b DEF TypeOK, ControlType, BudgetType
<1>1. CASE FlushOk \/ SaveOk
  BY <1>1, <1>a, <1>c DEF FlushOk, SaveOk, ControlSafe, SavesReal, CursorsSafe, SafeWrite
<1>2. CASE AttemptFails
  BY <1>2, <1>a, <1>c DEF AttemptFails, ControlSafe, SavesReal, CursorsSafe, SafeWrite
<1>3. CASE OrphanEnds
  BY <1>3, <1>a, <1>c DEF OrphanEnds, ControlSafe, SavesReal, CursorsSafe, SafeWrite, NoCall
<1>4. CASE \/ Start \/ Connect \/ FlushNothing \/ FlushBegin \/ HeartbeatWrite
           \/ ReadCursor \/ FirstListing \/ MissedItems \/ GapNotCovered \/ FetchChunk
           \/ ApplyLaunch \/ ApplyOther \/ ApplyBad \/ ChunkDone \/ ChunkPause
           \/ BackfillDone \/ CaughtUp \/ Receive \/ Fetched \/ HeartbeatDue \/ Settle
           \/ WakeUp \/ Exit \/ ConnectFails \/ CallFails \/ ReceiveMalformed
           \/ StreamEnds \/ Crash \/ Cancel
  <2>1. UNCHANGED <<chain, tables>>
    BY <1>4 DEF Start, Connect, FlushNothing, FlushBegin, HeartbeatWrite, ReadCursor,
       FirstListing, MissedItems, GapNotCovered, FetchChunk, ApplyLaunch, ApplyOther,
       ApplyBad, ChunkDone, ChunkPause, BackfillDone, CaughtUp, Receive, Fetched,
       HeartbeatDue, Settle, WakeUp, Exit, ConnectFails, CallFails, ReceiveMalformed,
       StreamEnds, Crash, Cancel
  <2> QED BY <1>c, <2>1 DEF SafeWrite
<1> QED BY <1>1, <1>2, <1>3, <1>4 DEF Work, Trouble

\* A process that has joined stays so by its own steps and by a confirmation.
LEMMA JoinedStep ==
  ASSUME Joined, Next, ReliableProvider
  PROVE  Joined'
<1> USE DEF Joined
<1>1. IInv'
  BY InductiveStep
<1>2. pc # "firstListing"
  BY DEF IInv, FoundingSafe
<1>3. base' # 0
  <2>1. CASE Confirm BY <2>1 DEF Confirm
  <2>2. CASE Work \/ Trouble BY <2>2, StepWrites DEF SafeWrite, Commit
  <2> QED BY <2>1, <2>2 DEF Next
<1>4. ~Founding'
  <2> USE DEF Founding
  <2>1. CASE Confirm BY <2>1 DEF Confirm
  <2>2. CASE FlushNothing \/ FlushOk
    BY <2>2 DEF FlushNothing, FlushOk, FlushReturn, IInv, ControlSafe
  <2>3. CASE SaveOk BY <2>3 DEF SaveOk, IInv, ControlSafe
  <2>4. CASE HeartbeatWrite BY <2>4 DEF HeartbeatWrite, IInv, ControlSafe
  <2>5. CASE AttemptFails
    BY <2>5 DEF AttemptFails, FlushFails, FlushReturn, Raise, IInv, ControlSafe
  <2>6. CASE FirstListing BY <1>2, <2>6 DEF FirstListing
  <2>7. CASE \/ Start \/ Connect \/ FlushBegin \/ ReadCursor \/ MissedItems
             \/ GapNotCovered \/ FetchChunk \/ ApplyLaunch \/ ApplyOther \/ ApplyBad
             \/ ChunkDone \/ ChunkPause \/ BackfillDone \/ CaughtUp
    BY <2>7 DEF Start, Connect, FlushBegin, ReadCursor, MissedItems, GapNotCovered,
       FetchChunk, ApplyLaunch, ApplyOther, ApplyBad, ChunkDone, ChunkPause, BackfillDone,
       CaughtUp, Beat, Raise
  <2>8. CASE \/ Receive \/ Fetched \/ HeartbeatDue \/ Settle \/ WakeUp \/ Exit \/ OrphanEnds
             \/ ConnectFails \/ CallFails \/ ReceiveMalformed \/ StreamEnds \/ Crash \/ Cancel
    BY <2>8 DEF Receive, Handle, Fetched, HeartbeatDue, Settle, WakeUp, Exit, OrphanEnds,
       ConnectFails, CallFails, ReceiveMalformed, StreamEnds, Crash, Cancel, Forget, Beat,
       Raise
  <2> QED BY <2>1, <2>2, <2>3, <2>4, <2>5, <2>6, <2>7, <2>8 DEF Next, Work, Trouble
<1> QED BY <1>1, <1>3, <1>4

\* A process that has joined stays so whatever safe write another one makes.
LEMMA JoinedForeign ==
  ASSUME Joined, Paused, SafeWrite, UNCHANGED chain,
         dbStatus' \in Statuses, faults' \in 0 .. MaxFaults
  PROVE  Joined'
<1> USE DEF Joined, IInv, Paused
<1>1. ASSUME UNCHANGED tables
      PROVE  TableType' /\ Missing' \subseteq Missing /\ base' # 0
             /\ (base' = 0 <=> dbCursor' = 0) /\ \A q \in Missing' : dbCursor' < q
  BY <1>1, MissingKept DEF TypeOK, TableType, FoundingSafe, CursorsSafe
<1>2. ASSUME NEW c \in Calls, IsCall(c), c.sig # 0, SafeSave(c), Commit(c)
      PROVE  TableType' /\ Missing' \subseteq Missing /\ base' # 0
             /\ (base' = 0 <=> dbCursor' = 0) /\ \A q \in Missing' : dbCursor' < q
  <2>1. TableType' BY <1>2, CommitType
  <2>2. base' # 0 /\ dbCursor' # 0 BY <1>2 DEF Commit
  <2>3. \A q \in Missing' : q \in Missing /\ dbCursor' < q
    BY <1>2, CommitSafe
  <2> QED BY <2>1, <2>2, <2>3
<1>3. /\ TableType' /\ Missing' \subseteq Missing /\ base' # 0
      /\ (base' = 0 <=> dbCursor' = 0) /\ \A q \in Missing' : dbCursor' < q
  BY <1>1, <1>2 DEF SafeWrite
<1>4. TypeOK'
  BY <1>3 DEF TypeOK, ChainType, NetType, ControlType, MemoryType, ReplayType, CallType,
     IsCall, BudgetType
<1>5. /\ (Replaying' <=> Replaying) /\ (Streaming' <=> Streaming)
      /\ (Founding' <=> Founding) /\ (Connected' <=> Connected) /\ InHand' = InHand
  BY DEF Replaying, Streaming, Founding, Connected, At, InHand
<1>6. CursorsSafe' /\ ReplayCovers' /\ StreamCovers'
  BY <1>3, <1>5 DEF CursorsSafe, SafeSave, ReplayCovers, StreamCovers
<1>7. FoundingSafe'
  BY <1>3, <1>5 DEF FoundingSafe
<1>8. ControlSafe' /\ SavesReal'
  BY <1>5 DEF ControlSafe, At, SavesReal, IsLaunch
<1> QED BY <1>3, <1>4, <1>5, <1>6, <1>7, <1>8
=============================================================================
