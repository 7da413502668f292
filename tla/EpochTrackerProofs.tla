------------------------- MODULE EpochTrackerProofs -------------------------
(***************************************************************************)
(* What holds of the epoch tracker for every chain, every participant set, *)
(* every number of epochs and failures: proofs for EpochTracker.           *)
(***************************************************************************)
EXTENDS EpochTracker, TLAPS

(***************************************************************************)
(* Types of what the operators return.                                     *)
(***************************************************************************)
LEMMA EpochType ==
    /\ Epoch \subseteq Nat
    /\ Start \subseteq Nat
    /\ Epoch \subseteq Start
    /\ 0 \in Start
    /\ \A s \in Start : s # 0 => s \in Epoch
  BY BoundsAssumption DEF Epoch, Start

LEMMA EmptyStateType == EmptyState \in EpochState
  BY EpochType DEF EmptyState, EpochState

LEMMA EmptyHistoryType == EmptyHistory \in History
  BY DEF EmptyHistory, History

LEMMA LoadStateType ==
  ASSUME NEW f \in EpochState \cup {Nil}
  PROVE  LoadState(f) \in EpochState
  BY EmptyStateType DEF LoadState, EpochState

LEMMA LoadHistoryType ==
  ASSUME NEW f \in History \cup {Nil}
  PROVE  LoadHistory(f) \in History
  BY EmptyHistoryType DEF LoadHistory

LEMMA PrunedType ==
  ASSUME NEW h \in History
  PROVE  Pruned(h) \in History
  BY DEF Pruned, History

LEMMA RecentType ==
  ASSUME NEW em \in [Epoch -> Nat \cup {Nil}]
  PROVE  Recent(em) \in [Epoch -> Nat \cup {Nil}]
  BY DEF Recent

LEMMA NoSeriesType == NoSeries \in Series
  BY DEF NoSeries, Series

LEMMA RestoredSeriesType ==
  ASSUME NEW snap \in EpochSnapshot \cup {Nil}
  PROVE  RestoredSeries(snap) \in Series
  BY NoSeriesType, EpochType DEF RestoredSeries, Series, EpochSnapshot

LEMMA PublishedType ==
  ASSUME NEW old \in Series, NEW snap \in EpochSnapshot
  PROVE  Published(old, snap) \in Series
  BY EpochType DEF Published, PublishedAs, Latest, Series, EpochSnapshot

LEMMA SeriesUpdateType ==
  ASSUME NEW shown \in AllSeries, NEW p \in Participant, NEW e \in Epoch, NEW new \in Series
  PROVE  [shown EXCEPT ![p][e] = new] \in AllSeries
  BY DEF AllSeries

LEMMA LiveType ==
  ASSUME NEW shown \in Series, NEW max \in Nat,
         loc.wallet \in Nat \cup {Nil}, st.baseline \in Nat, st.startTime \in Start
  PROVE  Live(shown, max) \in Series
<1>1. (IF loc.wallet # Nil THEN loc.wallet - st.baseline ELSE shown.earned) \in Int \cup {Nil}
  BY DEF Series
<1> QED
  BY <1>1 DEF Live, Series

LEMMA EstimatedUpdateType ==
  ASSUME NEW shown \in AllSeries, NEW p \in Participant, NEW e \in Epoch, NEW v \in Start
  PROVE  [shown EXCEPT ![p][e].estimated = v] \in AllSeries
<1>1. shown[p][e] \in Series
  BY DEF AllSeries
<1>2. [shown[p][e] EXCEPT !.estimated = v] \in Series
  BY <1>1 DEF Series
<1> QED
  BY <1>2 DEF AllSeries

LEMMA SamplesUpdateType ==
  ASSUME NEW shown \in AllSeries, NEW p \in Participant, NEW e \in Epoch, NEW v \in SUBSET Epoch
  PROVE  [shown EXCEPT ![p][e].samples = v] \in AllSeries
<1>1. shown[p][e] \in Series
  BY DEF AllSeries
<1>2. [shown[p][e] EXCEPT !.samples = v] \in Series
  BY <1>1 DEF Series
<1> QED
  BY <1>2 DEF AllSeries

LEMMA NoLocalsType == NoLocals \in Locals
  BY EpochType DEF NoLocals, Locals

(***************************************************************************)
(* Type correctness.  A snapshot is built for st.chainEpoch and published  *)
(* at the end of the boundary, so the types of the history and the gauges  *)
(* depend on there being an epoch and a snapshot: TypeOK is not inductive  *)
(* without SnapshotReady.                                                  *)
(***************************************************************************)
SnapshotReady ==
    /\ pc \in Boundary => st.chainEpoch # 0
    /\ pc \in Boundary \ {"perf"} => loc.snap # Nil

TypeInv == TypeOK /\ SnapshotReady

LEMMA NewSnapshotType ==
  ASSUME TypeOK, st.chainEpoch # 0, NEW perf \in BOOLEAN
  PROVE  NewSnapshot(perf) \in EpochSnapshot /\ NewSnapshot(perf) # Nil
<1>1. st.chainEpoch \in Epoch /\ st.startTime \in Start /\ st.baseline \in Nat
  BY EpochType DEF TypeOK, EpochState
<1>2. loc.prevStart \in Start /\ loc.wallet \in Nat \cup {Nil}
  BY DEF TypeOK, Locals
<1>3. (IF epochMax[st.chainEpoch] = Nil THEN 0 ELSE epochMax[st.chainEpoch]) \in Nat
  BY <1>1 DEF TypeOK
<1>4. (IF loc.wallet = Nil THEN Nil ELSE loc.wallet - st.baseline) \in Int \cup {Nil}
  BY <1>1, <1>2
<1>5. (IF estimate > 0 THEN estimate ELSE Nil) \in Epoch \cup {Nil}
  BY EpochType DEF TypeOK
<1>6. NewSnapshot(perf) \in EpochSnapshot
  BY <1>1, <1>2, <1>3, <1>4, <1>5 DEF NewSnapshot, Snapshot, EpochSnapshot, TypeOK
<1> QED
  BY <1>6, NilAssumption

LEMMA InitType == Init => TypeInv
<1> SUFFICES ASSUME Init PROVE TypeInv
  OBVIOUS
<1>1. ChainTypeOK
  BY ChainAssumption, EpochType DEF Init, ChainInit, ChainTypeOK, Epoch
<1>2. TypeOK
  BY <1>1, EpochType, EmptyStateType, EmptyHistoryType, NoSeriesType, NoLocalsType
  DEF Init, TypeOK, Steps, NoMaxima, AllSeries
<1> QED
  BY <1>2 DEF TypeInv, SnapshotReady, Init, Boundary

LEMMA NextType == TypeInv /\ [Next]_vars => TypeInv'
<1> SUFFICES ASSUME TypeInv, [Next]_vars PROVE TypeInv'
  OBVIOUS
<1> USE DEF TypeInv
<1>1. CASE ChainStep
  <2>1. NewEpoch => ChainTypeOK'
    BY BoundsAssumption DEF NewEpoch, TypeOK, ChainTypeOK, Epoch
  <2>2. ASSUME NEW p \in Participant, Serve(p) PROVE ChainTypeOK'
    BY <2>2, EpochType DEF Serve, TypeOK, ChainTypeOK
  <2>3. ASSUME NEW p \in Participant, NEW w \in 0 .. MaxWallet, Transfer(p, w)
        PROVE  ChainTypeOK'
    BY <2>3, ChainAssumption DEF Transfer, TypeOK, ChainTypeOK
  <2>4. ChainTypeOK'
    BY <1>1, <2>1, <2>2, <2>3 DEF ChainStep, ChainNext
  <2> QED
    BY <1>1, <2>4 DEF ChainStep, files, process, memory, TypeOK, SnapshotReady
<1>2. CASE FetchChainEpoch
  <2>1. loc' \in Locals
    BY <1>2, EpochType, NoLocalsType DEF FetchChainEpoch, TypeOK, ChainTypeOK, Locals, EpochState
  <2> QED
    BY <1>2, <2>1 DEF FetchChainEpoch, TypeOK, SnapshotReady, Fault, NoFault, chainVars, ChainTypeOK, files, process, Steps, Boundary
<1>3. CASE FetchEpochInfo
  BY <1>3, EpochType DEF FetchEpochInfo, TypeOK, SnapshotReady, Fault, NoFault, chainVars, ChainTypeOK, files, process, Locals, Steps, Boundary
<1>4. CASE FetchBlockTime
  <2>1. st' \in EpochState
    BY <1>4 DEF FetchBlockTime, TypeOK, Locals, EpochState
  <2> QED
    BY <1>4, <2>1 DEF FetchBlockTime, TypeOK, SnapshotReady, Fault, NoFault, chainVars, ChainTypeOK, files, process, Steps, Boundary
<1>5. CASE FetchGroupData
  <2>1. estimate' \in Start
    BY <1>5, EpochType DEF FetchGroupData, TypeOK, ChainTypeOK
  <2>2. series' \in AllSeries
    BY <1>5, <2>1, EstimatedUpdateType, EpochType DEF FetchGroupData, TypeOK, Locals
  <2> QED
    BY <1>5, <2>1, <2>2 DEF FetchGroupData, TypeOK, SnapshotReady, Fault, NoFault, chainVars, ChainTypeOK, files, process, Steps, Boundary
<1>6. CASE FetchParticipantStats
  BY <1>6, EpochType, NoLocalsType DEF FetchParticipantStats, TypeOK, SnapshotReady, Fault, NoFault, chainVars, ChainTypeOK, files, process, Locals, Steps, Boundary
<1>7. CASE FetchWallet
  BY <1>7, EpochType DEF FetchWallet, TypeOK, SnapshotReady, Fault, NoFault, chainVars, ChainTypeOK, files, process, Locals, EpochState, Steps, Boundary
<1>8. CASE UpdateEpochMaxAndGauges
  <2>1. CASE loc.epoch = 0
    BY <1>8, <2>1 DEF UpdateEpochMaxAndGauges, TypeOK, SnapshotReady, chainVars, ChainTypeOK, files, process, Steps, Boundary
  <2>2. CASE loc.epoch # 0
    <3>1. loc.epoch \in Epoch /\ loc.count \in Nat /\ loc.wallet \in Nat \cup {Nil}
      BY <2>2, EpochType DEF TypeOK, Locals
    <3>2. st.startTime \in Start /\ st.baseline \in Nat
      BY DEF TypeOK, EpochState
    <3>3. RunningMax(epochMax[loc.epoch], loc.count) \in Nat
      BY <3>1 DEF RunningMax, TypeOK
    <3>4. epochMax' \in [Epoch -> Nat \cup {Nil}] /\ epochMax'[loc.epoch] \in Nat
      BY <1>8, <2>2, <3>1, <3>3 DEF UpdateEpochMaxAndGauges, TypeOK
    <3>5. series[addr][loc.epoch] \in Series
      BY <3>1 DEF TypeOK, AllSeries
    <3> DEFINE new == Live(series[addr][loc.epoch], RunningMax(epochMax[loc.epoch], loc.count))
    <3>6. new \in Series
      BY <3>1, <3>2, <3>3, <3>5, LiveType
    <3>7. series' = [series EXCEPT ![addr][loc.epoch] = new]
      BY <1>8, <2>2 DEF UpdateEpochMaxAndGauges
    <3>8. series' \in AllSeries
      <4> HIDE DEF new
      <4> QED
        BY <3>1, <3>6, <3>7, SeriesUpdateType DEF TypeOK
    <3> QED
      BY <1>8, <3>4, <3>8 DEF UpdateEpochMaxAndGauges, TypeOK, SnapshotReady, chainVars, ChainTypeOK, files, process, Steps, Boundary
  <2> QED
    BY <2>1, <2>2
<1>9. CASE DetectBoundary
  <2>1. CASE IsBoundary(st.chainEpoch, loc.epoch)
    BY <1>9, <2>1, EpochType DEF DetectBoundary, IsBoundary, TypeOK, SnapshotReady, chainVars, ChainTypeOK, files, process, EpochState, Steps, Boundary
  <2>2. CASE ~ IsBoundary(st.chainEpoch, loc.epoch)
    <3>1. st' \in EpochState
      BY <1>9, <2>2 DEF DetectBoundary, StoreEpoch, StoreAs, TypeOK, Locals, EpochState
    <3> QED
      BY <1>9, <2>2, <3>1, NoLocalsType DEF DetectBoundary, StoreEpoch, StoreAs, TypeOK, SnapshotReady, chainVars, ChainTypeOK, files, process, Steps, Boundary
  <2> QED
    BY <2>1, <2>2
<1>10. CASE RecordSnapshot
  <2>1. PICK perf \in BOOLEAN :
          /\ IF perf THEN NoFault ELSE Fault("perf")
          /\ loc' = [loc EXCEPT !.snap = NewSnapshot(perf)]
          /\ history' = Pruned([history EXCEPT ![addr][st.chainEpoch] = NewSnapshot(perf)])
    BY <1>10 DEF RecordSnapshot, RecordAndThen
  <2>2. NewSnapshot(perf) \in EpochSnapshot /\ NewSnapshot(perf) # Nil
    BY <1>10, NewSnapshotType DEF RecordSnapshot, RecordAndThen, SnapshotReady, Boundary
  <2>3. [history EXCEPT ![addr][st.chainEpoch] = NewSnapshot(perf)] \in History
    BY <2>2 DEF TypeOK, History
  <2>4. history' \in History
    BY <2>1, <2>3, PrunedType
  <2>5. loc' \in Locals /\ loc'.snap # Nil
    BY <2>1, <2>2 DEF TypeOK, Locals
  <2>6. faults' \in Nat
    BY <2>1 DEF NoFault, Fault, TypeOK
  <2> QED
    BY <1>10, <2>4, <2>5, <2>6 DEF RecordSnapshot, RecordAndThen, TypeOK, SnapshotReady, chainVars, ChainTypeOK, files, process, Steps, Boundary
<1>11. CASE OpenHistory
  BY <1>11 DEF OpenHistory, TypeOK, SnapshotReady, Fault, NoFault, chainVars, ChainTypeOK, process, memory, Steps, Boundary
<1>12. CASE WriteHistory
  BY <1>12 DEF WriteHistory, TypeOK, SnapshotReady, Fault, NoFault, chainVars, ChainTypeOK, process, memory, Steps, Boundary
<1>13. CASE CloseBoundary
  BY <1>13, EpochType, NoLocalsType, PublishedType, RecentType DEF CloseBoundary, CloseWith, StoreEpoch, StoreAs, Latest, TypeOK, SnapshotReady, chainVars, ChainTypeOK, files, process, Locals, EpochState, Steps, Boundary, AllSeries
<1>14. CASE OpenState
  BY <1>14 DEF OpenState, TypeOK, SnapshotReady, Fault, NoFault, chainVars, ChainTypeOK, process, memory, Steps, Boundary
<1>15. CASE WriteState
  <2>1. named' \in SUBSET Start /\ stateFile' \in EpochState \cup {Nil} /\ faults' \in Nat
    BY <1>15 DEF WriteState, Fault, NoFault, TypeOK, EpochState
  <2> QED
    BY <1>15, <2>1 DEF WriteState, TypeOK, SnapshotReady, chainVars, ChainTypeOK, memory, Steps, Boundary
<1>16. CASE CollectNodes
  <2>1. epochNode' \in SUBSET Epoch
    BY <1>16 DEF CollectNodes, TypeOK, ChainTypeOK
  <2>2. series' \in AllSeries
    BY <1>16, <2>1, SamplesUpdateType, EpochType DEF CollectNodes, TypeOK, EpochState
  <2> QED
    BY <1>16, <2>1, <2>2 DEF CollectNodes, TypeOK, SnapshotReady, Fault, NoFault, chainVars, ChainTypeOK, files, process, Steps, Boundary
<1>17. CASE \E p \in Participant : Restart(p)
  BY <1>17, EpochType, LoadStateType, LoadHistoryType, RestoredSeriesType, NoLocalsType DEF Restart, ForgetMemory, NoMaxima, TypeOK, SnapshotReady, chainVars, ChainTypeOK, files, Steps, Boundary, AllSeries, History, EpochState
<1>18. CASE Crash
  BY <1>18, EpochType, EmptyStateType, EmptyHistoryType, NoSeriesType, NoLocalsType DEF Crash, ForgetMemory, NoMaxima, Fault, TypeOK, SnapshotReady, chainVars, ChainTypeOK, files, Steps, Boundary, AllSeries
<1>19. CASE UNCHANGED vars
  BY <1>19 DEF vars, chainVars, files, process, memory, TypeOK, ChainTypeOK, SnapshotReady
<1> QED
  BY <1>1, <1>2, <1>3, <1>4, <1>5, <1>6, <1>7, <1>8, <1>9, <1>10, <1>11, <1>12, <1>13,
     <1>14, <1>15, <1>16, <1>17, <1>18, <1>19 DEF Next, CycleStep

LEMMA TypeInvariant == Spec => []TypeInv
<1> QED
  BY InitType, NextType, PTL DEF Spec

\* Every variable has its type, whatever the chain does and whatever fails.
THEOREM TypeCorrect == Spec => []TypeOK
<1>1. TypeInv => TypeOK
  BY DEF TypeInv
<1> QED
  BY <1>1, TypeInvariant, PTL

(***************************************************************************)
(* Where the contents of the files and of the history come from.           *)
(***************************************************************************)
LEMMA FilesFrom ==
  ASSUME [Next]_vars
  PROVE  stateFile' \in {stateFile, Nil, st} /\ historyFile' \in {historyFile, Nil, history}
  BY DEF Next, ChainStep, CycleStep, files, memory, vars,
     FetchChainEpoch, FetchEpochInfo, FetchBlockTime, FetchGroupData,
     FetchParticipantStats, FetchWallet, UpdateEpochMaxAndGauges, DetectBoundary,
     RecordSnapshot, RecordAndThen, OpenHistory, WriteHistory, CloseBoundary, CloseWith,
     OpenState, WriteState, CollectNodes, Restart, Crash

LEMMA HistoryFrom ==
  ASSUME [Next]_vars, ~ RecordSnapshot
  PROVE  history' \in {history, LoadHistory(historyFile), EmptyHistory}
  BY DEF Next, ChainStep, CycleStep, files, memory, vars,
     FetchChainEpoch, FetchEpochInfo, FetchBlockTime, FetchGroupData,
     FetchParticipantStats, FetchWallet, UpdateEpochMaxAndGauges, DetectBoundary,
     OpenHistory, WriteHistory, CloseBoundary, CloseWith,
     OpenState, WriteState, CollectNodes, Restart, Crash

(***************************************************************************)
(* Only finished epochs are archived.  An epoch is archived as st's when   *)
(* the cycle has read a higher one, so the invariant must say that neither *)
(* the tracker, nor the cycle, nor the state file is ahead of the chain,   *)
(* and that st is behind the cycle throughout a boundary.                  *)
(***************************************************************************)
Past(h) == \A p \in Participant, e \in Epoch : h[p][e] # Nil => e < epoch

NotAhead ==
    /\ st.chainEpoch <= epoch
    /\ loc.epoch <= epoch
    /\ LoadState(stateFile).chainEpoch <= epoch
    /\ pc \in Boundary => st.chainEpoch < loc.epoch
    /\ Past(history)
    /\ Past(LoadHistory(historyFile))

LEMMA PrunedOnlyForgets ==
  ASSUME NEW h \in History, NEW p \in Participant, NEW e \in Epoch
  PROVE  Pruned(h)[p][e] \in {h[p][e], Nil}
  BY DEF Pruned, History

LEMMA EmptyHistoryEmpty == \A p \in Participant, e \in Epoch : EmptyHistory[p][e] = Nil
  BY DEF EmptyHistory

LEMMA EpochGrows == TypeInv /\ [Next]_vars => epoch \in Nat /\ epoch' \in Nat /\ epoch <= epoch'
<1> SUFFICES ASSUME TypeInv, [Next]_vars PROVE epoch \in Nat /\ epoch' \in Nat /\ epoch <= epoch'
  OBVIOUS
<1>1. epoch \in Nat /\ epoch' \in Nat
  BY NextType, EpochType DEF TypeInv, TypeOK, ChainTypeOK
<1>2. epoch' \in {epoch, epoch + 1}
  <2>1. ChainNext => epoch' \in {epoch, epoch + 1}
    BY DEF ChainNext, NewEpoch, Serve, Transfer
  <2>2. CycleStep => epoch' = epoch
    BY DEF CycleStep, FetchChainEpoch, FetchEpochInfo, FetchBlockTime, FetchGroupData,
       FetchParticipantStats, FetchWallet, UpdateEpochMaxAndGauges, DetectBoundary,
       RecordSnapshot, RecordAndThen, OpenHistory, WriteHistory, CloseBoundary, CloseWith, OpenState,
       WriteState, CollectNodes, chainVars
  <2> QED
    BY <2>1, <2>2 DEF Next, ChainStep, Restart, Crash, vars, chainVars
<1> QED
  BY <1>1, <1>2

LEMMA PastGrows ==
  ASSUME TypeInv, [Next]_vars, NEW h, NEW g, Past(h),
         \A p \in Participant, e \in Epoch : g[p][e] \in {h[p][e], Nil}
  PROVE  \A p \in Participant, e \in Epoch : g[p][e] # Nil => e < epoch'
  BY EpochGrows, EpochType DEF Past

LEMMA InitNotAhead == Init => NotAhead
<1> SUFFICES ASSUME Init PROVE NotAhead
  OBVIOUS
<1>1. LoadState(stateFile) = EmptyState /\ LoadHistory(historyFile) = EmptyHistory
  BY DEF Init, LoadState, LoadHistory
<1>2. Past(EmptyHistory)
  BY EmptyHistoryEmpty DEF Past
<1> QED
  BY <1>1, <1>2 DEF Init, ChainInit, NotAhead, EmptyState, NoLocals, Boundary

LEMMA NextNotAhead == TypeInv /\ NotAhead /\ [Next]_vars => NotAhead'
<1> SUFFICES ASSUME TypeInv, NotAhead, [Next]_vars PROVE NotAhead'
  OBVIOUS
<1>1. epoch \in Nat /\ epoch' \in Nat /\ epoch <= epoch'
  BY EpochGrows
<1>2. st.chainEpoch \in Nat /\ loc.epoch \in Nat /\ LoadState(stateFile).chainEpoch \in Nat
  BY LoadStateType, EpochType DEF TypeInv, TypeOK, EpochState, Locals
<1>3. st.chainEpoch <= epoch' /\ loc.epoch <= epoch' /\ LoadState(stateFile).chainEpoch <= epoch'
  BY <1>1, <1>2 DEF NotAhead
<1>4. st'.chainEpoch <= epoch'
  <2>1. CASE DetectBoundary \/ CloseBoundary
    <3>1. st'.chainEpoch \in {st.chainEpoch, loc.epoch}
      BY <2>1 DEF DetectBoundary, CloseBoundary, CloseWith, StoreEpoch, StoreAs, TypeInv, TypeOK, EpochState
    <3> QED
      BY <1>3, <3>1
  <2>2. CASE FetchBlockTime \/ FetchWallet
    <3>1. st'.chainEpoch = st.chainEpoch
      BY <2>2 DEF FetchBlockTime, FetchWallet, TypeInv, TypeOK, EpochState
    <3> QED
      BY <1>3, <3>1
  <2>3. CASE (\E p \in Participant : Restart(p)) \/ Crash
    BY <1>1, <1>3, <2>3 DEF Restart, Crash, EmptyState
  <2>4. CASE UNCHANGED st
    BY <1>3, <2>4
  <2> QED
    BY <2>1, <2>2, <2>3, <2>4 DEF Next, ChainStep, CycleStep, memory, vars,
       FetchChainEpoch, FetchEpochInfo, FetchGroupData, FetchParticipantStats,
       UpdateEpochMaxAndGauges, RecordSnapshot, RecordAndThen, OpenHistory, WriteHistory, OpenState,
       WriteState, CollectNodes
<1>5. loc'.epoch <= epoch'
  <2>1. CASE FetchChainEpoch
    <3>1. loc'.epoch \in {epoch, 0}
      BY <2>1, NoLocalsType DEF FetchChainEpoch, NoLocals, Locals
    <3> QED
      BY <1>1, <2>1, <3>1 DEF FetchChainEpoch, chainVars
  <2>2. CASE FetchEpochInfo \/ FetchWallet \/ RecordSnapshot
    <3>1. loc'.epoch = loc.epoch
      BY <2>2 DEF FetchEpochInfo, FetchWallet, RecordSnapshot, RecordAndThen, TypeInv, TypeOK, Locals
    <3> QED
      BY <1>3, <3>1
  <2>3. CASE FetchParticipantStats
    <3>1. loc'.epoch \in {loc.epoch, 0}
      BY <2>3 DEF FetchParticipantStats, NoLocals, TypeInv, TypeOK, Locals
    <3> QED
      BY <1>1, <1>3, <3>1
  <2>4. CASE loc' = NoLocals
    BY <1>1, <2>4 DEF NoLocals
  <2>5. CASE UNCHANGED loc
    BY <1>3, <2>5
  <2> QED
    BY <2>1, <2>2, <2>3, <2>4, <2>5 DEF Next, ChainStep, CycleStep, memory, vars,
       FetchBlockTime, FetchGroupData, UpdateEpochMaxAndGauges, DetectBoundary, StoreEpoch, StoreAs,
       OpenHistory, WriteHistory, CloseBoundary, CloseWith, OpenState, WriteState,
       CollectNodes, Restart, Crash, ForgetMemory
<1>6. LoadState(stateFile').chainEpoch <= epoch'
  <2>1. stateFile' \in {stateFile, Nil, st}
    BY FilesFrom
  <2>2. LoadState(st).chainEpoch \in {st.chainEpoch, 0} /\ LoadState(Nil).chainEpoch = 0
    BY DEF LoadState, EmptyState, TypeInv, TypeOK, EpochState
  <2> QED
    BY <1>1, <1>3, <2>1, <2>2
<1>7. pc' \in Boundary => st'.chainEpoch < loc'.epoch
  <2>1. CASE pc \in Boundary /\ pc' \in Boundary
    <3>1. st'.chainEpoch = st.chainEpoch /\ loc'.epoch = loc.epoch
      BY <2>1 DEF Boundary, Next, ChainStep, CycleStep, memory, vars, TypeInv, TypeOK, Locals,
         FetchChainEpoch, FetchEpochInfo, FetchBlockTime, FetchGroupData,
         FetchParticipantStats, FetchWallet, UpdateEpochMaxAndGauges, DetectBoundary,
         StoreEpoch, StoreAs, RecordSnapshot, RecordAndThen, OpenHistory, WriteHistory, CloseBoundary, CloseWith,
         OpenState, WriteState, CollectNodes, Restart, Crash
    <3> QED
      BY <2>1, <3>1 DEF NotAhead
  <2>2. CASE pc \notin Boundary /\ pc' \in Boundary
    <3>1. DetectBoundary
      BY <2>2 DEF Boundary, Next, ChainStep, CycleStep, memory, vars,
         FetchChainEpoch, FetchEpochInfo, FetchBlockTime, FetchGroupData,
         FetchParticipantStats, FetchWallet, UpdateEpochMaxAndGauges,
         RecordSnapshot, RecordAndThen, OpenHistory, WriteHistory, CloseBoundary, CloseWith, StoreEpoch, StoreAs,
         OpenState, WriteState, CollectNodes, Restart, Crash
    <3> QED
      BY <1>2, <2>2, <3>1 DEF DetectBoundary, IsBoundary, StoreEpoch, StoreAs, Boundary
  <2> QED
    BY <2>1, <2>2
<1>8. Past(history)'
  <2>1. CASE RecordSnapshot
    <3>1. st.chainEpoch < epoch
      BY <1>1, <1>2, <2>1 DEF RecordSnapshot, RecordAndThen, Boundary, NotAhead
    <3>2. PICK perf \in BOOLEAN :
            history' = Pruned([history EXCEPT ![addr][st.chainEpoch] = NewSnapshot(perf)])
      BY <2>1 DEF RecordSnapshot, RecordAndThen
    <3> DEFINE h == [history EXCEPT ![addr][st.chainEpoch] = NewSnapshot(perf)]
    <3>3. h \in History
      BY <2>1, NewSnapshotType DEF RecordSnapshot, RecordAndThen, TypeInv, SnapshotReady, Boundary, TypeOK, History
    <3>4. Past(h)
      BY <3>1, <3>3, EpochType DEF Past, NotAhead, TypeInv, TypeOK, History
    <3> history' = Pruned(h)
      BY <3>2
    <3> HIDE DEF h
    <3>5. \A p \in Participant, e \in Epoch : Pruned(h)[p][e] \in {h[p][e], Nil}
      BY <3>3, PrunedOnlyForgets
    <3>6. \A p \in Participant, e \in Epoch : Pruned(h)[p][e] # Nil => e < epoch'
      BY <3>4, <3>5, PastGrows
    <3> QED
      BY <3>6 DEF Past
  <2>2. CASE ~ RecordSnapshot
    <3>1. history' \in {history, LoadHistory(historyFile), EmptyHistory}
      BY <2>2, HistoryFrom
    <3>2. \A p \in Participant, e \in Epoch :
            history'[p][e] \in {history[p][e], LoadHistory(historyFile)[p][e], Nil}
      BY <3>1, EmptyHistoryEmpty
    <3>3. \A p \in Participant, e \in Epoch : history'[p][e] # Nil => e < epoch
      BY <3>2 DEF Past, NotAhead
    <3>4. \A e \in Epoch : e < epoch => e < epoch'
      BY <1>1, EpochType
    <3> QED
      BY <3>3, <3>4 DEF Past
  <2> QED
    BY <2>1, <2>2
<1>9. Past(LoadHistory(historyFile))'
  <2>1. historyFile' \in {historyFile, Nil, history}
    BY FilesFrom
  <2>2. LoadHistory(historyFile') \in {LoadHistory(historyFile), EmptyHistory, history}
    BY <2>1 DEF LoadHistory
  <2>3. \A p \in Participant, e \in Epoch :
          LoadHistory(historyFile')[p][e] # Nil => e < epoch
    BY <2>2, EmptyHistoryEmpty DEF Past, NotAhead
  <2>4. \A e \in Epoch : e < epoch => e < epoch'
    BY <1>1, EpochType
  <2> QED
    BY <2>3, <2>4 DEF Past
<1> QED
  BY <1>4, <1>5, <1>6, <1>7, <1>8, <1>9 DEF NotAhead

LEMMA NotAheadInvariant == Spec => []NotAhead
<1> QED
  BY InitNotAhead, NextNotAhead, TypeInvariant, PTL DEF Spec

\* Only an epoch that the chain has left is in the history or in its file.
THEOREM OnlyFinishedArchived == Spec => []OnlyFinishedEpochsArchived
<1>1. TypeInv /\ NotAhead => OnlyFinishedEpochsArchived
  BY DEF NotAhead, Past, OnlyFinishedEpochsArchived, Archived
<1> QED
  BY <1>1, NotAheadInvariant, TypeInvariant, PTL

(***************************************************************************)
(* The duration of an archived epoch is not negative.  The start and the   *)
(* end of a snapshot are the tracker's start time before and after the     *)
(* cycle's epoch info, so the tracker's start time may never go back: it   *)
(* is never ahead of the chain, and a block time that is still on its way  *)
(* is that of an epoch not older than the one it replaces.                 *)
(***************************************************************************)
Sane(h) == \A p \in Participant, e \in Epoch : h[p][e] # Nil => h[p][e].start <= h[p][e].end

Ordered ==
    /\ st.startTime <= epoch
    /\ loc.prevStart <= st.startTime
    /\ LoadState(stateFile).startTime <= epoch
    /\ pc = "block" => st.startTime <= loc.poc /\ loc.poc <= epoch
    /\ Sane(history)
    /\ Sane(LoadHistory(historyFile))

LEMMA InitOrdered == Init => Ordered
<1> SUFFICES ASSUME Init PROVE Ordered
  OBVIOUS
<1>1. LoadState(stateFile) = EmptyState /\ LoadHistory(historyFile) = EmptyHistory
  BY DEF Init, LoadState, LoadHistory
<1>2. Sane(EmptyHistory)
  BY EmptyHistoryEmpty DEF Sane
<1> QED
  BY <1>1, <1>2 DEF Init, ChainInit, Ordered, EmptyState, NoLocals

LEMMA NextOrdered == TypeInv /\ Ordered /\ [Next]_vars => Ordered'
<1> SUFFICES ASSUME TypeInv, Ordered, [Next]_vars PROVE Ordered'
  OBVIOUS
<1>1. epoch \in Nat /\ epoch' \in Nat /\ epoch <= epoch'
  BY EpochGrows
<1>2. st.startTime \in Nat /\ loc.prevStart \in Nat /\ loc.poc \in Nat
      /\ LoadState(stateFile).startTime \in Nat
  BY LoadStateType, EpochType DEF TypeInv, TypeOK, EpochState, Locals
<1>3. st.startTime <= epoch' /\ LoadState(stateFile).startTime <= epoch'
  BY <1>1, <1>2 DEF Ordered
<1>4. st'.startTime <= epoch' /\ loc'.prevStart <= st'.startTime
  <2>1. CASE FetchBlockTime
    <3>1. st'.startTime \in {st.startTime, loc.poc} /\ loc' = loc /\ epoch' = epoch
      BY <2>1 DEF FetchBlockTime, chainVars, TypeInv, TypeOK, EpochState
    <3> QED
      BY <1>1, <1>2, <2>1, <3>1 DEF FetchBlockTime, Ordered
  <2>2. CASE FetchChainEpoch
    <3>1. st' = st /\ loc'.prevStart = st.startTime
      BY <2>2, NoLocalsType DEF FetchChainEpoch, Locals
    <3> QED
      BY <1>2, <1>3, <3>1
  <2>3. CASE (\E p \in Participant : Restart(p)) \/ Crash
    BY <1>1, <1>2, <1>3, <2>3 DEF Restart, Crash, ForgetMemory, EmptyState, NoLocals
  <2>4. CASE st'.startTime = st.startTime /\ loc'.prevStart \in {loc.prevStart, 0}
    BY <1>2, <1>3, <2>4 DEF Ordered
  <2>5. CASE UNCHANGED <<st, loc>>
    BY <1>3, <2>5 DEF Ordered
  <2>6. CASE FetchEpochInfo \/ FetchWallet \/ RecordSnapshot
    <3>1. st'.startTime = st.startTime /\ loc'.prevStart = loc.prevStart
      BY <2>6 DEF FetchEpochInfo, FetchWallet, RecordSnapshot, RecordAndThen, TypeInv, TypeOK, Locals, EpochState
    <3> QED
      BY <2>4, <3>1
  <2>7. CASE FetchParticipantStats
    <3>1. st' = st
      BY <2>7 DEF FetchParticipantStats
    <3>2. loc'.prevStart \in {loc.prevStart, 0}
      BY <2>7 DEF FetchParticipantStats, NoLocals, TypeInv, TypeOK, Locals
    <3> QED
      BY <2>4, <3>1, <3>2
  <2>8. CASE DetectBoundary \/ CloseBoundary
    <3>1. st'.startTime = st.startTime
      BY <2>8 DEF DetectBoundary, CloseBoundary, CloseWith, StoreEpoch, StoreAs, TypeInv, TypeOK, EpochState
    <3>2. loc' \in {loc, NoLocals}
      BY <2>8 DEF DetectBoundary, CloseBoundary, CloseWith, StoreEpoch, StoreAs
    <3>3. loc'.prevStart \in {loc.prevStart, 0}
      BY <3>2 DEF NoLocals
    <3> QED
      BY <2>4, <3>1, <3>3
  <2> QED
    BY <2>1, <2>2, <2>3, <2>5, <2>6, <2>7, <2>8 DEF Next, ChainStep, CycleStep, memory, vars,
       FetchGroupData, UpdateEpochMaxAndGauges, OpenHistory, WriteHistory, OpenState,
       WriteState, CollectNodes
<1>5. LoadState(stateFile').startTime <= epoch'
  <2>1. stateFile' \in {stateFile, Nil, st}
    BY FilesFrom
  <2>2. LoadState(st).startTime \in {st.startTime, 0} /\ LoadState(Nil).startTime = 0
    BY DEF LoadState, EmptyState, TypeInv, TypeOK, EpochState
  <2> QED
    BY <1>1, <1>3, <2>1, <2>2
<1>6. pc' = "block" => st'.startTime <= loc'.poc /\ loc'.poc <= epoch'
  <2>1. CASE FetchEpochInfo
    <3>1. pc' = "block" => loc'.poc = epoch
      BY <2>1 DEF FetchEpochInfo, TypeInv, TypeOK, Locals
    <3> QED
      BY <1>1, <2>1, <3>1 DEF FetchEpochInfo, chainVars, Ordered
  <2>2. CASE UNCHANGED <<st, loc, pc>>
    BY <1>1, <1>2, <2>2 DEF Ordered
  <2>3. CASE pc' # "block"
    BY <2>3
  <2> QED
    BY <2>1, <2>2, <2>3 DEF Next, ChainStep, CycleStep, memory, vars,
       FetchChainEpoch, FetchBlockTime, FetchGroupData, FetchParticipantStats,
       FetchWallet, UpdateEpochMaxAndGauges, DetectBoundary, StoreEpoch, StoreAs, RecordSnapshot, RecordAndThen,
       OpenHistory, WriteHistory, CloseBoundary, CloseWith, OpenState, WriteState,
       CollectNodes, Restart, Crash
<1>7. Sane(history)'
  <2>1. CASE RecordSnapshot
    <3>1. PICK perf \in BOOLEAN :
            history' = Pruned([history EXCEPT ![addr][st.chainEpoch] = NewSnapshot(perf)])
      BY <2>1 DEF RecordSnapshot, RecordAndThen
    <3>2. NewSnapshot(perf).start <= NewSnapshot(perf).end
      BY DEF NewSnapshot, Snapshot, Ordered
    <3> DEFINE h == [history EXCEPT ![addr][st.chainEpoch] = NewSnapshot(perf)]
    <3>3. h \in History
      BY <2>1, NewSnapshotType DEF RecordSnapshot, RecordAndThen, TypeInv, SnapshotReady, Boundary, TypeOK, History
    <3>4. \A p \in Participant, e \in Epoch : h[p][e] \in {history[p][e], NewSnapshot(perf)}
      BY DEF TypeInv, TypeOK, History
    <3>5. history' = Pruned(h)
      BY <3>1
    <3> HIDE DEF h
    <3>6. \A p \in Participant, e \in Epoch :
            history'[p][e] \in {history[p][e], NewSnapshot(perf), Nil}
      BY <3>3, <3>4, <3>5, PrunedOnlyForgets
    <3> QED
      BY <3>2, <3>6 DEF Sane, Ordered
  <2>2. CASE ~ RecordSnapshot
    <3>1. history' \in {history, LoadHistory(historyFile), EmptyHistory}
      BY <2>2, HistoryFrom
    <3> QED
      BY <3>1, EmptyHistoryEmpty DEF Sane, Ordered
  <2> QED
    BY <2>1, <2>2
<1>8. Sane(LoadHistory(historyFile))'
  <2>1. historyFile' \in {historyFile, Nil, history}
    BY FilesFrom
  <2>2. LoadHistory(historyFile') \in {LoadHistory(historyFile), EmptyHistory, history}
    BY <2>1 DEF LoadHistory
  <2> QED
    BY <2>2, EmptyHistoryEmpty DEF Sane, Ordered
<1> QED
  BY <1>4, <1>5, <1>6, <1>7, <1>8 DEF Ordered

LEMMA OrderedInvariant == Spec => []Ordered
<1> QED
  BY InitOrdered, NextOrdered, TypeInvariant, PTL DEF Spec

\* The duration of an archived epoch is not negative, in whatever order the chain moves
\* and requests fail, and across restarts with an old or a lost state file.
THEOREM NonNegativeDurations == Spec => []DurationsNonNegative
<1>1. TypeInv /\ Ordered => DurationsNonNegative
  BY DEF Ordered, Sane, DurationsNonNegative, Archived
<1> QED
  BY <1>1, OrderedInvariant, TypeInvariant, PTL

(***************************************************************************)
(* A process writes the snapshot of an epoch once.  Every archived epoch   *)
(* is older than the one the cycle has read, hence than the one st moves   *)
(* to; only the epoch st was given by the state file may be archived       *)
(* already when its end is detected.                                       *)
(***************************************************************************)
Older(bound) == \A e \in Epoch : history[addr][e] # Nil => e < bound

Fresh ==
    /\ loc.epoch # 0 => Older(loc.epoch)
    /\ \/ st.chainEpoch \in {0, boot}
       \/ pc \in Boundary \ {"perf"}
       \/ Older(st.chainEpoch)
    /\ pc = "down" => history = EmptyHistory

LEMMA InitFresh == Init => Fresh
  BY DEF Init, Fresh, NoLocals, EmptyState

LEMMA RecordedHistory ==
  ASSUME TypeInv, RecordSnapshot, NEW p \in Participant, NEW e \in Epoch
  PROVE  history'[p][e] \in {history[p][e], Nil} \/ (p = addr /\ e = st.chainEpoch)
<1>1. PICK perf \in BOOLEAN :
        history' = Pruned([history EXCEPT ![addr][st.chainEpoch] = NewSnapshot(perf)])
  BY DEF RecordSnapshot, RecordAndThen
<1> DEFINE h == [history EXCEPT ![addr][st.chainEpoch] = NewSnapshot(perf)]
<1>2. h \in History
  BY NewSnapshotType DEF RecordSnapshot, RecordAndThen, TypeInv, SnapshotReady, Boundary, TypeOK, History
<1>3. h[p][e] = history[p][e] \/ (p = addr /\ e = st.chainEpoch)
  BY DEF TypeInv, TypeOK, History
<1>4. history' = Pruned(h)
  BY <1>1
<1> HIDE DEF h
<1> QED
  BY <1>2, <1>3, <1>4, PrunedOnlyForgets

LEMMA NextFresh == TypeInv /\ NotAhead /\ Fresh /\ [Next]_vars => Fresh'
<1> SUFFICES ASSUME TypeInv, NotAhead, Fresh, [Next]_vars PROVE Fresh'
  OBVIOUS
<1>1. CASE FetchChainEpoch
  <2>1. UNCHANGED <<st, history, addr, boot>> /\ loc'.epoch \in {epoch, 0}
        /\ pc \notin Boundary /\ pc' # "down"
    BY <1>1, NoLocalsType DEF FetchChainEpoch, NoLocals, Locals, process, Boundary
  <2>2. Older(epoch)
    BY DEF NotAhead, Past, Older, TypeInv, TypeOK
  <2> QED
    BY <2>1, <2>2 DEF Fresh, Older
<1>2. CASE RecordSnapshot
  <2>1. loc'.epoch = loc.epoch /\ addr' = addr
    BY <1>2 DEF RecordSnapshot, RecordAndThen, process, TypeInv, TypeOK, Locals
  <2>2. st.chainEpoch < loc.epoch /\ loc.epoch # 0 /\ pc' \in Boundary \ {"perf"}
    BY <1>2, EpochType DEF RecordSnapshot, RecordAndThen, Boundary, NotAhead, TypeInv, TypeOK, EpochState
  <2>3. Older(loc.epoch)'
    BY <1>2, <2>1, <2>2, RecordedHistory DEF Fresh, Older, TypeInv, TypeOK
  <2> QED
    BY <2>2, <2>3 DEF Fresh, Boundary
<1>3. CASE DetectBoundary
  <2>1. CASE UNCHANGED <<st, loc>> /\ pc' = "perf"
    BY <1>3, <2>1 DEF DetectBoundary, process, Fresh, Older, Boundary
  <2>2. CASE StoreEpoch(IF ~ st.valid /\ loc.wallet # Nil THEN loc.wallet ELSE st.baseline)
    <3>1. st'.chainEpoch = loc.epoch /\ loc'.epoch = 0 /\ pc' # "down"
      BY <2>2 DEF StoreEpoch, StoreAs, NoLocals, TypeInv, TypeOK, EpochState
    <3> QED
      BY <1>3, <3>1 DEF DetectBoundary, process, Fresh, Older
  <2> QED
    BY <1>3, <2>1, <2>2 DEF DetectBoundary
<1>4. CASE CloseBoundary
  <2>1. st'.chainEpoch = loc.epoch /\ loc'.epoch = 0 /\ pc' # "down"
    BY <1>4 DEF CloseBoundary, CloseWith, StoreEpoch, StoreAs, NoLocals, TypeInv, TypeOK, EpochState
  <2> QED
    BY <1>4, <2>1 DEF CloseBoundary, CloseWith, process, Fresh, Older
<1>5. CASE (\E p \in Participant : Restart(p)) \/ Crash
  BY <1>5 DEF Restart, Crash, ForgetMemory, NoLocals, EmptyState, Fresh
<1>6. ASSUME UNCHANGED <<history, addr, boot>>, st'.chainEpoch = st.chainEpoch,
             loc'.epoch \in {loc.epoch, 0}, pc \in Boundary \ {"perf"} => pc' \in Boundary \ {"perf"},
             pc' = "down" => pc = "down"
      PROVE  Fresh'
  BY <1>6 DEF Fresh, Older
<1>7. CASE FetchEpochInfo \/ FetchBlockTime \/ FetchWallet
  <2>1. st'.chainEpoch = st.chainEpoch /\ loc'.epoch = loc.epoch
    BY <1>7 DEF FetchEpochInfo, FetchBlockTime, FetchWallet, TypeInv, TypeOK, Locals, EpochState
  <2> QED
    BY <1>6, <1>7, <2>1 DEF FetchEpochInfo, FetchBlockTime, FetchWallet, process, Boundary
<1>8. CASE FetchParticipantStats
  <2>1. loc'.epoch \in {loc.epoch, 0}
    BY <1>8 DEF FetchParticipantStats, NoLocals, TypeInv, TypeOK, Locals
  <2> QED
    BY <1>6, <1>8, <2>1 DEF FetchParticipantStats, process, Boundary
<1>9. CASE ChainStep \/ OpenHistory \/ WriteHistory \/ OpenState \/ WriteState \/ UNCHANGED vars
  <2>1. UNCHANGED <<memory, addr, boot>>
    BY <1>9 DEF ChainStep, OpenHistory, WriteHistory, OpenState, WriteState, vars, memory, process
  <2>2. pc \in Boundary \ {"perf"} => pc' \in Boundary \ {"perf"}
    BY <1>9 DEF ChainStep, OpenHistory, WriteHistory, OpenState, WriteState, vars, Boundary
  <2>3. pc' = "down" => pc = "down"
    BY <1>9 DEF ChainStep, OpenHistory, WriteHistory, OpenState, WriteState, vars
  <2> QED
    BY <1>6, <2>1, <2>2, <2>3 DEF memory
<1>10. CASE FetchGroupData \/ UpdateEpochMaxAndGauges \/ CollectNodes
  BY <1>6, <1>10 DEF FetchGroupData, UpdateEpochMaxAndGauges, CollectNodes, process, Boundary
<1> QED
  BY <1>1, <1>2, <1>3, <1>4, <1>5, <1>7, <1>8, <1>9, <1>10 DEF Next, CycleStep

LEMMA FreshInvariant == Spec => []Fresh
<1> QED
  BY InitFresh, NextFresh, TypeInvariant, NotAheadInvariant, PTL DEF Spec

\* A process writes over a snapshot only for the epoch its state file named when it
\* started.
THEOREM WrittenOnce == Spec => RewrittenOnlyAtBoot
<1> DEFINE Once == \A p \in Participant : \A e \in Archived(history, p) :
                     history'[p][e] \notin {Nil, history[p][e]} => p = addr /\ e = boot
<1>1. TypeInv /\ Fresh /\ [Next]_vars => [Once]_vars
  <2> SUFFICES ASSUME TypeInv, Fresh, Next,
                      NEW p \in Participant, NEW e \in Archived(history, p),
                      history'[p][e] \notin {Nil, history[p][e]}
               PROVE  p = addr /\ e = boot
    OBVIOUS
  <2>1. e \in Epoch /\ history[p][e] # Nil
    BY DEF Archived
  <2>2. CASE RecordSnapshot
    <3>1. p = addr /\ e = st.chainEpoch
      BY <2>1, <2>2, RecordedHistory
    <3>2. e # 0 /\ ~ (e < e)
      BY <2>1, EpochType DEF Epoch
    <3>3. pc = "perf"
      BY <2>2 DEF RecordSnapshot, RecordAndThen
    <3> QED
      BY <2>1, <3>1, <3>2, <3>3 DEF Fresh, Older
  <2>3. CASE ~ RecordSnapshot
    <3>1. history' = LoadHistory(historyFile) /\ history' # history
      BY <2>1, <2>3, HistoryFrom, EmptyHistoryEmpty
    <3>2. pc = "down" \/ history' \in {history, EmptyHistory}
      BY <2>3 DEF Next, ChainStep, CycleStep, memory,
         FetchChainEpoch, FetchEpochInfo, FetchBlockTime, FetchGroupData,
         FetchParticipantStats, FetchWallet, UpdateEpochMaxAndGauges, DetectBoundary,
         OpenHistory, WriteHistory, CloseBoundary, CloseWith,
         OpenState, WriteState, CollectNodes, Restart, Crash
    <3>3. history # EmptyHistory
      BY <2>1, EmptyHistoryEmpty
    <3> QED
      BY <2>1, <3>1, <3>2, <3>3, EmptyHistoryEmpty DEF Fresh
  <2> QED
    BY <2>2, <2>3
<1> QED
  BY <1>1, FreshInvariant, TypeInvariant, PTL DEF Spec, RewrittenOnlyAtBoot
=============================================================================
