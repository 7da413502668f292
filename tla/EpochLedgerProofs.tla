------------------------- MODULE EpochLedgerProofs -------------------------
(***************************************************************************)
(* What the epoch tracker counts and keeps: the running maxima, the        *)
(* balance at the epoch start, the number of snapshots, the node data in   *)
(* them, the amounts they show, and the gauges that agree with them.  The  *)
(* invariants build on those of EpochTrackerProofs.                        *)
(***************************************************************************)
EXTENDS EpochTrackerProofs, FiniteSetTheorems

(***************************************************************************)
(* Running maxima.                                                         *)
(***************************************************************************)
LEMMA RecentOnlyForgets ==
  ASSUME NEW em \in [Epoch -> Nat \cup {Nil}], NEW e \in Epoch
  PROVE  Recent(em)[e] \in {em[e], Nil}
  BY DEF Recent

LEMMA RunningMaxIsHigher ==
  ASSUME NEW old \in Nat, NEW new \in Nat
  PROVE  RunningMax(old, new) \in Nat /\ RunningMax(old, new) >= old
  BY NilAssumption DEF RunningMax

\* A running maximum never drops while the process runs, also when the chain enters the
\* next epoch between the request for the epoch number and the one for the statistics.
THEOREM MaximaNeverDrop == Spec => RunningMaxNeverDrops
<1> DEFINE Kept == \A e \in Epoch : Running /\ epochMax[e] # Nil /\ epochMax'[e] # Nil =>
                       epochMax'[e] >= epochMax[e]
<1>1. TypeInv /\ [Next]_vars => [Kept]_vars
  <2> SUFFICES ASSUME TypeInv, Next, Running, NEW e \in Epoch,
                      epochMax[e] # Nil, epochMax'[e] # Nil
               PROVE  epochMax'[e] >= epochMax[e]
    OBVIOUS
  <2>1. epochMax \in [Epoch -> Nat \cup {Nil}] /\ epochMax[e] \in Nat
    BY DEF TypeInv, TypeOK
  <2>2. CASE UpdateEpochMaxAndGauges
    <3>1. CASE loc.epoch = 0
      BY <2>1, <2>2, <3>1 DEF UpdateEpochMaxAndGauges
    <3>2. CASE loc.epoch # 0
      <4> DEFINE max == RunningMax(epochMax[loc.epoch], loc.count)
      <4>1. loc.epoch \in Epoch /\ loc.count \in Nat
        BY <3>2, EpochType DEF TypeInv, TypeOK, Locals
      <4>2. epochMax' = [epochMax EXCEPT ![loc.epoch] = max]
        BY <2>2, <3>2 DEF UpdateEpochMaxAndGauges
      <4>3. e = loc.epoch => max >= epochMax[e]
        BY <2>1, <4>1, RunningMaxIsHigher
      <4> HIDE DEF max
      <4> QED
        BY <2>1, <4>1, <4>2, <4>3
    <3> QED
      BY <3>1, <3>2
  <2>3. CASE CloseBoundary
    <3>1. epochMax' = Recent(epochMax)
      BY <2>3 DEF CloseBoundary, CloseWith
    <3> QED
      BY <2>1, <3>1, RecentOnlyForgets
  <2>4. CASE UNCHANGED epochMax
    BY <2>1, <2>4
  <2> QED
    BY <2>2, <2>3, <2>4 DEF Next, ChainStep, CycleStep, memory, Running,
       FetchChainEpoch, FetchEpochInfo, FetchBlockTime, FetchGroupData,
       FetchParticipantStats, FetchWallet, DetectBoundary,
       RecordSnapshot, RecordAndThen, OpenHistory, WriteHistory,
       OpenState, WriteState, CollectNodes, Restart, Crash
<1> QED
  BY <1>1, TypeInvariant, PTL DEF Spec, RunningMaxNeverDrops

(***************************************************************************)
(* The balance at the epoch start.  A tracker that is not valid yet has    *)
(* one only if the wallet was read in the same cycle, so that storing it   *)
(* once more changes nothing; and the snapshot under way holds the         *)
(* difference that moving the balance will make.                           *)
(***************************************************************************)
Recorded == {"openHistory", "writeHistory", "close"}

Ledger ==
    /\ ~ st.valid /\ st.baseline # 0 => pc \in {"update", "detect"} /\ loc.wallet = st.baseline
    /\ pc \in Recorded /\ loc.wallet # Nil => loc.snap.earned = loc.wallet - st.baseline

LEMMA InitLedger == Init => Ledger
  BY DEF Init, Ledger, EmptyState, Recorded

LEMMA NextLedger == TypeInv /\ Ledger /\ [Next]_vars => Ledger'
<1> SUFFICES ASSUME TypeInv, Ledger, [Next]_vars PROVE Ledger'
  OBVIOUS
<1>1. CASE FetchWallet
  <2>1. CASE UNCHANGED <<loc, st>>
    BY <1>1, <2>1 DEF FetchWallet, Ledger, Recorded
  <2>2. CASE /\ loc' = [loc EXCEPT !.wallet = wallet[addr]]
             /\ st' = [st EXCEPT !.baseline = IF @ = 0 THEN wallet[addr] ELSE @]
    <3>1. loc'.wallet = wallet[addr] /\ st'.valid = st.valid
          /\ st'.baseline = IF st.baseline = 0 THEN wallet[addr] ELSE st.baseline
      BY <2>2 DEF TypeInv, TypeOK, Locals, EpochState
    <3> QED
      BY <1>1, <3>1 DEF FetchWallet, Ledger, Recorded
  <2> QED
    BY <1>1, <2>1, <2>2 DEF FetchWallet
<1>2. CASE RecordSnapshot
  <2>1. PICK perf \in BOOLEAN : loc' = [loc EXCEPT !.snap = NewSnapshot(perf)]
    BY <1>2 DEF RecordSnapshot, RecordAndThen
  <2>2. loc'.wallet = loc.wallet /\ loc'.snap = NewSnapshot(perf)
    BY <2>1 DEF TypeInv, TypeOK, Locals
  <2>3. NewSnapshot(perf).earned = IF loc.wallet = Nil THEN Nil ELSE loc.wallet - st.baseline
    BY DEF NewSnapshot, Snapshot
  <2> QED
    BY <1>2, <2>2, <2>3 DEF RecordSnapshot, RecordAndThen, Ledger, Recorded
<1>3. CASE DetectBoundary \/ CloseBoundary
  <2>1. CASE UNCHANGED <<st, loc>> /\ pc' = "perf" /\ st.valid
    BY <2>1 DEF Ledger, Recorded
  <2>2. CASE st'.valid /\ pc' \in {"openState", "nodes"}
    BY <2>2 DEF Ledger, Recorded
  <2> QED
    BY <1>3, <2>1, <2>2 DEF DetectBoundary, IsBoundary, CloseBoundary, CloseWith, StoreEpoch,
       StoreAs, TypeInv, TypeOK, EpochState
<1>4. CASE (\E p \in Participant : Restart(p)) \/ Crash
  <2>1. (st'.valid \/ st'.baseline = 0) /\ pc' \notin Recorded
    BY <1>4 DEF Restart, Crash, LoadState, EmptyState, EpochState, TypeInv, TypeOK, Recorded
  <2> QED
    BY <2>1 DEF Ledger
<1>5. CASE FetchBlockTime
  <2>1. st'.valid = st.valid /\ st'.baseline = st.baseline
    BY <1>5 DEF FetchBlockTime, TypeInv, TypeOK, EpochState
  <2> QED
    BY <1>5, <2>1 DEF FetchBlockTime, Ledger, Recorded
<1>6. CASE ChainStep \/ OpenHistory \/ WriteHistory \/ OpenState \/ WriteState \/ UNCHANGED vars
  BY <1>6 DEF ChainStep, OpenHistory, WriteHistory, OpenState, WriteState, vars, memory,
     Ledger, Recorded
<1>7. CASE \/ FetchChainEpoch \/ FetchEpochInfo \/ FetchGroupData \/ FetchParticipantStats
           \/ UpdateEpochMaxAndGauges \/ CollectNodes
  BY <1>7 DEF FetchChainEpoch, FetchEpochInfo, FetchGroupData, FetchParticipantStats,
     UpdateEpochMaxAndGauges, CollectNodes, Ledger, Recorded
<1> QED
  BY <1>1, <1>2, <1>3, <1>4, <1>5, <1>6, <1>7 DEF Next, CycleStep

LEMMA LedgerInvariant == Spec => []Ledger
<1> QED
  BY InitLedger, NextLedger, TypeInvariant, PTL DEF Spec

\* The balance at the epoch start moves only by the amount that the snapshot of the
\* finished epoch shows as earned, whatever fails and whenever the process starts anew.
THEOREM IncomeAccounted == Spec => BaselineMovesWithSnapshot
<1> DEFINE Accounted == Running /\ st.baseline # 0 /\ st'.baseline # st.baseline =>
                            loc.snap # Nil /\ loc.snap.earned = st'.baseline - st.baseline
<1>1. TypeInv /\ Ledger /\ [Next]_vars => [Accounted]_vars
  <2> SUFFICES ASSUME TypeInv, Ledger, Next, Running, st.baseline # 0, st'.baseline # st.baseline
               PROVE  loc.snap # Nil /\ loc.snap.earned = st'.baseline - st.baseline
    OBVIOUS
  <2>1. CASE CloseBoundary
    <3>1. st'.baseline = Latest(st.baseline, loc.wallet) /\ pc = "close"
      BY <2>1 DEF CloseBoundary, CloseWith, StoreEpoch, StoreAs, TypeInv, TypeOK, EpochState
    <3>2. loc.wallet # Nil /\ st'.baseline = loc.wallet
      BY <3>1 DEF Latest
    <3>3. loc.snap # Nil
      BY <3>1, NilAssumption DEF TypeInv, SnapshotReady, Boundary
    <3> QED
      BY <3>1, <3>2, <3>3 DEF Ledger, Recorded
  <2>2. CASE DetectBoundary
    <3>1. st'.baseline = (IF ~ st.valid /\ loc.wallet # Nil THEN loc.wallet ELSE st.baseline)
      BY <2>2 DEF DetectBoundary, StoreEpoch, StoreAs, TypeInv, TypeOK, EpochState
    <3> QED
      BY <3>1 DEF Ledger
  <2>3. CASE FetchWallet \/ FetchBlockTime
    <3>1. st'.baseline = st.baseline
      BY <2>3 DEF FetchWallet, FetchBlockTime, TypeInv, TypeOK, EpochState
    <3> QED
      BY <3>1
  <2> QED
    BY <2>1, <2>2, <2>3 DEF Next, ChainStep, CycleStep, memory, Running,
       FetchChainEpoch, FetchEpochInfo, FetchGroupData, FetchParticipantStats,
       UpdateEpochMaxAndGauges, RecordSnapshot, RecordAndThen, OpenHistory, WriteHistory,
       OpenState, WriteState, CollectNodes, Restart, Crash
<1> QED
  BY <1>1, LedgerInvariant, TypeInvariant, PTL DEF Spec, BaselineMovesWithSnapshot

(***************************************************************************)
(* The number of snapshots.  An epoch survives when fewer than MaxHistory  *)
(* are newer.  Two epochs have different numbers of newer ones, so at most *)
(* MaxHistory survive.                                                     *)
(***************************************************************************)
LEMMA EpochFinite ==
  ASSUME NEW S \in SUBSET Epoch
  PROVE  IsFiniteSet(S) /\ Cardinality(S) \in Nat
<1>1. IsFiniteSet(Epoch)
  BY FS_Interval, BoundsAssumption DEF Epoch
<1> QED
  BY <1>1, FS_Subset, FS_CardinalityType

LEMMA FewerAreNewer ==
  ASSUME NEW h, NEW p, NEW d \in Archived(h, p), NEW e \in Archived(h, p), d < e
  PROVE  Cardinality(NewerThan(h, p, e)) < Cardinality(NewerThan(h, p, d))
<1> DEFINE D == NewerThan(h, p, d)
           E == NewerThan(h, p, e)
<1>1. d \in Nat /\ e \in Nat /\ \A x \in Archived(h, p) : x \in Nat
  BY EpochType DEF Archived
<1>2. D \in SUBSET Epoch /\ E \in SUBSET D /\ e \in D /\ e \notin E
  <2>1. D \in SUBSET Epoch
    BY DEF NewerThan, Archived
  <2>2. \A x \in E : x \in D
    BY <1>1 DEF NewerThan
  <2>3. e \in D /\ e \notin E
    BY <1>1 DEF NewerThan
  <2> QED
    BY <2>1, <2>2, <2>3
<1> HIDE DEF D, E
<1>3. IsFiniteSet(D) /\ Cardinality(D) \in Nat /\ Cardinality(E) \in Nat
  BY <1>2, EpochFinite
<1>4. Cardinality(E) <= Cardinality(D) /\ Cardinality(D) # Cardinality(E)
  BY <1>2, <1>3, FS_Subset
<1>5. Cardinality(E) < Cardinality(D)
  BY <1>3, <1>4
<1> QED
  BY <1>5 DEF D, E

LEMMA PrunedBounded ==
  ASSUME NEW h \in History, NEW p \in Participant
  PROVE  Cardinality(Archived(Pruned(h), p)) <= MaxHistory
<1> DEFINE S == Archived(Pruned(h), p)
           T == 0 .. MaxHistory - 1
           newer == [e \in S |-> Cardinality(NewerThan(h, p, e))]
<1>1. MaxHistory \in Nat
  BY BoundsAssumption
<1>2. IsFiniteSet(S) /\ Cardinality(S) \in Nat
  BY EpochFinite DEF Archived
<1>3. IsFiniteSet(T) /\ Cardinality(T) = MaxHistory
  BY <1>1, FS_Interval
<1>4. \A e \in S : e \in Archived(h, p) /\ Cardinality(NewerThan(h, p, e)) < MaxHistory
  BY DEF Pruned, Archived, History
<1>5. \A e \in S : Cardinality(NewerThan(h, p, e)) \in Nat
  BY EpochFinite DEF NewerThan, Archived
<1>6. newer \in [S -> T]
  BY <1>1, <1>4, <1>5
<1>7. \A d, e \in S : d # e => newer[d] # newer[e]
  <2>1. \A d, e \in S : d < e => newer[d] # newer[e]
    BY <1>4, <1>5, FewerAreNewer
  <2>2. \A x \in S : x \in Nat
    BY EpochType DEF Archived
  <2> HIDE DEF S, newer
  <2>3. \A d, e \in S : d # e => d < e \/ e < d
    BY <2>2
  <2> QED
    BY <2>1, <2>3
<1> HIDE DEF S, T, newer
<1>8. ~ (Cardinality(T) < Cardinality(S))
  BY <1>2, <1>3, <1>6, <1>7, FS_PigeonHole
<1>9. Cardinality(S) <= MaxHistory
  BY <1>1, <1>2, <1>3, <1>8
<1> QED
  BY <1>9 DEF S

Short(h) == \A p \in Participant : Cardinality(Archived(h, p)) <= MaxHistory

Bounded == Short(history) /\ Short(LoadHistory(historyFile))

LEMMA EmptyIsShort == Short(EmptyHistory)
<1>1. \A p \in Participant : Archived(EmptyHistory, p) = {}
  BY EmptyHistoryEmpty DEF Archived
<1> QED
  BY <1>1, FS_EmptySet, BoundsAssumption DEF Short

LEMMA InitBounded == Init => Bounded
  BY EmptyIsShort DEF Init, Bounded, LoadHistory

LEMMA NextBounded == TypeInv /\ Bounded /\ [Next]_vars => Bounded'
<1> SUFFICES ASSUME TypeInv, Bounded, [Next]_vars PROVE Bounded'
  OBVIOUS
<1>1. Short(history')
  <2>1. CASE RecordSnapshot
    <3>1. PICK perf \in BOOLEAN :
            history' = Pruned([history EXCEPT ![addr][st.chainEpoch] = NewSnapshot(perf)])
      BY <2>1 DEF RecordSnapshot, RecordAndThen
    <3>2. [history EXCEPT ![addr][st.chainEpoch] = NewSnapshot(perf)] \in History
      BY <2>1, NewSnapshotType DEF RecordSnapshot, RecordAndThen, TypeInv, SnapshotReady, Boundary, TypeOK, History
    <3> QED
      BY <3>1, <3>2, PrunedBounded DEF Short
  <2>2. CASE ~ RecordSnapshot
    BY <2>2, HistoryFrom, EmptyIsShort DEF Bounded
  <2> QED
    BY <2>1, <2>2
<1>2. LoadHistory(historyFile') \in {LoadHistory(historyFile), EmptyHistory, history}
  BY FilesFrom DEF LoadHistory
<1>3. Short(LoadHistory(historyFile'))
  BY <1>2, EmptyIsShort DEF Bounded
<1>4. Short(history)' <=> Short(history')
  BY DEF Short, Archived
<1>5. Short(LoadHistory(historyFile))' <=> Short(LoadHistory(historyFile'))
  BY DEF Short, Archived, LoadHistory
<1> QED
  BY <1>1, <1>3, <1>4, <1>5 DEF Bounded

\* No participant ever has more than MAX_EPOCH_HISTORY snapshots in the history file,
\* whichever epochs were skipped and however often they were written.
THEOREM HistoryStaysShort == Spec => []HistoryBounded
<1>1. Bounded => HistoryBounded
  BY DEF Bounded, Short, HistoryBounded
<1> QED
  BY <1>1, InitBounded, NextBounded, TypeInvariant, PTL DEF Spec

(***************************************************************************)
(* Node data.  Outside the rest of a boundary, when recordSnapshot has     *)
(* archived the epoch and not yet started the node data anew, all of it    *)
(* was read after every archived epoch had ended.                          *)
(***************************************************************************)
ReadAfter(h, samples) == \A d \in Epoch : h[addr][d] # Nil => \A read \in samples : read > d

OwnNodes ==
    /\ pc \notin Recorded => ReadAfter(history, epochNode)
    /\ pc = "down" => history = EmptyHistory

LEMMA InitOwnNodes == Init => OwnNodes
  BY DEF Init, OwnNodes, ReadAfter

LEMMA NextOwnNodes == TypeInv /\ NotAhead /\ OwnNodes /\ [Next]_vars => OwnNodes'
<1> SUFFICES ASSUME TypeInv, NotAhead, OwnNodes, [Next]_vars PROVE OwnNodes'
  OBVIOUS
<1>1. CASE RecordSnapshot
  BY <1>1 DEF RecordSnapshot, RecordAndThen, OwnNodes, Recorded
<1>2. CASE CloseBoundary \/ (\E p \in Participant : Restart(p)) \/ Crash
  <2>1. epochNode' = {} /\ (pc' = "down" => history' = EmptyHistory)
    BY <1>2 DEF CloseBoundary, CloseWith, StoreEpoch, StoreAs, Restart, Crash, ForgetMemory
  <2> QED
    BY <2>1 DEF OwnNodes, ReadAfter
<1>3. CASE CollectNodes
  <2>1. epochNode' \in {epochNode, epochNode \cup {epoch}} /\ UNCHANGED <<history, addr>>
        /\ pc \notin Recorded /\ pc' # "down"
    BY <1>3 DEF CollectNodes, process, Recorded
  <2>2. \A d \in Epoch : history[addr][d] # Nil => epoch > d
    BY EpochType DEF NotAhead, Past, TypeInv, TypeOK, ChainTypeOK
  <2> QED
    BY <2>1, <2>2 DEF OwnNodes, ReadAfter
<1>4. CASE /\ UNCHANGED <<history, addr, epochNode>>
           /\ pc' \notin Recorded => pc \notin Recorded
           /\ pc' = "down" => pc = "down"
  BY <1>4 DEF OwnNodes, ReadAfter
<1>5. CASE ChainStep \/ OpenHistory \/ WriteHistory \/ OpenState \/ WriteState \/ UNCHANGED vars
  BY <1>4, <1>5 DEF ChainStep, OpenHistory, WriteHistory, OpenState, WriteState, vars, memory,
     process, Recorded
<1>6. CASE \/ FetchChainEpoch \/ FetchEpochInfo \/ FetchBlockTime \/ FetchGroupData
           \/ FetchParticipantStats \/ FetchWallet \/ UpdateEpochMaxAndGauges \/ DetectBoundary
  BY <1>4, <1>6 DEF FetchChainEpoch, FetchEpochInfo, FetchBlockTime, FetchGroupData,
     FetchParticipantStats, FetchWallet, UpdateEpochMaxAndGauges, DetectBoundary, StoreEpoch,
     StoreAs, process, Recorded
<1> QED
  BY <1>1, <1>2, <1>3, <1>5, <1>6 DEF Next, CycleStep

LEMMA OwnNodesInvariant == Spec => []OwnNodes
<1> QED
  BY InitOwnNodes, NextOwnNodes, TypeInvariant, NotAheadInvariant, PTL DEF Spec

\* The node weights that go into a snapshot were all read after every epoch that is
\* archived already had ended, also when the process starts anew or writes a snapshot
\* once more.
THEOREM NodeDataOfItsOwnEpoch == Spec => NodeDataNotCarriedOver
<1> DEFINE Own == \A p \in Participant : \A e \in Epoch : history'[p][e] \notin {Nil, history[p][e]} =>
                      \A d \in Archived(history, p) : \A read \in history'[p][e].samples : read > d
<1>1. TypeInv /\ OwnNodes /\ [Next]_vars => [Own]_vars
  <2> SUFFICES ASSUME TypeInv, OwnNodes, Next, NEW p \in Participant, NEW e \in Epoch,
                      history'[p][e] \notin {Nil, history[p][e]},
                      NEW d \in Archived(history, p), NEW read \in history'[p][e].samples
               PROVE  read > d
    OBVIOUS
  <2>1. CASE RecordSnapshot
    <3>1. PICK perf \in BOOLEAN :
            history' = Pruned([history EXCEPT ![addr][st.chainEpoch] = NewSnapshot(perf)])
      BY <2>1 DEF RecordSnapshot, RecordAndThen
    <3> DEFINE h == [history EXCEPT ![addr][st.chainEpoch] = NewSnapshot(perf)]
    <3>2. h \in History
      BY <2>1, NewSnapshotType DEF RecordSnapshot, RecordAndThen, TypeInv, SnapshotReady, Boundary, TypeOK, History
    <3>3. p = addr /\ e = st.chainEpoch
      BY <2>1, RecordedHistory
    <3>4. h[p][e] = NewSnapshot(perf)
      BY <3>3 DEF TypeInv, TypeOK, History
    <3>5. history'[p][e] \in {h[p][e], Nil}
      BY <3>1, <3>2, PrunedOnlyForgets
    <3>6. history'[p][e].samples = epochNode
      BY <3>4, <3>5 DEF NewSnapshot, Snapshot
    <3>7. pc = "perf"
      BY <2>1 DEF RecordSnapshot, RecordAndThen
    <3> QED
      BY <3>3, <3>6, <3>7 DEF OwnNodes, ReadAfter, Recorded, Archived
  <2>2. CASE ~ RecordSnapshot
    <3>1. history'[p][e] # EmptyHistory[p][e] /\ history' # history
      BY EmptyHistoryEmpty
    <3>2. pc = "down" \/ history' \in {history, EmptyHistory}
      BY <2>2 DEF Next, ChainStep, CycleStep, memory,
         FetchChainEpoch, FetchEpochInfo, FetchBlockTime, FetchGroupData,
         FetchParticipantStats, FetchWallet, UpdateEpochMaxAndGauges, DetectBoundary,
         OpenHistory, WriteHistory, CloseBoundary, CloseWith,
         OpenState, WriteState, CollectNodes, Restart, Crash
    <3>3. history = EmptyHistory
      BY <3>1, <3>2 DEF OwnNodes
    <3> QED
      BY <3>3, EmptyHistoryEmpty DEF Archived
  <2> QED
    BY <2>1, <2>2
<1> QED
  BY <1>1, OwnNodesInvariant, TypeInvariant, PTL DEF Spec, NodeDataNotCarriedOver

(***************************************************************************)
(* No income from nothing.  As long as no balance has changed, every       *)
(* stored balance is unset or the first one.  It is the first one of the   *)
(* running participant only because there is no other participant whose    *)
(* state file it may have been started with.                               *)
(***************************************************************************)
Unpaid(h) ==
    \A p \in Participant, e \in Epoch : h[p][e] # Nil => h[p][e].earned \in {Nil, 0}

Quiet ==
    /\ wallet = FirstWallet
    /\ st.baseline \in {0, FirstWallet[addr]}
    /\ LoadState(stateFile).baseline \in {0, FirstWallet[addr]}
    /\ loc.wallet # Nil => loc.wallet = FirstWallet[addr] /\ st.baseline = FirstWallet[addr]
    /\ Unpaid(history)
    /\ Unpaid(LoadHistory(historyFile))

QuietStart == transfers = 0 => Quiet

LEMMA InitQuiet == Init => QuietStart
  BY EmptyHistoryEmpty DEF Init, ChainInit, QuietStart, Quiet, Unpaid, LoadState, LoadHistory,
     EmptyState, NoLocals

LEMMA TransfersGrow == TypeInv /\ [Next]_vars /\ transfers' = 0 => transfers = 0 /\ wallet' = wallet
<1> SUFFICES ASSUME TypeInv, [Next]_vars, transfers' = 0 PROVE transfers = 0 /\ wallet' = wallet
  OBVIOUS
<1>1. CASE ChainNext
  <2>1. transfers \in Nat
    BY DEF TypeInv, TypeOK, ChainTypeOK
  <2> QED
    BY <1>1, <2>1 DEF ChainNext, NewEpoch, Serve, Transfer
<1>2. CASE UNCHANGED chainVars
  BY <1>2 DEF chainVars
<1> QED
  BY <1>1, <1>2 DEF Next, ChainStep, CycleStep, vars,
     FetchChainEpoch, FetchEpochInfo, FetchBlockTime, FetchGroupData,
     FetchParticipantStats, FetchWallet, UpdateEpochMaxAndGauges, DetectBoundary,
     RecordSnapshot, RecordAndThen, OpenHistory, WriteHistory, CloseBoundary, CloseWith,
     OpenState, WriteState, CollectNodes, Restart, Crash

LEMMA NextQuiet ==
  ASSUME NEW only, Participant = {only}
  PROVE  TypeInv /\ QuietStart /\ [Next]_vars => QuietStart'
<1> SUFFICES ASSUME TypeInv, QuietStart, [Next]_vars, transfers' = 0 PROVE Quiet'
  BY DEF QuietStart
<1>1. Quiet /\ wallet' = FirstWallet
  BY TransfersGrow DEF QuietStart, Quiet
<1>2. addr' = addr
  BY DEF TypeInv, TypeOK, Next, ChainStep, CycleStep, process, vars,
     FetchChainEpoch, FetchEpochInfo, FetchBlockTime, FetchGroupData,
     FetchParticipantStats, FetchWallet, UpdateEpochMaxAndGauges, DetectBoundary,
     RecordSnapshot, RecordAndThen, OpenHistory, WriteHistory, CloseBoundary, CloseWith,
     OpenState, WriteState, CollectNodes, Restart, Crash
<1> DEFINE First == FirstWallet[addr]
<1>3. First \in Nat
  BY ChainAssumption DEF TypeInv, TypeOK
<1> HIDE DEF First
<1>4. st.baseline \in {0, First} /\ LoadState(stateFile).baseline \in {0, First}
      /\ (loc.wallet # Nil => loc.wallet = First /\ st.baseline = First)
  BY <1>1 DEF Quiet, First
<1>5. st'.baseline \in {0, First} /\ (loc'.wallet # Nil => loc'.wallet = First /\ st'.baseline = First)
  <2>1. CASE FetchWallet
    <3>1. CASE UNCHANGED <<loc, st>>
      BY <1>4, <3>1
    <3>2. CASE /\ loc' = [loc EXCEPT !.wallet = wallet[addr]]
               /\ st' = [st EXCEPT !.baseline = IF @ = 0 THEN wallet[addr] ELSE @]
      <4>1. loc'.wallet = wallet[addr]
            /\ st'.baseline = (IF st.baseline = 0 THEN wallet[addr] ELSE st.baseline)
        BY <3>2 DEF TypeInv, TypeOK, Locals, EpochState
      <4>2. wallet[addr] = First
        BY <1>1 DEF Quiet, First
      <4> QED
        BY <1>4, <4>1, <4>2
    <3> QED
      BY <2>1, <3>1, <3>2 DEF FetchWallet
  <2>2. CASE DetectBoundary \/ CloseBoundary
    <3>1. CASE UNCHANGED <<st, loc>>
      BY <1>4, <3>1
    <3>2. CASE st'.baseline \in {st.baseline, loc.wallet} /\ loc'.wallet = Nil
               /\ (st'.baseline # st.baseline => loc.wallet # Nil)
      BY <1>4, <3>2
    <3>3. ASSUME CloseBoundary PROVE st'.baseline = Latest(st.baseline, loc.wallet) /\ loc' = NoLocals
      BY <3>3 DEF CloseBoundary, CloseWith, StoreEpoch, StoreAs, TypeInv, TypeOK, EpochState
    <3>4. ASSUME DetectBoundary, ~ UNCHANGED <<st, loc>>
          PROVE  /\ st'.baseline = (IF ~ st.valid /\ loc.wallet # Nil THEN loc.wallet ELSE st.baseline)
                 /\ loc' = NoLocals
      BY <3>4 DEF DetectBoundary, StoreEpoch, StoreAs, TypeInv, TypeOK, EpochState
    <3> QED
      BY <2>2, <3>1, <3>2, <3>3, <3>4 DEF Latest, NoLocals
  <2>3. CASE (\E p \in Participant : Restart(p)) \/ Crash
    BY <1>4, <2>3 DEF Restart, Crash, ForgetMemory, NoLocals, EmptyState
  <2>4. CASE FetchBlockTime
    <3>1. st'.baseline = st.baseline
      BY <2>4 DEF FetchBlockTime, TypeInv, TypeOK, EpochState
    <3> QED
      BY <1>4, <2>4, <3>1 DEF FetchBlockTime
  <2>5. CASE UNCHANGED st /\ loc'.wallet \in {loc.wallet, Nil}
    BY <1>4, <2>5
  <2>6. CASE FetchChainEpoch \/ FetchEpochInfo \/ FetchParticipantStats \/ RecordSnapshot
    <3>1. CASE RecordSnapshot
      <4>1. PICK perf \in BOOLEAN : loc' = [loc EXCEPT !.snap = NewSnapshot(perf)]
        BY <3>1 DEF RecordSnapshot, RecordAndThen
      <4>2. loc'.wallet = loc.wallet
        BY <4>1 DEF TypeInv, TypeOK, Locals
      <4> QED
        BY <2>5, <3>1, <4>2 DEF RecordSnapshot, RecordAndThen
    <3>2. CASE FetchChainEpoch \/ FetchParticipantStats
      <4>1. FetchChainEpoch => loc'.wallet = Nil
        BY NoLocalsType DEF FetchChainEpoch, NoLocals, Locals
      <4>2. FetchParticipantStats => loc'.wallet \in {loc.wallet, Nil}
        BY DEF FetchParticipantStats, NoLocals, TypeInv, TypeOK, Locals
      <4> QED
        BY <2>5, <3>2, <4>1, <4>2 DEF FetchChainEpoch, FetchParticipantStats
    <3>3. CASE FetchEpochInfo
      <4>1. loc'.wallet = loc.wallet
        BY <3>3 DEF FetchEpochInfo, TypeInv, TypeOK, Locals
      <4> QED
        BY <2>5, <3>3, <4>1 DEF FetchEpochInfo
    <3> QED
      BY <2>6, <3>1, <3>2, <3>3
  <2> QED
    BY <2>1, <2>2, <2>3, <2>4, <2>5, <2>6 DEF Next, ChainStep, CycleStep, memory, vars,
       FetchGroupData, UpdateEpochMaxAndGauges, OpenHistory, WriteHistory,
       OpenState, WriteState, CollectNodes
<1>6. LoadState(stateFile').baseline \in {0, First}
  <2>1. LoadState(st).baseline \in {st.baseline, 0} /\ LoadState(Nil).baseline = 0
    BY DEF LoadState, EmptyState, TypeInv, TypeOK, EpochState
  <2> QED
    BY <1>4, <2>1, FilesFrom
<1>7. Unpaid(history')
  <2>1. CASE RecordSnapshot
    <3>1. PICK perf \in BOOLEAN :
            history' = Pruned([history EXCEPT ![addr][st.chainEpoch] = NewSnapshot(perf)])
      BY <2>1 DEF RecordSnapshot, RecordAndThen
    <3> DEFINE h == [history EXCEPT ![addr][st.chainEpoch] = NewSnapshot(perf)]
    <3>2. h \in History
      BY <2>1, NewSnapshotType DEF RecordSnapshot, RecordAndThen, TypeInv, SnapshotReady, Boundary, TypeOK, History
    <3>3. NewSnapshot(perf).earned \in {Nil, 0}
      BY <1>3, <1>4 DEF NewSnapshot, Snapshot
    <3>4. Unpaid(h)
      BY <1>1, <3>3 DEF Unpaid, Quiet, TypeInv, TypeOK, History
    <3>5. history' = Pruned(h)
      BY <3>1
    <3> HIDE DEF h
    <3> QED
      BY <3>2, <3>4, <3>5, PrunedOnlyForgets DEF Unpaid
  <2>2. CASE ~ RecordSnapshot
    <3>1. Unpaid(EmptyHistory)
      BY EmptyHistoryEmpty DEF Unpaid
    <3> QED
      BY <1>1, <2>2, <3>1, HistoryFrom DEF Quiet
  <2> QED
    BY <2>1, <2>2
<1>8. Unpaid(LoadHistory(historyFile'))
  <2>1. LoadHistory(historyFile') \in {LoadHistory(historyFile), EmptyHistory, history}
    BY FilesFrom DEF LoadHistory
  <2>2. Unpaid(EmptyHistory)
    BY EmptyHistoryEmpty DEF Unpaid
  <2> QED
    BY <1>1, <2>1, <2>2 DEF Quiet
<1> QED
  BY <1>1, <1>2, <1>5, <1>6, <1>7, <1>8 DEF Quiet, Unpaid, First

\* With one participant, and as long as no balance changes, no archived epoch has an
\* income, whatever failed before: no failed request and no restart is taken for one.
THEOREM NothingFromNothing ==
  ASSUME NEW only, Participant = {only}
  PROVE  Spec => []NoPhantomIncome
<1>1. QuietStart => NoPhantomIncome
  BY DEF QuietStart, Quiet, Unpaid, NoPhantomIncome, Archived
<1>2. TypeInv /\ QuietStart /\ [Next]_vars => QuietStart'
  BY NextQuiet
<1> QED
  BY <1>1, <1>2, InitQuiet, TypeInvariant, PTL DEF Spec

(***************************************************************************)
(* Gauges and archive.  While a boundary is written, only the gauges of    *)
(* its own epoch may differ from the archive, and what is about to be      *)
(* published there is what was archived.  The live gauges cannot disturb   *)
(* an archived epoch, because it is older than the one the cycle has read  *)
(* (Fresh).                                                                *)
(***************************************************************************)
Matches(snap, shown) ==
    /\ shown.count = snap.count
    /\ snap.start > 0 => shown.start = snap.start
    /\ snap.earned # Nil => shown.earned = snap.earned
    /\ snap.estimated # Nil => shown.estimated = snap.estimated

UnderWay(p, e) == pc \in Recorded /\ p = addr /\ e = st.chainEpoch

Shows ==
    /\ \A p \in Participant, e \in Epoch :
           history[p][e] # Nil /\ ~ UnderWay(p, e) => Matches(history[p][e], series[p][e])
    /\ pc \in Recorded => history[addr][st.chainEpoch] \in {Nil, loc.snap}

LEMMA RestoredMatches ==
  ASSUME NEW snap \in EpochSnapshot
  PROVE  Matches(snap, RestoredSeries(snap))
  BY NilAssumption DEF Matches, RestoredSeries

LEMMA PublishedMatches ==
  ASSUME NEW snap, NEW old
  PROVE  Matches(snap, Published(old, snap))
  BY DEF Matches, Published, PublishedAs, Latest

LEMMA InitShows == Init => Shows
  BY EmptyHistoryEmpty DEF Init, Shows, Recorded

\* Gauges of an epoch that is not archived may change, and node data any time.
LEMMA ShowsKept ==
  ASSUME TypeInv, Shows, UNCHANGED <<history, addr>>, pc \notin Recorded, pc' \notin Recorded,
         \A p \in Participant, e \in Epoch :
             \/ series'[p][e] = series[p][e]
             \/ history[p][e] = Nil
             \/ \A snap : Matches(snap, series[p][e]) => Matches(snap, series'[p][e])
  PROVE  Shows'
  BY DEF Shows, UnderWay

LEMMA NextShows == TypeInv /\ Fresh /\ Shows /\ [Next]_vars => Shows'
<1> SUFFICES ASSUME TypeInv, Fresh, Shows, [Next]_vars PROVE Shows'
  OBVIOUS
<1>1. CASE RecordSnapshot
  <2>1. PICK perf \in BOOLEAN :
          /\ history' = Pruned([history EXCEPT ![addr][st.chainEpoch] = NewSnapshot(perf)])
          /\ loc' = [loc EXCEPT !.snap = NewSnapshot(perf)]
    BY <1>1 DEF RecordSnapshot, RecordAndThen
  <2> DEFINE h == [history EXCEPT ![addr][st.chainEpoch] = NewSnapshot(perf)]
  <2>2. h \in History /\ st.chainEpoch \in Epoch /\ addr \in Participant
    BY <1>1, EpochType, NewSnapshotType DEF RecordSnapshot, RecordAndThen, TypeInv, SnapshotReady, Boundary, TypeOK, History, EpochState
  <2>3. loc'.snap = NewSnapshot(perf)
    BY <2>1 DEF TypeInv, TypeOK, Locals
  <2>4. h[addr][st.chainEpoch] = NewSnapshot(perf)
    BY <2>2 DEF TypeInv, TypeOK, History
  <2>5. history'[addr][st.chainEpoch] \in {Nil, loc'.snap}
    BY <2>1, <2>2, <2>3, <2>4, PrunedOnlyForgets
  <2>6. pc = "perf" /\ pc' \in Recorded /\ UNCHANGED <<series, st, addr>>
    BY <1>1 DEF RecordSnapshot, RecordAndThen, process, Recorded
  <2>7. pc \notin Recorded
    BY <2>6 DEF Recorded
  <2>8. \A p \in Participant, e \in Epoch :
          history'[p][e] # Nil /\ ~ (p = addr /\ e = st.chainEpoch) =>
              Matches(history'[p][e], series[p][e])
    BY <1>1, <2>7, RecordedHistory DEF Shows, UnderWay
  <2> QED
    BY <2>5, <2>6, <2>8 DEF Shows, UnderWay, Matches
<1>2. CASE CloseBoundary
  <2>1. st.chainEpoch \in Epoch /\ addr \in Participant /\ pc \in Recorded
    BY <1>2, EpochType DEF CloseBoundary, CloseWith, Recorded, Boundary, TypeInv, SnapshotReady, TypeOK, EpochState
  <2>2. series' = [series EXCEPT ![addr][st.chainEpoch] =
                      Published(series[addr][st.chainEpoch], loc.snap)]
    BY <1>2 DEF CloseBoundary, CloseWith
  <2>3. UNCHANGED <<history, addr>> /\ pc' \notin Recorded
    BY <1>2 DEF CloseBoundary, CloseWith, StoreEpoch, StoreAs, process, Recorded
  <2>4. \A p \in Participant, e \in Epoch :
          IF p = addr /\ e = st.chainEpoch
          THEN series'[p][e] = Published(series[addr][st.chainEpoch], loc.snap)
          ELSE series'[p][e] = series[p][e]
    BY <2>1, <2>2 DEF TypeInv, TypeOK, AllSeries
  <2>5. \A p \in Participant, e \in Epoch :
          history[p][e] # Nil => Matches(history[p][e], series'[p][e])
    BY <2>1, <2>4, PublishedMatches DEF Shows, UnderWay
  <2> QED
    BY <2>3, <2>5 DEF Shows, Matches
<1>3. CASE FetchGroupData \/ UpdateEpochMaxAndGauges
  <2>1. pc \notin Recorded /\ pc' \notin Recorded /\ UNCHANGED <<history, addr>>
    BY <1>3 DEF FetchGroupData, UpdateEpochMaxAndGauges, process, Recorded
  <2>2. CASE loc.epoch = 0
    <3>1. UNCHANGED series
      BY <1>3, <2>2 DEF FetchGroupData, UpdateEpochMaxAndGauges
    <3> QED
      BY <2>1, <3>1, ShowsKept
  <2>3. CASE loc.epoch # 0
    <3>1. loc.epoch \in Epoch /\ addr \in Participant
      BY <2>3, EpochType DEF TypeInv, TypeOK, Locals
    <3>2. history[addr][loc.epoch] = Nil
      <4> DEFINE read == loc.epoch
      <4>1. read \in Nat
        BY <3>1, EpochType
      <4> HIDE DEF read
      <4>2. ~ (read < read)
        BY <4>1
      <4>3. Older(loc.epoch)
        BY <2>3 DEF Fresh
      <4> QED
        BY <3>1, <4>2, <4>3 DEF Older, read
    <3>3. \A p \in Participant, e \in Epoch :
            p # addr \/ e # loc.epoch => series'[p][e] = series[p][e]
      BY <1>3, <2>3 DEF FetchGroupData, UpdateEpochMaxAndGauges, TypeInv, TypeOK, AllSeries
    <3> QED
      BY <2>1, <3>2, <3>3, ShowsKept
  <2> QED
    BY <2>2, <2>3
<1>4. CASE CollectNodes
  <2>1. pc \notin Recorded /\ pc' \notin Recorded /\ UNCHANGED <<history, addr>>
    BY <1>4 DEF CollectNodes, process, Recorded
  <2>2. CASE UNCHANGED series
    BY <2>1, <2>2, ShowsKept
  <2>3. CASE series' = [series EXCEPT ![addr][st.chainEpoch].samples = epochNode']
    <3>1. \A p \in Participant, e \in Epoch :
            series'[p][e] \in {series[p][e], [series[p][e] EXCEPT !.samples = epochNode']}
      BY <2>3 DEF TypeInv, TypeOK, AllSeries
    <3>2. \A p \in Participant, e \in Epoch : series[p][e] \in Series
      BY DEF TypeInv, TypeOK, AllSeries
    <3>3. \A p \in Participant, e \in Epoch : \A snap :
            Matches(snap, series[p][e]) => Matches(snap, series'[p][e])
      BY <3>1, <3>2 DEF Matches, Series
    <3> QED
      BY <2>1, <3>3, ShowsKept
  <2> QED
    BY <1>4, <2>2, <2>3 DEF CollectNodes
<1>5. CASE \E p \in Participant : Restart(p)
  <2>1. /\ history' = LoadHistory(historyFile)
        /\ series' = [q \in Participant |-> [e \in Epoch |-> RestoredSeries(history'[q][e])]]
        /\ pc' \notin Recorded
    BY <1>5 DEF Restart, Recorded
  <2>2. history' \in History
    BY <2>1, LoadHistoryType DEF TypeInv, TypeOK
  <2>3. \A q \in Participant, e \in Epoch :
          history'[q][e] # Nil => Matches(history'[q][e], series'[q][e])
    BY <2>1, <2>2, RestoredMatches DEF History
  <2> QED
    BY <2>1, <2>3 DEF Shows, Matches
<1>6. CASE Crash
  BY <1>6, EmptyHistoryEmpty DEF Crash, Shows, Recorded
<1>7. CASE OpenHistory \/ WriteHistory
  <2>1. UNCHANGED <<history, series, addr, st, loc>> /\ pc \in Recorded /\ pc' \in Recorded
    BY <1>7 DEF OpenHistory, WriteHistory, memory, process, Recorded
  <2> QED
    BY <2>1 DEF Shows, UnderWay, Matches
<1>8. CASE ChainStep \/ UNCHANGED vars
  <2>1. UNCHANGED <<history, series, addr, st, loc, pc>>
    BY <1>8 DEF ChainStep, vars, memory, process
  <2> QED
    BY <2>1 DEF Shows, UnderWay, Matches
<1>9. CASE \/ FetchChainEpoch \/ FetchEpochInfo \/ FetchBlockTime \/ FetchParticipantStats
           \/ FetchWallet \/ DetectBoundary \/ OpenState \/ WriteState
  <2>1. UNCHANGED <<history, series, addr>> /\ pc \notin Recorded /\ pc' \notin Recorded
    BY <1>9 DEF FetchChainEpoch, FetchEpochInfo, FetchBlockTime, FetchParticipantStats,
       FetchWallet, DetectBoundary, StoreEpoch, StoreAs, OpenState, WriteState, memory, process, Recorded
  <2> QED
    BY <2>1, ShowsKept
<1> QED
  BY <1>1, <1>2, <1>3, <1>4, <1>5, <1>6, <1>7, <1>8, <1>9 DEF Next, CycleStep

LEMMA ShowsInvariant == Spec => []Shows
<1> QED
  BY InitShows, NextShows, TypeInvariant, FreshInvariant, PTL DEF Spec

(***************************************************************************)
(* Node data.  collectNodes sets it for the epoch of st, which is not      *)
(* archived yet (Fresh), unless it is the one the state file named at      *)
(* start: that one is excepted until its boundary is found again, which    *)
(* publishes its new snapshot.                                             *)
(***************************************************************************)
NodesMatch(snap, shown) == snap.samples # {} => shown.samples = snap.samples

Resumed(p, e) == p = addr /\ e = boot

ShowsNodes ==
    \A p \in Participant, e \in Epoch :
        history[p][e] # Nil /\ ~ UnderWay(p, e) /\ ~ Resumed(p, e) =>
            NodesMatch(history[p][e], series[p][e])

LEMMA InitShowsNodes == Init => ShowsNodes
  BY EmptyHistoryEmpty DEF Init, ShowsNodes

LEMMA ShowsNodesKept ==
  ASSUME ShowsNodes, UNCHANGED <<history, addr, boot>>, pc \notin Recorded, pc' \notin Recorded,
         \A p \in Participant, e \in Epoch :
             series'[p][e] = series[p][e] \/ history[p][e] = Nil \/ Resumed(p, e)
  PROVE  ShowsNodes'
  BY DEF ShowsNodes, UnderWay, Resumed, NodesMatch

\* The epoch that a cycle has read is not archived.
LEMMA NotReadArchived ==
  ASSUME TypeInv, NEW e \in Epoch, Older(e)
  PROVE  history[addr][e] = Nil
<1>1. e \in Nat
  BY EpochType
<1>2. ~ (e < e)
  BY <1>1
<1> QED
  BY <1>2 DEF Older

LEMMA NextShowsNodes == TypeInv /\ Fresh /\ Shows /\ ShowsNodes /\ [Next]_vars => ShowsNodes'
<1> SUFFICES ASSUME TypeInv, Fresh, Shows, ShowsNodes, [Next]_vars PROVE ShowsNodes'
  OBVIOUS
<1>1. CASE RecordSnapshot
  <2>1. /\ pc \notin Recorded /\ pc' \in Recorded
        /\ UNCHANGED <<series, st, addr, boot>>
    BY <1>1 DEF RecordSnapshot, RecordAndThen, process, Recorded
  <2>2. \A p \in Participant, e \in Epoch :
          history'[p][e] # Nil /\ ~ (p = addr /\ e = st.chainEpoch) => history'[p][e] = history[p][e]
    BY <1>1, RecordedHistory
  <2> QED
    BY <2>1, <2>2 DEF ShowsNodes, UnderWay, Resumed, NodesMatch
<1>2. CASE CloseBoundary
  <2>1. st.chainEpoch \in Epoch /\ addr \in Participant /\ pc \in Recorded
    BY <1>2, EpochType DEF CloseBoundary, CloseWith, Recorded, Boundary, TypeInv, SnapshotReady, TypeOK, EpochState
  <2>2. series' = [series EXCEPT ![addr][st.chainEpoch] =
                      Published(series[addr][st.chainEpoch], loc.snap)]
    BY <1>2 DEF CloseBoundary, CloseWith
  <2>3. /\ UNCHANGED <<history, addr>> /\ pc' \notin Recorded
        /\ boot' = IF boot = st.chainEpoch THEN 0 ELSE boot
    BY <1>2 DEF CloseBoundary, CloseWith, StoreEpoch, StoreAs, Recorded
  <2>4. \A p \in Participant, e \in Epoch :
          IF p = addr /\ e = st.chainEpoch
          THEN series'[p][e] = Published(series[addr][st.chainEpoch], loc.snap)
          ELSE series'[p][e] = series[p][e]
    BY <2>1, <2>2 DEF TypeInv, TypeOK, AllSeries
  <2>5. NodesMatch(loc.snap, Published(series[addr][st.chainEpoch], loc.snap))
    BY DEF NodesMatch, Published, PublishedAs
  <2>6. history[addr][st.chainEpoch] \in {Nil, loc.snap}
    BY <2>1 DEF Shows
  <2>7. ASSUME NEW p \in Participant, NEW e \in Epoch, history[p][e] # Nil, ~ Resumed(p, e)'
        PROVE  NodesMatch(history[p][e], series'[p][e])
    <3>1. CASE p = addr /\ e = st.chainEpoch
      BY <2>4, <2>5, <2>6, <2>7, <3>1
    <3>2. CASE ~ (p = addr /\ e = st.chainEpoch)
      <4>1. ~ Resumed(p, e)
        BY <2>3, <2>7, <3>2 DEF Resumed
      <4> QED
        BY <2>4, <2>7, <3>2, <4>1 DEF ShowsNodes, UnderWay
    <3> QED
      BY <3>1, <3>2
  <2> QED
    BY <2>3, <2>7 DEF ShowsNodes, NodesMatch
<1>3. CASE FetchGroupData \/ UpdateEpochMaxAndGauges
  <2>1. pc \notin Recorded /\ pc' \notin Recorded /\ UNCHANGED <<history, addr, boot>>
    BY <1>3 DEF FetchGroupData, UpdateEpochMaxAndGauges, process, Recorded
  <2>2. CASE loc.epoch = 0
    <3>1. UNCHANGED series
      BY <1>3, <2>2 DEF FetchGroupData, UpdateEpochMaxAndGauges
    <3> QED
      BY <2>1, <3>1, ShowsNodesKept
  <2>3. CASE loc.epoch # 0
    <3>1. loc.epoch \in Epoch
      BY <2>3, EpochType DEF TypeInv, TypeOK, Locals
    <3>2. history[addr][loc.epoch] = Nil
      BY <2>3, <3>1, NotReadArchived DEF Fresh
    <3>3. \A p \in Participant, e \in Epoch :
            p # addr \/ e # loc.epoch => series'[p][e] = series[p][e]
      BY <1>3, <2>3 DEF FetchGroupData, UpdateEpochMaxAndGauges, TypeInv, TypeOK, AllSeries
    <3> QED
      BY <2>1, <3>2, <3>3, ShowsNodesKept
  <2> QED
    BY <2>2, <2>3
<1>4. CASE CollectNodes
  <2>1. /\ pc \notin Recorded /\ pc' \notin Recorded /\ UNCHANGED <<history, addr, boot>>
        /\ pc \notin Boundary
    BY <1>4 DEF CollectNodes, process, Recorded, Boundary
  <2>2. CASE UNCHANGED series
    BY <2>1, <2>2, ShowsNodesKept
  <2>3. CASE /\ st.chainEpoch # 0
             /\ series' = [series EXCEPT ![addr][st.chainEpoch].samples = epochNode']
    <3>1. st.chainEpoch \in Epoch
      BY <2>3, EpochType DEF TypeInv, TypeOK, EpochState
    <3>2. st.chainEpoch = boot \/ history[addr][st.chainEpoch] = Nil
      BY <2>1, <2>3, <3>1, NotReadArchived DEF Fresh
    <3>3. \A p \in Participant, e \in Epoch :
            p # addr \/ e # st.chainEpoch => series'[p][e] = series[p][e]
      BY <2>3 DEF TypeInv, TypeOK, AllSeries
    <3> QED
      BY <2>1, <3>2, <3>3, ShowsNodesKept DEF Resumed
  <2> QED
    BY <1>4, <2>2, <2>3 DEF CollectNodes
<1>5. CASE \E p \in Participant : Restart(p)
  <2>1. /\ history' = LoadHistory(historyFile)
        /\ series' = [q \in Participant |-> [e \in Epoch |-> RestoredSeries(history'[q][e])]]
    BY <1>5 DEF Restart
  <2>2. \A q \in Participant, e \in Epoch :
          history'[q][e] # Nil => series'[q][e].samples = history'[q][e].samples
    BY <2>1 DEF RestoredSeries
  <2> QED
    BY <2>2 DEF ShowsNodes, NodesMatch
<1>6. CASE Crash
  BY <1>6, EmptyHistoryEmpty DEF Crash, ShowsNodes
<1>7. CASE OpenHistory \/ WriteHistory
  <2>1. UNCHANGED <<history, series, addr, boot, st>> /\ pc \in Recorded /\ pc' \in Recorded
    BY <1>7 DEF OpenHistory, WriteHistory, memory, process, Recorded
  <2> QED
    BY <2>1 DEF ShowsNodes, UnderWay, Resumed, NodesMatch
<1>8. CASE ChainStep \/ UNCHANGED vars
  <2>1. UNCHANGED <<history, series, addr, boot, st, pc>>
    BY <1>8 DEF ChainStep, vars, memory, process
  <2> QED
    BY <2>1 DEF ShowsNodes, UnderWay, Resumed, NodesMatch
<1>9. CASE \/ FetchChainEpoch \/ FetchEpochInfo \/ FetchBlockTime \/ FetchParticipantStats
           \/ FetchWallet \/ DetectBoundary \/ OpenState \/ WriteState
  <2>1. UNCHANGED <<history, series, addr, boot>> /\ pc \notin Recorded /\ pc' \notin Recorded
    BY <1>9 DEF FetchChainEpoch, FetchEpochInfo, FetchBlockTime, FetchParticipantStats,
       FetchWallet, DetectBoundary, StoreEpoch, StoreAs, OpenState, WriteState, memory, process, Recorded
  <2> QED
    BY <2>1, ShowsNodesKept
<1> QED
  BY <1>1, <1>2, <1>3, <1>4, <1>5, <1>6, <1>7, <1>8, <1>9 DEF Next, CycleStep

LEMMA ShowsNodesInvariant == Spec => []ShowsNodes
<1>1. TypeInv /\ Fresh /\ Shows /\ ShowsNodes /\ [Next]_vars => ShowsNodes'
  BY NextShowsNodes
<1> QED
  BY <1>1, InitShowsNodes, TypeInvariant, FreshInvariant, ShowsInvariant, PTL DEF Spec

\* Once a boundary is through, and after a restart, the gauges of an archived epoch show
\* of each figure what its snapshot says, for every participant, and the node data too:
\* but for the epoch the state file named at start, until its boundary is found again.
THEOREM GaugesShowArchive == Spec => []ArchivedSeriesAgree
<1>1. Shows /\ ShowsNodes => ArchivedSeriesAgree
  <2> SUFFICES ASSUME Shows, ShowsNodes, pc \notin Boundary,
                      NEW p \in Participant, NEW e \in Archived(history, p)
               PROVE  /\ Matches(history[p][e], series[p][e])
                      /\ ~ Resumed(p, e) => NodesMatch(history[p][e], series[p][e])
    BY DEF ArchivedSeriesAgree, Matches, NodesMatch, Resumed
  <2>1. e \in Epoch /\ history[p][e] # Nil /\ ~ UnderWay(p, e)
    BY DEF Archived, UnderWay, Recorded, Boundary
  <2> QED
    BY <2>1 DEF Shows, ShowsNodes
<1> QED
  BY <1>1, ShowsInvariant, ShowsNodesInvariant, PTL
=============================================================================
