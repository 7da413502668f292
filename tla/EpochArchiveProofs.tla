------------------------- MODULE EpochArchiveProofs -------------------------
(***************************************************************************)
(* What the epoch tracker promises when a part of its surroundings is      *)
(* reliable: with a disk that does not fail, the state file is not ahead   *)
(* of the history file; with an epoch number that can always be read, a    *)
(* process has every epoch that it collected and left in its history; with *)
(* both, so it has every epoch that a state file named in earlier          *)
(* processes.                                                              *)
(***************************************************************************)
EXTENDS EpochLedgerProofs, WellFoundedInduction

(***************************************************************************)
(* The files.  With a disk that does not fail, the history file is the     *)
(* history, except while a boundary is saved; until it is, only the        *)
(* snapshot of st's epoch may be missing from it.  The state file, when    *)
(* there is one, names st's epoch unless a new one is about to be saved.   *)
(***************************************************************************)
Saved ==
    /\ pc \notin {"openHistory", "writeHistory", "down"} => LoadHistory(historyFile) = history
    /\ pc = "openHistory" =>
           \A e \in Epoch : e # st.chainEpoch /\ history[addr][e] # Nil =>
               LoadHistory(historyFile)[addr][e] # Nil
    /\ pc = "down" => history = EmptyHistory
    /\ pc \notin {"down", "openState"} /\ stateFile # Nil => stateFile.chainEpoch = st.chainEpoch

LEMMA InitSaved == Init => Saved
  BY DEF Init, Saved

LEMMA NextSaved ==
  ASSUME "disk" \notin MayFail
  PROVE  TypeInv /\ Saved /\ [Next]_vars => Saved'
<1> SUFFICES ASSUME TypeInv, Saved, [Next]_vars PROVE Saved'
  OBVIOUS
<1>0. ~ Fault("disk")
  BY DEF Fault
<1>1. CASE RecordSnapshot
  <2>1. /\ pc = "perf" /\ pc' = "openHistory"
        /\ UNCHANGED <<st, addr, stateFile, historyFile>>
    BY <1>1 DEF RecordSnapshot, RecordAndThen, files, process
  <2>2. \A e \in Epoch : e # st.chainEpoch /\ history'[addr][e] # Nil => history[addr][e] # Nil
    BY <1>1, RecordedHistory DEF TypeInv, TypeOK
  <2>3. LoadHistory(historyFile') = history
    BY <2>1 DEF Saved
  <2> QED
    BY <2>1, <2>2, <2>3 DEF Saved
<1>2. CASE OpenHistory
  <2>1. /\ pc = "openHistory" /\ pc' = "writeHistory"
        /\ UNCHANGED <<st, stateFile>>
    BY <1>0, <1>2 DEF OpenHistory, memory
  <2> QED
    BY <2>1 DEF Saved
<1>3. CASE WriteHistory
  <2>1. /\ pc = "writeHistory" /\ pc' = "close" /\ historyFile' = history
        /\ UNCHANGED <<st, stateFile, history>>
    BY <1>0, <1>3 DEF WriteHistory, memory
  <2>2. LoadHistory(historyFile') = history'
    BY <2>1, NilAssumption DEF LoadHistory, TypeInv, TypeOK, History
  <2> QED
    BY <2>1, <2>2 DEF Saved
<1>4. CASE OpenState
  <2>1. /\ pc = "openState" /\ pc' = "writeState" /\ stateFile' = Nil
        /\ UNCHANGED <<historyFile, history>>
    BY <1>0, <1>4 DEF OpenState, memory
  <2> QED
    BY <2>1 DEF Saved
<1>5. CASE WriteState
  <2>1. /\ pc = "writeState" /\ pc' = "nodes" /\ stateFile' = st
        /\ UNCHANGED <<st, historyFile, history>>
    BY <1>0, <1>5 DEF WriteState, memory
  <2> QED
    BY <2>1 DEF Saved
<1>6. CASE DetectBoundary \/ CloseBoundary
  <2>1. /\ pc \in {"detect", "close"} /\ pc' \in {"perf", "openState", "nodes"}
        /\ UNCHANGED <<stateFile, historyFile, history>>
    BY <1>6 DEF DetectBoundary, CloseBoundary, CloseWith, StoreEpoch, StoreAs, files
  <2>2. pc' # "openState" => st'.chainEpoch = st.chainEpoch
    BY <1>6 DEF DetectBoundary, CloseBoundary, CloseWith, StoreEpoch, StoreAs, TypeInv, TypeOK, EpochState
  <2> QED
    BY <2>1, <2>2 DEF Saved
<1>7. CASE \E p \in Participant : Restart(p)
  <2>1. /\ pc' = "idle" /\ history' = LoadHistory(historyFile') /\ st' = LoadState(stateFile')
    BY <1>7 DEF Restart, files
  <2>2. stateFile' # Nil => st'.chainEpoch = stateFile'.chainEpoch
    BY <2>1, NextType DEF LoadState, TypeInv, TypeOK, EpochState
  <2> QED
    BY <2>1, <2>2 DEF Saved
<1>8. CASE Crash
  BY <1>8 DEF Crash, Saved
<1>9. CASE FetchBlockTime \/ FetchWallet
  <2>1. st'.chainEpoch = st.chainEpoch
    BY <1>9 DEF FetchBlockTime, FetchWallet, TypeInv, TypeOK, EpochState
  <2>2. /\ pc \in {"block", "wallet"} /\ pc' \in {"group", "update"}
        /\ UNCHANGED <<stateFile, historyFile, history>>
    BY <1>9 DEF FetchBlockTime, FetchWallet, files
  <2> QED
    BY <2>1, <2>2 DEF Saved
<1>10. CASE \/ FetchChainEpoch \/ FetchEpochInfo \/ FetchGroupData \/ FetchParticipantStats
            \/ UpdateEpochMaxAndGauges \/ CollectNodes
  <2>1. UNCHANGED <<st, stateFile, historyFile, history>>
    BY <1>10 DEF FetchChainEpoch, FetchEpochInfo, FetchGroupData, FetchParticipantStats,
       UpdateEpochMaxAndGauges, CollectNodes, files
  <2>2. pc \notin {"openHistory", "writeHistory", "down", "openState"}
        /\ pc' \notin {"openHistory", "writeHistory", "down", "openState"}
    BY <1>10 DEF FetchChainEpoch, FetchEpochInfo, FetchGroupData, FetchParticipantStats,
       UpdateEpochMaxAndGauges, CollectNodes
  <2> QED
    BY <2>1, <2>2 DEF Saved
<1>11. CASE ChainStep \/ UNCHANGED vars
  <2>1. UNCHANGED <<st, stateFile, historyFile, history, addr, pc>>
    BY <1>11 DEF ChainStep, vars, memory, process, files
  <2> QED
    BY <2>1 DEF Saved
<1> QED
  BY <1>1, <1>2, <1>3, <1>4, <1>5, <1>6, <1>7, <1>8, <1>9, <1>10, <1>11 DEF Next, CycleStep

\* With a disk that does not fail, the state file is never ahead of the history file: a
\* crash at any moment, also while one of the two files is being written, leaves on disk
\* every archived epoch that the state file calls finished.
THEOREM StateFileFollows ==
  ASSUME "disk" \notin MayFail
  PROVE  Spec => []StateFileNotAhead
<1>1. TypeInv /\ Saved => StateFileNotAhead
  <2> SUFFICES ASSUME TypeInv, Saved, stateFile # Nil, pc # "writeHistory",
                      NEW e \in Archived(history, addr), e < stateFile.chainEpoch
               PROVE  LoadHistory(historyFile)[addr][e] # Nil
    BY DEF StateFileNotAhead
  <2>1. e \in Epoch /\ history[addr][e] # Nil /\ addr \in Participant
    BY DEF Archived, TypeInv, TypeOK
  <2>2. CASE pc = "down"
    BY <2>1, <2>2, EmptyHistoryEmpty DEF Saved
  <2>3. CASE pc = "openHistory"
    <3>1. e < st.chainEpoch
      BY <2>3 DEF Saved
    <3>2. e \in Nat
      BY <2>1, EpochType
    <3>3. ~ (e < e)
      BY <3>2
    <3>4. e # st.chainEpoch
      BY <3>1, <3>3
    <3> QED
      BY <2>1, <2>3, <3>4 DEF Saved
  <2> QED
    BY <2>1, <2>2, <2>3 DEF Saved
<1>2. TypeInv /\ Saved /\ [Next]_vars => Saved'
  BY NextSaved
<1> QED
  BY <1>1, <1>2, InitSaved, TypeInvariant, PTL DEF Spec

(***************************************************************************)
(* Pruning.  What has MaxHistory newer snapshots before pruning has them   *)
(* afterwards: those that fall victim are the oldest ones, and the last of *)
(* them, if any, had MaxHistory newer ones that all survive.               *)
(***************************************************************************)
LEMMA LastOfEpochs ==
  ASSUME NEW D \in SUBSET Epoch, D # {}
  PROVE  \E last \in D : \A e \in D : ~ (last < e)
<1> DEFINE After(e) == {x \in Epoch : x > e}
           Tails == {After(e) : e \in D}
<1>1. Tails \in SUBSET FiniteSubsetsOf(Epoch) /\ Tails # {}
  <2>1. \A e \in D : After(e) \in SUBSET Epoch
    OBVIOUS
  <2> HIDE DEF After
  <2> QED
    BY <2>1, EpochFinite DEF FiniteSubsetsOf
<1> HIDE DEF Tails
<1>2. PICK shortest \in Tails : \A t \in Tails : <<t, shortest>> \notin StrictSubsetOrdering(Epoch)
  BY <1>1, FS_StrictSubsetOrderingWellFounded, WFMin
<1> USE DEF Tails
<1>3. PICK last \in D : shortest = After(last)
  OBVIOUS
<1>4. ASSUME NEW e \in D, last < e PROVE FALSE
  <2>1. last \in Nat /\ e \in Nat /\ \A x \in Epoch : x \in Nat
    BY EpochType
  <2>2. e \in After(last) /\ e \notin After(e)
    BY <1>4, <2>1
  <2>3. \A x \in After(e) : x \in After(last)
    BY <1>4, <2>1
  <2>4. After(e) \in SUBSET Epoch /\ After(last) \in SUBSET Epoch
    OBVIOUS
  <2> HIDE DEF After
  <2>5. After(e) \subseteq After(last) /\ After(e) # After(last)
    BY <2>2, <2>3
  <2>6. <<After(e), After(last)>> \in StrictSubsetOrdering(Epoch)
    BY <2>4, <2>5 DEF StrictSubsetOrdering
  <2> QED
    BY <1>2, <1>3, <2>6
<1> QED
  BY <1>4

LEMMA NewestSurvive ==
  ASSUME NEW h \in History, NEW p \in Participant, NEW e \in Epoch,
         Cardinality(NewerThan(h, p, e)) >= MaxHistory
  PROVE  Cardinality(NewerThan(Pruned(h), p, e)) >= MaxHistory
<1> DEFINE N == NewerThan(h, p, e)
           K == NewerThan(Pruned(h), p, e)
           Lost == N \ K
<1>1. MaxHistory \in Nat
  BY BoundsAssumption
<1>2. N \in SUBSET Epoch /\ K \in SUBSET Epoch /\ K \subseteq N
  BY PrunedOnlyForgets DEF NewerThan, Archived
<1>3. \A x \in N : Cardinality(NewerThan(h, p, x)) < MaxHistory => x \in K
  BY DEF NewerThan, Archived, Pruned, History
<1>4. CASE Lost = {}
  <2>1. N = K
    BY <1>2, <1>4
  <2> QED
    BY <2>1
<1>5. CASE Lost # {}
  <2>1. PICK last \in Lost : \A x \in Lost : ~ (last < x)
    BY <1>2, <1>5, LastOfEpochs
  <2> DEFINE R == NewerThan(h, p, last)
  <2>2. R \in SUBSET Epoch /\ last \in Epoch
    BY <1>2 DEF NewerThan, Archived
  <2>3. ~ (Cardinality(R) < MaxHistory)
    BY <1>3
  <2>4. \A x \in R : x \in N /\ last < x
    BY <2>2, EpochType DEF NewerThan
  <2>5. R \in SUBSET K
    BY <2>1, <2>4
  <2> HIDE DEF R, K
  <2>6. IsFiniteSet(K) /\ Cardinality(K) \in Nat /\ Cardinality(R) \in Nat
    BY <1>2, <2>2, EpochFinite
  <2>7. Cardinality(R) <= Cardinality(K)
    BY <2>5, <2>6, FS_Subset
  <2>8. Cardinality(K) >= MaxHistory
    BY <1>1, <2>3, <2>6, <2>7
  <2> QED
    BY <2>8 DEF K
<1> QED
  BY <1>4, <1>5

(***************************************************************************)
(* No gap.  With an epoch number that can always be read, the running      *)
(* maxima kept are those of epochs that the tracker has stored, or, until  *)
(* it stores it, of the one the cycle has read, which is not older.  All   *)
(* but the epoch that the tracker is in are in the history, or were and    *)
(* had to make room; so is that one from recordSnapshot on.                *)
(***************************************************************************)
Known(h, p, e) == h[p][e] # Nil \/ Cardinality(NewerThan(h, p, e)) >= MaxHistory

Following == {"info", "block", "group", "stats", "wallet", "update", "detect"}

NoGap ==
    /\ \A e \in Epoch : epochMax[e] # Nil =>
           \/ st.valid = TRUE /\ e <= st.chainEpoch
           \/ pc \in Boundary \cup {"detect"} /\ e = loc.epoch
    /\ \A e \in Epoch : epochMax[e] # Nil /\ e < st.chainEpoch => Known(history, addr, e)
    /\ pc \in Recorded => Known(history, addr, st.chainEpoch)
    /\ pc \in Following => loc.epoch # 0 /\ st.chainEpoch <= loc.epoch

LEMMA PrunedKnown ==
  ASSUME NEW h \in History, NEW p \in Participant, NEW e \in Epoch, Known(h, p, e)
  PROVE  Known(Pruned(h), p, e)
<1>1. CASE Cardinality(NewerThan(h, p, e)) < MaxHistory
  <2>1. Pruned(h)[p][e] = h[p][e]
    BY <1>1 DEF Pruned
  <2>2. Cardinality(NewerThan(h, p, e)) \in Nat /\ MaxHistory \in Nat
    BY EpochFinite, BoundsAssumption DEF NewerThan, Archived
  <2> QED
    BY <1>1, <2>1, <2>2 DEF Known
<1>2. CASE ~ (Cardinality(NewerThan(h, p, e)) < MaxHistory)
  <2>1. Cardinality(NewerThan(h, p, e)) \in Nat /\ MaxHistory \in Nat
    BY EpochFinite, BoundsAssumption DEF NewerThan, Archived
  <2>2. Cardinality(NewerThan(h, p, e)) >= MaxHistory
    BY <1>2, <2>1
  <2> QED
    BY <2>2, NewestSurvive DEF Known
<1> QED
  BY <1>1, <1>2

LEMMA AddedKnown ==
  ASSUME NEW h \in History, NEW p \in Participant, NEW c \in Epoch,
         NEW snap \in EpochSnapshot, snap # Nil
  PROVE  LET g == [h EXCEPT ![p][c] = snap]
         IN  /\ g \in History
             /\ Known(g, p, c)
             /\ \A e \in Epoch : Known(h, p, e) => Known(g, p, e)
<1> DEFINE g == [h EXCEPT ![p][c] = snap]
<1>1. g \in History
  BY DEF History
<1>2. \A e \in Epoch : g[p][e] = (IF e = c THEN snap ELSE h[p][e])
  BY DEF History
<1> HIDE DEF g
<1>3. Known(g, p, c)
  BY <1>2 DEF Known
<1>4. ASSUME NEW e \in Epoch, Known(h, p, e) PROVE Known(g, p, e)
  <2>1. CASE h[p][e] # Nil
    BY <1>2, <2>1 DEF Known
  <2>2. CASE Cardinality(NewerThan(h, p, e)) >= MaxHistory
    <3> DEFINE H == NewerThan(h, p, e)
               G == NewerThan(g, p, e)
    <3>1. H \in SUBSET G /\ G \in SUBSET Epoch
      BY <1>2 DEF NewerThan, Archived
    <3>2. Cardinality(H) >= MaxHistory /\ MaxHistory \in Nat
      BY <2>2, BoundsAssumption
    <3>3. G = NewerThan(g, p, e)
      OBVIOUS
    <3> HIDE DEF H, G
    <3>4. IsFiniteSet(G) /\ Cardinality(G) \in Nat /\ IsFiniteSet(H) /\ Cardinality(H) \in Nat
      BY <3>1, EpochFinite
    <3>5. Cardinality(H) <= Cardinality(G)
      BY <3>1, <3>4, FS_Subset
    <3>6. Cardinality(G) >= MaxHistory
      BY <3>2, <3>4, <3>5
    <3> QED
      BY <3>3, <3>6 DEF Known
  <2> QED
    BY <1>4, <2>1, <2>2 DEF Known
<1> QED
  BY <1>1, <1>3, <1>4 DEF g

\* recordSnapshot archives the epoch and loses sight of none.
LEMMA RecordedKnown ==
  ASSUME TypeInv, RecordSnapshot
  PROVE  /\ Known(history', addr, st.chainEpoch)
         /\ \A e \in Epoch : Known(history, addr, e) => Known(history', addr, e)
<1>1. PICK perf \in BOOLEAN :
        history' = Pruned([history EXCEPT ![addr][st.chainEpoch] = NewSnapshot(perf)])
  BY DEF RecordSnapshot, RecordAndThen
<1>2. NewSnapshot(perf) \in EpochSnapshot /\ NewSnapshot(perf) # Nil
  BY NewSnapshotType DEF RecordSnapshot, RecordAndThen, TypeInv, SnapshotReady, Boundary
<1>3. history \in History /\ addr \in Participant /\ st.chainEpoch \in Epoch
  BY EpochType DEF RecordSnapshot, RecordAndThen, TypeInv, SnapshotReady, Boundary, TypeOK, EpochState
<1> DEFINE g == [history EXCEPT ![addr][st.chainEpoch] = NewSnapshot(perf)]
<1>4. /\ g \in History
      /\ Known(g, addr, st.chainEpoch)
      /\ \A e \in Epoch : Known(history, addr, e) => Known(g, addr, e)
  BY <1>2, <1>3, AddedKnown
<1>5. history' = Pruned(g)
  BY <1>1
<1> HIDE DEF g
<1> QED
  BY <1>3, <1>4, <1>5, PrunedKnown

LEMMA InitNoGap == Init => NoGap
  BY DEF Init, NoGap, NoMaxima, Recorded, Following

\* Arithmetic of a cycle that finds no boundary.
LEMMA NotYetLeft ==
  ASSUME NEW now \in Nat, NEW read \in Nat, NEW e \in Nat, e > 0, now <= read, e <= now,
         e # read, ~ (now > 0) \/ ~ (read > now)
  PROVE  e < now
  OBVIOUS

LEMMA NextNoGap ==
  ASSUME "epoch" \notin MayFail
  PROVE  TypeInv /\ NotAhead /\ NoGap /\ [Next]_vars => NoGap'
<1> SUFFICES ASSUME TypeInv, NotAhead, NoGap, [Next]_vars PROVE NoGap'
  OBVIOUS
<1>0. ~ Fault("epoch")
  BY DEF Fault
<1> DEFINE now == st.chainEpoch
           read == loc.epoch
<1>1. now \in Nat /\ read \in Nat /\ \A e \in Epoch : e \in Nat /\ e > 0
  <2>1. now \in Nat /\ read \in Nat
    BY EpochType DEF TypeInv, TypeOK, EpochState, Locals
  <2>2. \A e \in Epoch : e \in Nat /\ e > 0
    BY BoundsAssumption DEF Epoch
  <2> QED
    BY <2>1, <2>2
<1>2. ASSUME \/ FetchChainEpoch \/ FetchEpochInfo \/ FetchBlockTime \/ FetchGroupData
             \/ FetchParticipantStats \/ FetchWallet \/ OpenState \/ WriteState \/ CollectNodes
      PROVE  NoGap'
  <2>1. /\ UNCHANGED <<epochMax, history, addr>>
        /\ pc \notin Boundary \cup {"detect"} /\ pc' \notin Recorded
    BY <1>2 DEF FetchChainEpoch, FetchEpochInfo, FetchBlockTime, FetchGroupData,
       FetchParticipantStats, FetchWallet, OpenState, WriteState, CollectNodes, memory, process,
       Boundary, Recorded
  <2>2. st'.chainEpoch = now /\ st'.valid = st.valid
    BY <1>2 DEF FetchChainEpoch, FetchEpochInfo, FetchBlockTime, FetchGroupData,
       FetchParticipantStats, FetchWallet, OpenState, WriteState, CollectNodes, memory,
       TypeInv, TypeOK, EpochState
  <2>3. pc' \in Following => loc'.epoch # 0 /\ now <= loc'.epoch
    <3>1. CASE FetchChainEpoch
      <4>1. loc'.epoch = epoch
        BY <1>0, <3>1, NoLocalsType DEF FetchChainEpoch, NoLocals, Locals
      <4>2. epoch # 0
        BY <1>1 DEF TypeInv, TypeOK, ChainTypeOK
      <4> QED
        BY <4>1, <4>2 DEF NotAhead
    <3>2. CASE FetchEpochInfo \/ FetchBlockTime \/ FetchGroupData \/ FetchWallet
      <4>1. loc'.epoch = read /\ pc \in Following
        BY <3>2 DEF FetchEpochInfo, FetchBlockTime, FetchGroupData, FetchWallet, Following,
           TypeInv, TypeOK, Locals
      <4> QED
        BY <4>1 DEF NoGap
    <3>3. CASE FetchParticipantStats
      <4>1. CASE pc' = "nodes"
        BY <4>1 DEF Following
      <4>2. CASE pc' = "wallet"
        <5>1. loc'.epoch = read /\ pc \in Following
          BY <3>3, <4>2 DEF FetchParticipantStats, Following, TypeInv, TypeOK, Locals
        <5> QED
          BY <5>1 DEF NoGap
      <4> QED
        BY <3>3, <4>1, <4>2 DEF FetchParticipantStats
    <3>4. CASE OpenState \/ WriteState \/ CollectNodes
      BY <3>4 DEF OpenState, WriteState, CollectNodes, Following
    <3> QED
      BY <1>2, <3>1, <3>2, <3>3, <3>4
  <2>4. \A e \in Epoch : epochMax'[e] # Nil => st'.valid = TRUE /\ e <= st'.chainEpoch
    BY <2>1, <2>2 DEF NoGap
  <2>5. \A e \in Epoch : epochMax'[e] # Nil /\ e < st'.chainEpoch => Known(history, addr, e)
    BY <2>1, <2>2 DEF NoGap
  <2> QED
    BY <2>1, <2>2, <2>3, <2>4, <2>5 DEF NoGap, Known, NewerThan, Archived
<1>3. ASSUME UpdateEpochMaxAndGauges PROVE NoGap'
  <2>1. /\ UNCHANGED <<history, addr, st, loc>>
        /\ pc = "update" /\ pc' = "detect"
    BY <1>3 DEF UpdateEpochMaxAndGauges, process
  <2>2. read # 0 /\ now <= read
    BY <2>1 DEF NoGap, Following
  <2>3. read \in Epoch
    BY <2>2, EpochType DEF TypeInv, TypeOK, Locals
  <2>4. \A e \in Epoch : epochMax'[e] # Nil => epochMax[e] # Nil \/ e = read
    BY <1>3, <2>2, <2>3 DEF UpdateEpochMaxAndGauges, TypeInv, TypeOK
  <2>5. \A e \in Epoch : epochMax[e] # Nil => st.valid = TRUE /\ e <= now
    BY <2>1 DEF NoGap, Boundary
  <2>6. \A e \in Epoch : epochMax'[e] # Nil /\ e < now => Known(history, addr, e)
    BY <1>1, <2>2, <2>4 DEF NoGap
  <2>7. pc' \notin Recorded /\ pc' \in {"detect"}
    BY <2>1 DEF Recorded
  <2> QED
    BY <2>1, <2>2, <2>4, <2>5, <2>6, <2>7 DEF NoGap, Known, NewerThan, Archived
<1>4. ASSUME DetectBoundary PROVE NoGap'
  <2>1. /\ UNCHANGED <<history, addr, epochMax>>
        /\ pc = "detect" /\ pc' \notin Recorded \cup Following
    BY <1>4 DEF DetectBoundary, StoreEpoch, StoreAs, process, Recorded, Following
  <2>2. read # 0 /\ now <= read
    BY <2>1 DEF NoGap, Following
  <2>3. CASE IsBoundary(now, read)
    <3>1. UNCHANGED <<st, loc>> /\ pc' = "perf"
      BY <1>4, <2>3 DEF DetectBoundary
    <3> QED
      BY <2>1, <3>1 DEF NoGap, Known, NewerThan, Archived, Boundary
  <2>4. CASE ~ IsBoundary(now, read)
    <3>1. st'.chainEpoch = read /\ st'.valid = TRUE
      BY <1>4, <2>4 DEF DetectBoundary, StoreEpoch, StoreAs, TypeInv, TypeOK, EpochState
    <3>2. st.valid # TRUE \/ ~ (now > 0) \/ ~ (read > now)
      BY <2>4 DEF IsBoundary
    <3>3. \A e \in Epoch : epochMax[e] # Nil => (st.valid = TRUE /\ e <= now) \/ e = read
      BY DEF NoGap
    <3>4. \A e \in Epoch : epochMax[e] # Nil => e <= read
      BY <1>1, <2>2, <3>3
    <3>5. ASSUME NEW e \in Epoch, epochMax[e] # Nil, e < read PROVE e < now
      <4>1. e \in Nat /\ e > 0 /\ now \in Nat /\ read \in Nat
        BY <1>1
      <4>2. ~ (e = read) /\ e <= now /\ st.valid = TRUE
        BY <3>3, <3>5, <4>1
      <4> QED
        BY <2>2, <3>2, <4>1, <4>2, NotYetLeft
    <3>6. \A e \in Epoch : epochMax[e] # Nil /\ e < read => Known(history, addr, e)
      BY <3>5 DEF NoGap
    <3> QED
      BY <2>1, <3>1, <3>4, <3>6 DEF NoGap, Known, NewerThan, Archived
  <2> QED
    BY <2>3, <2>4
<1>5. ASSUME RecordSnapshot PROVE NoGap'
  <2>1. /\ UNCHANGED <<st, addr, epochMax>>
        /\ pc = "perf" /\ pc' = "openHistory"
    BY <1>5 DEF RecordSnapshot, RecordAndThen, process
  <2>2. loc'.epoch = read
    BY <1>5 DEF RecordSnapshot, RecordAndThen, TypeInv, TypeOK, Locals
  <2>3. pc' \in Boundary /\ pc' \notin Following
    BY <2>1 DEF Boundary, Following
  <2>4. /\ Known(history', addr, now)
        /\ \A e \in Epoch : Known(history, addr, e) => Known(history', addr, e)
    BY <1>5, RecordedKnown
  <2>5. \A e \in Epoch : epochMax[e] # Nil => (st.valid = TRUE /\ e <= now) \/ e = read
    BY DEF NoGap
  <2>6. \A e \in Epoch : epochMax[e] # Nil /\ e < now => Known(history', addr, e)
    BY <2>4 DEF NoGap
  <2> QED
    BY <2>1, <2>2, <2>3, <2>4, <2>5, <2>6 DEF NoGap, Known, NewerThan, Archived
<1>6. ASSUME OpenHistory \/ WriteHistory PROVE NoGap'
  <2>1. /\ UNCHANGED <<st, addr, epochMax, history, loc>>
        /\ pc \in Recorded /\ pc' \in Recorded
    BY <1>6 DEF OpenHistory, WriteHistory, memory, process, Recorded
  <2>2. pc' \in Boundary /\ pc' \notin Following
    BY <2>1 DEF Recorded, Boundary, Following
  <2> QED
    BY <2>1, <2>2 DEF NoGap, Known, NewerThan, Archived
<1>7. ASSUME CloseBoundary PROVE NoGap'
  <2>1. /\ UNCHANGED <<history, addr>>
        /\ pc \in Boundary /\ pc \in Recorded /\ pc' \notin Recorded \cup Following
        /\ epochMax' = Recent(epochMax)
    BY <1>7 DEF CloseBoundary, CloseWith, StoreEpoch, StoreAs, process, Boundary, Recorded, Following
  <2>2. st'.chainEpoch = read /\ st'.valid = TRUE
    BY <1>7 DEF CloseBoundary, CloseWith, StoreEpoch, StoreAs, TypeInv, TypeOK, EpochState
  <2>3. now < read
    BY <2>1 DEF NotAhead
  <2>4. \A e \in Epoch : epochMax'[e] # Nil => epochMax[e] # Nil
    BY <2>1, RecentOnlyForgets DEF TypeInv, TypeOK
  <2>5. \A e \in Epoch : epochMax'[e] # Nil => e <= now \/ e = read
    BY <2>4 DEF NoGap
  <2>6. \A e \in Epoch : epochMax'[e] # Nil => e <= read
    BY <1>1, <2>3, <2>5
  <2>7. ASSUME NEW e \in Epoch, epochMax'[e] # Nil, e < read PROVE Known(history, addr, e)
    <3>1. e < now \/ e = now
      BY <1>1, <2>5, <2>7
    <3> QED
      BY <2>1, <2>4, <2>7, <3>1 DEF NoGap
  <2> QED
    BY <2>1, <2>2, <2>6, <2>7 DEF NoGap, Known, NewerThan, Archived
<1>8. ASSUME (\E p \in Participant : Restart(p)) \/ Crash PROVE NoGap'
  BY <1>8 DEF Restart, Crash, ForgetMemory, NoMaxima, NoGap, Recorded, Following
<1>9. ASSUME ChainStep \/ UNCHANGED vars PROVE NoGap'
  <2>1. UNCHANGED <<st, addr, epochMax, history, loc, pc>>
    BY <1>9 DEF ChainStep, vars, memory, process
  <2> QED
    BY <2>1 DEF NoGap, Known, NewerThan, Archived
<1> QED
  BY <1>2, <1>3, <1>4, <1>5, <1>6, <1>7, <1>8, <1>9 DEF Next, CycleStep

\* When the epoch number can always be read, a living process has every epoch whose
\* counters it has collected itself, and that the tracker has left, in its history, unless
\* MAX_EPOCH_HISTORY newer ones made it leave; whatever else fails, the disk included.
THEOREM NothingSkipped ==
  ASSUME "epoch" \notin MayFail
  PROVE  Spec => []NoGapWhileRunning
<1>1. NoGap => NoGapWhileRunning
  BY DEF NoGap, NoGapWhileRunning, InHistory, Known
<1>2. TypeInv /\ NotAhead /\ NoGap /\ [Next]_vars => NoGap'
  BY NextNoGap
<1> QED
  BY <1>1, <1>2, InitNoGap, TypeInvariant, NotAheadInvariant, PTL DEF Spec

(***************************************************************************)
(* Across restarts.  With a reliable disk as well, an epoch that a state   *)
(* file has named is in the history or the one of st, and in the history   *)
(* file or the one the state file names: a process that is started anew    *)
(* finds it there.  The state file is given up for a new one only when the *)
(* history holds them all.  A tracker with an epoch is valid, so that it   *)
(* leaves that epoch by a boundary.                                        *)
(***************************************************************************)
Saving == Recorded \cup {"openState", "writeState"}

Remembered ==
    /\ st.chainEpoch # 0 => st.valid = TRUE
    /\ pc = "down" => st.chainEpoch = 0
    /\ pc # "down" => \A e \in named \cap Epoch : Known(history, addr, e) \/ e = st.chainEpoch
    /\ pc \in Saving => \A e \in named \cap Epoch : Known(history, addr, e)
    /\ pc # "writeHistory" =>
           \A e \in named \cap Epoch :
               \/ Known(LoadHistory(historyFile), addr, e)
               \/ stateFile # Nil /\ e = stateFile.chainEpoch

LEMMA InitRemembered == Init => Remembered
  BY DEF Init, Remembered, EmptyState, Saving, Recorded

\* Steps that leave the epoch, the history and the files alone.
LEMMA StillRemembered ==
  ASSUME Remembered, UNCHANGED <<history, addr, files, named>>,
         st'.chainEpoch = st.chainEpoch, st'.valid = st.valid \/ st'.valid = TRUE,
         pc \notin {"down", "writeHistory"}, pc' # "down", pc' \in Saving => pc \in Saving
  PROVE  Remembered'
<1>1. UNCHANGED <<historyFile, stateFile>>
  BY DEF files
<1> QED
  BY <1>1 DEF Remembered, Known, NewerThan, Archived, LoadHistory

LEMMA NextRemembered ==
  ASSUME "disk" \notin MayFail, "epoch" \notin MayFail, NEW only, Participant = {only}
  PROVE  TypeInv /\ Saved /\ NoGap /\ Remembered /\ [Next]_vars => Remembered'
<1> SUFFICES ASSUME TypeInv, Saved, NoGap, Remembered, [Next]_vars PROVE Remembered'
  OBVIOUS
<1>0. ~ Fault("disk") /\ 0 \notin Epoch
  BY DEF Fault, Epoch
<1> DEFINE now == st.chainEpoch
           read == loc.epoch
           Named == named \cap Epoch
<1>1. ASSUME \/ FetchChainEpoch \/ FetchEpochInfo \/ FetchBlockTime \/ FetchGroupData
             \/ FetchParticipantStats \/ FetchWallet \/ UpdateEpochMaxAndGauges \/ CollectNodes
      PROVE  Remembered'
  <2>1. /\ UNCHANGED <<history, addr, files, named>>
        /\ pc \notin {"down", "writeHistory"} /\ pc' \notin Saving \cup {"down"}
    BY <1>1 DEF FetchChainEpoch, FetchEpochInfo, FetchBlockTime, FetchGroupData,
       FetchParticipantStats, FetchWallet, UpdateEpochMaxAndGauges, CollectNodes, process, Saving, Recorded
  <2>2. st'.chainEpoch = now /\ st'.valid = st.valid
    BY <1>1 DEF FetchChainEpoch, FetchEpochInfo, FetchBlockTime, FetchGroupData,
       FetchParticipantStats, FetchWallet, UpdateEpochMaxAndGauges, CollectNodes,
       TypeInv, TypeOK, EpochState
  <2> QED
    BY <2>1, <2>2, StillRemembered
<1>2. ASSUME DetectBoundary PROVE Remembered'
  <2>1. /\ UNCHANGED <<history, addr, files, named>>
        /\ pc = "detect" /\ pc' \in {"perf", "openState", "nodes"}
    BY <1>2 DEF DetectBoundary, StoreEpoch, StoreAs, process
  <2>2. CASE IsBoundary(now, read)
    <3>1. UNCHANGED st /\ pc' = "perf"
      BY <1>2, <2>2 DEF DetectBoundary
    <3> QED
      BY <2>1, <3>1, StillRemembered DEF Saving, Recorded
  <2>3. CASE ~ IsBoundary(now, read)
    <3>1. /\ st'.chainEpoch = read /\ st'.valid = TRUE
          /\ pc' = IF now # read THEN "openState" ELSE "nodes"
      BY <1>2, <2>3 DEF DetectBoundary, StoreEpoch, StoreAs, TypeInv, TypeOK, EpochState
    <3>2. CASE now = read
      BY <2>1, <3>1, <3>2, StillRemembered DEF Saving, Recorded
    <3>3. CASE now # read
      <4>1. now \in Nat /\ read \in Nat /\ now <= read
        BY <2>1, EpochType DEF NoGap, Following, TypeInv, TypeOK, EpochState, Locals
      <4>2. now = 0
        BY <2>3, <3>3, <4>1 DEF IsBoundary, Remembered
      <4>3. \A e \in Named : Known(history, addr, e)
        BY <1>0, <2>1, <4>2 DEF Remembered
      <4> QED
        BY <2>1, <3>1, <3>3, <4>3 DEF Remembered, Known, NewerThan, Archived, LoadHistory, files
    <3> QED
      BY <3>2, <3>3
  <2> QED
    BY <2>2, <2>3
<1>3. ASSUME RecordSnapshot PROVE Remembered'
  <2>1. /\ UNCHANGED <<st, addr, named, historyFile, stateFile>>
        /\ pc = "perf" /\ pc' = "openHistory"
    BY <1>3 DEF RecordSnapshot, RecordAndThen, process, files
  <2>2. /\ Known(history', addr, now)
        /\ \A e \in Epoch : Known(history, addr, e) => Known(history', addr, e)
    BY <1>3, RecordedKnown
  <2>3. \A e \in Named : Known(history', addr, e)
    BY <2>1, <2>2 DEF Remembered
  <2> QED
    BY <2>1, <2>3 DEF Remembered, Known, NewerThan, Archived, LoadHistory
<1>4. ASSUME OpenHistory PROVE Remembered'
  <2>1. /\ UNCHANGED <<st, addr, named, history, stateFile>>
        /\ pc \in Saving /\ pc # "down" /\ pc' = "writeHistory"
    BY <1>0, <1>4 DEF OpenHistory, memory, process, Saving, Recorded
  <2> QED
    BY <2>1 DEF Remembered, Known, NewerThan, Archived
<1>5. ASSUME WriteHistory PROVE Remembered'
  <2>1. /\ UNCHANGED <<st, addr, named, history, stateFile>> /\ historyFile' = history
        /\ pc \in Saving /\ pc' = "close"
    BY <1>0, <1>5 DEF WriteHistory, memory, process, Saving, Recorded
  <2>2. LoadHistory(historyFile') = history
    BY <2>1, NilAssumption DEF LoadHistory, TypeInv, TypeOK, History
  <2>3. \A e \in Named : Known(history, addr, e)
    BY <2>1 DEF Remembered
  <2> QED
    BY <2>1, <2>2, <2>3 DEF Remembered, Known, NewerThan, Archived
<1>6. ASSUME CloseBoundary PROVE Remembered'
  <2>1. /\ UNCHANGED <<history, addr, named, historyFile, stateFile>>
        /\ pc = "close" /\ pc' \in {"openState", "nodes"}
    BY <1>6 DEF CloseBoundary, CloseWith, StoreEpoch, StoreAs, files
  <2>2. st'.valid = TRUE
    BY <1>6 DEF CloseBoundary, CloseWith, StoreEpoch, StoreAs, TypeInv, TypeOK, EpochState
  <2>3. \A e \in Named : Known(history, addr, e)
    BY <2>1 DEF Remembered, Saving, Recorded
  <2> QED
    BY <2>1, <2>2, <2>3 DEF Remembered, Known, NewerThan, Archived, LoadHistory
<1>7. ASSUME OpenState PROVE Remembered'
  <2>1. /\ UNCHANGED <<st, addr, named, history, historyFile>> /\ stateFile' = Nil
        /\ pc = "openState" /\ pc' = "writeState"
    BY <1>0, <1>7 DEF OpenState, memory, process
  <2>2. LoadHistory(historyFile) = history
    BY <2>1 DEF Saved
  <2>3. \A e \in Named : Known(history, addr, e)
    BY <2>1 DEF Remembered, Saving
  <2> QED
    BY <2>1, <2>2, <2>3 DEF Remembered, Known, NewerThan, Archived, LoadHistory
<1>8. ASSUME WriteState PROVE Remembered'
  <2>1. /\ UNCHANGED <<st, addr, history, historyFile>>
        /\ stateFile' = st /\ named' = named \cup {now}
        /\ pc = "writeState" /\ pc' = "nodes"
    BY <1>0, <1>8 DEF WriteState, memory
  <2>2. LoadHistory(historyFile) = history /\ st # Nil
    BY <2>1, NilAssumption DEF Saved, TypeInv, TypeOK
  <2>3. \A e \in Named : Known(history, addr, e)
    BY <2>1 DEF Remembered, Saving
  <2>4. \A e \in named' \cap Epoch : Known(history, addr, e) \/ e = now
    BY <2>1, <2>3
  <2>5. pc' \notin Saving
    BY <2>1 DEF Saving, Recorded
  <2> QED
    BY <2>1, <2>2, <2>4, <2>5 DEF Remembered, Known, NewerThan, Archived, LoadHistory
<1>9. ASSUME NEW p \in Participant, Restart(p) PROVE Remembered'
  <2>1. /\ UNCHANGED <<named, historyFile, stateFile>> /\ addr' = addr
        /\ history' = LoadHistory(historyFile) /\ st' = LoadState(stateFile)
        /\ pc = "down" /\ pc' = "idle"
    BY <1>9 DEF Restart, files, TypeInv, TypeOK
  <2>2. /\ stateFile # Nil => st'.chainEpoch = stateFile.chainEpoch /\ st'.valid = TRUE
        /\ stateFile = Nil => st'.chainEpoch = 0
    BY <2>1 DEF LoadState, EmptyState, TypeInv, TypeOK, EpochState
  <2>3. \A e \in Named : Known(history', addr, e) \/ e = st'.chainEpoch
    BY <2>1, <2>2 DEF Remembered
  <2>4. pc' \notin Saving
    BY <2>1 DEF Saving, Recorded
  <2> QED
    BY <2>1, <2>2, <2>3, <2>4 DEF Remembered, Known, NewerThan, Archived, LoadHistory
<1>10. ASSUME Crash PROVE Remembered'
  <2>1. /\ UNCHANGED <<addr, historyFile, stateFile>> /\ st'.chainEpoch = 0
        /\ named' = IF pc = "writeHistory" THEN named \cap {LoadState(stateFile).chainEpoch} ELSE named
        /\ pc' = "down"
    BY <1>10 DEF Crash, EmptyState, files
  <2>2. LoadState(stateFile).chainEpoch = IF stateFile = Nil THEN 0 ELSE stateFile.chainEpoch
    BY DEF LoadState, EmptyState, TypeInv, TypeOK, EpochState
  <2>3. \A e \in named' \cap Epoch :
            \/ Known(LoadHistory(historyFile), addr, e)
            \/ stateFile # Nil /\ e = stateFile.chainEpoch
    BY <1>0, <2>1, <2>2 DEF Remembered
  <2>4. pc' \notin Saving
    BY <2>1 DEF Saving, Recorded
  <2> QED
    BY <2>1, <2>3, <2>4 DEF Remembered, Known, NewerThan, Archived, LoadHistory
<1>11. ASSUME ChainStep \/ UNCHANGED vars PROVE Remembered'
  <2>1. UNCHANGED <<st, history, addr, historyFile, stateFile, named, pc>>
    BY <1>11 DEF ChainStep, vars, memory, process, files
  <2> QED
    BY <2>1 DEF Remembered, Known, NewerThan, Archived, LoadHistory
<1> QED
  BY <1>1, <1>2, <1>3, <1>4, <1>5, <1>6, <1>7, <1>8, <1>9, <1>10, <1>11 DEF Next, CycleStep

\* With one participant, a disk that does not fail and an epoch number that can always be
\* read, every epoch that a complete state file has ever named is in the history once the
\* tracker has left it, whichever process left it and wherever one died in between; but for
\* those that went with a history file that was torn, and those that had to make room.
THEOREM NothingForgotten ==
  ASSUME "disk" \notin MayFail, "epoch" \notin MayFail, NEW only, Participant = {only}
  PROVE  Spec => []NoGapAcrossRestarts
<1>1. TypeInv /\ Remembered => NoGapAcrossRestarts
  <2> SUFFICES ASSUME TypeInv, Remembered, NEW e \in named, e # 0, e < st.chainEpoch
               PROVE  Known(history, addr, e)
    BY DEF NoGapAcrossRestarts, InHistory, Known
  <2>1. e \in Epoch /\ e \in Nat /\ st.chainEpoch \in Nat
    BY EpochType DEF TypeInv, TypeOK, EpochState
  <2>2. pc # "down" /\ e # st.chainEpoch
    BY <2>1 DEF Remembered
  <2> QED
    BY <2>1, <2>2 DEF Remembered
<1>2. TypeInv /\ Saved /\ [Next]_vars => Saved'
  BY NextSaved
<1>3. TypeInv /\ NotAhead /\ NoGap /\ [Next]_vars => NoGap'
  BY NextNoGap
<1>4. TypeInv /\ Saved /\ NoGap /\ Remembered /\ [Next]_vars => Remembered'
  BY NextRemembered
<1> QED
  BY <1>1, <1>2, <1>3, <1>4, InitSaved, InitNoGap, InitRemembered, TypeInvariant,
     NotAheadInvariant, PTL DEF Spec
=============================================================================
