---------------------------- MODULE EpochTracker ----------------------------
(***************************************************************************)
(* The epoch tracking of internal/collector/collector.go: the participant  *)
(* part of a collection cycle (collectParticipant and its helpers), the    *)
(* node sweep that feeds the snapshot, the two files it persists to, and   *)
(* the process that crashes and is started again.                          *)
(*                                                                         *)
(* Every request and every file operation is a step of its own, so that    *)
(* the chain may move, or the process may die, between any two of them.    *)
(* What the code does between two such operations is part of the step.     *)
(* Collect calls follow one another (one goroutine ranges over the         *)
(* ticker), so one program counter describes the exporter.                 *)
(***************************************************************************)
EXTENDS GonkaChain

CONSTANTS
    MayFail,    \* what may fail in this instance
    MaxFaults   \* bound: the failures in a behaviour

VARIABLES
    addr,        \* cfg.Participant of this process
    pc,          \* the operation the collection cycle is at
    st,          \* Collector.st
    epochMax,    \* Collector.epochMax
    epochNode,   \* Collector.epochNode: the epochs its node weights were read in
    estimate,    \* Collector.estimatedReward, 0 when there is none
    history,     \* Collector.history
    series,      \* the gauges labelled (participant, epoch)
    loc,         \* the local variables of collectParticipant
    stateFile,   \* STATE_FILE
    historyFile, \* EPOCH_HISTORY_FILE
    boot,        \* the epoch the state file named at start, until it is recorded, and
    named,       \* the epochs that a complete state file has named (for properties)
    faults       \* how much has failed so far (a bound)

files == <<stateFile, historyFile>>
process == <<addr, boot, named>>
memory == <<st, epochMax, epochNode, estimate, history, series, loc>>
vars == <<chainVars, files, process, memory, pc, faults>>

Requests ==
    {"epoch", "info", "block", "group", "weight", "stats", "wallet", "perf", "nodes"}

Steps ==
    {"idle", "info", "block", "group", "stats", "wallet", "update", "detect", "perf",
     "openHistory", "writeHistory", "close", "openState", "writeState", "nodes", "down"}

\* A request that fails, a file that cannot be opened or written, a process that dies.
Failures == Requests \cup {"disk", "crash"}

ASSUME FaultAssumption == MayFail \subseteq Failures /\ MaxFaults \in Nat

Fault(f) ==
    /\ f \in MayFail
    /\ faults < MaxFaults
    /\ faults' = faults + 1

NoFault == UNCHANGED faults

NoSeries ==
    [count |-> Nil, earned |-> Nil, estimated |-> Nil, samples |-> {}, start |-> Nil]

Series ==
    [count : Nat \cup {Nil}, earned : Int \cup {Nil}, estimated : Start \cup {Nil},
     samples : SUBSET Epoch, start : Start \cup {Nil}]

AllSeries == [Participant -> [Epoch -> Series]]

\* The locals before a cycle: no epoch, no epoch info, no statistics, no wallet.
NoLocals ==
    [epoch |-> 0, prevStart |-> 0, poc |-> 0, count |-> 0, wallet |-> Nil, snap |-> Nil]

Locals ==
    [epoch : Start, prevStart : Start, poc : Start, count : Nat,
     wallet : Nat \cup {Nil}, snap : EpochSnapshot \cup {Nil}]

NoMaxima == [e \in Epoch |-> Nil]

TypeOK ==
    /\ ChainTypeOK
    /\ addr \in Participant
    /\ pc \in Steps
    /\ st \in EpochState
    /\ epochMax \in [Epoch -> Nat \cup {Nil}]
    /\ epochNode \in SUBSET Epoch
    /\ estimate \in Start
    /\ history \in History
    /\ series \in AllSeries
    /\ loc \in Locals
    /\ stateFile \in EpochState \cup {Nil}
    /\ historyFile \in History \cup {Nil}
    /\ boot \in Start
    /\ named \in SUBSET Start
    /\ faults \in Nat

(***************************************************************************)
(* New: load the files and put the gauges of the archived epochs back.     *)
(***************************************************************************)
RestoredSeries(snap) ==
    IF snap = Nil THEN NoSeries
    ELSE [count |-> snap.count, earned |-> snap.earned, estimated |-> snap.estimated,
          samples |-> snap.samples, start |-> IF snap.start > 0 THEN snap.start ELSE Nil]

ForgetMemory ==
    /\ epochMax' = NoMaxima
    /\ epochNode' = {}
    /\ estimate' = 0
    /\ loc' = NoLocals

Restart(p) ==
    /\ pc = "down"
    /\ addr' = p
    /\ st' = LoadState(stateFile)
    /\ history' = LoadHistory(historyFile)
    /\ series' = [q \in Participant |-> [e \in Epoch |-> RestoredSeries(history'[q][e])]]
    /\ boot' = st'.chainEpoch
    /\ ForgetMemory
    /\ pc' = "idle"
    /\ UNCHANGED <<chainVars, files, named, faults>>

\* The process dies: a kill, or a SIGTERM that does not wait for the cycle under way.
\* While the history file is truncated, it takes with it all but the epoch of the state file.
Crash ==
    /\ pc # "down"
    /\ Fault("crash")
    /\ st' = EmptyState
    /\ history' = EmptyHistory
    /\ series' = [q \in Participant |-> [e \in Epoch |-> NoSeries]]
    /\ boot' = 0
    /\ named' = IF pc = "writeHistory" THEN named \cap {LoadState(stateFile).chainEpoch} ELSE named
    /\ ForgetMemory
    /\ pc' = "down"
    /\ UNCHANGED <<chainVars, files, addr>>

(***************************************************************************)
(* collectParticipant, one request after the other.                        *)
(***************************************************************************)
FetchChainEpoch ==
    /\ pc = "idle"
    /\ \/ /\ loc' = [NoLocals EXCEPT !.epoch = epoch, !.prevStart = st.startTime]
          /\ NoFault
       \/ /\ Fault("epoch")
          /\ loc' = [NoLocals EXCEPT !.prevStart = st.startTime]
    /\ pc' = "info"
    /\ UNCHANGED <<chainVars, files, process, st, epochMax, epochNode, estimate, history, series>>

FetchEpochInfo ==
    /\ pc = "info"
    /\ \/ /\ loc' = [loc EXCEPT !.poc = epoch]
          /\ pc' = IF epoch # st.pocStart THEN "block" ELSE "group"
          /\ NoFault
       \/ /\ Fault("info")
          /\ pc' = "group"
          /\ UNCHANGED loc
    /\ UNCHANGED <<chainVars, files, process, st, epochMax, epochNode, estimate, history, series>>

\* Faulty variant: the epoch start height is kept even when its block time is not known.
FetchBlockTimeHeightFirst ==
    /\ pc = "block"
    /\ \/ /\ st' = [st EXCEPT !.pocStart = loc.poc, !.startTime = loc.poc]
          /\ NoFault
       \/ /\ Fault("block")
          /\ st' = [st EXCEPT !.pocStart = loc.poc]
    /\ pc' = "group"
    /\ UNCHANGED <<chainVars, files, process, epochMax, epochNode, estimate, history, series, loc>>

FetchBlockTime ==
    /\ pc = "block"
    /\ \/ /\ st' = [st EXCEPT !.pocStart = loc.poc, !.startTime = loc.poc]
          /\ NoFault
       \/ /\ Fault("block")
          /\ UNCHANGED st
    /\ pc' = "group"
    /\ UNCHANGED <<chainVars, files, process, epochMax, epochNode, estimate, history, series, loc>>

\* A failed request, a zero total weight and an address that is not listed leave the
\* estimate alone; a weight of zero, or one that does not parse, makes it zero.
FetchGroupData ==
    /\ pc = "group"
    /\ \/ /\ \/ estimate' = epoch /\ NoFault
             \/ estimate' = 0 /\ Fault("weight")
          /\ series' = IF loc.epoch = 0 THEN series
                       ELSE [series EXCEPT ![addr][loc.epoch].estimated = estimate']
       \/ /\ Fault("group")
          /\ UNCHANGED <<estimate, series>>
    /\ pc' = "stats"
    /\ UNCHANGED <<chainVars, files, process, st, epochMax, epochNode, history, loc>>

FetchParticipantStats ==
    /\ pc = "stats"
    /\ \/ /\ loc' = [loc EXCEPT !.count = served[addr][epoch]]
          /\ pc' = "wallet"
          /\ NoFault
       \/ /\ Fault("stats")
          /\ loc' = NoLocals
          /\ pc' = "nodes"
    /\ UNCHANGED <<chainVars, files, process, st, epochMax, epochNode, estimate, history, series>>

\* Faulty variant: an unset balance at the epoch start stays unset.
FetchWalletNoBaseline ==
    /\ pc = "wallet"
    /\ \/ /\ loc' = [loc EXCEPT !.wallet = wallet[addr]]
          /\ NoFault
       \/ /\ Fault("wallet")
          /\ UNCHANGED loc
    /\ pc' = "update"
    /\ UNCHANGED <<chainVars, files, process, st, epochMax, epochNode, estimate, history, series>>

FetchWallet ==
    /\ pc = "wallet"
    /\ \/ /\ loc' = [loc EXCEPT !.wallet = wallet[addr]]
          /\ st' = [st EXCEPT !.baseline = IF @ = 0 THEN wallet[addr] ELSE @]
          /\ NoFault
       \/ /\ Fault("wallet")
          /\ UNCHANGED <<loc, st>>
    /\ pc' = "update"
    /\ UNCHANGED <<chainVars, files, process, epochMax, epochNode, estimate, history, series>>

\* Faulty variant: the last value seen instead of the highest.
LastSeen(old, new) == new

RunningMax(old, new) == IF old # Nil /\ old > new THEN old ELSE new

Live(shown, max) ==
    [shown EXCEPT !.count = max,
                  !.earned = IF loc.wallet # Nil THEN loc.wallet - st.baseline ELSE @,
                  !.start = IF st.startTime > 0 THEN st.startTime ELSE @]

UpdateEpochMaxAndGauges ==
    /\ pc = "update"
    /\ IF loc.epoch = 0 THEN UNCHANGED <<epochMax, series>>
       ELSE LET max == RunningMax(epochMax[loc.epoch], loc.count) IN
            /\ epochMax' = [epochMax EXCEPT ![loc.epoch] = max]
            /\ series' = [series EXCEPT ![addr][loc.epoch] = Live(@, max)]
    /\ pc' = "detect"
    /\ UNCHANGED <<chainVars, files, process, faults, st, epochNode, estimate, history, loc>>

(***************************************************************************)
(* detectAndRecordEpochBoundary.  A boundary goes through the steps perf,  *)
(* openHistory, writeHistory and close; a changed epoch number, boundary   *)
(* or not, through openState and writeState.                               *)
(***************************************************************************)
\* Faulty variant: an epoch number that went back, or that is missing, is a boundary too.
IsBoundaryAnyChange(prev, next) == st.valid /\ prev > 0 /\ next # prev

\* Faulty variant: the boundary is found again in every cycle of the new epoch.
IsBoundaryAgain(prev, next) == st.valid /\ prev > 0 /\ next >= prev

\* Faulty variant: only the next epoch ends the one before.
IsBoundaryNoSkip(prev, next) == st.valid /\ prev > 0 /\ next = prev + 1

IsBoundary(prev, next) == st.valid /\ prev > 0 /\ next > prev

StoreAs(changed, baseline) ==
    /\ st' = [st EXCEPT !.chainEpoch = loc.epoch, !.valid = TRUE, !.baseline = baseline]
    /\ pc' = IF changed THEN "openState" ELSE "nodes"
    /\ loc' = NoLocals

\* Faulty variant: the comparison comes after the assignment.
StoreEpochThenCompare(baseline) == StoreAs(FALSE, baseline)

\* The end of collectParticipant: the epoch number is stored, and saved when it changed.
StoreEpoch(baseline) == StoreAs(st.chainEpoch # loc.epoch, baseline)

DetectBoundary ==
    /\ pc = "detect"
    /\ \/ /\ IsBoundary(st.chainEpoch, loc.epoch)
          /\ pc' = "perf"
          /\ UNCHANGED <<st, loc>>
       \/ /\ ~ IsBoundary(st.chainEpoch, loc.epoch)
          /\ StoreEpoch(IF ~ st.valid /\ loc.wallet # Nil THEN loc.wallet ELSE st.baseline)
    /\ UNCHANGED <<chainVars, files, process, faults, epochMax, epochNode, estimate, history, series>>

Snapshot(from, to, perf) ==
    [count |-> IF epochMax[st.chainEpoch] = Nil THEN 0 ELSE epochMax[st.chainEpoch],
     samples |-> epochNode,
     start |-> from, end |-> to,
     earned |-> IF loc.wallet = Nil THEN Nil ELSE loc.wallet - st.baseline,
     estimated |-> IF estimate > 0 THEN estimate ELSE Nil,
     perf |-> perf]

\* Faulty variant: the two start times are swapped.
NewSnapshotSwapped(perf) == Snapshot(st.startTime, loc.prevStart, perf)

NewSnapshot(perf) == Snapshot(loc.prevStart, st.startTime, perf)

RecordAndThen(next) ==
    /\ pc = "perf"
    /\ \E perf \in BOOLEAN :
           /\ IF perf THEN NoFault ELSE Fault("perf")
           /\ loc' = [loc EXCEPT !.snap = NewSnapshot(perf)]
           /\ history' = Pruned([history EXCEPT ![addr][st.chainEpoch] = NewSnapshot(perf)])
    /\ pc' = next
    /\ UNCHANGED <<chainVars, files, process, st, epochMax, epochNode, estimate, series>>

\* Faulty variant: the snapshot stays in memory.
RecordSnapshotUnsaved == RecordAndThen("close")

RecordSnapshot == RecordAndThen("openHistory")

\* os.WriteFile truncates the file first, then writes it; both may fail.
OpenHistory ==
    /\ pc = "openHistory"
    /\ \/ /\ historyFile' = Nil
          /\ pc' = "writeHistory"
          /\ NoFault
       \/ /\ Fault("disk")
          /\ pc' = "close"
          /\ UNCHANGED historyFile
    /\ UNCHANGED <<chainVars, stateFile, process, memory>>

WriteHistory ==
    /\ pc = "writeHistory"
    /\ \/ historyFile' = history /\ NoFault
       \/ Fault("disk") /\ UNCHANGED historyFile
    /\ pc' = "close"
    /\ UNCHANGED <<chainVars, stateFile, process, memory>>

\* Faulty variant: what was not fetched replaces what is known.
LatestUnchecked(old, new) == new

Latest(old, new) == IF new = Nil THEN old ELSE new

PublishedAs(old, snap, earned) ==
    [count |-> snap.count, earned |-> earned,
     estimated |-> Latest(old.estimated, snap.estimated),
     samples |-> IF snap.samples = {} THEN old.samples ELSE snap.samples,
     start |-> snap.start]

\* Faulty variant: the live gauge of the earned amount is left as it was.
PublishedKeepsEarned(old, snap) == PublishedAs(old, snap, old.earned)

Published(old, snap) == PublishedAs(old, snap, Latest(old.earned, snap.earned))

CloseWith(nodes, baseline) ==
    /\ pc = "close"
    /\ series' = [series EXCEPT ![addr][st.chainEpoch] = Published(@, loc.snap)]
    /\ epochNode' = nodes
    /\ epochMax' = Recent(epochMax)
    /\ StoreEpoch(baseline)
    /\ boot' = IF boot = st.chainEpoch THEN 0 ELSE boot
    /\ UNCHANGED <<chainVars, files, addr, named, faults, estimate, history>>

\* Faulty variant: the node data of the finished epoch is kept.
CloseBoundaryKeepsNodes == CloseWith(epochNode, Latest(st.baseline, loc.wallet))

\* Faulty variant: the balance 0 of a failed request becomes the new baseline.
CloseBoundaryUnchecked == CloseWith({}, Latest(0, loc.wallet))

CloseBoundary == CloseWith({}, Latest(st.baseline, loc.wallet))

OpenState ==
    /\ pc = "openState"
    /\ \/ /\ stateFile' = Nil
          /\ pc' = "writeState"
          /\ NoFault
       \/ /\ Fault("disk")
          /\ pc' = "nodes"
          /\ UNCHANGED stateFile
    /\ UNCHANGED <<chainVars, historyFile, process, memory>>

WriteState ==
    /\ pc = "writeState"
    /\ \/ /\ stateFile' = st
          /\ named' = named \cup {st.chainEpoch}
          /\ NoFault
       \/ /\ Fault("disk")
          /\ UNCHANGED <<stateFile, named>>
    /\ pc' = "nodes"
    /\ UNCHANGED <<chainVars, historyFile, addr, boot, memory>>

(***************************************************************************)
(* collectNodes: the weights it reads are those of the chain's epoch, the  *)
(* label it gives them is the tracker's.                                   *)
(***************************************************************************)
CollectNodes ==
    /\ pc = "nodes"
    /\ \/ /\ epochNode' = epochNode \cup {epoch}
          /\ series' = IF st.chainEpoch = 0 THEN series
                       ELSE [series EXCEPT ![addr][st.chainEpoch].samples = epochNode']
          /\ NoFault
       \/ /\ Fault("nodes")
          /\ UNCHANGED <<epochNode, series>>
    /\ pc' = "idle"
    /\ UNCHANGED <<chainVars, files, process, st, epochMax, estimate, history, loc>>

(***************************************************************************)
(* The specification.                                                      *)
(***************************************************************************)
Init ==
    /\ ChainInit
    /\ addr \in Participant
    /\ pc = "down"
    /\ st = EmptyState
    /\ epochMax = NoMaxima
    /\ epochNode = {}
    /\ estimate = 0
    /\ history = EmptyHistory
    /\ series = [p \in Participant |-> [e \in Epoch |-> NoSeries]]
    /\ loc = NoLocals
    /\ stateFile = Nil
    /\ historyFile = Nil
    /\ boot = 0
    /\ named = {}
    /\ faults = 0

ChainStep == ChainNext /\ UNCHANGED <<files, process, memory, pc, faults>>

CycleStep ==
    \/ FetchChainEpoch
    \/ FetchEpochInfo
    \/ FetchBlockTime
    \/ FetchGroupData
    \/ FetchParticipantStats
    \/ FetchWallet
    \/ UpdateEpochMaxAndGauges
    \/ DetectBoundary
    \/ RecordSnapshot
    \/ OpenHistory
    \/ WriteHistory
    \/ CloseBoundary
    \/ OpenState
    \/ WriteState
    \/ CollectNodes

Next ==
    \/ ChainStep
    \/ CycleStep
    \/ \E p \in Participant : Restart(p)
    \/ Crash

Spec == Init /\ [][Next]_vars

\* A cycle goes on, because every request ends or times out (http.Client's 10 s), and
\* the ticker starts the next one; the container is started again (restart:
\* unless-stopped).  No fairness is assumed of the chain.
Fairness ==
    /\ WF_vars(CycleStep)
    /\ WF_vars(\E p \in Participant : Restart(p))

FairSpec == Spec /\ Fairness

(***************************************************************************)
(* Properties that hold whatever fails.                                    *)
(***************************************************************************)
Running == pc # "down" /\ pc' # "down"

Boundary == {"perf", "openHistory", "writeHistory", "close"}

\* Only an epoch that the chain has left is in the history or in its file
\* (recordSnapshot is for "one completed epoch", state.go:48).
OnlyFinishedEpochsArchived ==
    \A p \in Participant : \A e \in Archived(history, p) \cup Archived(LoadHistory(historyFile), p) :
        e < epoch

\* The duration of an archived epoch is not negative (DurationSeconds, collector.go:437).
DurationsNonNegative ==
    \A p \in Participant : \A e \in Archived(history, p) :
        history[p][e].start <= history[p][e].end

\* A process writes the snapshot of an epoch once.  The one it may write over, once, is
\* that of the epoch its state file named when it started: the crash hit between the two
\* saves (collector.go:477, 267).
RewrittenOnlyAtBoot ==
    [][\A p \in Participant : \A e \in Archived(history, p) :
           history'[p][e] \notin {Nil, history[p][e]} => p = addr /\ e = boot]_vars

\* The balance at the epoch start moves only when a snapshot has accounted for the
\* difference: no income falls between two epochs (collector.go:254-256, 454-457).
BaselineMovesWithSnapshot ==
    [][Running /\ st.baseline # 0 /\ st'.baseline # st.baseline =>
           loc.snap # Nil /\ loc.snap.earned = st'.baseline - st.baseline]_vars

\* A running maximum never drops while the process runs (EpochMaxValues "tracks the
\* running maximum per epoch", state.go:26), also when the chain enters the next epoch
\* between the request for the epoch number and the one for the statistics.
RunningMaxNeverDrops ==
    [][\A e \in Epoch : Running /\ epochMax[e] # Nil /\ epochMax'[e] # Nil =>
           epochMax'[e] >= epochMax[e]]_vars

\* Once a boundary is through, and after a restart, the gauges of an archived epoch show
\* what its snapshot says, of each figure that it has (README "Epoch Boundary Detection",
\* step 3).  Node data is excepted for one epoch, and only until its boundary is found
\* again: a process that finds its state file behind its history file gives the node
\* weights it reads to the epoch of the state file, archived or not (collector.go:599-611).
ArchivedSeriesAgree ==
    pc \notin Boundary =>
        \A p \in Participant : \A e \in Archived(history, p) :
            LET snap == history[p][e]  shown == series[p][e] IN
            /\ shown.count = snap.count
            /\ snap.start > 0 => shown.start = snap.start
            /\ snap.earned # Nil => shown.earned = snap.earned
            /\ snap.estimated # Nil => shown.estimated = snap.estimated
            /\ snap.samples # {} /\ ~ (p = addr /\ e = boot) => shown.samples = snap.samples

\* The node weights that go into a snapshot were all read after every epoch that is
\* archived already had ended (recordSnapshot starts node data anew, collector.go:520).
NodeDataNotCarriedOver ==
    [][\A p \in Participant : \A e \in Epoch : history'[p][e] \notin {Nil, history[p][e]} =>
           \A d \in Archived(history, p) : \A read \in history'[p][e].samples : read > d]_vars

\* No participant has more than MAX_EPOCH_HISTORY snapshots in the file.
HistoryBounded ==
    \A p \in Participant : Cardinality(Archived(LoadHistory(historyFile), p)) <= MaxHistory

(***************************************************************************)
(* Properties that need the epoch number, or the disk, not to fail.        *)
(***************************************************************************)
\* In the history of this process, or left out to make room for newer epochs.
InHistory(e) ==
    history[addr][e] # Nil \/ Cardinality(NewerThan(history, addr, e)) >= MaxHistory

\* While a process lives: every epoch whose counters it has collected itself, and that the
\* tracker has left, is in its history (README "Epoch Boundary Detection": when the epoch
\* increments, "A full EpochSnapshot is saved to history").
NoGapWhileRunning ==
    \A e \in Epoch : epochMax[e] # Nil /\ e < st.chainEpoch => InHistory(e)

\* Across restarts: every epoch that a complete state file has named, in this process or
\* an earlier one, is in the history once the tracker has left it (state.go:14,
\* "EpochState survives restarts").  An epoch that a process collected without naming it
\* in the state file, because it died first, is not promised to anybody; nor are those
\* that go with a history file that is torn.
NoGapAcrossRestarts ==
    \A e \in named : e # 0 /\ e < st.chainEpoch => InHistory(e)

\* The state file is never ahead of the history file: what it calls finished is on disk,
\* except while the history is being written (SaveHistory at collector.go:477 comes
\* before SaveState at 267).
StateFileNotAhead ==
    stateFile # Nil /\ pc # "writeHistory" =>
        \A e \in Archived(history, addr) :
            e < stateFile.chainEpoch => LoadHistory(historyFile)[addr][e] # Nil

\* While the wallet does not move, no epoch has an income, whatever failed before.
NoPhantomIncome ==
    transfers = 0 =>
        \A p \in Participant : \A e \in Archived(history, p) :
            history[p][e].earned \in {Nil, 0}

(***************************************************************************)
(* What must eventually happen.                                            *)
(***************************************************************************)
\* The tracker and its state file reach the chain's last epoch.
CatchesUp ==
    <>[](st.chainEpoch = epoch /\ stateFile # Nil /\ LoadState(stateFile).chainEpoch = epoch)

\* The start time of the epoch is learned, also when the block was not served at first:
\* the height is kept only with its time, so that the request is made again.
StartTimeLearned == <>[](st.startTime = epoch)

(***************************************************************************)
(* What the documentation says and the code does not do.                   *)
(***************************************************************************)
\* "Estimated GNK reward for epoch N": a snapshot holds the estimate of its own epoch.
EstimateOfOwnEpoch ==
    \A p \in Participant : \A e \in Archived(history, p) :
        history[p][e].estimated \in {Nil, e}

\* "PoC weight for epoch N per node", "Timeslot assigned in epoch N": node data that is
\* shown for an epoch was read in that epoch.
NodeDataOfItsLabel ==
    \A p \in Participant : \A e \in Epoch : series[p][e].samples \subseteq {e}

\* The running maxima "produce robust snapshots" (state.go:26): a snapshot on file is
\* not replaced by one with less in it.
SnapshotsRobust ==
    [][\A p \in Participant : \A e \in Archived(history, p) :
           history'[p][e] # Nil => history'[p][e].count >= history[p][e].count]_vars

\* "On restart, all historical metrics are restored": a process that dies leaves on file
\* the epochs it had archived before.
HistorySurvivesCrash ==
    [][pc # "down" /\ pc' = "down" =>
           \A e \in Archived(history, addr) :
               e # st.chainEpoch => LoadHistory(historyFile)[addr][e] # Nil]_vars
=============================================================================
