# Gonka exporter: a TLA+ development

This directory holds the specification of `gonka-exporter-go`, a Prometheus
exporter that follows one participant of the Gonka chain. Once per
`REFRESH_INTERVAL` it asks a dozen HTTP endpoints, sets gauges, watches for the
end of an epoch, and archives a snapshot of each finished epoch in a file that it
restores from when it starts again.

Paths and line numbers are those of the repository; `collector.go` is
`internal/collector/collector.go`, `state.go` is `internal/state/state.go`,
`fetcher_*.go` are in `internal/fetcher/`.

## The system and its parts

| Part | State it keeps | Operations | Talks to |
|---|---|---|---|
| Epoch tracker (`collector.go` 217-521, 739-751) | `st` (`EpochState`), `epochMax`, `epochNode`, `estimatedReward`, `history` | one cycle: epoch number, epoch info, block time, group data, statistics, wallet, running maxima, boundary, snapshot | fetchers, files, gauges |
| Start (`collector.go` 51-65, 692-737) | | `New`, `restoreMetrics` | files, gauges |
| State and history files (`state.go`) | `STATE_FILE`, `EPOCH_HISTORY_FILE` | load, save, prune, migrate | the tracker |
| Node sweep (`collector.go` 525-688) | the node data of the epoch (shared with the tracker), 20 node gauges | `collectNodes`: reset, one goroutine per node entry, wait | admin API, ML nodes |
| Chain poll (`collector.go` 83-122, `fetcher_chain.go`) | block height gauges | local status; a detached goroutine that asks up to five nodes | nodes |
| Network-wide gauges (`collector.go` 126-213, 753-870) | participants, prices, models, statistics, bridge, tokenomics, PoCv2 gauges | one request, then `Set`, with or without `Reset` | API |
| Fetchers and decoders (`internal/fetcher`) | none | HTTP GET with a 10 s timeout, decoding with fallbacks | everything outside |
| Life cycle (`cmd/exporter/main.go`) | ticker, server | start, first cycle, ticks, signal | collector |
| Configuration (`internal/config`) | constants | read once | everything |

One goroutine ranges over the ticker, so cycles never overlap. What does run
concurrently: the chain, which moves between any two requests of a cycle; the node
goroutines; a scrape, which reads the gauges at any moment; the detached chain poll;
and the kill or signal that ends the process, which waits for no cycle.

What is hard here, in short (`PROJECT.json` "hazards" has the list with lines):

* A cycle is a sequence of requests to a chain that moves meanwhile, and each may
  fail on its own. The values of one cycle need not belong to one epoch.
* An epoch boundary is found by comparing two stored numbers, after failures and
  restarts of any kind, and there is one chance to record it.
* Two files, written one after the other, each truncated before it is written.
* Gauges of one epoch are set by three pieces of code (live, at the boundary, after
  a restart) that must agree.
* The node data of an epoch is filled by goroutines under a mutex, and taken over by
  the tracker.

What makes each part correct: the tracker archives every finished epoch once, with
values of that epoch, and accounts for every change of the wallet; the files never
claim more than is in them; gauges and archive agree; a sweep leaves exactly the
nodes of the list, with figures of that sweep, and loses no weight.

## The modules

| Module | What it is |
|---|---|
| `EpochFiles` | The data of `state.go`, what loading gives back, what saving prunes |
| `GonkaChain` | The environment: epochs, counters, balances (external) |
| `EpochTracker` | The tracker, its files and its process; extends the two above |
| `EpochTrackerProofs` | Theorems about `EpochTracker`: types, order of epochs, snapshots written once |
| `EpochLedgerProofs` | Theorems about what the tracker counts and keeps; builds on the module above |
| `EpochArchiveProofs` | Theorems about what it promises when the disk, or the epoch number, does not fail; builds on both |
| `MCEpochTracker` | One or two participants, sets of failures, for TLC |
| `SweepPromise` | The abstract sweep: all node data at once |
| `NodeSweep` | The sweep with its goroutines, mutex and gauges; implements `SweepPromise` |
| `NodeSweepProofs` | Theorems about `NodeSweep` |
| `SweepPromiseProofs` | `NodeSweep` implements `SweepPromise`; builds on the module above |
| `MCNodeSweep` | Two nodes, two goroutines, four lists |
| `ChainPoll` | The detached goroutine of `collectChain` and its requests; several may be alive |
| `Exporter` | `main`: first cycle, ticker, loop, server, signal, shutdown; extends `ChainPoll` |
| `ExporterProofs` | Theorems about `ChainPoll` and `Exporter` |
| `MCExporter` | `Exporter` with short timers, for TLC |
| `Decoders` | The structures of the answers: fields, Go types, conversions, what is refused |
| `NetworkGauges` | The fifteen requests whose answers are only copied into gauges |
| `NetworkGaugesProofs` | Theorems about `Decoders` and `NetworkGauges` |
| `MCNetworkGauges` | All of them, with two names and small integer widths |

How they fit together. `Exporter` shows that cycles never overlap (`OneCollectAtATime`)
and go on for ever (`CyclesGoOn`): that is why `EpochTracker` has one program counter
and its cycles are weakly fair. `EpochTracker!CollectNodes` takes the node sweep as one
step, which `NodeSweep` refining `SweepPromise` justifies (theorem
`SweepKeepsItsPromise`). `NetworkGauges` follows each
group of gauges on its own, because the groups share no state with each other, nor with
the tracker.

Definitions that a comment calls a *faulty variant* are not part of the
specification: each is a plausible mistake at one place of the code, and for each
property a faulty variant is known that breaks it.

### EpochTracker and the code

| Variable | Code |
|---|---|
| `addr` | `cfg.Participant` of the running process |
| `pc` | the operation the cycle is at; `down` while no process runs |
| `st` | `Collector.st` (`chainEpoch`, `startTime`, `baseline` = `WalletBalanceAtEpochStart`, `pocStart`, `valid`) |
| `epochMax`, `estimate`, `history` | the fields of `Collector` |
| `epochNode` | `Collector.epochNode`, as the set of epochs its weights were read in |
| `series` | the gauges labelled (participant, epoch) |
| `loc` | the local variables of `collectParticipant` and the snapshot under way |
| `stateFile`, `historyFile` | the files; `Nil` when missing or not parsable |
| `boot` | the epoch the state file named at the start of this process, until it is recorded (for properties) |
| `named` | the epochs that a complete state file has named (for properties) |
| `faults`, `transfers` | what only bounds and properties use |

| Action | Code |
|---|---|
| `FetchChainEpoch` | `fetchAndSetChainEpoch`: 0 on failure |
| `FetchEpochInfo`, `FetchBlockTime` | `fetchAndSetEpochInfo`: the block time only for a new height, the height kept only with its time |
| `FetchGroupData` | `fetchAndSetGroupData`: estimate and its live gauge |
| `FetchParticipantStats` | `fetchAndSetParticipantStats`: a failure ends `collectParticipant` |
| `FetchWallet` | `fetchAndSetWallet`: baseline if it was 0 |
| `UpdateEpochMaxAndGauges` | `updateEpochMaxAndGauges` |
| `DetectBoundary` | `detectAndRecordEpochBoundary` up to the call of `recordSnapshot`; without a boundary, all of it |
| `RecordSnapshot` | `recordSnapshot` up to `SaveHistory`, the performance summary and the pruning included |
| `OpenHistory`, `WriteHistory` | `os.WriteFile` in `SaveHistory`: truncate, then write |
| `CloseBoundary` | the rest of `recordSnapshot` and of `detectAndRecordEpochBoundary` |
| `OpenState`, `WriteState` | `os.WriteFile` in `SaveState` |
| `CollectNodes` | `collectNodes` as one step |
| `Restart(p)` | `New` with `restoreMetrics`, possibly for another participant |
| `Crash` | a kill, or the end of `main` at a signal |

A step begins with a request or a file operation and runs to the next one, so the
chain and a crash can come between any two of them. Nothing else can observe or
change the tracker's variables inside a step; a scrape may, and no property is about
what a scrape sees in the middle of `recordSnapshot`.

Abstractions:

* A block height, a block time and a reward estimate are named by the epoch they
  belong to; 0 is Go's zero value. Whether a start time is that of the right epoch,
  and which of two is earlier, is what properties ask.
* The seven counters of `EpochMaxValues` are treated alike by the code and are one.
  The miss rate is a function of two of them.
* `PocWeights` and the timeslot are the set of epochs they were read in (`samples`): every
  sweep is taken to list the same nodes. The gauge of a node that is missing from a later
  snapshot of the epoch keeps its value in the code, which the model does not show.
* The performance summary is whether it was fetched.
* A map with absent keys is a total function with `Nil`.
* The log, the BLS gauges, the gauges without an epoch label, `EpochLength` and the
  live end time are left out. `PARTICIPANT_ADDRESS` is set; without it
  `collectParticipant` returns at once.

### NodeSweep and the code

One program counter for `collectNodes` (`pc`), one for each goroutine (`at`). The
steps of a goroutine are cut where another one, or a scrape, can tell the difference:
at the two critical sections, at the gauge that is set after the first of them, and
at the requests. A gauge is the number of the sweep that set it, 0 when it is not
there. The twenty node gauges fall into three kinds, and one of each is modelled:
`status` (set at once), `gpu` (set after its request, whatever the answer, since
`FetchGPUStats` returns an empty answer on failure), `service` (set only on success).
The order in which Go ranges over the models is any. `ParticipantMovesOn` is what the
tracker does to the node data between two sweeps. `before` holds the node data at the
beginning of a sweep; under the refinement mapping the abstract sweep happens when
`collectNodes` returns.

### ChainPoll and Exporter and the code

| Variable | Code |
|---|---|
| `stage`, `asking`, `timer` | each live poll: its goroutine, its requests under way, their 10 s |
| `best`, `bestTime`, `pending` | `maxHeight`, `latestTime`, and the answers between the two assignments |
| `shown` | `gonka_block_height_max`, `gonka_block_time_network_seconds` |
| `phase` | where `main` is; `down` while no process runs |
| `work`, `left` | the requests left in the cycle of `main` and of the loop, and the time of the one under way |
| `tick`, `ticked` | the ticker and its one-slot channel |
| `listening`, `scrape`, `grace` | the server, a request for `/metrics`, the deadline of `srv.Shutdown` |
| `highest`, `mixed`, `collected` | what only properties use |

| Action | Code |
|---|---|
| `StartPoll` (in `BeginCycle`) | the `go func` of `collectChain`; a request for each sampled node |
| `NotHigher`, `Raise`, `NoteTime` | an answer, or none, and the critical section; its two assignments are two steps |
| `PollTimesOut` | `http.Client.Timeout` |
| `PublishHeight`, `PublishTime` | the two `Set` calls after `wg.Wait` |
| `Start`, `Serve`, `Listen` | `main` up to the first `Collect`; the ticker and its goroutine; the server |
| `Answered`, `TimedOut` | one request of a cycle |
| `NextCycle` | `for range ticker.C` |
| `Signal`, `Stopped` | `ticker.Stop` and `srv.Shutdown`; the end of `main` |
| `Killed`, `PortTaken` | a kill, or a signal before `signal.Notify`; `os.Exit(1)` |
| `Elapse` | one unit of time for every timer |

Every timer counts down and is not passed over when it has run out, so a timeout happens
when it is due and what the program does itself takes no time. A poll takes one request
per sampled node, and any node may lag behind. A block time is named by its height; an
answer may also come without a usable time, which is then 0: `NoteTime` stores it all the
same (`fetcher_chain.go:93`), and `PublishTime` leaves the time gauge as it was
(`collector.go:94-99`), so that the height gauge moves alone. An empty time and one that
does not parse have the same effect and are one. A cycle is a number of requests in sequence. `/healthz` is left out; what a kill
does to the files is in `EpochTracker`.

### Decoders and NetworkGauges and the code

A structure of `Decoders` is one `Fetch...` function: its fields, how each is written on
the wire (`flex` is `flexInt64`, a number or digits; `number`; `text` is a string that
`strconv.ParseInt` reads; a phase that is a number or a name), the Go type it ends in,
and what a missing field becomes. `Decoded` gives the value, `Nil`, or `Error`; one error
refuses the answer (`get` in `fetcher.go`). Of fields that the code treats alike there is
one. The widths of integers are parameters.

| Variable | Code |
|---|---|
| `group` | which handler this behaviour follows; a constant of the behaviour |
| `form`, `source` | the other side: how it writes 64 bit integers, and what it would answer now |
| `shown` | the gauges; `Nil` when not there |
| `todo` | those the handler has still to set |
| `heard`, `told`, `events` | what properties and bounds use |

`Answered` is the request, the decoding and the reset; `Set` sets one gauge, so that a
scrape sees every intermediate state; `NotAnswered` is a request that fails, is refused,
or is not made; `Change` and `Restart` are the source and the process. The operators
`collectChain` to `collectWeights` say what each handler sets, with the tests of the code
(only when positive, only when named, only when not nil). `Sources` gives every field the
values at the edges of its type, among them the first one that does not fit, except where
the type of the source excludes it (a height, an artifact count, a weight).

Gauges that keep an old value are named in `Sticky`: lists that are never reset (prices,
models, model statistics, weights) and gauges that are set only when positive. Of these,
`OneAnswer` and `FollowsSource` say nothing while the source has no positive value. One
of them contradicts its description: `README.md:97` calls
`gonka_network_epoch_inference_count` the "Total network inferences in current
epoch", and after an epoch change it shows the count of the epoch before until the first
request of the new one has been counted (`collector.go:373`).

## What the runs check

`faults` counts failures, and `MaxFaults` bounds them per behaviour, not per cycle.

| Run | Bounds | Checks |
|---|---|---|
| `faulty` | 3 epochs, 1 snapshot and 1 running maximum kept, 1 inference per epoch, any 2 failures | `TypeOK`, `OnlyFinishedEpochsArchived`, `DurationsNonNegative`, `ArchivedSeriesAgree`, `HistoryBounded`, `RewrittenOnlyAtBoot`, `RunningMaxNeverDrops`, `NodeDataNotCarriedOver` |
| `reliable` | 3 epochs, 2 snapshots, 2 failures but not of the epoch number or the disk, 1 transfer | `NoGapWhileRunning`, `NoGapAcrossRestarts`, `StateFileNotAhead`, `NoPhantomIncome`, `BaselineMovesWithSnapshot` |
| `live` | 3 epochs, 2 failures of any kind but the disk, fairness | `CatchesUp`, `StartTimeLearned` |
| `sweep` | 2 nodes, 2 goroutines, 4 lists, 2 sweeps, fairness | `TypeOK`, `OneSweepShown`, `ExactlyTheListed`, `GaugeIsMaximum`, `KeepsPromise`, `SweepEnds` |
| `process` | 3 polls, 3 public nodes of which 2 are asked, heights to 2, timeout 2, interval 3, grace 1, 2 requests per cycle, fairness | `TypeOK`, `OneCollectAtATime`, `NothingServedBeforeFirstCycle`, `PollsBounded`, `BestAnswer`, `PairOfOneBlock`, `CyclesGoOn`, `SignalEnds` |
| `gauges` | 15 groups, 2 names, 16 for 2^32 and 32 for 2^64, 1 change or restart, fairness | `TypeOK`, `NeverInvented`, `OneAnswer`, `FollowsSource` |
| `estimate`, `gap`, `labels`, `crash`, `torn`, `switch` | 2 or 3 epochs, at most 1 failure; `switch` has two participants | one property each, which the code violates; see below |

Why these bounds are enough to be interesting: with three epochs the tracker finds two
boundaries, can skip an epoch, and prunes (one or two snapshots are kept). Two
failures suffice for a crash between the two saves with a failure before or after it,
and for a failure in each of two consecutive cycles. One participant is enough for the
properties above, since participants share nothing but the files (`switch` shows what
that does); the theorems hold for any set, or say where they need one participant. The code keeps 5 running maxima: with three epochs nothing would be
pruned, so the run `faulty` keeps one. The counters, balances and transfers are
bounded by `MaxServed`, `MaxWallet`, `MaxTransfers`, the chain by `MaxEpoch`, the
sweeps by `MaxSweeps`.

In `process` a cycle of two requests that time out takes 4 units and the interval is 3:
cycles overrun the ticker, ticks are dropped, and a poll of 2 units is still alive when
the next cycle, on a late tick, begins. `PollsBounded` allows two polls then, and a third
can be told apart. In `gauges` one change is enough for the invariants, because a gauge
depends on the answer published last and on what was shown before it: every pair of
answers is reached, whatever came earlier. The small widths keep the order of the real
ones (32 bits fit into 64), and the values that matter are at the edges of each type.

Why the runs differ in what may fail: the two `NoGap` properties do not hold when the
request for the epoch number fails (run `gap`), and `NoGapAcrossRestarts` and the two-file
order of `StateFileNotAhead` do not when a write fails (`SaveHistory` logs and goes on). `CatchesUp` does not hold
with a disk that fails, since the state is saved when the epoch number changes and
not again.

What a crash costs. `NoGapWhileRunning` speaks of the epochs whose counters the living
process has collected itself, because a running maximum is only in memory.
`NoGapAcrossRestarts` says what is left of that over restarts: the epochs that a complete
state file has named. Neither says more, and more would be false. A process that dies in
the state write at the change from epoch 1 to 2, or before it, leaves no file that names
epoch 2; if the chain is at 3 when the next one starts, epoch 2 is not archived, although it was
collected. With a disk that fails, the same happens to an epoch that was collected
throughout. And a history file that is torn (run `torn`) takes the archive with it: `Crash`
takes those epochs out of `named`, except for the one the state file still names.

`ArchivedSeriesAgree` compares every figure of a snapshot with the gauges of its epoch,
node data included, with one exception: after a crash between the two saves the state file
names an epoch that is archived already, and until its boundary is found again
(`e = boot`), `collectNodes` writes the weights it reads to that epoch's gauges
(`collector.go:599-611`). It does not say that the node data is of that epoch; run `labels`
shows that it need not be.

`NodeDataNotCarriedOver` is about the moment a snapshot is written. As a statement about
the whole archive it would be wrong: a failed epoch number, two failed writes of the state
file and a crash can make the tracker archive an older epoch after a newer one, whose node
data then includes readings of the older one.

Fairness. `WF(CycleStep)`: every request ends or times out (`http.Client` with
`Timeout: 10 * time.Second`, `fetcher.go:12`), and the ticker starts the next cycle.
`WF(Restart)`: `restart: unless-stopped` in `docker-compose.yml`. Nothing is assumed
of the chain, and failures are bounded. In `NodeSweep` every goroutine, the resets and
the wait are weakly fair; weak fairness is enough for the mutex, because a goroutine
that holds it never makes a request and each critical section is entered finitely
often in a sweep. In `Exporter` time goes on and the program takes its own steps
(`Start`, `Elapse`, `TimedOut`, `Serve`, `NextCycle`, `Stopped`, `PollRuns` are weakly
fair); nothing is assumed of answers, clients, signals or kills, so that `CyclesGoOn`
also covers a chain that never answers, and `SignalEnds` a client that never finishes
reading. In `NetworkGauges` a handler sets what it began to set (`WF(SetOne)`), and the
requests for a group are answered again and again (`SF(Answered)`), which is an
assumption about the environment: cycles go on, and a source that never answers cannot be
followed.

### Where the code and its documents disagree

* `estimate`: the group data of the new epoch is fetched before the finished epoch is
  recorded, so the estimate archived for epoch N is the one of the epoch after it.
* `gap`: one failed request for the epoch number is stored as epoch 0, and an epoch
  that ends meanwhile is never archived.
* `labels`: node weights are read after the epoch number and labelled with the stored one;
  those of a new epoch are shown, and archived, for the epoch before it.
* `crash`: a crash between the two saves makes the next process record the boundary
  again, from running maxima that were only in memory.
* `torn`: a crash inside `os.WriteFile` leaves a history file that does not parse,
  from which nothing is restored.
* `switch`: the state file does not name its participant. A process that is started for
  another one takes over the balance of the one before, and archives the difference of two
  wallets as earned.

`PROJECT.json` "findings" quotes the documents. TLC prints the behaviours, for example
`tlc -config MCEpochTracker_gap.cfg MCEpochTracker`.

## What is proved

All proofs are for every value of the constants that the named assumptions of the
modules allow, not for the bounds of the runs.

**`EpochTracker`** (`EpochTrackerProofs`, `EpochLedgerProofs`, `EpochArchiveProofs`), for
every set of participants, any bounds, any `MayFail` and any number of failures, from
`BoundsAssumption`, `NilAssumption` (the value of a missing file is not an integer, a
state, a snapshot or a history), `ChainAssumption` and `FaultAssumption`:

| Theorem | States | Inductive invariant |
|---|---|---|
| `TypeCorrect` | `[]TypeOK` | `TypeInv` |
| `OnlyFinishedArchived` | `[]OnlyFinishedEpochsArchived` | `TypeInv /\ NotAhead` |
| `NonNegativeDurations` | `[]DurationsNonNegative` | `TypeInv /\ Ordered` |
| `WrittenOnce` | `RewrittenOnlyAtBoot` | `TypeInv /\ NotAhead /\ Fresh` |
| `MaximaNeverDrop` | `RunningMaxNeverDrops` | `TypeInv` |
| `IncomeAccounted` | `BaselineMovesWithSnapshot` | `TypeInv /\ Ledger` |
| `HistoryStaysShort` | `[]HistoryBounded` | `TypeInv /\ Bounded` |
| `NodeDataOfItsOwnEpoch` | `NodeDataNotCarriedOver` | `TypeInv /\ NotAhead /\ OwnNodes` |
| `NothingFromNothing` | `[]NoPhantomIncome`, for one participant | `TypeInv /\ QuietStart` |
| `GaugesShowArchive` | `[]ArchivedSeriesAgree` | `TypeInv /\ Fresh /\ Shows /\ ShowsNodes` |
| `StateFileFollows` | `[]StateFileNotAhead`, if `"disk" \notin MayFail` | `TypeInv /\ Saved` |
| `NothingSkipped` | `[]NoGapWhileRunning`, if `"epoch" \notin MayFail` | `TypeInv /\ NotAhead /\ NoGap` |
| `NothingForgotten` | `[]NoGapAcrossRestarts`, for one participant, if `"epoch"` and `"disk"` `\notin MayFail` | `TypeInv /\ NotAhead /\ Saved /\ NoGap /\ Remembered` |

* `TypeInv` adds to `TypeOK` that a boundary under way has an epoch to record and,
  after `RecordSnapshot`, a snapshot (`SnapshotReady`): `history'` and `series'` are
  indexed by that epoch, so `TypeOK` alone is not inductive.
* `NotAhead`: neither the tracker, nor the cycle, nor the state file is ahead of the
  chain, and through a boundary the tracker is strictly behind the cycle. It is what
  makes "archived as `st.chainEpoch`" mean "the chain has left it", also after a
  restart from an old state file.
* `Ordered`: the tracker's start time never goes back. The interesting case is a
  block time still on its way while the chain moves: it is of an epoch not older than
  the one it replaces. The files have to be part of the invariant, because a restart
  takes the start time from there.
* `Fresh`: what is archived for the running participant is older than the epoch the
  cycle has read, and than the tracker's epoch unless that was taken from the state
  file. A second write for the same epoch is then possible only for the epoch of the
  state file, which is the crash between the two saves.
* `Ledger`: a tracker that is not valid yet has a balance only if the wallet was read
  in the same cycle, and a snapshot under way holds the difference that moving the
  balance is about to make.
* `Bounded`: history and file have at most `MaxHistory` snapshots each. The step is in
  `PrunedBounded`: an epoch survives when fewer than `MaxHistory` are newer, and two
  epochs have different numbers of newer ones.
* `OwnNodes`: outside the rest of a boundary all node data was read after every archived
  epoch had ended, which rests on `NotAhead`.
* `QuietStart`: while no balance has changed, every stored balance is unset or the first
  one, in memory and on file. The restart is where one participant is needed.
* `Shows`: only the gauges of the epoch under way may differ from the archive, and what
  is about to be published there is what was archived. Live gauges are of an epoch that
  is not archived, by `Fresh`.
* `ShowsNodes`: the same of the node data, which `CollectNodes` sets for the tracker's
  epoch. That epoch may be archived only while it is the one of `boot`.
* `Saved`: with a disk that does not fail, the history file is what is in memory, except
  while a boundary is being saved; until it is written, only the snapshot of the tracker's
  epoch may be missing from it. The state file names the tracker's epoch unless a new one
  is about to be saved. `StateFileNotAhead` alone says nothing of the moments at which the
  state file is absent or about to be replaced, from which the next step must conclude.
* `NoGap`: with an epoch number that can always be read, running maxima are those of
  epochs that the tracker has stored, or of the one the cycle has read, and all but the
  tracker's own are in the history, or were and had to make room (`Known`; pruning and
  adding preserve it, `PrunedKnown` and `AddedKnown`). The invariant has to follow the
  cycle through the boundary and across failed writes, where the cycle's epoch and the
  tracker's differ, and it needs `NotAhead` to know that what is read is not older than
  what is stored. A restart makes it start from nothing, as does the property.
* `Remembered`: every epoch of `named` is `Known` to the history or is the tracker's own,
  and is `Known` to the history file, while that is whole, or is the one the state file
  names: so it is there after a restart, or its boundary is still to come. While a state file
  is replaced, all of them are `Known`. It rests on `Saved` and, for the boundary, on a
  tracker with an epoch being `valid`.

`StateFileFollows` and `NothingSkipped` exclude one kind of failure each. Every other one
may happen, so they say more than the run `reliable`, which excludes both kinds: the
order of the two files does not depend on the epoch number, and while a process lives no
gap comes from the disk. Across restarts one does, and `NothingForgotten` excludes both.
Without the epoch number the two `NoGap` properties are false (run `gap`); with a failing
disk `StateFileNotAhead` is, since `SaveHistory` only logs a failed write and the state is
saved all the same.

**`ChainPoll` and `Exporter`** (`ExporterProofs`), for any number of polls, nodes and
requests and any timers, from `PollAssumption` and `ExporterAssumption`:

| Theorem | States | Parts of `IInv` it needs |
|---|---|---|
| `TypeCorrect` | `[]TypeOK` | `PollTypeOK`, `MainTypeOK` |
| `CyclesApart` | `[]OneCollectAtATime` | `LifeInv` |
| `CollectedFirst` | `[]NothingServedBeforeFirstCycle` | `LifeInv` |
| `HighestWithItsTime` | `[]BestAnswer` | `PollInv` |
| `GaugesOfOneBlock` | `[]PairOfOneBlock` | `PollInv`, `PairInv` |
| `PollsDoNotPileUp` | `[]PollsBounded` | all of it, and `Paced` |

`PollInv` says that the height and the time of a poll are those of `highest`, the first of
the highest answers it was given, except inside the critical section, where that answer is
the one whose time is about to be noted. `PairInv` says that, unless polls overlapped or
the block had no time (`mixed`), at most one poll is between its two gauges, and that its
height is the one shown. `LifeInv` says what there is in each
phase: no ticker, loop or server before the first cycle has ended. `Paced` is the argument
about time: a poll that is alive began within the last `Timeout` units, and of the polls
begun in the last `a` units, for every `a` up to `Timeout`, all but one took a tick each,
where ticks are `Interval` apart and the next one is `tick` away. The bound of the
property is the case of `a = Timeout`; a step of time turns what is known of `a` into what
is known of `a + 1`, so every shorter stretch is needed.

**`NodeSweep`** (`NodeSweepProofs`), for any sets of nodes and goroutines, any lists and
any number of sweeps, from `ListAssumption`:

| Theorem | States | Inductive invariant |
|---|---|---|
| `TypeCorrect` | `[]TypeOK` | `TypeInv` |
| `OneSweepAtATime` | `[]OneSweepShown` | `TypeInv /\ GaugeInv` |
| `ShowsTheListed` | `[]ExactlyTheListed` | `TypeInv /\ ListedInv` |
| `GaugeEndsAsMaximum` | `[]GaugeIsMaximum` | `TypeInv /\ ListedInv /\ MaxInv` |
| `SweepKeepsItsPromise` | `KeepsPromise`, the refinement | `TypeInv /\ MaxInv /\ PromiseInv` |

`GaugeInv` follows the resets one gauge at a time, with the sweep number each may show
at that point. `ListedInv` ties every shown gauge to an entry of the list and to how far
its goroutine has come. `MaxInv` says, for a node listed once, what its goroutine holds
between the critical section and the gauge.

In the refinement every step but the last of a sweep leaves the abstract node data alone,
and the return of `collectNodes` is the abstract sweep. `PromiseInv`
says, while goroutines run, that each weight is the one of before or one that was offered,
and no less than every offer gone through so far (`Through`), and that who holds the mutex
has read the weight that is there. When all goroutines are done they have gone through all
offers, so each weight is the greatest: no update was lost.

**`Decoders` and `NetworkGauges`** (`NetworkGaugesProofs`), for any widths, any finite set
of items, any groups and any number of changes and restarts, from `WidthAssumption` (even
widths, 32 bits fit twice into 64, the phases fit into 32), `NamesAssumption` (`Nil`,
`Bare` and `Error` are not what a source writes), `ItemAssumption` (items are not named
like a field) and `GaugeAssumption`:

| Theorem | States | Inductive invariant |
|---|---|---|
| `GaugesShowNumbers` | `[]TypeOK` | `GaugeInv` |
| `NothingInvented` | `[]NeverInvented` | `GaugeInv` |
| `GaugesOfOneAnswer` | `[]OneAnswer` | `GaugeInv` |

`GaugeInv` says of the gauges, and of those the handler has still to set (`todo`), that
each has its start value, 0, or what an answer of this process said, and that once all of
`todo` is set the gauges reflect the last answer. `OneAnswer` alone is silent while
`todo` is not empty. The step that does the work is `Answered`. `FieldHeard` shows for each
way to write a field, each form and each value at the edges that the field is decoded as
the value it says, as missing, or refuses the answer; it rests on the arithmetic of the
widths (`Widths`). The `Publish...` lemmas carry that through each of the fifteen
handlers, with its resets and its tests for positive values.

Each invariant has the same three facts: it holds initially, every step preserves it (one
case per action), and it implies the property.

Every invariant and action property that a passing run checks, and the refinement, is a
theorem. Only model-checked: liveness (`CatchesUp`, `StartTimeLearned`, `SweepEnds`,
`CyclesGoOn`, `SignalEnds`, `FollowsSource`), which is out of the prover's reach, as is
anything with `ENABLED`; and the violations, which are behaviours that TLC finds.

## What is not modelled

* The decoders of the admin API and of the ML nodes, with the second path of the health
  request: whether such a request succeeds is in `NodeSweep`, what its fields become is
  not, since they are shown and nothing depends on them.
* The migration of an old history file, which happens once in the life of a deployment.
* `MissRate`, a function of two counters, and the live end time, an estimate.
* The parsing of times and, with it, the gauge of the local block time
  (`collector.go:111-116`); rounding to `float64`.
* The configuration, the dashboards and the deployment files, which are data. Values of
  `REFRESH_INTERVAL` and `MAX_EPOCH_HISTORY` that make the process panic are excluded by
  the assumptions.

The components in `PROJECT.json` say the same for each part.

## Plan

1. `NodeReports`: the decoders of the node APIs and the fallback of the health request,
   in the manner of `Decoders`.
2. An abstract ledger of epochs (an epoch is collected, then archived, then makes room),
   as a specification that `EpochTracker` implements while the epoch number can be read.
