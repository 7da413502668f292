----------------------------- MODULE EpochFiles -----------------------------
(***************************************************************************)
(* The data of internal/state/state.go and the pure part of its            *)
(* operations: what a state or a history file gives back when it is        *)
(* loaded, and what SaveHistory prunes before it writes.                   *)
(*                                                                         *)
(* Data abstraction.  Block heights, block times and reward estimates are  *)
(* named by the epoch they belong to: start time 3 is the block time of    *)
(* the block that starts epoch 3, and 0 is Go's zero value, "never set".   *)
(* The seven counters of EpochMaxValues are all treated alike by the code  *)
(* and are one counter here.  A map with absent keys is a total function   *)
(* whose range includes Nil.                                               *)
(***************************************************************************)
EXTENDS Integers, FiniteSets

CONSTANTS
    Participant, \* participant addresses
    MaxEpoch,    \* bound: the last epoch of the chain
    MaxHistory,  \* MAX_EPOCH_HISTORY
    RunningMaxima, \* the epochs whose running maxima are kept: 5 in the code
    Nil          \* a nil pointer, an absent key, an unreadable file

Epoch == 1 .. MaxEpoch
Start == 0 .. MaxEpoch

EpochState ==
    [chainEpoch : Start, startTime : Start, baseline : Nat, pocStart : Start,
     valid : BOOLEAN]

EpochSnapshot ==
    [count : Nat, samples : SUBSET Epoch, start : Start, end : Start,
     earned : Int \cup {Nil}, estimated : Epoch \cup {Nil}, perf : BOOLEAN]

History == [Participant -> [Epoch -> EpochSnapshot \cup {Nil}]]

ASSUME BoundsAssumption ==
    MaxEpoch \in Nat /\ MaxHistory \in Nat /\ RunningMaxima \in Nat
ASSUME NilAssumption == Nil \notin Int \cup EpochState \cup EpochSnapshot \cup History

EmptyState ==
    [chainEpoch |-> 0, startTime |-> 0, baseline |-> 0, pocStart |-> 0,
     valid |-> FALSE]

EmptyHistory == [p \in Participant |-> [e \in Epoch |-> Nil]]

Archived(h, p) == {e \in Epoch : h[p][e] # Nil}

(***************************************************************************)
(* Loading.  A file is Nil when it does not exist or holds no parsable     *)
(* JSON, which is also what os.WriteFile leaves behind when it dies        *)
(* between truncating the file and writing it.                             *)
(***************************************************************************)
\* Faulty variant: Valid, which is not part of the file, is not set.
LoadStateNotValid(file) ==
    IF file = Nil THEN EmptyState ELSE [file EXCEPT !.valid = FALSE]

LoadState(file) ==
    IF file = Nil THEN EmptyState ELSE [file EXCEPT !.valid = TRUE]

LoadHistory(file) == IF file = Nil THEN EmptyHistory ELSE file

(***************************************************************************)
(* Saving.  SaveHistory deletes the oldest epochs of every participant     *)
(* from the map it is given, so that at most MaxHistory stay.              *)
(***************************************************************************)
NewerThan(h, p, e) == {x \in Archived(h, p) : x > e}

\* Faulty variant: one entry too many survives.
PrunedOffByOne(h) ==
    [p \in Participant |-> [e \in Epoch |->
        IF Cardinality(NewerThan(h, p, e)) <= MaxHistory THEN h[p][e] ELSE Nil]]

Pruned(h) ==
    [p \in Participant |-> [e \in Epoch |->
        IF Cardinality(NewerThan(h, p, e)) < MaxHistory THEN h[p][e] ELSE Nil]]

(***************************************************************************)
(* pruneEpochMax keeps the RunningMaxima highest epochs of the running     *)
(* maxima.                                                                 *)
(***************************************************************************)
Recent(em) ==
    [e \in Epoch |->
        IF Cardinality({x \in Epoch : em[x] # Nil /\ x > e}) < RunningMaxima
        THEN em[e] ELSE Nil]
=============================================================================
