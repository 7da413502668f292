----------------------------- MODULE NodeSweep -----------------------------
(***************************************************************************)
(* collectNodes and collectOneNode of internal/collector/collector.go: one *)
(* goroutine per entry of the node list, a mutex around the node data of   *)
(* the epoch, and gauges that a scrape may read at any time.               *)
(*                                                                         *)
(* A gauge is the number of the sweep that set it, 0 when it is not there. *)
(* Three stand for the twenty that are reset: status (set at once), gpu    *)
(* (set after a request, whatever its answer) and service (set only when   *)
(* its request succeeds).                                                  *)
(***************************************************************************)
EXTENDS Integers, FiniteSets

CONSTANTS
    Node,      \* node ids
    Task,      \* goroutines, one per entry of a list
    Lists,     \* the answers of /admin/v1/nodes: functions from tasks to entries
    MaxSweeps, \* bound: the sweeps
    Nil

VARIABLES
    pc,          \* where collectNodes is
    list,        \* the node list of the sweep
    sweep,       \* the number of the sweep
    at,          \* where each goroutine is
    todo,        \* the models each goroutine has still to go through
    cur,         \* the model each goroutine is at
    seen,        \* the weight each goroutine read under the lock (curMax)
    mu,          \* the goroutine that holds the mutex, or Nil
    weights,     \* c.epochNode.PocWeights
    slot,        \* c.epochNode.TimeslotAssigned
    tracked,     \* whether c.st.ChainEpoch > 0
    epochWeight, \* gonka_epoch_poc_weight with the tracked epoch's label
    gauge,       \* gauge[g][n]: the sweep that set the gauge g of node n
    before       \* the node data when the sweep began (for the refinement)

main == <<pc, list, sweep, tracked, before>>
routines == <<at, todo, cur, seen, mu>>
data == <<weights, slot, epochWeight>>
vars == <<main, routines, data, gauge>>

Offer == [weight : Nat \cup {Nil}, slot : BOOLEAN]
Entry == [id : Node, offers : SUBSET Offer, port : BOOLEAN]

ASSUME ListAssumption ==
    /\ \A l \in Lists : DOMAIN l \subseteq Task /\ \A t \in DOMAIN l : l[t] \in Entry
    /\ MaxSweeps \in Nat /\ Nil \notin Task /\ Nil \notin Nat

Gauges == {"status", "gpu", "service"}
NoEntries == [t \in {} |-> Nil]
Zeros == [n \in Node |-> 0]

TypeOK ==
    /\ pc \in {"idle", "resetStatus", "resetGPU", "resetService", "wait"}
    /\ list \in Lists \cup {NoEntries}
    /\ sweep \in Nat
    /\ at \in [Task -> {"none", "labels", "models", "locked", "publish", "slot", "gpu",
                        "service", "done"}]
    /\ \A t \in Task : \A o \in todo[t] : o \in Offer
    /\ \A t \in Task : cur[t] \in Offer \cup {Nil}
    /\ seen \in [Task -> Nat]
    /\ mu \in Task \cup {Nil}
    /\ weights \in [Node -> Nat]
    /\ slot \in {0, 1}
    /\ tracked \in BOOLEAN
    /\ epochWeight \in [Node -> Nat]
    /\ gauge \in [Gauges -> [Node -> Nat]]

Init ==
    /\ pc = "idle"
    /\ list = NoEntries
    /\ sweep = 0
    /\ at = [t \in Task |-> "none"]
    /\ todo = [t \in Task |-> {}]
    /\ cur = [t \in Task |-> Nil]
    /\ seen = [t \in Task |-> 0]
    /\ mu = Nil
    /\ weights = Zeros
    /\ slot = 0
    /\ tracked \in BOOLEAN
    /\ epochWeight = Zeros
    /\ gauge = [g \in Gauges |-> Zeros]
    /\ before = [weights |-> Zeros, slot |-> 0]

(***************************************************************************)
(* Between two sweeps collectParticipant may move to another epoch, with a *)
(* boundary (the node data starts anew) or without one, or to the epoch 0  *)
(* that stands for a failed request; from there it may come back to the    *)
(* epoch it was at, whose gauges are still there.                          *)
(***************************************************************************)
ParticipantMovesOn(boundary) ==
    /\ pc = "idle"
    /\ tracked' \in BOOLEAN
    /\ epochWeight' \in {Zeros, epochWeight}
    /\ boundary => tracked' /\ epochWeight' = Zeros
    /\ weights' = IF boundary THEN Zeros ELSE weights
    /\ slot' = IF boundary THEN 0 ELSE slot
    /\ list' = NoEntries
    /\ UNCHANGED <<pc, sweep, before, routines, gauge>>

(***************************************************************************)
(* collectNodes.  When the list cannot be fetched, nothing changes.        *)
(***************************************************************************)
FetchNodes(l) ==
    /\ pc = "idle"
    /\ sweep < MaxSweeps
    /\ sweep' = sweep + 1
    /\ list' = l
    /\ before' = [weights |-> weights, slot |-> slot]
    /\ pc' = "resetStatus"
    /\ UNCHANGED <<tracked, routines, data, gauge>>

Reset(from, g, to) ==
    /\ pc = from
    /\ gauge' = [gauge EXCEPT ![g] = Zeros]
    /\ pc' = to
    /\ UNCHANGED <<list, sweep, tracked, before, data>>

ResetStatus == Reset("resetStatus", "status", "resetGPU") /\ UNCHANGED routines

\* Faulty variant: a gauge is missing in the list of those to reset.
ResetGPUForgotten ==
    /\ pc = "resetGPU"
    /\ pc' = "resetService"
    /\ UNCHANGED <<list, sweep, tracked, before, routines, data, gauge>>

ResetGPU == Reset("resetGPU", "gpu", "resetService") /\ UNCHANGED routines

\* The last reset, after which the goroutines are started.
ResetService ==
    /\ Reset("resetService", "service", "wait")
    /\ at' = [t \in Task |-> IF t \in DOMAIN list THEN "labels" ELSE "none"]
    /\ UNCHANGED <<todo, cur, seen, mu>>

\* Faulty variant: collectNodes does not wait for the goroutines.
WaitForNobody ==
    /\ pc = "wait"
    /\ pc' = "idle"
    /\ UNCHANGED <<list, sweep, tracked, before, routines, data, gauge>>

WaitForAll ==
    /\ pc = "wait"
    /\ \A t \in DOMAIN list : at[t] = "done"
    /\ pc' = "idle"
    /\ UNCHANGED <<list, sweep, tracked, before, routines, data, gauge>>

(***************************************************************************)
(* collectOneNode, for the entry of goroutine t.                           *)
(***************************************************************************)
Shown(g, t) == gauge' = [gauge EXCEPT ![g][list[t].id] = sweep]

SetLabels(t) ==
    /\ at[t] = "labels"
    /\ Shown("status", t)
    /\ todo' = [todo EXCEPT ![t] = list[t].offers]
    /\ at' = [at EXCEPT ![t] = "models"]
    /\ UNCHANGED <<main, cur, seen, mu, data>>

TakeWeight(t, o) ==
    /\ at[t] = "models"
    /\ o \in todo[t]
    /\ cur' = [cur EXCEPT ![t] = o]
    /\ IF o.weight = Nil
       THEN at' = [at EXCEPT ![t] = "slot"] /\ UNCHANGED seen
       ELSE /\ at' = [at EXCEPT ![t] = "locked"]
            /\ seen' = [seen EXCEPT ![t] = weights[list[t].id]]
    /\ UNCHANGED <<main, todo, data, gauge>>

\* Faulty variant: the node data is read without the mutex.
LockForgotten(t) == \E o \in todo[t] : TakeWeight(t, o) /\ UNCHANGED mu

\* The next model, in the order of Go's map: any.  Its weight needs the mutex.
Lock(t) ==
    \E o \in todo[t] :
        /\ TakeWeight(t, o)
        /\ IF o.weight = Nil THEN UNCHANGED mu ELSE mu = Nil /\ mu' = t

Raise(t, owner) ==
    LET n == list[t].id
        max == IF cur[t].weight > seen[t] THEN cur[t].weight ELSE seen[t] IN
    /\ at[t] = "locked"
    /\ weights' = IF cur[t].weight > seen[t] THEN [weights EXCEPT ![n] = max] ELSE weights
    /\ seen' = [seen EXCEPT ![t] = max]
    /\ mu' = owner
    /\ at' = [at EXCEPT ![t] = "publish"]
    /\ UNCHANGED <<main, todo, cur, slot, epochWeight, gauge>>

\* Faulty variant: the mutex is not given back.
RaiseKeepsLock(t) == Raise(t, mu)

RaiseAndUnlock(t) == Raise(t, Nil)

PublishAs(t, w) ==
    /\ at[t] = "publish"
    /\ epochWeight' = IF tracked THEN [epochWeight EXCEPT ![list[t].id] = w] ELSE epochWeight
    /\ at' = [at EXCEPT ![t] = "slot"]
    /\ UNCHANGED <<main, todo, cur, seen, mu, weights, slot, gauge>>

\* Faulty variant: the gauge shows the weight of the model instead of the highest seen.
PublishLast(t) == PublishAs(t, cur[t].weight)

Publish(t) == PublishAs(t, seen[t])

NoteAs(t, assigned) ==
    /\ at[t] = "slot"
    /\ IF cur[t].slot THEN mu = Nil /\ slot' = assigned ELSE UNCHANGED slot
    /\ todo' = [todo EXCEPT ![t] = @ \ {cur[t]}]
    /\ at' = [at EXCEPT ![t] = "models"]
    /\ UNCHANGED <<main, cur, seen, mu, weights, epochWeight, gauge>>

\* Faulty variant: the timeslots are counted.
CountSlot(t) == NoteAs(t, slot + 1)

\* Takes the mutex to note the timeslot, and is done with the model.
NoteSlot(t) == NoteAs(t, 1)

ModelsDone(t) ==
    /\ at[t] = "models"
    /\ todo[t] = {}
    /\ at' = [at EXCEPT ![t] = IF list[t].port THEN "gpu" ELSE "done"]
    /\ UNCHANGED <<main, todo, cur, seen, mu, data, gauge>>

FetchGPU(t) ==
    /\ at[t] = "gpu"
    /\ Shown("gpu", t)
    /\ at' = [at EXCEPT ![t] = "service"]
    /\ UNCHANGED <<main, todo, cur, seen, mu, data>>

FetchService(t) ==
    /\ at[t] = "service"
    /\ Shown("service", t) \/ UNCHANGED gauge
    /\ at' = [at EXCEPT ![t] = "done"]
    /\ UNCHANGED <<main, todo, cur, seen, mu, data>>

Routine(t) ==
    \/ SetLabels(t)
    \/ Lock(t)
    \/ RaiseAndUnlock(t)
    \/ Publish(t)
    \/ NoteSlot(t)
    \/ ModelsDone(t)
    \/ FetchGPU(t)
    \/ FetchService(t)

Next ==
    \/ \E boundary \in BOOLEAN : ParticipantMovesOn(boundary)
    \/ \E l \in Lists : FetchNodes(l)
    \/ ResetStatus
    \/ ResetGPU
    \/ ResetService
    \/ WaitForAll
    \/ \E t \in Task : Routine(t)

Spec == Init /\ [][Next]_vars

\* Every goroutine goes on: its requests end or time out, and the mutex is never held
\* across one.
Fairness ==
    /\ WF_vars(ResetStatus \/ ResetGPU \/ ResetService)
    /\ WF_vars(WaitForAll)
    /\ \A t \in Task : WF_vars(Routine(t))

FairSpec == Spec /\ Fairness

(***************************************************************************)
(* Properties.                                                             *)
(***************************************************************************)
\* At any moment, when a scrape may read them, the GPU and the service figures of a node
\* are of the same sweep as its status, wherever both are shown (the resets and goroutines
\* of collectNodes, collector.go:537-568; of two different nodes nothing is said).
OneSweepShown ==
    \A n \in Node : \A g \in {"gpu", "service"} :
        gauge[g][n] # 0 /\ gauge["status"][n] # 0 => gauge[g][n] = gauge["status"][n]

\* After a sweep a node that is no longer listed is shown by no gauge, and every listed
\* one is, also when the list changed between two sweeps (collector.go:537-556).
ExactlyTheListed ==
    pc = "idle" /\ DOMAIN list # {} =>
        LET listed == {list[t].id : t \in DOMAIN list} IN
        /\ {n \in Node : gauge["status"][n] = sweep} = listed
        /\ \A g \in Gauges : {n \in Node : gauge[g][n] # 0} \subseteq listed

\* After a sweep of a tracked epoch the gauge of a node's weight shows the maximum that
\* the snapshot would archive, when no two entries have the same id.
GaugeIsMaximum ==
    pc = "idle" /\ tracked =>
        \A t \in DOMAIN list :
            /\ \A u \in DOMAIN list : list[u].id = list[t].id => u = t
            /\ \E o \in list[t].offers : o.weight # Nil
            => epochWeight[list[t].id] = weights[list[t].id]

\* However the goroutines interleave, a sweep does to the node data of the epoch what it
\* promises: no weight is lost ("max weight seen", state.go:39; "mu protects writes to
\* c.epochNode", collector.go:571).
Promise ==
    INSTANCE SweepPromise WITH
        weights <- IF pc = "idle" THEN weights ELSE before.weights,
        slot <- IF pc = "idle" THEN slot ELSE before.slot

KeepsPromise == Promise!Spec

\* A sweep that began ends: nobody waits for the mutex or for the others for ever.
SweepEnds == pc # "idle" ~> pc = "idle"
=============================================================================
