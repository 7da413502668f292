---------------------------- MODULE SweepPromise ----------------------------
(***************************************************************************)
(* What collectNodes promises the epoch snapshot: a sweep raises the       *)
(* highest weight seen of every listed node and notes an assigned          *)
(* timeslot, all at once; EpochTracker takes the sweep as one such step.   *)
(***************************************************************************)
EXTENDS Integers, FiniteSetsExt

CONSTANTS
    Node,  \* node ids
    Lists, \* the answers of /admin/v1/nodes
    Nil

VARIABLES
    weights, \* EpochNodeState.PocWeights, 0 for a node that is not in the map
    slot     \* EpochNodeState.TimeslotAssigned

Entries(list) == {list[t] : t \in DOMAIN list}

Offered(list, n) ==
    {o.weight : o \in UNION {e.offers : e \in {f \in Entries(list) : f.id = n}}} \ {Nil}

Raised(list) == [n \in Node |-> Max(Offered(list, n) \cup {weights[n]})]

Assigned(list) == \E e \in Entries(list) : \E o \in e.offers : o.slot

Init == weights = [n \in Node |-> 0] /\ slot = 0

Sweep ==
    \E list \in Lists :
        /\ weights' = Raised(list)
        /\ slot' = IF Assigned(list) THEN 1 ELSE slot

\* recordSnapshot starts the node data of the next epoch.
Forget ==
    /\ weights' = [n \in Node |-> 0]
    /\ slot' = 0

Spec == Init /\ [][Sweep \/ Forget]_<<weights, slot>>
=============================================================================
