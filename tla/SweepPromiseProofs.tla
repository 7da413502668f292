------------------------- MODULE SweepPromiseProofs -------------------------
(***************************************************************************)
(* Why NodeSweep keeps its promise: for every set of nodes, every number   *)
(* of goroutines and all lists, what it does to the node data of the epoch *)
(* is a behaviour of SweepPromise.                                         *)
(***************************************************************************)
EXTENDS NodeSweepProofs

(***************************************************************************)
(* While the gauges are reset the node data is as it was before.  While    *)
(* the goroutines run, every weight is the one of before or one that was   *)
(* offered, no less than the one of before and than every offer gone       *)
(* through so far; who holds the mutex has read the weight that is there.  *)
(***************************************************************************)
Through(t) == IF at[t] = "labels" THEN {} ELSE list[t].offers \ todo[t]

Counted(t) == Through(t) \cup (IF at[t] \in {"publish", "slot"} THEN {cur[t]} ELSE {})

Kept(t) ==
    /\ at[t] # "labels" => todo[t] \subseteq list[t].offers
    /\ at[t] \in {"locked", "publish", "slot"} => cur[t] \in list[t].offers
    /\ at[t] = "locked" => mu = t /\ seen[t] = weights[list[t].id]
    /\ \A o \in Counted(t) : o.weight # Nil => o.weight <= weights[list[t].id]
    /\ \A o \in Through(t) : o.slot => slot = 1

Grown ==
    /\ \A n \in Node :
           /\ before.weights[n] <= weights[n]
           /\ weights[n] \in {before.weights[n]} \cup Promise!Offered(list, n)
    /\ slot = before.slot \/ (slot = 1 /\ Promise!Assigned(list))

PromiseInv ==
    /\ before \in [weights : [Node -> Nat], slot : {0, 1}]
    /\ pc # "idle" => list \in Lists
    /\ pc \in Resetting => weights = before.weights /\ slot = before.slot
    /\ pc = "wait" => Grown /\ \A t \in DOMAIN list : Kept(t)

\* What a list offers a node, entry by entry.
LEMMA OfferedBy ==
  ASSUME NEW l, NEW n
  PROVE  /\ \A w : w \in Promise!Offered(l, n) <=>
                \E t \in DOMAIN l : l[t].id = n /\ \E o \in l[t].offers : o.weight = w /\ w # Nil
         /\ Promise!Assigned(l) <=> \E t \in DOMAIN l : \E o \in l[t].offers : o.slot
<1>1. \A w : w \in Promise!Offered(l, n) <=>
          \E t \in DOMAIN l : l[t].id = n /\ \E o \in l[t].offers : o.weight = w /\ w # Nil
  BY DEF Promise!Offered, Promise!Entries
<1>2. Promise!Assigned(l) <=> \E t \in DOMAIN l : \E o \in l[t].offers : o.slot
  BY DEF Promise!Assigned, Promise!Entries
<1> QED
  BY <1>1, <1>2

LEMMA GreatestIsMax ==
  ASSUME NEW S, S \subseteq Nat, NEW m \in S, \A x \in S : x <= m
  PROVE  Promise!Max(S) = m
<1>1. \A x \in S : m >= x
  OBVIOUS
<1>2. \A y \in S : (\A x \in S : y >= x) => y = m
  <2> SUFFICES ASSUME NEW y \in S, y >= m
               PROVE  y = m
    OBVIOUS
  <2> QED
    OBVIOUS
<1> QED
  BY <1>1, <1>2 DEF Promise!Max

(***************************************************************************)
(* One step of a goroutine.                                                *)
(***************************************************************************)
\* A step raises the weight of the goroutine's node to one that is offered, or none.
LEMMA RoutineRaises ==
  ASSUME TypeInv, PromiseInv, NEW t \in Task, Routine(t)
  PROVE  /\ \A n \in Node : weights[n] <= weights'[n]
         /\ \A n \in Node : weights'[n] \in {weights[n]} \cup Promise!Offered(list, n)
         /\ slot' = slot \/ (slot' = 1 /\ Promise!Assigned(list))
<1>1. /\ pc = "wait" /\ t \in DOMAIN list /\ list[t].id \in Node /\ at[t] \in AtWork
      /\ list[t].offers \subseteq Offer
  BY RoutineFrame, EntryOf
<1>2. Kept(t)
  BY <1>1 DEF PromiseInv
<1>3. \A n \in Node : weights[n] \in Nat
  BY DEF TypeInv, SweepTypes
<1>4. CASE RaiseAndUnlock(t)
  <2> DEFINE i == list[t].id
             w == cur[t].weight
  <2>1. at[t] = "locked" /\ cur[t] \in list[t].offers /\ seen[t] = weights[i]
    BY <1>2, <1>4 DEF RaiseAndUnlock, Raise, Kept
  <2>2. w \in Nat /\ w # Nil
    BY <2>1 DEF TypeInv, Entries, Offer
  <2>3. w \in Promise!Offered(list, i)
    BY <1>1, <2>1, <2>2, OfferedBy
  <2>4. weights' = IF w > weights[i] THEN [weights EXCEPT ![i] = w] ELSE weights
    BY <1>4, <2>1 DEF RaiseAndUnlock, Raise
  <2>5. slot' = slot
    BY <1>4 DEF RaiseAndUnlock, Raise
  <2> HIDE DEF i, w
  <2>6. weights \in [Node -> Nat]
    BY DEF TypeInv, SweepTypes
  <2> QED
    BY <1>3, <2>2, <2>3, <2>4, <2>5, <2>6
<1>5. CASE NoteSlot(t)
  <2>1. weights' = weights
    BY <1>5 DEF NoteSlot, NoteAs
  <2>2. slot' = slot \/ (slot' = 1 /\ cur[t].slot)
    BY <1>5 DEF NoteSlot, NoteAs
  <2>3. cur[t] \in list[t].offers
    BY <1>2, <1>5 DEF NoteSlot, NoteAs, Kept
  <2> QED
    BY <1>1, <1>3, <2>1, <2>2, <2>3, OfferedBy
<1>6. CASE UNCHANGED <<weights, slot>>
  BY <1>3, <1>6
<1> QED
  BY <1>4, <1>5, <1>6
     DEF Routine, SetLabels, Lock, TakeWeight, Publish, PublishAs, ModelsDone, FetchGPU,
         FetchService, data

\* Who holds the mutex keeps the others from raising a weight.
LEMMA OthersKept ==
  ASSUME TypeInv, PromiseInv, NEW t \in Task, Routine(t), NEW u \in DOMAIN list, u # t
  PROVE  Kept(u)'
<1>1. pc = "wait" /\ t \in DOMAIN list /\ UNCHANGED <<pc, list>>
  BY RoutineFrame, EntryOf DEF main
<1>2. u \in Task /\ list[u].id \in Node /\ list[u].offers \subseteq Offer
  BY ListType DEF TypeInv, Entry
<1>3. Kept(u) /\ Kept(t)
  BY <1>1 DEF PromiseInv
<1>4. at'[u] = at[u] /\ todo'[u] = todo[u] /\ cur'[u] = cur[u] /\ seen'[u] = seen[u]
  BY <1>2, RoutineFrame
<1>5. Counted(u)' = Counted(u) /\ Through(u)' = Through(u)
  BY <1>1, <1>4 DEF Counted, Through
<1>6. ASSUME NEW o \in Counted(u), o.weight # Nil
      PROVE  o.weight <= weights'[list[u].id]
  <2>1. o \in Offer
    BY <1>2, <1>3 DEF Counted, Through, Kept
  <2>2. o.weight \in Nat
    BY <1>6, <2>1 DEF Offer
  <2>3. o.weight <= weights[list[u].id] /\ weights[list[u].id] <= weights'[list[u].id]
    BY <1>2, <1>3, <1>6, RoutineRaises DEF Kept
  <2>4. weights[list[u].id] \in Nat /\ weights'[list[u].id] \in Nat
    BY <1>2, NextTypes DEF TypeInv, SweepTypes, Next
  <2> QED
    BY <2>2, <2>3, <2>4
<1>7. \A o \in Through(u) : o.slot => slot' = 1
  BY <1>3, RoutineRaises DEF Kept
<1>8. ASSUME at[u] = "locked"
      PROVE  mu' = u /\ weights' = weights
  <2>1. mu = u /\ mu # Nil /\ at[t] # "locked"
    BY <1>2, <1>3, <1>8, ListAssumption DEF Kept
  <2> QED
    BY <2>1 DEF Routine, SetLabels, Lock, TakeWeight, RaiseAndUnlock, Raise, Publish,
                PublishAs, NoteSlot, NoteAs, ModelsDone, FetchGPU, FetchService, data
<1>9. at'[u] # "labels" => todo'[u] \subseteq list[u].offers
  BY <1>3, <1>4 DEF Kept
<1>10. at'[u] \in {"locked", "publish", "slot"} => cur'[u] \in list[u].offers
  BY <1>3, <1>4 DEF Kept
<1>11. at'[u] = "locked" => mu' = u /\ seen'[u] = weights'[list[u].id]
  BY <1>3, <1>4, <1>8 DEF Kept
<1> QED
  BY <1>1, <1>5, <1>6, <1>7, <1>9, <1>10, <1>11 DEF Kept

\* The goroutine that goes on, action by action.
LEMMA OwnKept ==
  ASSUME TypeInv, PromiseInv, NEW t \in Task, Routine(t)
  PROVE  Kept(t)'
<1>1. /\ pc = "wait" /\ t \in DOMAIN list /\ list[t].id \in Node
      /\ list[t].offers \subseteq Offer /\ UNCHANGED <<pc, list>>
  BY RoutineFrame, EntryOf DEF main
<1>2. Kept(t)
  BY <1>1 DEF PromiseInv
<1>3. CASE SetLabels(t)
  <2>1. at'[t] = "models" /\ todo'[t] = list[t].offers
    BY <1>3 DEF SetLabels, TypeInv, SweepTypes
  <2>2. Through(t)' = {} /\ Counted(t)' = {}
    BY <1>1, <2>1 DEF Through, Counted
  <2> QED
    BY <1>1, <2>1, <2>2 DEF Kept
<1>4. CASE Lock(t)
  <2>1. PICK o \in todo[t] : /\ TakeWeight(t, o)
                             /\ IF o.weight = Nil THEN UNCHANGED mu ELSE mu = Nil /\ mu' = t
    BY <1>4 DEF Lock
  <2>2. /\ at[t] = "models" /\ UNCHANGED <<todo, weights, slot>> /\ cur'[t] = o
        /\ o \in list[t].offers /\ todo[t] \subseteq list[t].offers
    BY <1>2, <2>1 DEF TakeWeight, data, Kept, TypeInv, SweepTypes
  <2>3. CASE o.weight = Nil
    <3>1. at'[t] = "slot"
      BY <2>1, <2>3 DEF TakeWeight, TypeInv, SweepTypes
    <3>2. Through(t)' = Through(t) /\ Counted(t)' = Counted(t) \cup {o}
      BY <1>1, <2>2, <3>1 DEF Through, Counted
    <3> QED
      BY <1>1, <1>2, <2>2, <2>3, <3>1, <3>2 DEF Kept
  <2>4. CASE o.weight # Nil
    <3>1. at'[t] = "locked" /\ seen'[t] = weights[list[t].id] /\ mu' = t
      BY <2>1, <2>4 DEF TakeWeight, TypeInv, SweepTypes
    <3>2. Through(t)' = Through(t) /\ Counted(t)' = Counted(t)
      BY <1>1, <2>2, <3>1 DEF Through, Counted
    <3> QED
      BY <1>1, <1>2, <2>2, <3>1, <3>2 DEF Kept
  <2> QED
    BY <2>3, <2>4
<1>5. CASE RaiseAndUnlock(t)
  <2> DEFINE i == list[t].id
             w == cur[t].weight
  <2>1. /\ at[t] = "locked" /\ at'[t] = "publish" /\ UNCHANGED <<todo, cur, slot>>
        /\ cur[t] \in list[t].offers /\ seen[t] = weights[i]
    BY <1>2, <1>5 DEF RaiseAndUnlock, Raise, Kept, TypeInv, SweepTypes
  <2>2. Through(t)' = Through(t) /\ Counted(t)' = Counted(t) \cup {cur[t]}
    BY <1>1, <2>1 DEF Through, Counted
  <2>3. w \in Nat /\ weights[i] \in Nat
    BY <1>1, <2>1 DEF TypeInv, SweepTypes, Entries, Offer
  <2>4. weights'[i] = IF w > weights[i] THEN w ELSE weights[i]
    BY <1>1, <1>5, <2>1 DEF RaiseAndUnlock, Raise, TypeInv, SweepTypes
  <2>5. w <= weights'[i] /\ weights[i] <= weights'[i] /\ weights'[i] \in Nat
    BY <2>3, <2>4
  <2>6. ASSUME NEW o \in Counted(t), o.weight # Nil
        PROVE  o.weight <= weights'[i]
    <3>1. o \in Offer
      BY <1>1, <2>1 DEF Counted, Through
    <3>2. o.weight \in Nat /\ o.weight <= weights[i]
      BY <1>2, <2>6, <3>1 DEF Kept, Offer
    <3> QED
      BY <2>3, <2>5, <3>2
  <2> QED
    BY <1>1, <1>2, <2>1, <2>2, <2>5, <2>6 DEF Kept
<1>6. CASE Publish(t)
  <2>1. /\ at[t] = "publish" /\ at'[t] = "slot" /\ UNCHANGED <<todo, cur, weights, slot>>
    BY <1>6 DEF Publish, PublishAs, TypeInv, SweepTypes
  <2>2. Through(t)' = Through(t) /\ Counted(t)' = Counted(t)
    BY <1>1, <2>1 DEF Through, Counted
  <2> QED
    BY <1>1, <1>2, <2>1, <2>2 DEF Kept
<1>7. CASE NoteSlot(t)
  <2>1. /\ at[t] = "slot" /\ at'[t] = "models" /\ todo'[t] = todo[t] \ {cur[t]}
        /\ UNCHANGED <<cur, weights>> /\ cur[t] \in list[t].offers
    BY <1>2, <1>7 DEF NoteSlot, NoteAs, Kept, TypeInv, SweepTypes
  <2>2. Through(t)' \subseteq Through(t) \cup {cur[t]} /\ Counted(t)' \subseteq Counted(t)
    BY <1>1, <2>1 DEF Through, Counted
  <2>3. /\ cur[t].slot => slot' = 1
        /\ slot = 1 => slot' = 1
    BY <1>7 DEF NoteSlot, NoteAs
  <2> QED
    BY <1>1, <1>2, <2>1, <2>2, <2>3 DEF Kept
<1>8. CASE ModelsDone(t) \/ FetchGPU(t) \/ FetchService(t)
  <2>1. /\ at[t] \in {"models", "gpu", "service"} /\ at'[t] \in {"gpu", "service", "done"}
        /\ UNCHANGED <<todo, cur, weights, slot>>
    BY <1>8 DEF ModelsDone, FetchGPU, FetchService, data, TypeInv, SweepTypes
  <2>2. Through(t)' = Through(t) /\ Counted(t)' = Counted(t)
    BY <1>1, <2>1 DEF Through, Counted
  <2> QED
    BY <1>1, <1>2, <2>1, <2>2 DEF Kept
<1> QED
  BY <1>3, <1>4, <1>5, <1>6, <1>7, <1>8 DEF Routine

LEMMA RoutinePromise ==
  ASSUME TypeInv, PromiseInv, NEW t \in Task, Routine(t)
  PROVE  PromiseInv'
<1>1. pc = "wait" /\ UNCHANGED <<pc, list, before>>
  BY RoutineFrame, EntryOf DEF main
<1>2. Grown
  BY <1>1 DEF PromiseInv
<1>3. Grown'
  <2> SUFFICES ASSUME NEW n \in Node
               PROVE  /\ before.weights[n] <= weights'[n]
                      /\ weights'[n] \in {before.weights[n]} \cup Promise!Offered(list, n)
    BY <1>1, <1>2, RoutineRaises DEF Grown
  <2>1. before.weights[n] \in Nat /\ weights[n] \in Nat /\ weights'[n] \in Nat
    BY NextTypes DEF PromiseInv, TypeInv, SweepTypes, Next
  <2>2. before.weights[n] <= weights[n] /\ weights[n] <= weights'[n]
    BY <1>2, RoutineRaises DEF Grown
  <2>3. weights'[n] \in {before.weights[n]} \cup Promise!Offered(list, n)
    BY <1>2, RoutineRaises DEF Grown
  <2> QED
    BY <2>1, <2>2, <2>3
<1>4. \A u \in DOMAIN list : Kept(u)'
  BY OwnKept, OthersKept
<1> QED
  BY <1>1, <1>3, <1>4 DEF PromiseInv, Resetting

(***************************************************************************)
(* The other steps.                                                        *)
(***************************************************************************)
LEMMA InitPromise == Init => PromiseInv
  BY ZerosType DEF Init, PromiseInv, Resetting

LEMMA NextPromise == TypeInv /\ PromiseInv /\ [Next]_vars => PromiseInv'
<1> SUFFICES ASSUME TypeInv, PromiseInv, [Next]_vars
             PROVE  PromiseInv'
  OBVIOUS
<1>1. CASE \E boundary \in BOOLEAN : ParticipantMovesOn(boundary)
  BY <1>1 DEF ParticipantMovesOn, PromiseInv, Resetting
<1>2. CASE \E l \in Lists : FetchNodes(l)
  <2>1. PICK l \in Lists : FetchNodes(l)
    BY <1>2
  <2>2. /\ pc' = "resetStatus" /\ list' = l /\ UNCHANGED <<weights, slot>>
        /\ before' = [weights |-> weights, slot |-> slot]
    BY <2>1 DEF FetchNodes, data
  <2> QED
    BY <2>2 DEF PromiseInv, TypeInv, SweepTypes
<1>3. CASE ResetStatus \/ ResetGPU
  BY <1>3 DEF ResetStatus, ResetGPU, Reset, data, PromiseInv, Resetting
<1>4. CASE ResetService
  <2>1. \A t \in DOMAIN list : t \in Task
    BY ListType DEF TypeInv
  <2>2. /\ pc = "resetService" /\ pc' = "wait" /\ UNCHANGED <<list, before, weights, slot>>
        /\ \A t \in DOMAIN list : at'[t] = "labels"
    BY <1>4, <2>1 DEF ResetService, Reset, data
  <2>3. weights = before.weights /\ slot = before.slot /\ list \in Lists
    BY <2>2 DEF PromiseInv, Resetting
  <2>4. Grown'
    BY <2>2, <2>3 DEF Grown, TypeInv, SweepTypes
  <2>5. \A t \in DOMAIN list : Kept(t)'
    BY <2>2 DEF Kept, Counted, Through
  <2> QED
    BY <2>2, <2>3, <2>4, <2>5 DEF PromiseInv, Resetting
<1>5. CASE WaitForAll
  BY <1>5 DEF WaitForAll, PromiseInv, Resetting
<1>6. CASE \E t \in Task : Routine(t)
  BY <1>6, RoutinePromise
<1>7. CASE UNCHANGED vars
  BY <1>7 DEF vars, main, routines, data, PromiseInv, Grown, Kept, Counted, Through
<1> QED
  BY <1>1, <1>2, <1>3, <1>4, <1>5, <1>6, <1>7 DEF Next

(***************************************************************************)
(* The refinement.                                                         *)
(***************************************************************************)
\* When the last goroutine is done, what it leaves is the promised sweep.
LEMMA EndOfSweep == TypeInv /\ MaxInv /\ PromiseInv /\ WaitForAll => Promise!Sweep
<1> SUFFICES ASSUME TypeInv, MaxInv, PromiseInv, WaitForAll
             PROVE  Promise!Sweep
  OBVIOUS
<1>1. /\ pc = "wait" /\ pc' = "idle" /\ UNCHANGED <<weights, slot>> /\ list \in Lists
      /\ \A t \in DOMAIN list : at[t] = "done"
  BY DEF WaitForAll, data, PromiseInv
<1>2. Grown /\ \A t \in DOMAIN list : Kept(t) /\ MaxOf(t)
  BY <1>1 DEF PromiseInv, MaxInv
<1>3. \A t \in DOMAIN list : Through(t) = list[t].offers
  BY <1>1, <1>2 DEF Through, MaxOf
<1>4. ASSUME NEW n \in Node
      PROVE  weights[n] = Promise!Max(Promise!Offered(list, n) \cup {before.weights[n]})
  <2> DEFINE S == Promise!Offered(list, n) \cup {before.weights[n]}
  <2>1. before.weights[n] \in Nat /\ before.weights[n] <= weights[n] /\ weights[n] \in S
    BY <1>2 DEF PromiseInv, Grown
  <2>2. ASSUME NEW w \in Promise!Offered(list, n)
        PROVE  w \in Nat /\ w <= weights[n]
    <3>1. PICK t \in DOMAIN list : list[t].id = n
                                   /\ \E o \in list[t].offers : o.weight = w /\ w # Nil
      BY OfferedBy
    <3>2. PICK o \in list[t].offers : o.weight = w /\ w # Nil
      BY <3>1
    <3>3. o \in Offer
      BY <3>2, ListType DEF TypeInv, Entry
    <3>4. o.weight <= weights[n]
      BY <1>2, <1>3, <3>1, <3>2 DEF Kept, Counted
    <3> QED
      BY <3>2, <3>3, <3>4 DEF Offer
  <2>3. S \subseteq Nat /\ \A x \in S : x <= weights[n]
    BY <2>1, <2>2
  <2> HIDE DEF S
  <2>4. Promise!Max(S) = weights[n]
    BY <2>1, <2>3, GreatestIsMax
  <2> QED
    BY <2>4 DEF S
<1>5. weights = [n \in Node |-> Promise!Max(Promise!Offered(list, n) \cup {before.weights[n]})]
  BY <1>4 DEF TypeInv, SweepTypes
<1>6. slot = IF Promise!Assigned(list) THEN 1 ELSE before.slot
  <2>1. CASE Promise!Assigned(list)
    <3>1. PICK t \in DOMAIN list : \E o \in list[t].offers : o.slot
      BY <2>1, OfferedBy
    <3> QED
      BY <1>2, <1>3, <2>1, <3>1 DEF Kept
  <2>2. CASE ~ Promise!Assigned(list)
    BY <1>2, <2>2 DEF Grown
  <2> QED
    BY <2>1, <2>2
<1> QED
  BY <1>1, <1>5, <1>6 DEF Promise!Sweep, Promise!Raised

\* However the goroutines interleave, a sweep does to the node data of the epoch what it
\* promises, all at once, and otherwise only an epoch boundary touches it
\* (collector.go:571-613, state.go:39).
THEOREM SweepKeepsItsPromise == Spec => KeepsPromise
<1>1. Init => Promise!Init
  BY DEF Init, Promise!Init, Zeros
<1>2. TypeInv /\ MaxInv /\ PromiseInv /\ [Next]_vars
      => [Promise!Sweep \/ Promise!Forget]_<<(IF pc = "idle" THEN weights ELSE before.weights),
                                            (IF pc = "idle" THEN slot ELSE before.slot)>>
  <2> SUFFICES ASSUME TypeInv, MaxInv, PromiseInv, [Next]_vars
               PROVE  \/ Promise!Sweep
                      \/ Promise!Forget
                      \/ UNCHANGED <<(IF pc = "idle" THEN weights ELSE before.weights),
                                     (IF pc = "idle" THEN slot ELSE before.slot)>>
    OBVIOUS
  <2>1. CASE \E boundary \in BOOLEAN : ParticipantMovesOn(boundary)
    BY <2>1 DEF ParticipantMovesOn, Promise!Forget, Zeros
  <2>2. CASE \E l \in Lists : FetchNodes(l)
    BY <2>2 DEF FetchNodes, data
  <2>3. CASE ResetStatus \/ ResetGPU \/ ResetService
    BY <2>3 DEF ResetStatus, ResetGPU, ResetService, Reset
  <2>4. CASE WaitForAll
    BY <2>4, EndOfSweep
  <2>5. CASE \E t \in Task : Routine(t)
    <3>1. pc = "wait" /\ UNCHANGED <<pc, before>>
      BY <2>5, RoutineFrame, EntryOf DEF main
    <3> QED
      BY <3>1
  <2>6. CASE UNCHANGED vars
    BY <2>6 DEF vars, main, data
  <2> QED
    BY <2>1, <2>2, <2>3, <2>4, <2>5, <2>6 DEF Next
<1>3. Spec => []PromiseInv
  BY InitPromise, NextPromise, AlwaysTypes, PTL DEF Spec
<1> QED
  BY <1>1, <1>2, <1>3, AlwaysSweepInv, PTL DEF Spec, KeepsPromise, Promise!Spec
=============================================================================
