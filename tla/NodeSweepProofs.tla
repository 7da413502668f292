-------------------------- MODULE NodeSweepProofs --------------------------
(***************************************************************************)
(* What holds of the sweep over the nodes for every set of nodes, every    *)
(* number of goroutines and all lists: proofs for NodeSweep.               *)
(***************************************************************************)
EXTENDS NodeSweep, TLAPS

Stages == {"none", "labels", "models", "locked", "publish", "slot", "gpu", "service", "done"}
AtWork == Stages \ {"none", "done"}
Resetting == {"resetStatus", "resetGPU", "resetService"}

(***************************************************************************)
(* Types, and what they rest on: a goroutine at work has an entry and is   *)
(* waited for, and is at a model of that entry.                            *)
(***************************************************************************)
SweepTypes ==
    /\ pc \in {"idle", "wait"} \cup Resetting
    /\ list \in Lists \cup {NoEntries}
    /\ sweep \in Nat
    /\ at \in [Task -> Stages]
    /\ todo \in [Task -> SUBSET Offer]
    /\ cur \in [Task -> Offer \cup {Nil}]
    /\ seen \in [Task -> Nat]
    /\ mu \in Task \cup {Nil}
    /\ weights \in [Node -> Nat]
    /\ slot \in {0, 1}
    /\ tracked \in BOOLEAN
    /\ epochWeight \in [Node -> Nat]
    /\ gauge \in [Gauges -> [Node -> Nat]]

Entries ==
    /\ \A t \in Task : at[t] \in AtWork => pc = "wait" /\ t \in DOMAIN list
    /\ pc \in Resetting => list \in Lists
    /\ \A t \in Task : at[t] \in {"locked", "publish", "slot"} => cur[t] \in Offer
    /\ \A t \in Task : at[t] \in {"locked", "publish"} => cur[t].weight # Nil

TypeInv == SweepTypes /\ Entries

LEMMA ListType ==
  ASSUME SweepTypes
  PROVE  \A t \in DOMAIN list : t \in Task /\ list[t] \in Entry
  BY ListAssumption DEF SweepTypes, NoEntries

LEMMA ZerosType == Zeros \in [Node -> Nat] /\ \A n \in Node : Zeros[n] = 0
  BY DEF Zeros

\* The steps that leave the goroutines alone, while none of them is at work.
LEMMA QuietTypes ==
  ASSUME TypeInv, UNCHANGED routines, pc # "wait", pc' \in {"idle"} \cup Resetting,
         list' \in Lists \cup {NoEntries}, pc' \in Resetting => list' \in Lists,
         sweep' \in Nat, tracked' \in BOOLEAN,
         weights' \in [Node -> Nat], slot' \in {0, 1}, epochWeight' \in [Node -> Nat],
         gauge' \in [Gauges -> [Node -> Nat]]
  PROVE  TypeInv'
<1>1. SweepTypes'
  BY DEF TypeInv, SweepTypes, routines
<1>2. \A t \in Task : at[t] \notin AtWork
  BY DEF TypeInv, Entries
<1>3. Entries'
  BY <1>2 DEF TypeInv, SweepTypes, Entries, routines, AtWork, Stages
<1> QED
  BY <1>1, <1>3 DEF TypeInv

LEMMA InitTypes == Init => TypeInv
<1> SUFFICES ASSUME Init
             PROVE  TypeInv
  OBVIOUS
<1>1. SweepTypes
  BY ZerosType, ListAssumption DEF Init, SweepTypes, Stages
<1>2. Entries
  BY DEF Init, Entries, AtWork, Stages, Resetting
<1> QED
  BY <1>1, <1>2 DEF TypeInv

LEMMA ParticipantMovesOnTypes ==
  ASSUME TypeInv, NEW boundary \in BOOLEAN, ParticipantMovesOn(boundary)
  PROVE  TypeInv'
<1>1. /\ pc' = "idle" /\ pc = "idle" /\ list' = NoEntries /\ sweep' \in Nat
      /\ tracked' \in BOOLEAN /\ UNCHANGED routines
  BY DEF ParticipantMovesOn, TypeInv, SweepTypes
<1>2. /\ weights' \in [Node -> Nat] /\ slot' \in {0, 1} /\ epochWeight' \in [Node -> Nat]
      /\ gauge' \in [Gauges -> [Node -> Nat]]
  BY ZerosType DEF ParticipantMovesOn, TypeInv, SweepTypes
<1> QED
  BY <1>1, <1>2, QuietTypes DEF Resetting

LEMMA FetchNodesTypes ==
  ASSUME TypeInv, NEW l \in Lists, FetchNodes(l)
  PROVE  TypeInv'
<1>1. /\ pc' = "resetStatus" /\ pc = "idle" /\ list' \in Lists /\ sweep' \in Nat
      /\ UNCHANGED <<tracked, routines, data, gauge>>
  BY DEF FetchNodes, TypeInv, SweepTypes
<1> QED
  BY <1>1, QuietTypes DEF Resetting, data, TypeInv, SweepTypes

LEMMA ResetType ==
  ASSUME SweepTypes, NEW g \in Gauges, NEW from, NEW to, Reset(from, g, to)
  PROVE  gauge' \in [Gauges -> [Node -> Nat]]
  BY ZerosType DEF Reset, SweepTypes

LEMMA ResetTypes ==
  ASSUME TypeInv, ResetStatus \/ ResetGPU
  PROVE  TypeInv'
<1>1. gauge' \in [Gauges -> [Node -> Nat]]
  BY ResetType DEF ResetStatus, ResetGPU, TypeInv, Gauges
<1>2. /\ pc \in Resetting /\ pc' \in Resetting /\ pc # "wait"
      /\ UNCHANGED <<list, sweep, tracked, data, routines>>
  BY DEF ResetStatus, ResetGPU, Reset, Resetting
<1>3. list' \in Lists
  BY <1>2 DEF TypeInv, Entries
<1> QED
  BY <1>1, <1>2, <1>3, QuietTypes DEF data, TypeInv, SweepTypes

LEMMA ResetServiceTypes ==
  ASSUME TypeInv, ResetService
  PROVE  TypeInv'
<1>1. gauge' \in [Gauges -> [Node -> Nat]]
  BY ResetType DEF ResetService, TypeInv, Gauges
<1>2. /\ pc = "resetService" /\ pc' = "wait"
      /\ at' = [t \in Task |-> IF t \in DOMAIN list THEN "labels" ELSE "none"]
      /\ UNCHANGED <<list, sweep, tracked, weights, slot, epochWeight, todo, cur, seen, mu>>
  BY DEF ResetService, Reset, data
<1>3. SweepTypes'
  BY <1>1, <1>2 DEF TypeInv, SweepTypes, Stages
<1>4. Entries'
  BY <1>2 DEF Entries, AtWork, Stages, Resetting
<1> QED
  BY <1>3, <1>4 DEF TypeInv

LEMMA WaitForAllTypes ==
  ASSUME TypeInv, WaitForAll
  PROVE  TypeInv'
<1>1. \A t \in Task : at[t] \notin AtWork
  BY DEF WaitForAll, TypeInv, Entries, AtWork
<1>2. SweepTypes'
  BY DEF WaitForAll, TypeInv, SweepTypes, routines, data
<1>3. Entries'
  BY <1>1 DEF WaitForAll, Entries, routines, AtWork, Stages, Resetting
<1> QED
  BY <1>2, <1>3 DEF TypeInv

\* A goroutine that is at work has an entry with a node and offers.
LEMMA EntryOf ==
  ASSUME TypeInv, NEW t \in Task, at[t] \in AtWork
  PROVE  /\ pc = "wait" /\ t \in DOMAIN list
         /\ list[t].id \in Node /\ list[t].offers \subseteq Offer
  BY ListType DEF TypeInv, Entries, Entry

\* One goroutine goes on, to a stage whose claims on its model hold.
LEMMA RoutineTypes ==
  ASSUME TypeInv, NEW t \in Task, at[t] \in AtWork, UNCHANGED main,
         NEW s \in Stages, at' = [at EXCEPT ![t] = s],
         todo' \in [Task -> SUBSET Offer],
         NEW c \in Offer \cup {Nil}, cur' = [cur EXCEPT ![t] = c],
         s \in {"locked", "publish", "slot"} => c \in Offer,
         s \in {"locked", "publish"} => c.weight # Nil,
         seen' \in [Task -> Nat], mu' \in Task \cup {Nil},
         weights' \in [Node -> Nat], slot' \in {0, 1}, epochWeight' \in [Node -> Nat],
         gauge' \in [Gauges -> [Node -> Nat]]
  PROVE  TypeInv'
<1>1. SweepTypes'
  BY DEF TypeInv, SweepTypes, main
<1>2. pc = "wait" /\ t \in DOMAIN list
  BY EntryOf
<1>3. Entries'
  BY <1>2 DEF TypeInv, SweepTypes, Entries, main, AtWork, Stages, Resetting
<1> QED
  BY <1>1, <1>3 DEF TypeInv

LEMMA ShownType ==
  ASSUME TypeInv, NEW g \in Gauges, NEW t \in Task, at[t] \in AtWork, Shown(g, t)
  PROVE  gauge' \in [Gauges -> [Node -> Nat]]
  BY EntryOf DEF Shown, TypeInv, SweepTypes

LEMMA SetLabelsTypes ==
  ASSUME TypeInv, NEW t \in Task, SetLabels(t)
  PROVE  TypeInv'
<1>1. at[t] \in AtWork /\ "models" \in Stages
  BY DEF SetLabels, AtWork, Stages
<1>2. gauge' \in [Gauges -> [Node -> Nat]]
  BY <1>1, ShownType DEF SetLabels, Gauges
<1>3. todo' \in [Task -> SUBSET Offer]
  BY <1>1, EntryOf DEF SetLabels, TypeInv, SweepTypes
<1>4. /\ at' = [at EXCEPT ![t] = "models"]
      /\ cur[t] \in Offer \cup {Nil} /\ cur' = [cur EXCEPT ![t] = cur[t]]
      /\ UNCHANGED <<main, seen, mu, weights, slot, epochWeight>>
  BY DEF SetLabels, data, TypeInv, SweepTypes
<1> QED
  BY <1>1, <1>2, <1>3, <1>4, RoutineTypes DEF TypeInv, SweepTypes

LEMMA LockTypes ==
  ASSUME TypeInv, NEW t \in Task, Lock(t)
  PROVE  TypeInv'
<1>1. PICK o \in todo[t] : TakeWeight(t, o) /\ mu' \in Task \cup {Nil}
  BY DEF Lock, TypeInv, SweepTypes
<1>2. at[t] \in AtWork
  BY <1>1 DEF TakeWeight, AtWork, Stages
<1>3. o \in Offer
  BY DEF TypeInv, SweepTypes
<1>4. UNCHANGED <<main, todo, weights, slot, epochWeight, gauge>>
  BY <1>1 DEF TakeWeight, data
<1>5. CASE o.weight = Nil
  <2>1. at' = [at EXCEPT ![t] = "slot"] /\ seen' = seen /\ cur' = [cur EXCEPT ![t] = o]
    BY <1>1, <1>5 DEF TakeWeight
  <2> QED
    BY <1>1, <1>2, <1>3, <1>4, <2>1, RoutineTypes DEF TypeInv, SweepTypes, Stages
<1>6. CASE o.weight # Nil
  <2>1. at' = [at EXCEPT ![t] = "locked"] /\ cur' = [cur EXCEPT ![t] = o]
    BY <1>1, <1>6 DEF TakeWeight
  <2>2. seen' \in [Task -> Nat]
    BY <1>1, <1>2, <1>6, EntryOf DEF TakeWeight, TypeInv, SweepTypes
  <2> QED
    BY <1>1, <1>2, <1>3, <1>4, <1>6, <2>1, <2>2, RoutineTypes
       DEF TypeInv, SweepTypes, Stages
<1> QED
  BY <1>5, <1>6

LEMMA RaiseTypes ==
  ASSUME TypeInv, NEW t \in Task, RaiseAndUnlock(t)
  PROVE  TypeInv'
<1>1. at[t] = "locked" /\ at[t] \in AtWork
  BY DEF RaiseAndUnlock, Raise, AtWork, Stages
<1>2. cur[t] \in Offer /\ cur[t].weight \in Nat
  BY <1>1 DEF TypeInv, Entries, Offer
<1>3. weights' \in [Node -> Nat] /\ seen' \in [Task -> Nat]
  BY <1>1, <1>2, EntryOf DEF RaiseAndUnlock, Raise, TypeInv, SweepTypes
<1>4. /\ at' = [at EXCEPT ![t] = "publish"] /\ cur' = [cur EXCEPT ![t] = cur[t]]
      /\ mu' = Nil /\ UNCHANGED <<main, todo, slot, epochWeight, gauge>>
  BY DEF RaiseAndUnlock, Raise, TypeInv, SweepTypes
<1>5. cur[t].weight # Nil
  BY <1>1 DEF TypeInv, Entries
<1> QED
  BY <1>1, <1>2, <1>3, <1>4, <1>5, RoutineTypes DEF TypeInv, SweepTypes, Stages

LEMMA PublishTypes ==
  ASSUME TypeInv, NEW t \in Task, Publish(t)
  PROVE  TypeInv'
<1>1. at[t] = "publish" /\ at[t] \in AtWork /\ cur[t] \in Offer
  BY DEF Publish, PublishAs, AtWork, Stages, TypeInv, Entries
<1>2. epochWeight' \in [Node -> Nat]
  BY <1>1, EntryOf DEF Publish, PublishAs, TypeInv, SweepTypes
<1>3. /\ at' = [at EXCEPT ![t] = "slot"] /\ cur' = [cur EXCEPT ![t] = cur[t]]
      /\ UNCHANGED <<main, todo, seen, mu, weights, slot, gauge>>
  BY DEF Publish, PublishAs, TypeInv, SweepTypes
<1> QED
  BY <1>1, <1>2, <1>3, RoutineTypes DEF TypeInv, SweepTypes, Stages

LEMMA NoteSlotTypes ==
  ASSUME TypeInv, NEW t \in Task, NoteSlot(t)
  PROVE  TypeInv'
<1>1. at[t] \in AtWork
  BY DEF NoteSlot, NoteAs, AtWork, Stages
<1>2. slot' \in {0, 1} /\ todo' \in [Task -> SUBSET Offer]
  BY DEF NoteSlot, NoteAs, TypeInv, SweepTypes
<1>3. /\ at' = [at EXCEPT ![t] = "models"] /\ cur' = [cur EXCEPT ![t] = cur[t]]
      /\ UNCHANGED <<main, seen, mu, weights, epochWeight, gauge>>
  BY DEF NoteSlot, NoteAs, TypeInv, SweepTypes
<1> QED
  BY <1>1, <1>2, <1>3, RoutineTypes DEF TypeInv, SweepTypes, Stages

LEMMA LastStepsTypes ==
  ASSUME TypeInv, NEW t \in Task, ModelsDone(t) \/ FetchGPU(t) \/ FetchService(t)
  PROVE  TypeInv'
<1>1. at[t] \in AtWork
  BY DEF ModelsDone, FetchGPU, FetchService, AtWork, Stages
<1>2. gauge' \in [Gauges -> [Node -> Nat]]
  BY <1>1, ShownType
     DEF ModelsDone, FetchGPU, FetchService, Gauges, TypeInv, SweepTypes
<1>3. PICK s \in {"gpu", "service", "done"} : at' = [at EXCEPT ![t] = s]
  BY DEF ModelsDone, FetchGPU, FetchService
<1>4. /\ cur' = [cur EXCEPT ![t] = cur[t]]
      /\ UNCHANGED <<main, todo, seen, mu, weights, slot, epochWeight>>
  BY DEF ModelsDone, FetchGPU, FetchService, data, TypeInv, SweepTypes
<1> QED
  BY <1>1, <1>2, <1>3, <1>4, RoutineTypes DEF TypeInv, SweepTypes, Stages

LEMMA NextTypes == TypeInv /\ [Next]_vars => TypeInv'
<1> SUFFICES ASSUME TypeInv, [Next]_vars
             PROVE  TypeInv'
  OBVIOUS
<1>1. CASE \E t \in Task : Routine(t)
  BY <1>1, SetLabelsTypes, LockTypes, RaiseTypes, PublishTypes, NoteSlotTypes,
     LastStepsTypes DEF Routine
<1>2. CASE UNCHANGED vars
  BY <1>2 DEF vars, main, routines, data, TypeInv, SweepTypes, Entries
<1> QED
  BY <1>1, <1>2, ParticipantMovesOnTypes, FetchNodesTypes, ResetTypes, ResetServiceTypes,
     WaitForAllTypes DEF Next

LEMMA AlwaysTypes == Spec => []TypeInv
  BY InitTypes, NextTypes, PTL DEF Spec

(***************************************************************************)
(* The gauges.  Outside a sweep and while the goroutines run, a gauge is   *)
(* of this sweep or not there; while the gauges are reset one after the    *)
(* other, what is left is of the sweep before.                             *)
(***************************************************************************)
OneOf(g, s) == \A n \in Node : gauge[g][n] \in {0, s}
Gone(g) == \A n \in Node : gauge[g][n] = 0

GaugeInv ==
    /\ pc \in {"idle", "wait"} => \A g \in Gauges : OneOf(g, sweep)
    /\ pc \in Resetting => \A g \in Gauges : OneOf(g, sweep - 1)
    /\ pc \in {"resetGPU", "resetService"} => Gone("status")
    /\ pc = "resetService" => Gone("gpu")

LEMMA InitGauges == Init => GaugeInv
  BY ZerosType DEF Init, GaugeInv, OneOf, Gone, Resetting

LEMMA ResetGauges ==
  ASSUME TypeInv, NEW g \in Gauges, NEW from, NEW to, Reset(from, g, to)
  PROVE  /\ \A n \in Node : gauge'[g][n] = 0
         /\ \A f \in Gauges : f # g => gauge'[f] = gauge[f]
  BY ZerosType DEF Reset, TypeInv, SweepTypes

LEMMA ShownGauges ==
  ASSUME TypeInv, GaugeInv, NEW g \in Gauges, NEW t \in Task, at[t] \in AtWork,
         Shown(g, t), UNCHANGED main
  PROVE  GaugeInv'
<1>1. pc = "wait" /\ list[t].id \in Node
  BY EntryOf
<1>2. \A f \in Gauges, n \in Node : gauge'[f][n] \in {gauge[f][n], sweep}
  BY <1>1 DEF Shown, TypeInv, SweepTypes
<1> QED
  BY <1>1, <1>2 DEF GaugeInv, OneOf, main, Resetting

LEMMA NextGauges == TypeInv /\ GaugeInv /\ [Next]_vars => GaugeInv'
<1> SUFFICES ASSUME TypeInv, GaugeInv, [Next]_vars
             PROVE  GaugeInv'
  OBVIOUS
<1> USE DEF Resetting
<1>1. CASE \E boundary \in BOOLEAN : ParticipantMovesOn(boundary)
  BY <1>1 DEF ParticipantMovesOn, GaugeInv, OneOf, Gone
<1>2. CASE \E l \in Lists : FetchNodes(l)
  BY <1>2 DEF FetchNodes, GaugeInv, OneOf, Gone, TypeInv, SweepTypes
<1>3. CASE ResetStatus
  BY <1>3, ResetGauges DEF ResetStatus, Reset, GaugeInv, OneOf, Gone, Gauges
<1>4. CASE ResetGPU
  BY <1>4, ResetGauges DEF ResetGPU, Reset, GaugeInv, OneOf, Gone, Gauges
<1>5. CASE ResetService
  BY <1>5, ResetGauges DEF ResetService, Reset, GaugeInv, OneOf, Gone, Gauges
<1>6. CASE WaitForAll
  BY <1>6 DEF WaitForAll, GaugeInv, OneOf, Gone
<1>7. CASE \E t \in Task : SetLabels(t) \/ FetchGPU(t) \/ FetchService(t)
  <2>1. PICK t \in Task : SetLabels(t) \/ FetchGPU(t) \/ FetchService(t)
    BY <1>7
  <2>2. at[t] \in AtWork /\ UNCHANGED main
    BY <2>1 DEF SetLabels, FetchGPU, FetchService, AtWork, Stages
  <2>3. UNCHANGED gauge \/ \E g \in Gauges : Shown(g, t)
    BY <2>1 DEF SetLabels, FetchGPU, FetchService, Gauges
  <2>4. CASE UNCHANGED gauge
    BY <2>2, <2>4 DEF main, GaugeInv, OneOf, Gone
  <2> QED
    BY <2>2, <2>3, <2>4, ShownGauges
<1>8. CASE \E t \in Task : Lock(t) \/ RaiseAndUnlock(t) \/ Publish(t) \/ NoteSlot(t) \/ ModelsDone(t)
  <2>1. UNCHANGED main /\ UNCHANGED gauge
    BY <1>8 DEF Lock, TakeWeight, RaiseAndUnlock, Raise, Publish, PublishAs, NoteSlot,
                NoteAs, ModelsDone
  <2> QED
    BY <2>1 DEF main, GaugeInv, OneOf, Gone
<1>9. CASE UNCHANGED vars
  BY <1>9 DEF vars, main, GaugeInv, OneOf, Gone
<1> QED
  BY <1>1, <1>2, <1>3, <1>4, <1>5, <1>6, <1>7, <1>8, <1>9 DEF Next, Routine

(***************************************************************************)
(* The listed nodes.  Once the gauges are reset only listed nodes get new  *)
(* ones, and a goroutine past its first step has set the status.           *)
(***************************************************************************)
Listed == {list[t].id : t \in DOMAIN list}

ListedInv ==
    /\ DOMAIN list # {} => sweep > 0
    /\ pc = "wait" \/ (pc = "idle" /\ DOMAIN list # {}) =>
           \A g \in Gauges, n \in Node : gauge[g][n] # 0 => n \in Listed
    /\ pc \in {"wait", "idle"} =>
           \A t \in DOMAIN list :
               at[t] \notin {"none", "labels"} => gauge["status"][list[t].id] = sweep
    /\ pc = "wait" => \A t \in DOMAIN list : at[t] # "none"
    /\ pc = "idle" => \A t \in DOMAIN list : at[t] = "done"

LEMMA InitListed == Init => ListedInv
  BY DEF Init, ListedInv, NoEntries

\* The steps of a goroutine that set no gauge or one of its node's.
LEMMA RoutineListed ==
  ASSUME TypeInv, ListedInv, NEW t \in Task, at[t] \in AtWork, UNCHANGED main,
         NEW s \in Stages \ {"none"}, at' = [at EXCEPT ![t] = s],
         \/ UNCHANGED gauge /\ at[t] # "labels"
         \/ Shown("status", t)
         \/ at[t] # "labels" /\ \E g \in Gauges \ {"status"} : Shown(g, t)
  PROVE  ListedInv'
<1>1. pc = "wait" /\ t \in DOMAIN list /\ list[t].id \in Node
  BY EntryOf
<1>2. UNCHANGED <<pc, list, sweep>> /\ Listed' = Listed
  BY DEF main, Listed
<1>3. \A g \in Gauges, n \in Node : gauge'[g][n] # gauge[g][n] => n \in Listed
  BY <1>1 DEF Shown, Listed, TypeInv, SweepTypes
<1>4. \A n \in Node : gauge'["status"][n] \in {gauge["status"][n], sweep}
  BY <1>1 DEF Shown, Gauges, TypeInv, SweepTypes
<1>5. at[t] = "labels" => gauge'["status"][list[t].id] = sweep
  BY <1>1 DEF Shown, Gauges, TypeInv, SweepTypes
<1>6. \A u \in DOMAIN list : u \in Task /\ list[u].id \in Node
  BY ListType DEF TypeInv, Entry
<1>7. \A u \in DOMAIN list :
          at'[u] \notin {"none", "labels"} => gauge'["status"][list[u].id] = sweep
  BY <1>1, <1>4, <1>5, <1>6 DEF ListedInv, TypeInv, SweepTypes
<1>8. \A u \in DOMAIN list : at'[u] # "none"
  BY <1>1, <1>6 DEF ListedInv, TypeInv, SweepTypes
<1> QED
  BY <1>1, <1>2, <1>3, <1>7, <1>8 DEF ListedInv

LEMMA NextListed == TypeInv /\ GaugeInv /\ ListedInv /\ [Next]_vars => ListedInv'
<1> SUFFICES ASSUME TypeInv, GaugeInv, ListedInv, [Next]_vars
             PROVE  ListedInv'
  OBVIOUS
<1> USE DEF Resetting
<1>1. CASE \E boundary \in BOOLEAN : ParticipantMovesOn(boundary)
  BY <1>1 DEF ParticipantMovesOn, ListedInv, NoEntries
<1>2. CASE \E l \in Lists : FetchNodes(l)
  BY <1>2 DEF FetchNodes, ListedInv, TypeInv, SweepTypes
<1>3. CASE ResetStatus \/ ResetGPU
  BY <1>3 DEF ResetStatus, ResetGPU, Reset, ListedInv
<1>4. CASE ResetService
  <2>1. \A g \in Gauges, n \in Node : gauge'[g][n] = 0
    BY <1>4, ResetGauges DEF ResetService, Reset, GaugeInv, Gone, Gauges
  <2>2. \A t \in DOMAIN list : t \in Task
    BY ListType DEF TypeInv
  <2>3. /\ pc' = "wait" /\ UNCHANGED <<list, sweep>>
        /\ \A t \in DOMAIN list : at'[t] = "labels"
    BY <1>4, <2>2 DEF ResetService, Reset
  <2> QED
    BY <2>1, <2>3 DEF ListedInv
<1>5. CASE WaitForAll
  BY <1>5 DEF WaitForAll, routines, ListedInv, Listed
<1>6. CASE \E t \in Task : Routine(t)
  <2>1. PICK t \in Task : Routine(t)
    BY <1>6
  <2>2. at[t] \in AtWork /\ UNCHANGED main
    BY <2>1 DEF Routine, SetLabels, Lock, TakeWeight, RaiseAndUnlock, Raise, Publish,
                PublishAs, NoteSlot, NoteAs, ModelsDone, FetchGPU, FetchService, AtWork, Stages
  <2>3. \E s \in Stages \ {"none"} : at' = [at EXCEPT ![t] = s]
    BY <2>1 DEF Routine, SetLabels, Lock, TakeWeight, RaiseAndUnlock, Raise, Publish,
                PublishAs, NoteSlot, NoteAs, ModelsDone, FetchGPU, FetchService, Stages
  <2>4. \/ UNCHANGED gauge /\ at[t] # "labels"
        \/ Shown("status", t)
        \/ at[t] # "labels" /\ \E g \in Gauges \ {"status"} : Shown(g, t)
    BY <2>1 DEF Routine, SetLabels, Lock, TakeWeight, RaiseAndUnlock, Raise, Publish,
                PublishAs, NoteSlot, NoteAs, ModelsDone, FetchGPU, FetchService, Gauges
  <2> QED
    BY <2>2, <2>3, <2>4, RoutineListed
<1>7. CASE UNCHANGED vars
  BY <1>7 DEF vars, main, routines, ListedInv, Listed
<1> QED
  BY <1>1, <1>2, <1>3, <1>4, <1>5, <1>6, <1>7 DEF Next

(***************************************************************************)
(* The weight of a node with one entry.  Only its goroutine touches it, so *)
(* what that read is still there when it publishes; once a model with a    *)
(* weight is behind it, gauge and maximum agree.                           *)
(***************************************************************************)
Alone(t) == \A u \in DOMAIN list : list[u].id = list[t].id => u = t

SomeWeightSeen(t) ==
    \/ \E o \in list[t].offers \ todo[t] : o.weight # Nil
    \/ at[t] = "slot" /\ cur[t].weight # Nil

MaxOf(t) ==
    /\ at[t] \in {"gpu", "service", "done"} => todo[t] = {}
    /\ Alone(t) =>
         /\ at[t] \in {"locked", "publish"} => seen[t] = weights[list[t].id]
         /\ tracked /\ at[t] \in {"models", "slot", "gpu", "service", "done"} /\ SomeWeightSeen(t)
            => epochWeight[list[t].id] = weights[list[t].id]

MaxInv == pc \in {"wait", "idle"} => \A t \in DOMAIN list : MaxOf(t)

LEMMA InitMax == Init => MaxInv
  BY DEF Init, MaxInv, NoEntries

\* A goroutine does not disturb the entries of other nodes.
LEMMA OthersMax ==
  ASSUME TypeInv, MaxInv, NEW t \in Task, at[t] \in AtWork, UNCHANGED main,
         \A u \in Task : u # t =>
             at'[u] = at[u] /\ todo'[u] = todo[u] /\ cur'[u] = cur[u] /\ seen'[u] = seen[u],
         \A n \in Node : n # list[t].id =>
             weights'[n] = weights[n] /\ epochWeight'[n] = epochWeight[n],
         MaxOf(t)'
  PROVE  MaxInv'
<1>1. pc = "wait" /\ t \in DOMAIN list /\ UNCHANGED <<pc, list, tracked>>
  BY EntryOf DEF main
<1> SUFFICES ASSUME NEW u \in DOMAIN list, u # t
             PROVE  MaxOf(u)'
  BY <1>1 DEF MaxInv
<1>2. u \in Task /\ list[u].id \in Node
  BY ListType DEF TypeInv, Entry
<1>3. MaxOf(u)
  BY <1>1 DEF MaxInv
<1>4. /\ at'[u] = at[u] /\ todo'[u] = todo[u] /\ cur'[u] = cur[u] /\ seen'[u] = seen[u]
  BY <1>2
<1>5. Alone(u) => weights'[list[u].id] = weights[list[u].id]
                 /\ epochWeight'[list[u].id] = epochWeight[list[u].id]
  BY <1>1, <1>2 DEF Alone
<1>6. Alone(u)' <=> Alone(u)
  BY <1>1 DEF Alone
<1>7. SomeWeightSeen(u)' <=> SomeWeightSeen(u)
  BY <1>1, <1>4 DEF SomeWeightSeen
<1> QED
  BY <1>1, <1>3, <1>4, <1>5, <1>6, <1>7 DEF MaxOf

\* What every step of a goroutine leaves alone.
LEMMA RoutineFrame ==
  ASSUME TypeInv, NEW t \in Task, Routine(t)
  PROVE  /\ at[t] \in AtWork /\ UNCHANGED main
         /\ \A u \in Task : u # t =>
                at'[u] = at[u] /\ todo'[u] = todo[u] /\ cur'[u] = cur[u] /\ seen'[u] = seen[u]
         /\ \A n \in Node : n # list[t].id =>
                weights'[n] = weights[n] /\ epochWeight'[n] = epochWeight[n]
<1>1. at[t] \in AtWork /\ UNCHANGED main
  BY DEF Routine, SetLabels, Lock, TakeWeight, RaiseAndUnlock, Raise, Publish,
         PublishAs, NoteSlot, NoteAs, ModelsDone, FetchGPU, FetchService, AtWork, Stages
<1>2. ASSUME NEW u \in Task, u # t
      PROVE  at'[u] = at[u] /\ todo'[u] = todo[u] /\ cur'[u] = cur[u] /\ seen'[u] = seen[u]
  BY <1>2 DEF Routine, SetLabels, Lock, TakeWeight, RaiseAndUnlock, Raise, Publish, PublishAs,
              NoteSlot, NoteAs, ModelsDone, FetchGPU, FetchService, TypeInv, SweepTypes
<1>3. ASSUME NEW n \in Node, n # list[t].id
      PROVE  weights'[n] = weights[n] /\ epochWeight'[n] = epochWeight[n]
  BY <1>3 DEF Routine, SetLabels, Lock, TakeWeight, RaiseAndUnlock, Raise, Publish, PublishAs,
              NoteSlot, NoteAs, ModelsDone, FetchGPU, FetchService, data, TypeInv, SweepTypes
<1> QED
  BY <1>1, <1>2, <1>3

\* The entry of the goroutine that goes on, action by action.
LEMMA RoutineMax ==
  ASSUME TypeInv, MaxInv, NEW t \in Task, Routine(t)
  PROVE  MaxOf(t)'
<1>1. /\ pc = "wait" /\ t \in DOMAIN list /\ list[t].id \in Node
      /\ UNCHANGED <<pc, list, tracked>>
  BY RoutineFrame, EntryOf DEF main
<1>2. MaxOf(t) /\ (Alone(t)' <=> Alone(t))
  BY <1>1 DEF MaxInv, Alone
<1>3. CASE SetLabels(t)
  <2>1. at'[t] = "models" /\ todo'[t] = list[t].offers
    BY <1>3 DEF SetLabels, TypeInv, SweepTypes
  <2>2. ~ SomeWeightSeen(t)'
    BY <1>1, <2>1 DEF SomeWeightSeen
  <2> QED
    BY <2>1, <2>2 DEF MaxOf
<1>4. CASE Lock(t)
  <2>1. PICK o \in todo[t] : TakeWeight(t, o)
    BY <1>4 DEF Lock
  <2>2. at[t] = "models" /\ UNCHANGED <<todo, weights, epochWeight>> /\ cur'[t] = o
    BY <2>1 DEF TakeWeight, data, TypeInv, SweepTypes
  <2>3. CASE o.weight = Nil
    <3>1. at'[t] = "slot"
      BY <2>1, <2>3 DEF TakeWeight, TypeInv, SweepTypes
    <3>2. SomeWeightSeen(t)' => SomeWeightSeen(t)
      BY <1>1, <2>2, <2>3, <3>1 DEF SomeWeightSeen
    <3> QED
      BY <1>1, <1>2, <2>2, <3>1, <3>2 DEF MaxOf
  <2>4. CASE o.weight # Nil
    <3>1. at'[t] = "locked" /\ seen'[t] = weights[list[t].id]
      BY <2>1, <2>4 DEF TakeWeight, TypeInv, SweepTypes
    <3> QED
      BY <1>1, <2>2, <3>1 DEF MaxOf
  <2> QED
    BY <2>3, <2>4
<1>5. CASE RaiseAndUnlock(t)
  <2> DEFINE n == list[t].id
             max == IF cur[t].weight > seen[t] THEN cur[t].weight ELSE seen[t]
  <2>1. at[t] = "locked" /\ at'[t] = "publish" /\ seen'[t] = max
    BY <1>5 DEF RaiseAndUnlock, Raise, TypeInv, SweepTypes
  <2>2. weights' = IF cur[t].weight > seen[t] THEN [weights EXCEPT ![n] = max] ELSE weights
    BY <1>5 DEF RaiseAndUnlock, Raise
  <2>3. Alone(t) => seen[t] = weights[n]
    BY <1>2, <2>1 DEF MaxOf
  <2>4. Alone(t) => seen'[t] = weights'[n]
    BY <1>1, <2>1, <2>2, <2>3 DEF TypeInv, SweepTypes
  <2> QED
    BY <1>1, <1>2, <2>1, <2>4 DEF MaxOf
<1>6. CASE Publish(t)
  <2>1. /\ at[t] = "publish" /\ at'[t] = "slot" /\ UNCHANGED <<todo, seen, weights>>
        /\ epochWeight' = IF tracked THEN [epochWeight EXCEPT ![list[t].id] = seen[t]]
                          ELSE epochWeight
    BY <1>6 DEF Publish, PublishAs, TypeInv, SweepTypes
  <2>2. Alone(t) => seen[t] = weights[list[t].id]
    BY <1>2, <2>1 DEF MaxOf
  <2>3. Alone(t) /\ tracked => epochWeight'[list[t].id] = weights'[list[t].id]
    BY <1>1, <2>1, <2>2 DEF TypeInv, SweepTypes
  <2> QED
    BY <1>1, <1>2, <2>1, <2>3 DEF MaxOf
<1>7. CASE NoteSlot(t)
  <2>1. /\ at[t] = "slot" /\ at'[t] = "models" /\ todo'[t] = todo[t] \ {cur[t]}
        /\ UNCHANGED <<cur, weights, epochWeight>>
    BY <1>7 DEF NoteSlot, NoteAs, TypeInv, SweepTypes
  <2>2. SomeWeightSeen(t)' => SomeWeightSeen(t)
    BY <1>1, <2>1 DEF SomeWeightSeen
  <2> QED
    BY <1>1, <1>2, <2>1, <2>2 DEF MaxOf
<1>8. CASE ModelsDone(t) \/ FetchGPU(t) \/ FetchService(t)
  <2>1. /\ at[t] \in {"models", "gpu", "service"} /\ at'[t] \in {"gpu", "service", "done"}
        /\ UNCHANGED <<todo, cur, weights, epochWeight>>
    BY <1>8 DEF ModelsDone, FetchGPU, FetchService, data, TypeInv, SweepTypes
  <2>2. todo[t] = {}
    BY <1>2, <1>8 DEF ModelsDone, FetchGPU, FetchService, MaxOf
  <2>3. SomeWeightSeen(t)' => SomeWeightSeen(t)
    BY <1>1, <2>1 DEF SomeWeightSeen
  <2> QED
    BY <1>1, <1>2, <2>1, <2>2, <2>3 DEF MaxOf
<1> QED
  BY <1>3, <1>4, <1>5, <1>6, <1>7, <1>8 DEF Routine

LEMMA NextMax == TypeInv /\ ListedInv /\ MaxInv /\ [Next]_vars => MaxInv'
<1> SUFFICES ASSUME TypeInv, ListedInv, MaxInv, [Next]_vars
             PROVE  MaxInv'
  OBVIOUS
<1>1. CASE \E boundary \in BOOLEAN : ParticipantMovesOn(boundary)
  BY <1>1 DEF ParticipantMovesOn, NoEntries, MaxInv
<1>2. CASE \E l \in Lists : FetchNodes(l)
  BY <1>2 DEF FetchNodes, MaxInv
<1>3. CASE ResetStatus \/ ResetGPU
  BY <1>3 DEF ResetStatus, ResetGPU, Reset, MaxInv
<1>4. CASE ResetService
  <2>1. \A t \in DOMAIN list : t \in Task
    BY ListType DEF TypeInv
  <2>2. UNCHANGED list /\ \A t \in DOMAIN list : at'[t] = "labels"
    BY <1>4, <2>1 DEF ResetService, Reset
  <2> QED
    BY <2>2 DEF MaxInv, MaxOf
<1>5. CASE WaitForAll
  BY <1>5 DEF WaitForAll, routines, data, MaxInv, MaxOf, Alone, SomeWeightSeen
<1>6. CASE \E t \in Task : Routine(t)
  BY <1>6, RoutineFrame, RoutineMax, OthersMax
<1>7. CASE UNCHANGED vars
  BY <1>7 DEF vars, main, routines, data, MaxInv, MaxOf, Alone, SomeWeightSeen
<1> QED
  BY <1>1, <1>2, <1>3, <1>4, <1>5, <1>6, <1>7 DEF Next

(***************************************************************************)
(* The theorems.                                                           *)
(***************************************************************************)
\* Every variable of the sweep keeps its type: no goroutine works without an entry, and
\* none touches the weight of a model that has none.
THEOREM TypeCorrect == Spec => []TypeOK
<1>1. TypeInv => TypeOK
  BY DEF TypeInv, SweepTypes, TypeOK, Stages, Resetting
<1> QED
  BY <1>1, AlwaysTypes, PTL

\* A scrape at any moment finds the status and the GPU figures of a node from one sweep,
\* in whatever order the goroutines of any number of nodes end (collector.go:537-568).
THEOREM OneSweepAtATime == Spec => []OneSweepShown
<1>1. TypeInv /\ GaugeInv => OneSweepShown
  BY DEF TypeInv, SweepTypes, GaugeInv, OneOf, Gone, OneSweepShown, Gauges, Resetting
<1>2. Spec => []GaugeInv
  BY InitGauges, NextGauges, AlwaysTypes, PTL DEF Spec
<1> QED
  BY <1>1, <1>2, AlwaysTypes, PTL

LEMMA AlwaysSweepInv == Spec => [](TypeInv /\ GaugeInv /\ ListedInv /\ MaxInv)
<1>1. Init => TypeInv /\ GaugeInv /\ ListedInv /\ MaxInv
  BY InitTypes, InitGauges, InitListed, InitMax
<1>2. TypeInv /\ GaugeInv /\ ListedInv /\ MaxInv /\ [Next]_vars
      => (TypeInv /\ GaugeInv /\ ListedInv /\ MaxInv)'
  BY NextTypes, NextGauges, NextListed, NextMax
<1> QED
  BY <1>1, <1>2, PTL DEF Spec

\* After a sweep exactly the listed nodes are shown, whatever the lists of this sweep and
\* of earlier ones were (collector.go:537-568).
THEOREM ShowsTheListed == Spec => []ExactlyTheListed
<1>1. TypeInv /\ ListedInv => ExactlyTheListed
  <2> SUFFICES ASSUME TypeInv, ListedInv, pc = "idle", DOMAIN list # {}
               PROVE  /\ {n \in Node : gauge["status"][n] = sweep} = Listed
                      /\ \A g \in Gauges : {n \in Node : gauge[g][n] # 0} \subseteq Listed
    BY DEF ExactlyTheListed, Listed
  <2>1. Listed \subseteq Node
    BY ListType DEF TypeInv, Listed, Entry
  <2>2. \A g \in Gauges, n \in Node : gauge[g][n] # 0 => n \in Listed
    BY DEF ListedInv
  <2>3. \A n \in Listed : gauge["status"][n] = sweep
    BY DEF ListedInv, Listed
  <2>4. sweep # 0 /\ "status" \in Gauges
    BY DEF ListedInv, TypeInv, SweepTypes, Gauges
  <2> QED
    BY <2>1, <2>2, <2>3, <2>4
<1> QED
  BY <1>1, AlwaysSweepInv, PTL

\* The gauge of a node's weight ends as the maximum that the snapshot would archive, in
\* whatever order the models of the entry and the other nodes are gone through
\* (collector.go:592-602).
THEOREM GaugeEndsAsMaximum == Spec => []GaugeIsMaximum
<1>1. TypeInv /\ ListedInv /\ MaxInv => GaugeIsMaximum
  <2> SUFFICES ASSUME TypeInv, ListedInv, MaxInv, pc = "idle", tracked,
                      NEW t \in DOMAIN list, Alone(t),
                      NEW o \in list[t].offers, o.weight # Nil
               PROVE  epochWeight[list[t].id] = weights[list[t].id]
    BY DEF GaugeIsMaximum, Alone
  <2>1. at[t] = "done" /\ MaxOf(t)
    BY DEF ListedInv, MaxInv
  <2>2. SomeWeightSeen(t)
    BY <2>1 DEF MaxOf, SomeWeightSeen
  <2> QED
    BY <2>1, <2>2 DEF MaxOf
<1> QED
  BY <1>1, AlwaysSweepInv, PTL
=============================================================================
