--------------------------- MODULE NetworkGauges ---------------------------
(***************************************************************************)
(* The parts of a collection cycle that copy one answer into gauges and    *)
(* keep nothing else: chain status, epoch group, BLS phase, statistics,    *)
(* participants, prices, models, bridge, tokenomics, PoC v2.  The groups   *)
(* have no state in common, so a behaviour follows one of them.            *)
(*                                                                         *)
(* Between two requests the source may change, requests may fail, and the  *)
(* process may start anew.  An answer is published gauge by gauge, in any  *)
(* order (the code has one); a scrape may see any state.                   *)
(***************************************************************************)
EXTENDS Decoders

CONSTANTS
    Group,    \* the groups to follow
    MaxEvents \* bound: how often the source changes or the process restarts

Structure ==
    [collectChain |-> TendermintStatus, chainEpoch |-> CurrentEpoch,
     groupData |-> EpochGroupData, bls |-> BLSEpochData,
     participantStats |-> ParticipantStats, wallet |-> WalletBalance,
     participants |-> NetworkParticipants, pricing |-> PricingData, models |-> ModelData,
     statsModels |-> StatsModels, summary |-> StatsSummary, bridge |-> BridgeStatus,
     tokenomics |-> TokenomicsData, commit |-> PoCv2Commit, weights |-> MLNodeWeightDist]

ASSUME GaugeAssumption == Group \subseteq DOMAIN Structure /\ MaxEvents \in Nat

VARIABLES
    group,  \* the group that this behaviour follows
    form,   \* whether its source writes integers as numbers or as text
    source, \* what it would answer now
    events, \* changes and restarts so far
    shown,  \* the gauges
    todo,   \* those about to be set, with their values
    heard,  \* the answer that was published last, or Nil (for properties)
    told    \* all those of this process (for properties)

vars == <<group, form, source, events, shown, todo, heard, told>>

(***************************************************************************)
(* The sources, as far as the requests show them: for each field a value   *)
(* at each edge of its type.                                               *)
(***************************************************************************)
\* The largest number that is decoded, and for 64 bits and counts the next one.
\* A height is an int64 at the source, artifact counts and weights are 32 bits wide.
\* No status has the number 4.
Edges(f) ==
    CASE f.wire = "phase" -> 0 .. 5
      [] f.wire = "name" -> {1, 4, 5}
      [] f.wire = "text, if any" -> {0, 1, (Mod64 \div 2) - 1}
      [] f.kind = "bool" -> {0, 1}
      [] f.kind = "float" -> {1, 2}
      [] f.kind = "uint32" -> {1, Mod32 - 1}
      [] f.wire = "number" /\ f.kind = "int32" -> {1, (Mod32 \div 2) - 1, Mod32 \div 2}
      [] f.kind = "uint64" /\ f.wire = "number" -> {1, Mod64 - 1, Mod64}
      [] OTHER -> {0, 1, (Mod64 \div 2) - 1, Mod64 \div 2}

\* Only lists have items that are missing altogether: the participant itself may be
\* missing in the list that has its reputation.
Listed(g) ==
    CASE g \in {"participants", "pricing", "models", "statsModels", "weights"} -> Item
      [] g = "groupData" -> {"reputation"}
      [] OTHER -> {}

MayHold(g, x) ==
    IF x = Unnamed THEN {Nil, 1}
    ELSE {Bare} \cup Edges(Structure[g][x]) \cup (IF x \in Listed(g) THEN {Nil} ELSE {})

Sources(g) ==
    {s \in [DOMAIN Structure[g] -> UNION {MayHold(g, x) : x \in DOMAIN Structure[g]}] :
         \A x \in DOMAIN s : s[x] \in MayHold(g, x)}

NameOf(table, n) ==
    IF \E name \in DOMAIN table : table[name] = n
    THEN CHOOSE name \in DOMAIN table : table[name] = n ELSE "any other"

\* The sources write a field as its structure expects it; integers of 64 bits that
\* flexInt64 reads are written in the form of the source.
FormOf(wire) ==
    CASE wire = "number" -> "number"
      [] wire \in {"text", "text, if any", "name"} -> "text"
      [] OTHER -> form

\* A status is always written as a name, a phase by a source that writes text.
Written(g, s) ==
    [x \in DOMAIN s |->
        IF s[x] \in {Nil, Bare} THEN s[x]
        ELSE [form |-> FormOf(Structure[g][x].wire),
              value |-> CASE Structure[g][x].wire = "name" -> NameOf(participantStatusMap, s[x])
                          [] Structure[g][x].wire = "phase" /\ form = "text" ->
                                 NameOf(dkgPhaseNames, s[x])
                          [] OTHER -> s[x]]]

(***************************************************************************)
(* What each handler sets for a decoded answer.                            *)
(***************************************************************************)
Without(d, X) == [x \in DOMAIN d \ X |-> d[x]]
WithValue(d) == {x \in DOMAIN d : d[x] # Nil}
Named(d) == Without(d, {Unnamed} \cup (DOMAIN d \ WithValue(d)))

collectChain(d) == Without(d, DOMAIN d \ WithValue(d))

fetchAndSetChainEpoch(d) == d

\* The total weight also decides on what is computed from it.
fetchAndSetGroupData(d) ==
    Without(d, {x \in {"requests"} : d.requests <= 0} \cup
               {x \in {"total", "reputation"} : d.total <= 0 \/ d[x] = Nil})

fetchAndSetBLS(d) == Without(d, {x \in {"deadline"} : d.deadline <= 0})

\* A status that is not in the table is not shown.
fetchAndSetParticipantStats(d) ==
    IF d.status # Nil /\ d.status \in DOMAIN participantStatusMap
    THEN [d EXCEPT !.status = participantStatusMap[@]]
    ELSE Without(d, {"status"})

fetchAndSetWallet(d) == d

\* Faulty variant: nil weights are not skipped.
ParticipantsUnchecked(d) ==
    [x \in Item \cup {"total", "active"} |->
        IF x = "total" THEN Cardinality(WithValue(d))
        ELSE IF x = "active" THEN Cardinality(WithValue(d) \ {Unnamed}) ELSE d[x]]

collectNetworkParticipants(d) ==
    [x \in {y \in Item : d[y] \notin {Nil, Bare}} \cup {"total", "active"} |->
        IF x = "total" THEN Cardinality(WithValue(d))
        ELSE IF x = "active" THEN Cardinality(WithValue(d) \ {Unnamed}) ELSE d[x]]

collectPricing(d) == Named(d)
collectModels(d) == Named(d)
collectModelStats(d) == Named(d)
collectSummary(d) == d

collectBridge(d) == Without(d, {x \in {"earliest"} : d.earliest <= 0})

collectTokenomics(d) == d
collectCommit(d) == d
collectWeights(d) == Named(d)

Publication(g, d) ==
    CASE g = "collectChain" -> collectChain(d)
      [] g = "chainEpoch" -> fetchAndSetChainEpoch(d)
      [] g = "groupData" -> fetchAndSetGroupData(d)
      [] g = "bls" -> fetchAndSetBLS(d)
      [] g = "participantStats" -> fetchAndSetParticipantStats(d)
      [] g = "wallet" -> fetchAndSetWallet(d)
      [] g = "participants" -> collectNetworkParticipants(d)
      [] g = "pricing" -> collectPricing(d)
      [] g = "models" -> collectModels(d)
      [] g = "statsModels" -> collectModelStats(d)
      [] g = "summary" -> collectSummary(d)
      [] g = "bridge" -> collectBridge(d)
      [] g = "tokenomics" -> collectTokenomics(d)
      [] g = "commit" -> collectCommit(d)
      [] g = "weights" -> collectWeights(d)

Gauges(g) ==
    CASE g = "participants" -> Item \cup {"total", "active"}
      [] OTHER -> DOMAIN Structure[g] \ {Unnamed}

\* A gauge without labels is there from the start, with 0.
AtStart(g) ==
    [x \in Gauges(g) |->
        IF \/ g \in {"summary", "bridge", "tokenomics"}
           \/ g \in {"participants", "pricing"} /\ x \notin Item
        THEN 0 ELSE Nil]

\* Faulty variant: nothing is reset.
ResetNothing(g, gauges) == gauges

\* Only the lists of participants are reset before they are set.
Reset(g, gauges) ==
    [x \in DOMAIN gauges |-> IF g = "participants" /\ x \in Item THEN Nil ELSE gauges[x]]

(***************************************************************************)
(* Steps.                                                                  *)
(***************************************************************************)
Nothing == [x \in {} |-> 0]

Init ==
    /\ group \in Group
    /\ form \in {"number", "text"}
    /\ source \in Sources(group)
    /\ events = 0
    /\ shown = AtStart(group)
    /\ todo = Nothing
    /\ heard = Nil /\ told = {}

\* A request is answered, and every field of the answer can be decoded.
Answered ==
    /\ todo = Nothing
    /\ LET d == DecodedAll(Structure[group], Written(group, source))
       IN ~ Refused(d) /\ todo' = Publication(group, d)
    /\ shown' = Reset(group, shown)
    /\ heard' = source /\ told' = told \cup {source}
    /\ UNCHANGED <<group, form, source, events>>

\* It fails or is refused, or is not made in this cycle: every gauge stays as it is.
NotAnswered == todo = Nothing /\ UNCHANGED vars

Set(x) ==
    /\ x \in DOMAIN todo
    /\ shown' = [shown EXCEPT ![x] = todo[x]]
    /\ todo' = Without(todo, {x})
    /\ UNCHANGED <<group, form, source, events, heard, told>>

SetOne == \E x \in Gauges(group) : Set(x)

Change ==
    /\ events < MaxEvents
    /\ events' = events + 1
    /\ source' \in Sources(group)
    /\ UNCHANGED <<group, form, shown, todo, heard, told>>

Restart ==
    /\ events < MaxEvents
    /\ events' = events + 1
    /\ shown' = AtStart(group)
    /\ todo' = Nothing
    /\ heard' = Nil /\ told' = {}
    /\ UNCHANGED <<group, form, source>>

Next == Answered \/ NotAnswered \/ SetOne \/ Change \/ Restart

Spec == Init /\ [][Next]_vars

\* Cycles go on (CyclesGoOn of Exporter) and a cycle sets what it began to set; the
\* requests for one group do not fail for ever.
FairSpec == Spec /\ WF_vars(SetOne) /\ SF_vars(Answered)

(***************************************************************************)
(* Properties.                                                             *)
(***************************************************************************)
\* A gauge shows a natural number or is not there (no pointer is followed that is nil,
\* and no name or error is set: collector.go:126-213 and 779-870).
TypeOK ==
    /\ group \in Group /\ form \in {"number", "text"} /\ source \in Sources(group)
    /\ events \in 0 .. MaxEvents
    /\ DOMAIN shown = Gauges(group)
    /\ DOMAIN todo \subseteq Gauges(group)
    /\ \A x \in DOMAIN shown : shown[x] = Nil \/ shown[x] \in Nat
    /\ \A x \in DOMAIN todo : todo[x] \in Nat
    /\ heard \in Sources(group) \cup {Nil}
    /\ told \subseteq Sources(group)

\* What the source says of a gauge: a number, or Nil when it says nothing.
Says(s, x) ==
    CASE x = "total" /\ group = "participants" -> Cardinality(WithValue(s))
      [] x = "active" -> Cardinality(WithValue(s) \ {Unnamed})
      [] x = "status" -> IF s[x] \in {0, 1, 2, 3, 5} THEN s[x] ELSE Nil
      [] x = "reputation" -> IF s[x] \in Nat /\ s.total > 0 THEN s[x] ELSE Nil
      [] OTHER -> IF s[x] \in Nat THEN s[x] ELSE Nil

\* Gauges that keep an earlier value when the source has none.
Sticky ==
    CASE group = "collectChain" -> {"height"}
      [] group = "groupData" -> {"requests", "total", "reputation"}
      [] group = "bls" -> {"deadline"}
      [] group = "participantStats" -> {"status"}
      [] group = "bridge" -> {"earliest"}
      [] group \in {"pricing", "models", "statsModels", "weights"} -> Gauges(group)
      [] OTHER -> {}

Reflects(s) ==
    \A x \in Gauges(group) :
        LET said == Says(s, x)
        IN /\ said # Nil /\ (said > 0 \/ x \notin Sticky) => shown[x] = said
           /\ said = Nil /\ x \notin Sticky => shown[x] \in {Nil, 0}

\* At any moment a gauge shows what it started with, 0 for a field without a value, or
\* exactly what an answer of this process said of it: no number is wrapped, cut off or
\* taken from a refused answer on its way (fetcher.go:17-33, fetcher_cosmos.go:223-271).
NeverInvented ==
    \A x \in Gauges(group) :
        \/ shown[x] \in {AtStart(group)[x], 0}
        \/ \E s \in told : shown[x] = Says(s, x)

\* Between two answers the gauges of a group are all of the last one that could be
\* decoded: no mixture with an older one (an item that is gone is not shown), none with
\* one that was refused half-way (collector.go:132-134, fetcher.go:35-49).
OneAnswer == todo = Nothing /\ heard # Nil => Reflects(heard)

\* Every number of the source fits the Go type it is decoded into.
Readable(s) ==
    \A x \in DOMAIN s :
        LET f == Structure[group][x]
        IN /\ s[x] = Bare => f.missing # Error
           /\ s[x] \in Nat /\ f.wire \in {"flex", "text", "text, if any"} => s[x] < Mod64 \div 2
           /\ s[x] \in Nat /\ f.wire \in {"number", "phase"} => s[x] \in Kept(f.kind)

\* Whatever answers were lost or refused and however often the process restarted, the
\* gauges come back to what the source says, in whichever form it writes its integers
\* (fetcher.go:14-33), unless it writes a number that does not fit.
FollowsSource == []<>(~ Readable(source) \/ Reflects(source))
=============================================================================
