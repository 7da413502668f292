------------------------ MODULE NetworkGaugesProofs ------------------------
(***************************************************************************)
(* What the gauges that copy an answer show, for every width of the        *)
(* integers, every list of items and every number of answers, changes and  *)
(* restarts: proofs for NetworkGauges.                                     *)
(***************************************************************************)
EXTENDS NetworkGauges, FiniteSetTheorems, TLAPS

(***************************************************************************)
(* Widths.                                                                 *)
(***************************************************************************)
LEMMA Remainder ==
  ASSUME NEW m \in Nat, NEW n \in Nat, n < m
  PROVE  n % m = n
  OBVIOUS

LEMMA Halves ==
  ASSUME NEW m \in Nat, m % 2 = 0
  PROVE  m \div 2 \in Nat /\ 2 * (m \div 2) = m
  OBVIOUS

\* Where the widths are, in the order that the edges need.
LEMMA Widths ==
  /\ Mod32 \in Nat /\ Mod64 \in Nat /\ Mod32 \div 2 \in Nat /\ Mod64 \div 2 \in Nat
  /\ 5 < Mod32 \div 2 /\ Mod32 \div 2 < Mod32 /\ Mod32 <= Mod64 \div 2 /\ Mod64 \div 2 < Mod64
<1>1. Mod32 \div 2 \in Nat /\ 2 * (Mod32 \div 2) = Mod32
  BY WidthAssumption, Halves
<1>2. Mod64 \div 2 \in Nat /\ 2 * (Mod64 \div 2) = Mod64
  BY WidthAssumption, Halves
<1> DEFINE half32 == Mod32 \div 2
           half64 == Mod64 \div 2
<1> HIDE DEF half32, half64
<1>3. half32 \in Nat /\ 2 * half32 = Mod32 /\ half64 \in Nat /\ 2 * half64 = Mod64
  BY <1>1, <1>2 DEF half32, half64
<1>4. /\ 5 < half32 /\ half32 < Mod32 /\ Mod32 <= half64 /\ half64 < Mod64
  BY <1>3, WidthAssumption
<1> QED
  BY <1>1, <1>2, <1>4, WidthAssumption DEF half32, half64

(***************************************************************************)
(* Fields.  What a source writes of a value is decoded as that value, or   *)
(* refused: never as another one.                                          *)
(***************************************************************************)
FieldKinds ==
    {Field("text, if any", "int64", Nil), Field("number", "bool", 0),
     Field("text", "int64", Error), Field("flex", "int64", 0), Field("phase", "int32", 0),
     Field("name", "", Nil), Field("text", "int64", 0), Field("number", "float", Bare),
     Field("number", "float", Nil), Field("number", "int32", 0), Field("number", "int64", 0),
     Field("number", "uint64", 0), Field("flex", "uint64", 0), Field("flex", "uint32", 0)}

\* The kinds and the values of missing fields that go with the ways to write one.
Shape(f) ==
    /\ f.wire \in {"flex", "number", "text", "text, if any", "phase", "name"}
    /\ f.wire = "flex" => f.kind \in {"int64", "uint64", "uint32"} /\ f.missing = 0
    /\ f.wire = "number" => f.kind \in {"bool", "float", "int32", "int64", "uint64"}
    /\ f.wire = "text" => f.kind = "int64"
    /\ f.wire = "text, if any" => f.kind = "int64" /\ f.missing = Nil
    /\ f.wire = "phase" => f.kind = "int32" /\ f.missing = 0
    /\ f.wire = "name" => f.kind = "" /\ f.missing = Nil

LEMMA FieldShapes ==
  ASSUME NEW f \in FieldKinds
  PROVE  Shape(f)
<1>1. Shape(Field("text, if any", "int64", Nil))
  BY DEF Field, Shape
<1>2. Shape(Field("number", "bool", 0))
  BY DEF Field, Shape
<1>3. Shape(Field("text", "int64", Error))
  BY DEF Field, Shape
<1>4. Shape(Field("flex", "int64", 0))
  BY DEF Field, Shape
<1>5. Shape(Field("phase", "int32", 0))
  BY DEF Field, Shape
<1>6. Shape(Field("name", "", Nil))
  BY DEF Field, Shape
<1>7. Shape(Field("text", "int64", 0))
  BY DEF Field, Shape
<1>8. Shape(Field("number", "float", Bare))
  BY DEF Field, Shape
<1>9. Shape(Field("number", "float", Nil))
  BY DEF Field, Shape
<1>10. Shape(Field("number", "int32", 0))
  BY DEF Field, Shape
<1>11. Shape(Field("number", "int64", 0))
  BY DEF Field, Shape
<1>12. Shape(Field("number", "uint64", 0))
  BY DEF Field, Shape
<1>13. Shape(Field("flex", "uint64", 0))
  BY DEF Field, Shape
<1>14. Shape(Field("flex", "uint32", 0))
  BY DEF Field, Shape
<1> QED
  BY <1>1, <1>2, <1>3, <1>4, <1>5, <1>6, <1>7, <1>8, <1>9, <1>10, <1>11, <1>12, <1>13, <1>14 DEF FieldKinds

Structures ==
    {"collectChain", "chainEpoch", "groupData", "bls", "participantStats", "wallet",
     "participants", "pricing", "models", "statsModels", "summary", "bridge", "tokenomics",
     "commit", "weights"}

LEMMA StructureNames == DOMAIN Structure = Structures
  BY DEF Structure, Structures

LEMMA StructureOf ==
  /\ Structure["collectChain"] = TendermintStatus
  /\ Structure["chainEpoch"] = CurrentEpoch
  /\ Structure["groupData"] = EpochGroupData
  /\ Structure["bls"] = BLSEpochData
  /\ Structure["participantStats"] = ParticipantStats
  /\ Structure["wallet"] = WalletBalance
  /\ Structure["summary"] = StatsSummary
  /\ Structure["bridge"] = BridgeStatus
  /\ Structure["tokenomics"] = TokenomicsData
  /\ Structure["commit"] = PoCv2Commit
  /\ Structure["participants"] = NetworkParticipants
  /\ Structure["pricing"] = PricingData
  /\ Structure["models"] = ModelData
  /\ Structure["statsModels"] = StatsModels
  /\ Structure["weights"] = MLNodeWeightDist
  BY DEF Structure

LEMMA Domains ==
  /\ DOMAIN TendermintStatus = {"height", "catchingUp"}
  /\ DOMAIN CurrentEpoch = {"epoch"}
  /\ DOMAIN EpochGroupData = {"total", "requests", "reputation"}
  /\ DOMAIN BLSEpochData = {"phase", "deadline"}
  /\ DOMAIN ParticipantStats = {"count", "status"}
  /\ DOMAIN WalletBalance = {"amount"}
  /\ DOMAIN StatsSummary = {"tokens", "inferences"}
  /\ DOMAIN BridgeStatus = {"pending", "earliest"}
  /\ DOMAIN TokenomicsData = {"fees", "burned"}
  /\ DOMAIN PoCv2Commit = {"count"}
  /\ DOMAIN NetworkParticipants = Item \cup {Unnamed}
  /\ DOMAIN PricingData = Item \cup {Unnamed, "unit"}
  /\ DOMAIN ModelData = Item \cup {Unnamed}
  /\ DOMAIN StatsModels = Item \cup {Unnamed}
  /\ DOMAIN MLNodeWeightDist = Item \cup {Unnamed}
  BY DEF TendermintStatus, CurrentEpoch, EpochGroupData, BLSEpochData, ParticipantStats,
     WalletBalance, StatsSummary, BridgeStatus, TokenomicsData, PoCv2Commit,
     NetworkParticipants, PricingData, ModelData, StatsModels, MLNodeWeightDist, Each

LEMMA StructureFields ==
  ASSUME NEW g \in Structures, NEW x \in DOMAIN Structure[g]
  PROVE  Structure[g][x] \in FieldKinds
<1>1. CASE g \in {"participants", "pricing", "models", "statsModels", "weights"}
  <2>1. /\ \A y \in Item \cup {Unnamed} : NetworkParticipants[y] \in FieldKinds
        /\ \A y \in Item \cup {Unnamed, "unit"} : PricingData[y] \in FieldKinds
        /\ \A y \in Item \cup {Unnamed} : ModelData[y] \in FieldKinds
        /\ \A y \in Item \cup {Unnamed} : StatsModels[y] \in FieldKinds
        /\ \A y \in Item \cup {Unnamed} : MLNodeWeightDist[y] \in FieldKinds
    BY DEF NetworkParticipants, PricingData, ModelData, StatsModels, MLNodeWeightDist, Each, FieldKinds
  <2> QED
    BY <1>1, <2>1, StructureOf, Domains
<1>2. CASE g \in {"collectChain", "chainEpoch", "groupData", "bls", "participantStats"}
  <2>1. /\ TendermintStatus.height \in FieldKinds
        /\ TendermintStatus.catchingUp \in FieldKinds
        /\ CurrentEpoch.epoch \in FieldKinds
        /\ EpochGroupData.total \in FieldKinds
        /\ EpochGroupData.requests \in FieldKinds
        /\ EpochGroupData.reputation \in FieldKinds
        /\ BLSEpochData.phase \in FieldKinds
        /\ BLSEpochData.deadline \in FieldKinds
        /\ ParticipantStats.count \in FieldKinds
        /\ ParticipantStats.status \in FieldKinds
    BY DEF TendermintStatus, CurrentEpoch, EpochGroupData, BLSEpochData, ParticipantStats, FieldKinds
  <2> QED
    BY <1>2, <2>1, StructureOf, Domains
<1>3. CASE g \in {"wallet", "summary", "bridge", "tokenomics", "commit"}
  <2>1. /\ WalletBalance.amount \in FieldKinds
        /\ StatsSummary.tokens \in FieldKinds
        /\ StatsSummary.inferences \in FieldKinds
        /\ BridgeStatus.pending \in FieldKinds
        /\ BridgeStatus.earliest \in FieldKinds
        /\ TokenomicsData.fees \in FieldKinds
        /\ TokenomicsData.burned \in FieldKinds
        /\ PoCv2Commit.count \in FieldKinds
    BY DEF WalletBalance, StatsSummary, BridgeStatus, TokenomicsData, PoCv2Commit, FieldKinds
  <2> QED
    BY <1>3, <2>1, StructureOf, Domains
<1> QED
  BY <1>1, <1>2, <1>3 DEF Structures

LEMMA EdgesNatural ==
  ASSUME NEW f \in FieldKinds
  PROVE  Edges(f) \subseteq Nat /\ 1 \in Edges(f)
<1> DEFINE half64 == Mod64 \div 2
           half32 == Mod32 \div 2
<1>1. Mod64 \in Nat /\ half64 \in Nat /\ half32 \in Nat /\ Mod32 \in Nat
      /\ half64 > 0 /\ half32 > 0 /\ Mod32 > 0 /\ Mod64 > 0
  BY Widths
<1>2. Edges(f) \in {0 .. 5, {1, 4, 5}, {0, 1, half64 - 1}, {0, 1}, {1, 2}, {1, Mod32 - 1},
                    {1, half32 - 1, half32}, {1, Mod64 - 1, Mod64}, {0, 1, half64 - 1, half64}}
  BY DEF Edges
<1> HIDE DEF half64, half32
<1> QED
  BY <1>1, <1>2

LEMMA FlexKeeps ==
  ASSUME NEW kind \in {"int64", "uint64"}, NEW v \in Nat, NEW form_,
         NEW j, j = [form |-> form_, value |-> v]
  PROVE  Flex(kind, j) \in {v, Error}
<1>1. CASE v < Mod64 \div 2
  <2>1. v % Mod64 = v
    BY <1>1, Widths, Remainder
  <2> QED
    BY <1>1, <2>1 DEF Flex, Converted
<1>2. CASE ~ (v < Mod64 \div 2)
  BY <1>2, Widths DEF Flex, Kept, Signed
<1> QED
  BY <1>1, <1>2

LEMMA FlexKeepsSmall ==
  ASSUME NEW v \in Nat, v < Mod32, NEW form_, NEW j, j = [form |-> form_, value |-> v]
  PROVE  Flex("uint32", j) \in {v, Error}
<1>1. v % Mod32 = v
  BY Widths, Remainder
<1> QED
  BY <1>1 DEF Flex, Converted

LEMMA PhaseNames ==
  ASSUME NEW v \in 0 .. 5
  PROVE  /\ NameOf(dkgPhaseNames, v) \in DOMAIN dkgPhaseNames
         /\ dkgPhaseNames[NameOf(dkgPhaseNames, v)] = v
<1>1. \E name \in DOMAIN dkgPhaseNames : dkgPhaseNames[name] = v
  <2>1. /\ dkgPhaseNames["DKG_PHASE_UNDEFINED"] = 0 /\ dkgPhaseNames["DKG_PHASE_DEALING"] = 1
        /\ dkgPhaseNames["DKG_PHASE_VERIFYING"] = 2 /\ dkgPhaseNames["DKG_PHASE_COMPLETED"] = 3
        /\ dkgPhaseNames["DKG_PHASE_FAILED"] = 4 /\ dkgPhaseNames["DKG_PHASE_SIGNED"] = 5
    BY DEF dkgPhaseNames
  <2>2. {"DKG_PHASE_UNDEFINED", "DKG_PHASE_DEALING", "DKG_PHASE_VERIFYING",
         "DKG_PHASE_COMPLETED", "DKG_PHASE_FAILED", "DKG_PHASE_SIGNED"} = DOMAIN dkgPhaseNames
    BY DEF dkgPhaseNames
  <2>3. v = 0 \/ v = 1 \/ v = 2 \/ v = 3 \/ v = 4 \/ v = 5
    OBVIOUS
  <2> QED
    BY <2>1, <2>2, <2>3
<1> QED
  BY <1>1 DEF NameOf

LEMMA PhaseKeeps ==
  ASSUME NEW v \in 0 .. 5
  PROVE  /\ Phase([form |-> "number", value |-> v]) = v
         /\ Phase([form |-> "text", value |-> NameOf(dkgPhaseNames, v)]) = v
<1>1. v % Mod32 = v /\ v < Mod32 \div 2
  BY Widths, Remainder
<1> QED
  BY <1>1, PhaseNames DEF Phase, Converted

\* How a source writes a number.
Form(f, v) ==
    [form |-> FormOf(f.wire),
     value |-> IF f.wire = "phase" /\ form = "text" THEN NameOf(dkgPhaseNames, v) ELSE v]

LEMMA EdgeKept ==
  ASSUME NEW f \in FieldKinds, f.wire # "name", NEW v \in Edges(f), form \in {"number", "text"}
  PROVE  Decoded(f, Form(f, v)) \in {v, Error}
<1>1. v \in Nat /\ v \in Int
  BY EdgesNatural
<1>2. FormOf(f.wire) \in {"number", "text"}
  BY DEF FormOf
<1>3. Form(f, v) # Nil /\ Form(f, v) # Bare
  <2>1. f.wire = "phase" => NameOf(dkgPhaseNames, v) \in DOMAIN dkgPhaseNames
    <3> SUFFICES ASSUME f.wire = "phase" PROVE NameOf(dkgPhaseNames, v) \in DOMAIN dkgPhaseNames
      OBVIOUS
    <3>1. v \in 0 .. 5
      BY FieldShapes DEF Edges, Shape
    <3> QED
      BY <3>1, PhaseNames
  <2>2. Form(f, v) \in OnTheWire
    BY <1>1, <1>2, <2>1 DEF Form, OnTheWire
  <2> QED
    BY <2>2, NamesAssumption
<1>4. CASE f.wire = "flex"
  <2>1. Form(f, v) = [form |-> FormOf(f.wire), value |-> v]
    BY <1>4 DEF Form
  <2>2. CASE f.kind \in {"int64", "uint64"}
    BY <1>1, <1>3, <1>4, <2>1, <2>2, FlexKeeps DEF Decoded
  <2>3. CASE f.kind = "uint32"
    <3>1. v \in {1, Mod32 - 1}
      BY <1>4, <2>3 DEF Edges
    <3>2. v < Mod32
      BY <3>1, Widths
    <3> QED
      BY <1>1, <1>3, <1>4, <2>1, <2>3, <3>2, FlexKeepsSmall DEF Decoded
  <2> QED
    BY <1>4, <2>2, <2>3, FieldShapes DEF Shape
<1>5. CASE f.wire = "number"
  BY <1>3, <1>5 DEF Decoded, Number, Form
<1>6. CASE f.wire = "text"
  BY <1>3, <1>6 DEF Decoded, Text, Form
<1>7. CASE f.wire = "text, if any"
  <2>1. v \in {0, 1, (Mod64 \div 2) - 1}
    BY <1>7, FieldShapes DEF Edges, Shape
  <2>2. v \in Kept("int64")
    <3> DEFINE half == Mod64 \div 2
    <3>1. half \in Nat /\ half > 5
      BY Widths
    <3>2. v \in {0, 1, half - 1}
      BY <2>1
    <3>3. Kept("int64") = -half .. half - 1
      BY DEF Kept, Signed
    <3> HIDE DEF half
    <3> QED
      BY <3>1, <3>2, <3>3
  <2>3. FormOf(f.wire) = "text"
    BY <1>7 DEF FormOf
  <2> QED
    BY <1>3, <1>7, <2>2, <2>3 DEF Decoded, TextIfAny, Form
<1>8. CASE f.wire = "phase"
  <2>1. v \in 0 .. 5
    BY <1>8, FieldShapes DEF Edges, Shape
  <2>2. Decoded(f, Form(f, v)) = Phase(Form(f, v))
    BY <1>3, <1>8 DEF Decoded
  <2>3. Form(f, v) \in {[form |-> "number", value |-> v],
                        [form |-> "text", value |-> NameOf(dkgPhaseNames, v)]}
    BY <1>8 DEF Form, FormOf
  <2> QED
    BY <2>1, <2>2, <2>3, PhaseKeeps
<1>9. f.wire \in {"flex", "number", "text", "text, if any", "phase"}
  BY FieldShapes DEF Shape
<1> QED
  BY <1>4, <1>5, <1>6, <1>7, <1>8, <1>9

(***************************************************************************)
(* Answers.  An accepted answer holds, field by field, what its source     *)
(* says, the value of a missing field where the source leaves it out, and  *)
(* nothing of an item that the source does not list.                       *)
(***************************************************************************)
Meant(f, v) == IF v = Nil THEN Nil ELSE IF v = Bare THEN f.missing ELSE v

LEMMA SourceValue ==
  ASSUME NEW g \in Structures, NEW s \in Sources(g)
  PROVE  /\ DOMAIN s = DOMAIN Structure[g]
         /\ \A x \in DOMAIN Structure[g] :
                /\ s[x] \in MayHold(g, x)
                /\ s[x] \in {Nil, Bare} \cup Edges(Structure[g][x])
                /\ s[x] \in {Nil, Bare} \cup Nat
<1>1. DOMAIN s = DOMAIN Structure[g] /\ \A x \in DOMAIN Structure[g] : s[x] \in MayHold(g, x)
  BY DEF Sources
<1>2. ASSUME NEW x \in DOMAIN Structure[g] PROVE 1 \in Edges(Structure[g][x])
  BY StructureFields, EdgesNatural
<1>3. \A x \in DOMAIN Structure[g] : s[x] \in {Nil, Bare} \cup Edges(Structure[g][x])
  BY <1>1, <1>2 DEF MayHold
<1>4. \A x \in DOMAIN Structure[g] : Edges(Structure[g][x]) \subseteq Nat
  BY StructureFields, EdgesNatural
<1> QED
  BY <1>1, <1>3, <1>4

LEMMA FieldHeard ==
  ASSUME NEW g \in Structures, NEW s \in Sources(g), form \in {"number", "text"},
         NEW d, d = DecodedAll(Structure[g], Written(g, s)), ~ Refused(d)
  PROVE  /\ DOMAIN d = DOMAIN Structure[g]
         /\ \A x \in DOMAIN Structure[g] :
                Structure[g][x].wire # "name" => d[x] = Meant(Structure[g][x], s[x])
<1>1. DOMAIN d = DOMAIN Structure[g]
  BY DEF DecodedAll
<1> SUFFICES ASSUME NEW x \in DOMAIN Structure[g], Structure[g][x].wire # "name"
             PROVE  d[x] = Meant(Structure[g][x], s[x])
  BY <1>1
<1> DEFINE f == Structure[g][x]
<1>2. f \in FieldKinds
  BY StructureFields
<1>3. d[x] = Decoded(f, Written(g, s)[x]) /\ d[x] # Error
  BY <1>1 DEF DecodedAll, Refused
<1>4. s[x] \in {Nil, Bare} \cup Edges(f) /\ x \in DOMAIN s
  BY SourceValue
<1>5. CASE s[x] \in {Nil, Bare}
  <2>1. Written(g, s)[x] = s[x]
    BY <1>4, <1>5 DEF Written
  <2> QED
    BY <1>3, <1>5, <2>1 DEF Decoded, Meant
<1>6. CASE s[x] \notin {Nil, Bare}
  <2>1. Written(g, s)[x] = Form(f, s[x])
    BY <1>4, <1>6 DEF Written, Form
  <2>2. Decoded(f, Form(f, s[x])) \in {s[x], Error}
    BY <1>2, <1>4, <1>6, EdgeKept
  <2> QED
    BY <1>3, <1>6, <2>1, <2>2 DEF Meant
<1> QED
  BY <1>5, <1>6

\* The groups whose answers have every field, or 0 where one is missing.
Complete == {"chainEpoch", "bls", "wallet", "summary", "bridge", "tokenomics", "commit"}

\* The lists of items.
Lists == {"pricing", "models", "statsModels", "weights"}

LEMMA CompleteFields ==
  ASSUME NEW g \in Complete, NEW x \in DOMAIN Structure[g]
  PROVE  /\ Structure[g][x].wire # "name" /\ Structure[g][x].missing \in {0, Error}
         /\ x \notin {Unnamed, "active", "status", "reputation", "total"} /\ Listed(g) = {}
<1>1. /\ CurrentEpoch.epoch = Field("text", "int64", Error)
      /\ BLSEpochData.phase = Field("phase", "int32", 0)
      /\ BLSEpochData.deadline = Field("flex", "int64", 0)
      /\ WalletBalance.amount = Field("text", "int64", 0)
      /\ StatsSummary.tokens = Field("number", "int64", 0)
      /\ StatsSummary.inferences = Field("number", "int32", 0)
  BY DEF CurrentEpoch, BLSEpochData, WalletBalance, StatsSummary
<1>2. /\ BridgeStatus.pending = Field("number", "int64", 0)
      /\ BridgeStatus.earliest = Field("number", "uint64", 0)
      /\ TokenomicsData.fees = Field("flex", "uint64", 0)
      /\ TokenomicsData.burned = Field("flex", "uint64", 0)
      /\ PoCv2Commit.count = Field("flex", "uint32", 0)
  BY DEF BridgeStatus, TokenomicsData, PoCv2Commit
<1>3. Structure[g][x].wire # "name" /\ Structure[g][x].missing \in {0, Error}
  BY <1>1, <1>2, StructureOf, Domains DEF Complete, Field
<1>4. x \notin {Unnamed, "active", "status", "reputation", "total"}
  BY StructureOf, Domains DEF Complete, Unnamed
<1>5. Listed(g) = {}
  BY DEF Listed, Complete
<1> QED
  BY <1>3, <1>4, <1>5

LEMMA CompleteHeard ==
  ASSUME NEW g \in Complete, NEW s \in Sources(g), form \in {"number", "text"},
         NEW d, d = DecodedAll(Structure[g], Written(g, s)), ~ Refused(d)
  PROVE  /\ DOMAIN d = DOMAIN Structure[g]
         /\ \A x \in DOMAIN Structure[g] :
                /\ d[x] = IF s[x] \in Nat THEN s[x] ELSE 0
                /\ Says(s, x) = IF s[x] \in Nat THEN s[x] ELSE Nil
<1>1. g \in Structures
  BY DEF Complete, Structures
<1>2. DOMAIN d = DOMAIN Structure[g]
  BY <1>1, FieldHeard
<1> SUFFICES ASSUME NEW x \in DOMAIN Structure[g]
             PROVE  /\ d[x] = IF s[x] \in Nat THEN s[x] ELSE 0
                    /\ Says(s, x) = IF s[x] \in Nat THEN s[x] ELSE Nil
  BY <1>2
<1>3. d[x] = Meant(Structure[g][x], s[x]) /\ d[x] # Error
  BY <1>1, <1>2, FieldHeard, CompleteFields DEF Refused
<1>4. s[x] \in {Bare} \cup Nat
  <2>1. s[x] \in MayHold(g, x) /\ s[x] \in {Nil, Bare} \cup Nat
    BY <1>1, SourceValue
  <2>2. MayHold(g, x) = {Bare} \cup Edges(Structure[g][x])
    BY CompleteFields DEF MayHold
  <2>3. Edges(Structure[g][x]) \subseteq Nat
    BY <1>1, StructureFields, EdgesNatural
  <2> QED
    BY <2>1, <2>2, <2>3
<1>5. d[x] = IF s[x] \in Nat THEN s[x] ELSE 0
  BY <1>3, <1>4, CompleteFields, NamesAssumption DEF Meant
<1>6. Says(s, x) = IF s[x] \in Nat THEN s[x] ELSE Nil
  BY CompleteFields DEF Says
<1> QED
  BY <1>5, <1>6

(***************************************************************************)
(* Publications.  What is about to be set for an answer is what the source *)
(* said, or 0; and nothing that it said is left out, except what a sticky  *)
(* gauge leaves out and the items of a list that is reset.                 *)
(***************************************************************************)
Publishes(s, P) ==
    /\ DOMAIN P \subseteq Gauges(group)
    /\ \A x \in DOMAIN P : P[x] \in Nat /\ P[x] \in {0, Says(s, x)}
    /\ \A x \in Gauges(group) :
           /\ Says(s, x) # Nil /\ (Says(s, x) > 0 \/ x \notin Sticky) =>
                  x \in DOMAIN P /\ P[x] = Says(s, x)
           /\ Says(s, x) = Nil /\ x \notin Sticky =>
                  IF x \in DOMAIN P THEN P[x] = 0 ELSE group = "participants" /\ x \in Item

LEMMA PublishComplete ==
  ASSUME group \in Complete, NEW s \in Sources(group), form \in {"number", "text"},
         NEW d, d = DecodedAll(Structure[group], Written(group, s)), ~ Refused(d)
  PROVE  Publishes(s, Publication(group, d))
<1> DEFINE g == group
           P == Publication(group, d)
<1>1. /\ DOMAIN d = DOMAIN Structure[g]
      /\ \A x \in DOMAIN Structure[g] :
             /\ d[x] = IF s[x] \in Nat THEN s[x] ELSE 0
             /\ Says(s, x) = IF s[x] \in Nat THEN s[x] ELSE Nil
  BY CompleteHeard
<1>2. Gauges(g) = DOMAIN Structure[g]
  <2>1. Gauges(g) = DOMAIN Structure[g] \ {Unnamed}
    BY DEF Gauges, Complete
  <2> QED
    BY <2>1, CompleteFields
<1>3. /\ DOMAIN P \subseteq DOMAIN Structure[g]
      /\ \A x \in DOMAIN P : P[x] = d[x]
      /\ \A x \in DOMAIN Structure[g] : x \notin DOMAIN P => x \in Sticky /\ d[x] <= 0
  <2>1. CASE g \in {"chainEpoch", "wallet", "summary", "tokenomics", "commit"}
    <3>1. P = d
      BY <2>1 DEF Publication, fetchAndSetChainEpoch, fetchAndSetWallet, collectSummary,
         collectTokenomics, collectCommit
    <3> QED
      BY <1>1, <3>1
  <2>2. CASE g = "bls"
    <3>1. P = Without(d, {x \in {"deadline"} : d.deadline <= 0}) /\ Sticky = {"deadline"}
      BY <2>2 DEF Publication, fetchAndSetBLS, Sticky
    <3> QED
      BY <1>1, <3>1 DEF Without
  <2>3. CASE g = "bridge"
    <3>1. P = Without(d, {x \in {"earliest"} : d.earliest <= 0}) /\ Sticky = {"earliest"}
      BY <2>3 DEF Publication, collectBridge, Sticky
    <3> QED
      BY <1>1, <3>1 DEF Without
  <2> QED
    BY <2>1, <2>2, <2>3 DEF Complete
<1> HIDE DEF P
<1>4. \A x \in DOMAIN P : P[x] \in Nat /\ P[x] \in {0, Says(s, x)}
  BY <1>1, <1>3
<1>5. ASSUME NEW x \in Gauges(g), Says(s, x) # Nil, Says(s, x) > 0 \/ x \notin Sticky
      PROVE  x \in DOMAIN P /\ P[x] = Says(s, x)
  <2>1. s[x] \in Nat /\ d[x] = Says(s, x)
    BY <1>1, <1>2, <1>5
  <2>2. x \in DOMAIN P
    BY <1>1, <1>2, <1>3, <1>5, <2>1
  <2> QED
    BY <1>3, <2>1, <2>2
<1>6. ASSUME NEW x \in Gauges(g), Says(s, x) = Nil, x \notin Sticky
      PROVE  x \in DOMAIN P /\ P[x] = 0
  <2>1. d[x] = 0
    BY <1>1, <1>2, <1>6, NamesAssumption
  <2> QED
    BY <1>2, <1>3, <1>6, <2>1
<1> QED
  BY <1>2, <1>3, <1>4, <1>5, <1>6 DEF Publishes, P

LEMMA ListFields ==
  ASSUME NEW g \in Lists
  PROVE  /\ DOMAIN Structure[g] \subseteq Item \cup {Unnamed, "unit"}
         /\ \A x \in DOMAIN Structure[g] :
                Structure[g][x].wire # "name" /\ Structure[g][x].missing \in {0, Nil}
<1>1. DOMAIN Structure[g] \subseteq Item \cup {Unnamed, "unit"}
  BY StructureOf, Domains DEF Lists
<1>2. /\ \A x \in DOMAIN PricingData : PricingData[x] = Field("number", "float", Nil)
      /\ \A x \in DOMAIN ModelData : ModelData[x] = Field("number", "float", Nil)
      /\ \A x \in DOMAIN StatsModels : StatsModels[x] = Field("number", "int32", 0)
      /\ \A x \in DOMAIN MLNodeWeightDist : MLNodeWeightDist[x] = Field("flex", "uint32", 0)
  BY DEF PricingData, ModelData, StatsModels, MLNodeWeightDist, Each
<1>3. \A x \in DOMAIN Structure[g] :
          Structure[g][x].wire # "name" /\ Structure[g][x].missing \in {0, Nil}
  BY <1>2, StructureOf DEF Lists, Field
<1> QED
  BY <1>1, <1>3

LEMMA PublishList ==
  ASSUME group \in Lists, NEW s \in Sources(group), form \in {"number", "text"},
         NEW d, d = DecodedAll(Structure[group], Written(group, s)), ~ Refused(d)
  PROVE  Publishes(s, Publication(group, d))
<1> DEFINE P == Publication(group, d)
<1>1. group \in Structures
  BY DEF Lists, Structures
<1>2. /\ DOMAIN d = DOMAIN Structure[group]
      /\ \A x \in DOMAIN Structure[group] :
             /\ d[x] = Meant(Structure[group][x], s[x])
             /\ s[x] \in {Nil, Bare} \cup Nat
  BY <1>1, FieldHeard, ListFields, SourceValue
<1>3. Gauges(group) = DOMAIN Structure[group] \ {Unnamed} /\ Sticky = Gauges(group)
  BY DEF Gauges, Lists, Sticky
<1>4. P = Named(d)
  BY DEF Publication, Lists, collectPricing, collectModels, collectModelStats, collectWeights
<1>5. /\ DOMAIN P = {x \in Gauges(group) : d[x] # Nil}
      /\ \A x \in DOMAIN P : P[x] = d[x]
  BY <1>2, <1>3, <1>4 DEF Named, Without, WithValue
<1>6. ASSUME NEW x \in Gauges(group) PROVE Says(s, x) = IF s[x] \in Nat THEN s[x] ELSE Nil
  <2>1. x \in Item \cup {"unit"}
    BY <1>3, ListFields
  <2>2. x \notin {"active", "status", "reputation"} /\ group # "participants"
    BY <2>1, ItemAssumption DEF Lists
  <2> QED
    BY <2>2 DEF Says
<1>7. \A x \in Gauges(group) :
          /\ s[x] \in Nat => d[x] = s[x] /\ d[x] # Nil
          /\ s[x] \notin Nat => d[x] \in {0, Nil}
  BY <1>2, <1>3, ListFields, NamesAssumption DEF Meant
<1> HIDE DEF P
<1>8. \A x \in DOMAIN P : P[x] \in Nat /\ P[x] \in {0, Says(s, x)}
  BY <1>5, <1>6, <1>7
<1>9. \A x \in Gauges(group) : Says(s, x) # Nil => x \in DOMAIN P /\ P[x] = Says(s, x)
  BY <1>5, <1>6, <1>7
<1> QED
  BY <1>3, <1>5, <1>8, <1>9 DEF Publishes, P

LEMMA PublishStatus ==
  ASSUME group = "collectChain", NEW s \in Sources(group), form \in {"number", "text"},
         NEW d, d = DecodedAll(Structure[group], Written(group, s)), ~ Refused(d)
  PROVE  Publishes(s, Publication(group, d))
<1> DEFINE P == Publication(group, d)
<1>1. group \in Structures /\ DOMAIN Structure[group] = {"height", "catchingUp"}
  BY StructureOf, Domains DEF Structures
<1>2. /\ Structure[group]["height"].wire # "name" /\ Structure[group]["height"].missing = Nil
      /\ Structure[group]["catchingUp"].wire # "name"
      /\ Structure[group]["catchingUp"].missing = 0
  <2>1. /\ TendermintStatus.height.wire = "text, if any" /\ TendermintStatus.height.missing = Nil
        /\ TendermintStatus.catchingUp.wire = "number" /\ TendermintStatus.catchingUp.missing = 0
    BY DEF TendermintStatus, Field
  <2> QED
    BY <2>1, StructureOf
<1>3. \A x \in {"height", "catchingUp"} : s[x] \in {Bare} \cup Nat
  <2>1. \A x \in {"height", "catchingUp"} :
            s[x] \in MayHold(group, x) /\ Edges(Structure[group][x]) \subseteq Nat
    BY <1>1, SourceValue, StructureFields, EdgesNatural
  <2> QED
    BY <2>1 DEF MayHold, Listed, Unnamed
<1>4. /\ DOMAIN d = {"height", "catchingUp"}
      /\ d["height"] = IF s["height"] \in Nat THEN s["height"] ELSE Nil
      /\ d["catchingUp"] = IF s["catchingUp"] \in Nat THEN s["catchingUp"] ELSE 0
  <2>1. /\ DOMAIN d = {"height", "catchingUp"}
        /\ d["height"] = Meant(Structure[group]["height"], s["height"])
        /\ d["catchingUp"] = Meant(Structure[group]["catchingUp"], s["catchingUp"])
    BY <1>1, <1>2, FieldHeard
  <2> QED
    BY <1>2, <1>3, <2>1, NamesAssumption DEF Meant
<1>5. \A x \in {"height", "catchingUp"} : Says(s, x) = IF s[x] \in Nat THEN s[x] ELSE Nil
  BY DEF Says
<1>6. Gauges(group) = {"height", "catchingUp"} /\ Sticky = {"height"}
  BY <1>1 DEF Gauges, Sticky, Unnamed
<1>7. P = Without(d, DOMAIN d \ WithValue(d))
  BY DEF Publication, collectChain
<1>8. /\ DOMAIN P = {x \in {"height", "catchingUp"} : d[x] # Nil}
      /\ \A x \in DOMAIN P : P[x] = d[x]
  BY <1>4, <1>7 DEF Without, WithValue
<1> HIDE DEF P
<1>9. \A x \in DOMAIN P : P[x] \in Nat /\ P[x] \in {0, Says(s, x)}
  BY <1>4, <1>5, <1>8
<1>10. \A x \in Gauges(group) : Says(s, x) # Nil => x \in DOMAIN P /\ P[x] = Says(s, x)
  BY <1>4, <1>5, <1>6, <1>8, NamesAssumption
<1>11. \A x \in Gauges(group) : x \notin Sticky /\ Says(s, x) = Nil => x \in DOMAIN P /\ P[x] = 0
  BY <1>4, <1>5, <1>6, <1>8, NamesAssumption
<1> QED
  BY <1>6, <1>8, <1>9, <1>10, <1>11 DEF Publishes, P

LEMMA PublishGroupData ==
  ASSUME group = "groupData", NEW s \in Sources(group), form \in {"number", "text"},
         NEW d, d = DecodedAll(Structure[group], Written(group, s)), ~ Refused(d)
  PROVE  Publishes(s, Publication(group, d))
<1> DEFINE P == Publication(group, d)
<1>1. group \in Structures /\ DOMAIN Structure[group] = {"total", "requests", "reputation"}
  BY StructureOf, Domains DEF Structures
<1>2. /\ Structure[group]["total"].wire # "name" /\ Structure[group]["total"].missing = Error
      /\ Structure[group]["requests"].wire # "name" /\ Structure[group]["requests"].missing = 0
      /\ Structure[group]["reputation"].wire # "name"
      /\ Structure[group]["reputation"].missing = 0
  BY StructureOf DEF EpochGroupData, Field
<1>3. /\ \A x \in {"total", "requests"} : s[x] \in {Bare} \cup Nat
      /\ s["reputation"] \in {Nil, Bare} \cup Nat
  <2>1. \A x \in {"total", "requests", "reputation"} :
            /\ s[x] \in MayHold(group, x) /\ Edges(Structure[group][x]) \subseteq Nat
            /\ s[x] \in {Nil, Bare} \cup Nat
    BY <1>1, SourceValue, StructureFields, EdgesNatural
  <2> QED
    BY <2>1 DEF MayHold, Listed, Unnamed
<1>4. /\ DOMAIN d = {"total", "requests", "reputation"}
      /\ d["total"] = s["total"] /\ d["total"] \in Nat
      /\ d["requests"] = IF s["requests"] \in Nat THEN s["requests"] ELSE 0
      /\ d["reputation"] = IF s["reputation"] \in Nat THEN s["reputation"]
                           ELSE IF s["reputation"] = Bare THEN 0 ELSE Nil
  <2>1. d["total"] # Error /\ DOMAIN d = {"total", "requests", "reputation"}
    BY <1>1, FieldHeard DEF Refused
  <2> QED
    BY <1>1, <1>2, <1>3, <2>1, FieldHeard, NamesAssumption DEF Meant
<1>5. /\ Says(s, "total") = s["total"]
      /\ Says(s, "requests") = IF s["requests"] \in Nat THEN s["requests"] ELSE Nil
      /\ Says(s, "reputation") =
             IF s["reputation"] \in Nat /\ s["total"] > 0 THEN s["reputation"] ELSE Nil
  BY <1>4 DEF Says
<1>6. Gauges(group) = {"total", "requests", "reputation"} /\ Sticky = Gauges(group)
  BY <1>1 DEF Gauges, Sticky, Unnamed
<1>7. P = Without(d, {x \in {"requests"} : d["requests"] <= 0} \cup
                     {x \in {"total", "reputation"} : d["total"] <= 0 \/ d[x] = Nil})
  BY DEF Publication, fetchAndSetGroupData
<1>8. /\ DOMAIN P \subseteq DOMAIN d
      /\ "total" \in DOMAIN P <=> d["total"] > 0
      /\ "requests" \in DOMAIN P <=> d["requests"] > 0
      /\ "reputation" \in DOMAIN P <=> d["total"] > 0 /\ d["reputation"] # Nil
      /\ \A x \in DOMAIN P : P[x] = d[x]
  BY <1>4, <1>7, NamesAssumption DEF Without
<1> HIDE DEF P
<1>9. \A x \in DOMAIN P : P[x] \in Nat /\ P[x] \in {0, Says(s, x)}
  BY <1>3, <1>4, <1>5, <1>8
<1>10. \A x \in Gauges(group) :
           Says(s, x) # Nil /\ Says(s, x) > 0 => x \in DOMAIN P /\ P[x] = Says(s, x)
  BY <1>4, <1>5, <1>6, <1>8, NamesAssumption
<1> QED
  BY <1>4, <1>6, <1>8, <1>9, <1>10 DEF Publishes, P

\* The names of the states that a source writes: 4 is not in the table.
LEMMA StatusNames ==
  /\ NameOf(participantStatusMap, 1) = "ACTIVE" /\ NameOf(participantStatusMap, 4) = "any other"
  /\ NameOf(participantStatusMap, 5) = "UNCONFIRMED"
  /\ participantStatusMap["ACTIVE"] = 1 /\ participantStatusMap["UNCONFIRMED"] = 5
  /\ {"ACTIVE", "UNCONFIRMED"} \subseteq DOMAIN participantStatusMap
  /\ "any other" \notin DOMAIN participantStatusMap
<1>1. DOMAIN participantStatusMap = {"UNSPECIFIED", "ACTIVE", "INACTIVE", "INVALID", "UNCONFIRMED"}
  BY DEF participantStatusMap
<1>2. /\ participantStatusMap["UNSPECIFIED"] = 0 /\ participantStatusMap["ACTIVE"] = 1
      /\ participantStatusMap["INACTIVE"] = 2 /\ participantStatusMap["INVALID"] = 3
      /\ participantStatusMap["UNCONFIRMED"] = 5
  BY DEF participantStatusMap
<1>3. \A name \in DOMAIN participantStatusMap :
          /\ participantStatusMap[name] = 1 => name = "ACTIVE"
          /\ participantStatusMap[name] = 5 => name = "UNCONFIRMED"
          /\ participantStatusMap[name] # 4
  BY <1>1, <1>2
<1> QED
  BY <1>1, <1>2, <1>3 DEF NameOf

LEMMA PublishParticipantStats ==
  ASSUME group = "participantStats", NEW s \in Sources(group), form \in {"number", "text"},
         NEW d, d = DecodedAll(Structure[group], Written(group, s)), ~ Refused(d)
  PROVE  Publishes(s, Publication(group, d))
<1> DEFINE P == Publication(group, d)
<1>1. group \in Structures /\ DOMAIN Structure[group] = {"count", "status"}
  BY StructureOf, Domains DEF Structures
<1>2. /\ Structure[group]["count"].wire = "flex" /\ Structure[group]["count"].missing = 0
      /\ Structure[group]["status"].wire = "name" /\ Structure[group]["status"].missing = Nil
  <2>1. /\ ParticipantStats.count.wire = "flex" /\ ParticipantStats.count.missing = 0
        /\ ParticipantStats.status.wire = "name" /\ ParticipantStats.status.missing = Nil
    BY DEF ParticipantStats, Field
  <2> QED
    BY <2>1, StructureOf
<1>3. s["count"] \in {Bare} \cup Nat /\ s["status"] \in {Bare, 1, 4, 5}
  <2>1. \A x \in {"count", "status"} :
            s[x] \in MayHold(group, x) /\ Edges(Structure[group][x]) \subseteq Nat
    BY <1>1, SourceValue, StructureFields, EdgesNatural
  <2>2. Edges(Structure[group]["status"]) = {1, 4, 5}
    <3>1. Shape(Structure[group]["status"])
      BY <1>1, StructureFields, FieldShapes
    <3> QED
      BY <1>2, <3>1 DEF Edges, Shape
  <2> QED
    BY <2>1, <2>2 DEF MayHold, Listed, Unnamed
<1>4. /\ DOMAIN d = {"count", "status"}
      /\ d["count"] = IF s["count"] \in Nat THEN s["count"] ELSE 0
      /\ d["status"] = IF s["status"] = Bare THEN Nil
                       ELSE NameOf(participantStatusMap, s["status"])
  <2>1. DOMAIN d = {"count", "status"}
    BY <1>1, FieldHeard
  <2>2. d["count"] = Meant(Structure[group]["count"], s["count"])
    BY <1>1, <1>2, FieldHeard
  <2>3. d["status"] = Decoded(Structure[group]["status"], Written(group, s)["status"])
    BY <1>1 DEF DecodedAll
  <2>4. "status" \in DOMAIN s
    BY <1>1, SourceValue
  <2>5. CASE s["status"] = Bare
    <3>1. Written(group, s)["status"] = Bare
      BY <2>4, <2>5 DEF Written
    <3>2. d["status"] = Nil
      BY <1>2, <2>3, <3>1, NamesAssumption DEF Decoded
    <3> QED
      BY <1>2, <1>3, <2>1, <2>2, <2>5, <3>2, NamesAssumption DEF Meant
  <2>6. CASE s["status"] # Bare
    <3> DEFINE j == [form |-> "text", value |-> NameOf(participantStatusMap, s["status"])]
    <3>1. s["status"] \in {1, 4, 5} /\ s["status"] \notin {Nil, Bare}
      BY <1>3, <2>6, NamesAssumption
    <3>2. Written(group, s)["status"] = j
      BY <1>2, <2>4, <3>1 DEF Written, FormOf
    <3>3. j \in OnTheWire
      BY <3>1, StatusNames DEF OnTheWire
    <3>4. Decoded(Structure[group]["status"], j) = j.value
      <4>1. j # Nil /\ j # Bare
        BY <3>3, NamesAssumption
      <4> HIDE DEF j
      <4> QED
        BY <1>2, <4>1 DEF Decoded
    <3> QED
      BY <1>2, <1>3, <2>1, <2>2, <2>3, <2>6, <3>2, <3>4, NamesAssumption DEF Meant
  <2> QED
    BY <2>5, <2>6
<1>5. /\ Says(s, "count") = IF s["count"] \in Nat THEN s["count"] ELSE Nil
      /\ Says(s, "status") = IF s["status"] \in {0, 1, 2, 3, 5} THEN s["status"] ELSE Nil
  BY DEF Says
<1>6. Gauges(group) = {"count", "status"} /\ Sticky = {"status"}
  BY <1>1 DEF Gauges, Sticky, Unnamed
<1>7. P = IF d["status"] # Nil /\ d["status"] \in DOMAIN participantStatusMap
          THEN [d EXCEPT !["status"] = participantStatusMap[@]]
          ELSE Without(d, {"status"})
  BY DEF Publication, fetchAndSetParticipantStats
<1>8. CASE s["status"] \in {1, 5}
  <2>1. /\ d["status"] \in DOMAIN participantStatusMap /\ d["status"] # Nil
        /\ participantStatusMap[d["status"]] = s["status"]
    <3>1. d["status"] = NameOf(participantStatusMap, s["status"])
      BY <1>4, <1>8, NamesAssumption
    <3>2. d["status"] \in DOMAIN participantStatusMap
          /\ participantStatusMap[d["status"]] = s["status"]
      BY <1>8, <3>1, StatusNames
    <3>3. Nil \notin DOMAIN participantStatusMap
      BY NamesAssumption
    <3> QED
      BY <3>2, <3>3
  <2>2. /\ DOMAIN P = {"count", "status"} /\ P["count"] = d["count"]
        /\ P["status"] = s["status"]
    BY <1>4, <1>7, <2>1
  <2>3. Says(s, "status") = s["status"]
    BY <1>5, <1>8
  <2> HIDE DEF P
  <2> QED
    BY <1>4, <1>5, <1>6, <1>8, <2>2, <2>3, NamesAssumption DEF Publishes, P
<1>9. CASE s["status"] \in {Bare, 4}
  <2>1. ~ (d["status"] # Nil /\ d["status"] \in DOMAIN participantStatusMap)
    BY <1>4, <1>9, StatusNames
  <2>2. P = Without(d, {"status"})
    BY <1>7, <2>1
  <2>3. DOMAIN P = {"count"} /\ P["count"] = d["count"]
    BY <1>4, <2>2 DEF Without
  <2>4. Says(s, "status") = Nil
    BY <1>5, <1>9, NamesAssumption
  <2> HIDE DEF P
  <2> QED
    BY <1>4, <1>5, <1>6, <2>3, <2>4, NamesAssumption DEF Publishes, P
<1> QED
  BY <1>3, <1>8, <1>9

LEMMA PublishParticipants ==
  ASSUME group = "participants", NEW s \in Sources(group), form \in {"number", "text"},
         NEW d, d = DecodedAll(Structure[group], Written(group, s)), ~ Refused(d)
  PROVE  Publishes(s, Publication(group, d))
<1> DEFINE P == Publication(group, d)
           all == Cardinality(WithValue(s))
           named == Cardinality(WithValue(s) \ {Unnamed})
<1>1. group \in Structures /\ DOMAIN Structure[group] = Item \cup {Unnamed}
  BY StructureOf, Domains DEF Structures
<1>2. \A x \in Item \cup {Unnamed} :
          Structure[group][x].wire # "name" /\ Structure[group][x].missing = Bare
  <2>1. \A x \in Item \cup {Unnamed} : NetworkParticipants[x] = Field("number", "float", Bare)
    BY DEF NetworkParticipants, Each
  <2> QED
    BY <2>1, StructureOf DEF Field
<1>3. \A x \in Item \cup {Unnamed} : d[x] = s[x] /\ s[x] \in {Nil, Bare} \cup Nat
  BY <1>1, <1>2, FieldHeard, SourceValue DEF Meant
<1>4. DOMAIN d = Item \cup {Unnamed} /\ DOMAIN s = Item \cup {Unnamed}
  BY <1>1, FieldHeard, SourceValue
<1>5. WithValue(d) = WithValue(s)
  BY <1>3, <1>4 DEF WithValue
<1>6. all \in Nat /\ named \in Nat
  <2>1. IsFiniteSet(Item \cup {Unnamed})
    BY ItemAssumption, FS_AddElement
  <2>2. WithValue(s) \in SUBSET (Item \cup {Unnamed})
        /\ WithValue(s) \ {Unnamed} \in SUBSET (Item \cup {Unnamed})
    BY <1>4 DEF WithValue
  <2> QED
    BY <2>1, <2>2, FS_Subset, FS_CardinalityType
<1>7. Gauges(group) = Item \cup {"total", "active"} /\ Sticky = {}
  BY DEF Gauges, Sticky
<1>8. \A x \in Item : x \notin {"total", "active", "status", "reputation"}
  BY ItemAssumption
<1>9. /\ Says(s, "total") = all /\ Says(s, "active") = named
      /\ \A x \in Item : Says(s, x) = IF s[x] \in Nat THEN s[x] ELSE Nil
  BY <1>8 DEF Says
<1>10. P = collectNetworkParticipants(d)
  BY DEF Publication
<1>11. /\ DOMAIN P = {x \in Item : s[x] \in Nat} \cup {"total", "active"}
       /\ P["total"] = all /\ P["active"] = named
       /\ \A x \in Item : s[x] \in Nat => P[x] = s[x]
  <2>1. {y \in Item : d[y] \notin {Nil, Bare}} = {x \in Item : s[x] \in Nat}
    BY <1>3, NamesAssumption
  <2> QED
    BY <1>3, <1>5, <1>8, <1>10, <2>1 DEF collectNetworkParticipants
<1> HIDE DEF P, all, named
<1>12. DOMAIN P \subseteq Gauges(group)
  BY <1>7, <1>11
<1>13. \A x \in DOMAIN P : P[x] \in Nat /\ P[x] = Says(s, x)
  BY <1>6, <1>9, <1>11
<1>14. \A x \in Gauges(group) : Says(s, x) # Nil => x \in DOMAIN P
  BY <1>7, <1>9, <1>11
<1>15. \A x \in Gauges(group) : Says(s, x) = Nil => x \in Item /\ x \notin DOMAIN P
  BY <1>6, <1>7, <1>8, <1>9, <1>11, NamesAssumption
<1> QED
  BY <1>7, <1>12, <1>13, <1>14, <1>15 DEF Publishes, P

LEMMA Published ==
  ASSUME group \in Structures, NEW s \in Sources(group), form \in {"number", "text"},
         NEW d, d = DecodedAll(Structure[group], Written(group, s)), ~ Refused(d)
  PROVE  Publishes(s, Publication(group, d))
<1>1. group \in Complete \cup Lists
      \/ group \in {"collectChain", "groupData", "participantStats", "participants"}
  BY DEF Structures, Complete, Lists
<1> QED
  BY <1>1, PublishComplete, PublishList, PublishStatus, PublishGroupData,
     PublishParticipantStats, PublishParticipants
(***************************************************************************)
(* The invariant.  Every value that is shown, or is about to be, is the    *)
(* one at the start, 0, or what an answer of this process said; and once   *)
(* all that is about to be set is set, the gauges reflect the last answer. *)
(***************************************************************************)
Final(x) == IF x \in DOMAIN todo THEN todo[x] ELSE shown[x]

FromAnswers ==
    /\ \A x \in Gauges(group) :
           shown[x] \in {AtStart(group)[x], 0} \/ \E s \in told : shown[x] = Says(s, x)
    /\ \A x \in DOMAIN todo : todo[x] = 0 \/ \E s \in told : todo[x] = Says(s, x)

Promised(s) ==
    \A x \in Gauges(group) :
        /\ Says(s, x) # Nil /\ (Says(s, x) > 0 \/ x \notin Sticky) => Final(x) = Says(s, x)
        /\ Says(s, x) = Nil /\ x \notin Sticky => Final(x) \in {Nil, 0}

GaugeInv == TypeOK /\ FromAnswers /\ (heard # Nil => Promised(heard))

LEMMA StartValues ==
  ASSUME NEW g
  PROVE  /\ DOMAIN AtStart(g) = Gauges(g)
         /\ \A x \in Gauges(g) : AtStart(g)[x] \in {Nil, 0}
  BY DEF AtStart

LEMMA InitGaugeInv == Init => GaugeInv
<1> SUFFICES ASSUME Init PROVE GaugeInv
  OBVIOUS
<1>1. DOMAIN todo = {}
  BY DEF Init, Nothing
<1>2. TypeOK
  BY <1>1, StartValues, GaugeAssumption DEF Init, TypeOK
<1>3. FromAnswers
  BY <1>1 DEF Init, FromAnswers
<1> QED
  BY <1>2, <1>3 DEF Init, GaugeInv

LEMMA SameAnswers ==
  ASSUME UNCHANGED <<group, shown, todo, heard, told>>
  PROVE  /\ FromAnswers => FromAnswers'
         /\ Promised(heard) => Promised(heard)'
<1>1. FromAnswers => FromAnswers'
  BY DEF FromAnswers, Says
<1>2. Promised(heard) => Promised(heard)'
  BY DEF Promised, Final, Says, Sticky
<1> QED
  BY <1>1, <1>2

LEMMA NextGaugeInv == GaugeInv /\ [Next]_vars => GaugeInv'
<1> SUFFICES ASSUME GaugeInv, [Next]_vars PROVE GaugeInv'
  OBVIOUS
<1>0. group \in Structures
  BY GaugeAssumption, StructureNames DEF GaugeInv, TypeOK
<1>1. CASE Answered
  <2> DEFINE d == DecodedAll(Structure[group], Written(group, source))
             P == Publication(group, d)
  <2>1. /\ ~ Refused(d) /\ todo' = P
        /\ shown' = Reset(group, shown)
        /\ heard' = source /\ told' = told \cup {source}
        /\ UNCHANGED <<group, form, source, events>>
    BY <1>1 DEF Answered
  <2>2. Publishes(source, P)
    BY <1>0, <2>1, Published DEF GaugeInv, TypeOK
  <2>3. /\ DOMAIN shown' = Gauges(group)
        /\ \A x \in Gauges(group) :
               shown'[x] = IF group = "participants" /\ x \in Item THEN Nil ELSE shown[x]
    BY <2>1 DEF Reset, GaugeInv, TypeOK
  <2> HIDE DEF P, d
  <2>4. TypeOK'
    BY <2>1, <2>2, <2>3 DEF GaugeInv, TypeOK, Publishes
  <2>5. FromAnswers'
    <3>1. ASSUME NEW x \in Gauges(group)
          PROVE  shown'[x] \in {AtStart(group)[x], 0} \/ \E s \in told' : shown'[x] = Says(s, x)
      <4>1. CASE group = "participants" /\ x \in Item
        <5>1. AtStart(group)[x] = Nil
          BY <4>1 DEF AtStart
        <5> QED
          BY <2>3, <4>1, <5>1
      <4>2. CASE ~ (group = "participants" /\ x \in Item)
        BY <2>1, <2>3, <4>2 DEF GaugeInv, FromAnswers
      <4> QED
        BY <4>1, <4>2
    <3>2. \A x \in DOMAIN todo' : todo'[x] = 0 \/ \E s \in told' : todo'[x] = Says(s, x)
      BY <2>1, <2>2 DEF Publishes
    <3> QED
      BY <2>1, <3>1, <3>2 DEF FromAnswers, Says
  <2>6. \A x \in Gauges(group) :
          LET final == IF x \in DOMAIN P THEN P[x] ELSE shown'[x]
          IN /\ Says(source, x) # Nil /\ (Says(source, x) > 0 \/ x \notin Sticky) =>
                    final = Says(source, x)
             /\ Says(source, x) = Nil /\ x \notin Sticky => final \in {Nil, 0}
    BY <2>2, <2>3 DEF Publishes
  <2>7. Promised(heard)'
    BY <2>1, <2>6 DEF Promised, Final, Says, Sticky
  <2> QED
    BY <2>4, <2>5, <2>7 DEF GaugeInv
<1>2. CASE SetOne
  <2>1. PICK x \in Gauges(group) : Set(x)
    BY <1>2 DEF SetOne
  <2>2. /\ x \in DOMAIN todo
        /\ shown' = [shown EXCEPT ![x] = todo[x]]
        /\ todo' = Without(todo, {x})
        /\ UNCHANGED <<group, form, source, events, heard, told>>
    BY <2>1 DEF Set
  <2>3. /\ DOMAIN todo' = DOMAIN todo \ {x}
        /\ \A y \in DOMAIN todo' : todo'[y] = todo[y]
    BY <2>2 DEF Without
  <2>4. /\ DOMAIN shown' = Gauges(group)
        /\ \A y \in Gauges(group) : shown'[y] = IF y = x THEN todo[x] ELSE shown[y]
    BY <2>2 DEF GaugeInv, TypeOK
  <2>5. TypeOK'
    BY <2>2, <2>3, <2>4 DEF GaugeInv, TypeOK
  <2>6. /\ \A y \in Gauges(group) :
               shown'[y] \in {AtStart(group)[y], 0} \/ \E s \in told : shown'[y] = Says(s, y)
        /\ \A y \in DOMAIN todo' : todo'[y] = 0 \/ \E s \in told : todo'[y] = Says(s, y)
    BY <2>2, <2>3, <2>4 DEF GaugeInv, FromAnswers
  <2>7. \A y \in Gauges(group) :
          (IF y \in DOMAIN todo' THEN todo'[y] ELSE shown'[y]) = Final(y)
    BY <2>2, <2>3, <2>4 DEF Final
  <2>8. FromAnswers'
    <3>1. \A y \in Gauges(group) :
              shown'[y] \in {AtStart(group)[y], 0} \/ \E s \in told' : shown'[y] = Says(s, y)
      BY <2>2, <2>6
    <3>2. \A y \in DOMAIN todo' : todo'[y] = 0 \/ \E s \in told' : todo'[y] = Says(s, y)
      BY <2>2, <2>6
    <3>3. group' = group
      BY <2>2
    <3> QED
      BY <3>1, <3>2, <3>3 DEF FromAnswers, Says
  <2>9. heard' # Nil => Promised(heard)'
    BY <2>2, <2>7 DEF GaugeInv, Promised, Final, Says, Sticky
  <2> QED
    BY <2>5, <2>8, <2>9 DEF GaugeInv
<1>3. CASE Change
  <2>1. /\ source' \in Sources(group) /\ events < MaxEvents /\ events' = events + 1
        /\ UNCHANGED <<group, form, shown, todo, heard, told>>
    BY <1>3 DEF Change
  <2>2. TypeOK'
    BY <2>1, GaugeAssumption DEF GaugeInv, TypeOK
  <2> QED
    BY <2>1, <2>2, SameAnswers DEF GaugeInv
<1>4. CASE Restart
  <2>1. /\ shown' = AtStart(group) /\ todo' = Nothing /\ heard' = Nil /\ told' = {}
        /\ events < MaxEvents /\ events' = events + 1
        /\ UNCHANGED <<group, form, source>>
    BY <1>4 DEF Restart
  <2>2. DOMAIN todo' = {}
    BY <2>1 DEF Nothing
  <2>3. TypeOK'
    BY <2>1, <2>2, StartValues, GaugeAssumption DEF GaugeInv, TypeOK
  <2>4. FromAnswers'
    BY <2>1, <2>2 DEF FromAnswers
  <2> QED
    BY <2>1, <2>3, <2>4 DEF GaugeInv
<1>5. CASE UNCHANGED vars
  <2>1. UNCHANGED <<group, form, source, events, shown, todo, heard, told>>
    BY <1>5 DEF vars
  <2>2. TypeOK'
    BY <2>1 DEF GaugeInv, TypeOK
  <2> QED
    BY <2>1, <2>2, SameAnswers DEF GaugeInv
<1> QED
  BY <1>1, <1>2, <1>3, <1>4, <1>5 DEF Next, NotAnswered

LEMMA GaugesInvariant == Spec => []GaugeInv
<1> QED
  BY InitGaugeInv, NextGaugeInv, PTL DEF Spec

\* Every gauge shows a natural number or is not there: no nil pointer is followed, and
\* no name and no error is set as a value.
THEOREM GaugesShowNumbers == Spec => []TypeOK
<1>1. GaugeInv => TypeOK
  BY DEF GaugeInv
<1> QED
  BY <1>1, GaugesInvariant, PTL

\* Whatever the widths of the integers and the lists of items, a gauge shows what it
\* started with, 0, or exactly what an answer of this process said: no number is
\* wrapped, cut off or taken from a refused answer on its way.
THEOREM NothingInvented == Spec => []NeverInvented
<1>1. GaugeInv => NeverInvented
  BY DEF GaugeInv, FromAnswers, NeverInvented
<1> QED
  BY <1>1, GaugesInvariant, PTL

\* Between two answers the gauges of a group are all of the last one that could be
\* decoded, in whatever order they were set and whatever the earlier ones were.
THEOREM GaugesOfOneAnswer == Spec => []OneAnswer
<1>1. GaugeInv => OneAnswer
  <2> SUFFICES ASSUME GaugeInv, todo = Nothing, heard # Nil PROVE Reflects(heard)
    BY DEF OneAnswer
  <2>1. \A x \in Gauges(group) : Final(x) = shown[x]
    BY DEF Final, Nothing
  <2>2. Promised(heard)
    BY DEF GaugeInv
  <2> QED
    BY <2>1, <2>2 DEF Promised, Reflects
<1> QED
  BY <1>1, GaugesInvariant, PTL
=============================================================================
