------------------------------ MODULE Decoders ------------------------------
(***************************************************************************)
(* What internal/fetcher makes of a JSON answer: for each request, the     *)
(* fields of the structure it decodes into, how each is written on the     *)
(* wire, and the Go type it ends up in.                                    *)
(*                                                                         *)
(* The widths are parameters, so that small ones show what happens at the  *)
(* edges.  A list is a field per item.  Of the fields that are treated     *)
(* alike (the four totals, the eleven counters of a participant) there are *)
(* one or two.  Rounding to float64 and constant factors are left out: a   *)
(* price stands for itself whatever unit it is shown in.                   *)
(***************************************************************************)
EXTENDS Integers, FiniteSets

CONSTANTS
    Mod32, \* 2^32
    Mod64, \* 2^64
    Item,  \* the names in lists: models, nodes, participants
    Nil,   \* an item that is not listed, a gauge that is not there, a nil pointer
    Bare,  \* a field (of a listed item) that is missing in the answer, or null
    Error  \* what json.Unmarshal or strconv refuses

\* The names of the BLS phases and of the states of a participant.
dkgPhaseNames ==
    [DKG_PHASE_UNDEFINED |-> 0, DKG_PHASE_DEALING |-> 1, DKG_PHASE_VERIFYING |-> 2,
     DKG_PHASE_COMPLETED |-> 3, DKG_PHASE_FAILED |-> 4, DKG_PHASE_SIGNED |-> 5]

participantStatusMap ==
    [UNSPECIFIED |-> 0, ACTIVE |-> 1, INACTIVE |-> 2, INVALID |-> 3, UNCONFIRMED |-> 5]

\* An int32 has room for the phases, an int64 for a uint32.
ASSUME WidthAssumption ==
    /\ Mod32 \in Nat /\ Mod64 \in Nat /\ Mod32 >= 12
    /\ Mod32 % 2 = 0 /\ Mod64 % 2 = 0 /\ 2 * Mod32 <= Mod64

\* Numbers and names; they are written as numbers or as text.
OnTheWire ==
    [form : {"number", "text"},
     value : Int \cup DOMAIN dkgPhaseNames \cup DOMAIN participantStatusMap \cup {"any other"}]

ASSUME NamesAssumption ==
    /\ {Nil, Bare, Error} \cap (Int \cup DOMAIN participantStatusMap \cup OnTheWire) = {}
    /\ Nil # Bare /\ Nil # Error /\ Bare # Error

\* The item of a list that has no name.
Unnamed == ""

\* A list is finite, and its items are not named like a field.
ASSUME ItemAssumption ==
    /\ IsFiniteSet(Item)
    /\ Item \cap {Unnamed, "unit", "total", "active", "status", "reputation"} = {}

Signed(w) == -(w \div 2) .. (w \div 2) - 1

Kept(kind) ==
    CASE kind = "int64" -> Signed(Mod64)
      [] kind = "int32" -> Signed(Mod32)
      [] kind = "uint64" -> 0 .. Mod64 - 1
      [] kind = "uint32" -> 0 .. Mod32 - 1
      [] kind = "bool" -> {0, 1}
      [] kind = "float" -> Int

\* The conversions of Go between integers: the value of that kind with the same low bits.
Converted(kind, n) ==
    CASE kind = "int64" -> IF n % Mod64 < Mod64 \div 2 THEN n % Mod64 ELSE (n % Mod64) - Mod64
      [] kind = "int32" -> IF n % Mod32 < Mod32 \div 2 THEN n % Mod32 ELSE (n % Mod32) - Mod32
      [] kind = "uint64" -> n % Mod64
      [] kind = "uint32" -> n % Mod32

(***************************************************************************)
(* How a field is decoded.  In an answer a field is [form, value], where   *)
(* the form is "number" or "text"; a form that the Go type of the field    *)
(* does not take is an error.                                              *)
(***************************************************************************)
Field(wire, kind, missing) == [wire |-> wire, kind |-> kind, missing |-> missing]

\* Faulty variant: what does not fit is cut off.
FlexCutOff(kind, j) == Converted(kind, j.value)

\* Faulty variant: only numbers are accepted.
FlexNumberOnly(kind, j) ==
    IF j.form = "number" /\ j.value \in Kept("int64") THEN Converted(kind, j.value) ELSE Error

\* flexInt64, a number or a string of digits, and the conversion that follows.
Flex(kind, j) == IF j.value \in Kept("int64") THEN Converted(kind, j.value) ELSE Error

\* A number that does not fit its Go type is an error of encoding/json.
Number(kind, j) == IF j.form = "number" /\ j.value \in Kept(kind) THEN j.value ELSE Error

\* strconv.ParseInt of a string field.
Text(j) == IF j.form = "text" /\ j.value \in Kept("int64") THEN j.value ELSE Error

\* The same, but a failure to parse only means that there is no value.
TextIfAny(j) ==
    IF j.form # "text" THEN Error ELSE IF j.value \in Kept("int64") THEN j.value ELSE Nil

\* A phase is a number or a name; a name that is not in the table stands for 0.
Phase(j) ==
    IF j.form = "number" THEN Converted("int32", j.value)
    ELSE IF j.value \in DOMAIN dkgPhaseNames THEN dkgPhaseNames[j.value] ELSE 0

Decoded(f, j) ==
    IF j = Nil THEN Nil
    ELSE IF j = Bare THEN f.missing
    ELSE CASE f.wire = "flex" -> Flex(f.kind, j)
           [] f.wire = "number" -> Number(f.kind, j)
           [] f.wire = "text" -> Text(j)
           [] f.wire = "text, if any" -> TextIfAny(j)
           [] f.wire = "phase" -> Phase(j)
           [] f.wire = "name" -> j.value

\* get: an answer is decoded as a whole, or it is an error.
DecodedAll(fields, answer) == [x \in DOMAIN fields |-> Decoded(fields[x], answer[x])]
Refused(decoded) == \E x \in DOMAIN decoded : decoded[x] = Error

(***************************************************************************)
(* The structures, one per request.                                        *)
(***************************************************************************)
Each(f) == [x \in Item \cup {Unnamed} |-> f]

TendermintStatus ==
    [height |-> Field("text, if any", "int64", Nil), catchingUp |-> Field("number", "bool", 0)]

CurrentEpoch == [epoch |-> Field("text", "int64", Error)]

EpochGroupData ==
    [total |-> Field("text", "int64", Error), requests |-> Field("flex", "int64", 0),
     reputation |-> Field("flex", "int64", 0)]

BLSEpochData == [phase |-> Field("phase", "int32", 0), deadline |-> Field("flex", "int64", 0)]

ParticipantStats == [count |-> Field("flex", "int64", 0), status |-> Field("name", "", Nil)]

\* A wallet without the denomination holds nothing.
WalletBalance == [amount |-> Field("text", "int64", 0)]

\* The entries of the list count whether or not they have a weight.
NetworkParticipants == Each(Field("number", "float", Bare))

PricingData == [x \in Item \cup {Unnamed, "unit"} |-> Field("number", "float", Nil)]

ModelData == Each(Field("number", "float", Nil))

StatsModels == Each(Field("number", "int32", 0))

StatsSummary == [tokens |-> Field("number", "int64", 0), inferences |-> Field("number", "int32", 0)]

BridgeStatus == [pending |-> Field("number", "int64", 0), earliest |-> Field("number", "uint64", 0)]

TokenomicsData == [fees |-> Field("flex", "uint64", 0), burned |-> Field("flex", "uint64", 0)]

PoCv2Commit == [count |-> Field("flex", "uint32", 0)]

MLNodeWeightDist == Each(Field("flex", "uint32", 0))
=============================================================================
