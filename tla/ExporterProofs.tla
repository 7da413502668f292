--------------------------- MODULE ExporterProofs ---------------------------
(***************************************************************************)
(* What holds of the process and its polls for every number of polls,      *)
(* nodes, heights and requests, and every interval and timeout: proofs for *)
(* Exporter and ChainPoll.                                                 *)
(***************************************************************************)
EXTENDS Exporter, FiniteSetTheorems, TLAPS

(***************************************************************************)
(* The polls.  Each step of a poll keeps the types, and the block time of  *)
(* a poll is what its highest answer says, or is about to be.              *)
(***************************************************************************)
LEMMA HeightType == Height \subseteq Nat /\ 0 \in Height
  BY PollAssumption DEF Height

LEMMA AnswerType ==
  ASSUME NEW h \in Height, NEW t \in {h, 0}
  PROVE  /\ Says(h, t) \in Answer
         /\ Says(h, t).height = h /\ Says(h, t).time \in {h, 0}
  BY HeightType DEF Says, Answer

LEMMA NothingType ==
    Nothing \in Answer /\ Nothing = Says(0, 0) /\ Nothing.height = 0 /\ Nothing.time = 0
  BY HeightType DEF Nothing, Says, Answer

LEMMA ShareType == (IF PublicNodes > SampleSize THEN SampleSize ELSE PublicNodes) \in 0 .. SampleSize
  BY PollAssumption

\* What a poll knows: nothing before it starts, one answer while it runs.
PollInv ==
    \A k \in Poll :
        /\ highest[k].height = best[k]
        /\ highest[k].time \in {best[k], 0}
        /\ pending[k] \subseteq {highest[k]}
        /\ bestTime[k] # highest[k].time => pending[k] = {highest[k]}
        /\ stage[k] # "reduce" => pending[k] = {} /\ asking[k] = 0
        /\ stage[k] = "none" => best[k] = 0

LEMMA NoPollType ==
    /\ NoPoll \in [Poll -> 0 .. SampleSize]
    /\ NoPoll \in [Poll -> 0 .. Timeout]
    /\ NoPoll \in [Poll -> Height]
    /\ Unheard \in [Poll -> Answer]
    /\ \A k \in Poll : NoPoll[k] = 0 /\ Unheard[k] = Nothing
    /\ Nothing \in [height : Height, time : Height]
<1>1. 0 \in 0 .. SampleSize /\ 0 \in 0 .. Timeout /\ 0 \in Height
  BY HeightType, PollAssumption
<1> QED
  BY <1>1, NothingType DEF NoPoll, Unheard, Answer

LEMMA NobodyPollsType == NobodyPolls => PollTypeOK /\ PollInv
<1> SUFFICES ASSUME NobodyPolls
             PROVE  PollTypeOK /\ PollInv
  OBVIOUS
<1>1. PollTypeOK
  BY NoPollType DEF NobodyPolls, PollTypeOK
<1>2. PollInv
  BY NoPollType, NothingType DEF NobodyPolls, PollInv
<1> QED
  BY <1>1, <1>2

LEMMA PollsCutType == PollsCut => PollTypeOK' /\ PollInv'
<1> SUFFICES ASSUME PollsCut
             PROVE  PollTypeOK' /\ PollInv'
  OBVIOUS
<1>1. PollTypeOK'
  BY NoPollType DEF PollsCut, PollTypeOK
<1>2. PollInv'
  BY NoPollType, NothingType DEF PollsCut, PollInv
<1> QED
  BY <1>1, <1>2

LEMMA StartPollInv ==
  ASSUME PollTypeOK, PollInv, NEW k, StartPoll(k)
  PROVE  PollTypeOK' /\ PollInv'
<1>1. PollTypeOK'
  <2> DEFINE share == IF PublicNodes > SampleSize THEN SampleSize ELSE PublicNodes
  <2>1. Timeout \in 0 .. Timeout
    BY PollAssumption
  <2>2. [asking EXCEPT ![k] = share] \in [Poll -> 0 .. SampleSize]
    BY ShareType DEF PollTypeOK
  <2>3. [timer EXCEPT ![k] = Timeout] \in [Poll -> 0 .. Timeout]
    BY <2>1 DEF PollTypeOK
  <2>4. stage' \in [Poll -> {"none", "reduce", "time"}]
    BY DEF StartPoll, PollTypeOK
  <2> QED
    BY <2>2, <2>3, <2>4 DEF StartPoll, PollTypeOK
<1>2. PollInv'
  BY DEF StartPoll, PollTypeOK, PollInv
<1> QED
  BY <1>1, <1>2

LEMMA HearType ==
  ASSUME PollTypeOK, NEW k \in Poll, NEW a \in Answer, Hear(k, a)
  PROVE  /\ asking' \in [Poll -> 0 .. SampleSize]
         /\ highest' \in [Poll -> Answer]
         /\ stage' = stage /\ timer' = timer /\ shown' = shown /\ mixed' = mixed
  BY PollAssumption DEF Hear, PollTypeOK

LEMMA NotHigherInv ==
  ASSUME PollTypeOK, PollInv, NEW k \in Poll, NEW a \in Answer, NotHigher(k, a)
  PROVE  PollTypeOK' /\ PollInv'
<1>1. PollTypeOK'
  BY HearType DEF NotHigher, PollTypeOK
<1>2. highest' = highest
  <2>1. a.height <= highest[k].height /\ a.height \in Nat /\ highest[k].height \in Nat
    BY HeightType DEF NotHigher, PollInv, PollTypeOK, Answer
  <2>2. (IF a.height > highest[k].height THEN a ELSE highest[k]) = highest[k]
    BY <2>1
  <2> QED
    BY <2>2 DEF NotHigher, Hear, PollTypeOK
<1>3. PollInv'
  BY <1>2 DEF NotHigher, Hear, PollInv, PollTypeOK
<1> QED
  BY <1>1, <1>3

LEMMA RaiseInv ==
  ASSUME PollTypeOK, PollInv, NEW k \in Poll,
         NEW a \in Answer, a.time \in {a.height, 0}, Raise(k, a)
  PROVE  PollTypeOK' /\ PollInv'
<1>1. Hear(k, a) /\ a.height > best[k] /\ pending[k] = {}
  BY DEF Raise, Higher
<1>2. stage[k] = "reduce"
  BY <1>1 DEF Hear, PollInv, PollTypeOK
<1>3. PollTypeOK'
  <2>1. a.height \in Height
    BY DEF Answer
  <2> QED
    BY <1>1, <2>1, HearType DEF Raise, Higher, PollTypeOK
<1>4. highest' = [highest EXCEPT ![k] = a]
  BY <1>1 DEF Hear, PollInv
<1>5. best' = [best EXCEPT ![k] = a.height] /\ pending' = [pending EXCEPT ![k] = {a}]
      /\ UNCHANGED <<bestTime, stage>> /\ asking' = [asking EXCEPT ![k] = @ - 1]
  BY <1>1 DEF Raise, Higher, Hear, PollTypeOK
<1>6. PollInv'
  BY <1>2, <1>4, <1>5 DEF PollInv, PollTypeOK
<1> QED
  BY <1>3, <1>6

LEMMA NoteTimeInv ==
  ASSUME PollTypeOK, PollInv, NEW k \in Poll, NEW a \in Answer, NoteTime(k, a)
  PROVE  PollTypeOK' /\ PollInv'
<1>1. PollTypeOK'
  BY DEF NoteTime, PollTypeOK, Answer
<1>2. pending[k] = {a} /\ a = highest[k]
  BY DEF NoteTime, PollInv
<1>3. PollInv'
  BY <1>2 DEF NoteTime, PollTypeOK, PollInv
<1> QED
  BY <1>1, <1>3

LEMMA PollTimesOutInv ==
  ASSUME PollTypeOK, PollInv, NEW k \in Poll, PollTimesOut(k)
  PROVE  PollTypeOK' /\ PollInv'
<1>1. 0 <= best[k]
  <2>1. best[k] \in Height
    BY DEF PollTypeOK
  <2> QED
    BY <2>1, PollAssumption DEF Height
<1>2. NotHigher(k, Nothing)
  BY <1>1, NothingType DEF PollTimesOut, NotHigher
<1> QED
  BY <1>2, NothingType, NotHigherInv

LEMMA PublishHeightInv ==
  ASSUME PollTypeOK, PollInv, NEW k \in Poll, PublishHeight(k)
  PROVE  PollTypeOK' /\ PollInv'
<1>1. shown' \in [height : Height, time : Height]
  BY DEF PublishHeight, PollTypeOK
<1>2. PollTypeOK'
  BY <1>1 DEF PublishHeight, PollTypeOK
<1>3. PollInv'
  BY DEF PublishHeight, Returned, PollTypeOK, PollInv
<1> QED
  BY <1>2, <1>3

LEMMA PublishTimeInv ==
  ASSUME PollTypeOK, PollInv, NEW k \in Poll, PublishTime(k)
  PROVE  PollTypeOK' /\ PollInv'
<1>1. shown' \in [height : Height, time : Height]
  BY DEF PublishTime, PollTypeOK
<1>2. PollTypeOK'
  BY <1>1, HeightType, NothingType, PollAssumption DEF PublishTime, PollTypeOK, Forgotten
<1>3. /\ best' = [best EXCEPT ![k] = 0] /\ bestTime' = [bestTime EXCEPT ![k] = 0]
      /\ highest' = [highest EXCEPT ![k] = Nothing] /\ stage' = [stage EXCEPT ![k] = "none"]
      /\ UNCHANGED <<pending, asking>> /\ stage[k] = "time"
  BY DEF PublishTime, Forgotten
<1>4. PollInv'
  BY <1>3, NothingType DEF PollTypeOK, PollInv
<1> QED
  BY <1>2, <1>4

LEMMA PollTimeInv == PollTypeOK /\ PollInv /\ PollTime => PollTypeOK' /\ PollInv'
<1> SUFFICES ASSUME PollTypeOK, PollInv, PollTime
             PROVE  PollTypeOK' /\ PollInv'
  OBVIOUS
<1>1. timer' \in [Poll -> 0 .. Timeout]
  BY PollAssumption DEF PollTime, PollTypeOK
<1> QED
  BY <1>1 DEF PollTime, PollTypeOK, PollInv

LEMMA PollStepInv ==
  ASSUME PollTypeOK, PollInv, NEW k \in Poll, PollStep(k)
  PROVE  PollTypeOK' /\ PollInv'
<1>1. ASSUME NEW h \in Height, NEW t \in {h, 0}, NotHigher(k, Says(h, t)) \/ Raise(k, Says(h, t))
      PROVE  PollTypeOK' /\ PollInv'
  BY <1>1, AnswerType, NotHigherInv, RaiseInv
<1> QED
  BY <1>1, NoteTimeInv, PollTimesOutInv, PublishHeightInv, PublishTimeInv
     DEF PollStep, PollRuns

(***************************************************************************)
(* The gauges that two polls set one after the other (PairOfOneBlock):     *)
(* until a second poll runs into it, a poll between its two gauges has     *)
(* shown its height, or has none and left the pair alone.  What it shows   *)
(* next is the time of that block, if it has one.                          *)
(***************************************************************************)
PairInv ==
    ~ mixed =>
        /\ \A k \in Poll : stage[k] = "time" =>
               /\ best[k] > 0 => shown.height = best[k]
               /\ best[k] = 0 => shown.height = shown.time
        /\ \A j, k \in Poll : stage[j] = "time" /\ stage[k] = "time" => j = k
        /\ (\A k \in Poll : stage[k] # "time") => shown.height = shown.time

LEMMA NobodyPollsPair == NobodyPolls => PairInv
  BY NothingType DEF NobodyPolls, PairInv

LEMMA PollsCutPair == PollsCut => PairInv'
  BY NothingType DEF PollsCut, PairInv

LEMMA StartPollPair ==
  ASSUME PollTypeOK, PairInv, NEW k, StartPoll(k)
  PROVE  PairInv'
  BY DEF StartPoll, PollTypeOK, PairInv

\* The steps that leave the gauges and the stages alone.
LEMMA QuietPair ==
  ASSUME PollTypeOK, PollInv, PairInv, NEW k \in Poll,
         stage' = stage, shown' = shown, mixed' = mixed,
         \A j \in Poll : stage[j] = "time" => best'[j] = best[j]
  PROVE  PairInv'
  BY DEF PairInv

LEMMA AnswerPair ==
  ASSUME PollTypeOK, PollInv, PairInv, NEW k \in Poll, NEW a,
         NotHigher(k, a) \/ Raise(k, a) \/ NoteTime(k, a) \/ PollTimesOut(k)
  PROVE  PairInv'
<1>1. stage' = stage /\ shown' = shown /\ mixed' = mixed
  BY DEF NotHigher, Raise, Higher, NoteTime, PollTimesOut, Hear
<1>2. \A j \in Poll : stage[j] = "time" => best'[j] = best[j]
  <2> SUFFICES ASSUME NEW j \in Poll, stage[j] = "time"
               PROVE  best'[j] = best[j]
    OBVIOUS
  <2>1. asking[j] = 0
    BY DEF PollInv
  <2> QED
    BY <2>1 DEF NotHigher, Raise, Higher, NoteTime, PollTimesOut, Hear, PollTypeOK
<1> QED
  BY <1>1, <1>2, QuietPair

LEMMA PublishHeightPair ==
  ASSUME PollTypeOK, PollInv, PairInv, NEW k \in Poll, PublishHeight(k)
  PROVE  PairInv'
<1> SUFFICES ASSUME ~ mixed'
             PROVE  PairInv'
  BY DEF PairInv
<1>1. Alive = {k} /\ (~ mixed \/ best[k] # 0)
  BY DEF PublishHeight
<1>2. \A j \in Poll : j # k => stage[j] = "none"
  BY <1>1 DEF Alive
<1>3. best[k] \in Nat /\ best' = best /\ stage' = [stage EXCEPT ![k] = "time"]
  <2>1. best[k] \in Height
    BY DEF PollTypeOK
  <2> QED
    BY <2>1, HeightType DEF PublishHeight
<1>4. stage'[k] = "time" /\ \A j \in Poll : j # k => stage'[j] = "none"
  BY <1>2, <1>3 DEF PollTypeOK
<1>5. best[k] > 0 => shown'.height = best[k]
  BY DEF PublishHeight, PollTypeOK
<1>6. best[k] = 0 => shown'.height = shown'.time
  <2> SUFFICES ASSUME best[k] = 0
               PROVE  shown'.height = shown'.time
    OBVIOUS
  <2>1. ~ mixed /\ stage[k] = "reduce" /\ shown' = shown
    BY <1>1 DEF PublishHeight, Returned
  <2>2. \A j \in Poll : stage[j] # "time"
    BY <1>2, <2>1
  <2> QED
    BY <2>1, <2>2 DEF PairInv
<1> QED
  BY <1>3, <1>4, <1>5, <1>6 DEF PairInv

LEMMA PublishTimePair ==
  ASSUME PollTypeOK, PollInv, PairInv, NEW k \in Poll, PublishTime(k)
  PROVE  PairInv'
<1> SUFFICES ASSUME ~ mixed'
             PROVE  PairInv'
  BY DEF PairInv
<1>1. Alive = {k} /\ ~ mixed /\ ~ Timeless(k) /\ stage[k] = "time"
  BY DEF PublishTime
<1>2. \A j \in Poll : j # k => stage[j] = "none"
  BY <1>1 DEF Alive
<1>3. \A j \in Poll : stage'[j] = "none"
  BY <1>2 DEF PublishTime, PollTypeOK
<1>4. bestTime[k] = best[k] /\ best[k] \in Nat
  <2>1. pending[k] = {} /\ best[k] \in Height
    BY <1>1 DEF PollInv, PollTypeOK
  <2>2. bestTime[k] \in {best[k], 0}
    BY <2>1 DEF PollInv
  <2>3. best[k] \in Nat
    BY <2>1, HeightType
  <2>4. ~ (best[k] > 0 /\ bestTime[k] = 0)
    BY <1>1 DEF Timeless
  <2> QED
    BY <2>2, <2>3, <2>4
<1>5. shown'.height = shown'.time
  <2>1. CASE best[k] > 0
    <3>1. shown.height = best[k]
      BY <1>1, <2>1 DEF PairInv
    <3>2. shown' = [shown EXCEPT !.time = best[k]]
      BY <1>4, <2>1 DEF PublishTime
    <3> QED
      BY <3>1, <3>2 DEF PollTypeOK
  <2>2. CASE best[k] = 0
    <3>1. shown' = shown
      BY <1>4, <2>2 DEF PublishTime
    <3> QED
      BY <1>1, <2>2, <3>1 DEF PairInv
  <2> QED
    BY <1>4, <2>1, <2>2
<1> QED
  BY <1>3, <1>5 DEF PairInv

LEMMA PollTimePair == PairInv /\ PollTime => PairInv'
  BY DEF PollTime, PairInv

LEMMA PollStepPair ==
  ASSUME PollTypeOK, PollInv, PairInv, NEW k \in Poll, PollStep(k)
  PROVE  PairInv'
  BY AnswerPair, PublishHeightPair, PublishTimePair DEF PollStep, PollRuns

(***************************************************************************)
(* The process.  The loop has no cycle before the first one is over, the   *)
(* main goroutine has none afterwards, and there is no server before that. *)
(***************************************************************************)
LifeInv ==
    /\ phase \in {"down", "first"} =>
           work["loop"] = 0 /\ tick = 0 /\ ~ ticked /\ ~ listening /\ ~ scrape
    /\ phase # "first" => work["main"] = 0
    /\ phase = "first" /\ work["main"] = 0 => collected
    /\ phase \in {"serving", "stopping"} => collected

MainTypeOK ==
    /\ phase \in {"down", "first", "serving", "stopping"}
    /\ work \in [Routines -> 0 .. Requests]
    /\ left \in [Routines -> 0 .. Timeout]
    /\ tick \in 0 .. Interval
    /\ ticked \in BOOLEAN /\ listening \in BOOLEAN /\ scrape \in BOOLEAN
    /\ collected \in BOOLEAN
    /\ grace \in 0 .. Grace

PollsInv == PollTypeOK /\ PollInv /\ PairInv
MainInv == MainTypeOK /\ LifeInv
IInv == PollsInv /\ MainInv

LEMMA IdleType ==
    /\ Idle \in [Routines -> 0 .. Requests]
    /\ Idle \in [Routines -> 0 .. Timeout]
    /\ 0 \in 0 .. Interval /\ 0 \in 0 .. Grace
    /\ Idle["main"] = 0 /\ Idle["loop"] = 0
<1>1. 0 \in 0 .. Requests /\ 0 \in 0 .. Timeout /\ 0 \in 0 .. Interval /\ 0 \in 0 .. Grace
  BY ExporterAssumption, PollAssumption
<1> QED
  BY <1>1 DEF Idle, Routines

LEMMA InitInv == Init => IInv
<1> SUFFICES ASSUME Init
             PROVE  IInv
  OBVIOUS
<1>1. PollsInv
  BY NobodyPollsType, NobodyPollsPair DEF Init, PollsInv
<1>2. MainTypeOK
  BY IdleType DEF Init, MainTypeOK
<1>3. LifeInv
  BY IdleType DEF Init, LifeInv
<1> QED
  BY <1>1, <1>2, <1>3 DEF IInv, MainInv

LEMMA CutInv == Cut => IInv'
<1> SUFFICES ASSUME Cut
             PROVE  IInv'
  OBVIOUS
<1>1. PollsInv'
  BY PollsCutType, PollsCutPair DEF Cut, PollsInv
<1>2. MainTypeOK'
  BY IdleType DEF Cut, MainTypeOK
<1>3. LifeInv'
  BY IdleType DEF Cut, LifeInv
<1> QED
  BY <1>1, <1>2, <1>3 DEF IInv, MainInv

LEMMA BeginCycleInv ==
  ASSUME IInv, NEW g \in Routines, BeginCycle(g)
  PROVE  /\ PollsInv'
         /\ work' = [work EXCEPT ![g] = Requests]
         /\ work' \in [Routines -> 0 .. Requests]
         /\ left' \in [Routines -> 0 .. Timeout]
<1>1. Requests \in 0 .. Requests /\ Timeout \in 0 .. Timeout
  BY ExporterAssumption, PollAssumption
<1>2. PollsInv'
  BY StartPollInv, StartPollPair DEF IInv, PollsInv, BeginCycle
<1> QED
  BY <1>1, <1>2 DEF BeginCycle, IInv, MainInv, MainTypeOK

LEMMA UnchangedPolls == PollsInv /\ UNCHANGED pollVars => PollsInv'
  BY DEF PollsInv, PollTypeOK, PollInv, PairInv, pollVars, pollState

LEMMA UnchangedMain == MainInv /\ UNCHANGED mainVars => MainInv'
  BY DEF MainInv, MainTypeOK, LifeInv, mainVars, goroutines, ticker, server

LEMMA RequestEndsInv ==
  ASSUME IInv, NEW g \in Routines, RequestEnds(g)
  PROVE  IInv'
<1>1. PollsInv'
  BY UnchangedPolls DEF IInv, RequestEnds
<1>2. work[g] \in 1 .. Requests /\ work[g] - 1 \in 0 .. Requests /\ Timeout \in 0 .. Timeout
  <2>1. work[g] \in 0 .. Requests /\ work[g] > 0
    BY DEF RequestEnds, IInv, MainInv, MainTypeOK
  <2> QED
    BY <2>1, PollAssumption, ExporterAssumption
<1>3. work' = [work EXCEPT ![g] = work[g] - 1]
  BY DEF RequestEnds
<1>4. left' \in [Routines -> 0 .. Timeout]
  <2>1. (IF work[g] = 1 THEN 0 ELSE Timeout) \in 0 .. Timeout
    BY PollAssumption
  <2> QED
    BY <2>1 DEF RequestEnds, IInv, MainInv, MainTypeOK
<1>5. MainTypeOK'
  BY <1>2, <1>3, <1>4, ticker' = ticker, server' = server
     DEF RequestEnds, IInv, MainInv, MainTypeOK, ticker, server
<1>6. LifeInv'
  <2>1. UNCHANGED <<phase, tick, ticked, listening, scrape>>
    BY DEF RequestEnds, ticker, server
  <2>2. collected => collected'
    BY DEF RequestEnds
  <2>3. phase # "first" => g = "loop"
    BY <1>2 DEF IInv, MainInv, LifeInv, Routines
  <2>4. phase \in {"down", "first"} => g = "main"
    BY <1>2 DEF IInv, MainInv, LifeInv, Routines
  <2>5. work[g] = 1 => collected'
    BY DEF RequestEnds
  <2> QED
    BY <1>2, <1>3, <2>1, <2>2, <2>3, <2>4, <2>5
       DEF IInv, MainInv, MainTypeOK, LifeInv, Routines
<1> QED
  BY <1>1, <1>5, <1>6 DEF IInv, MainInv

LEMMA StartInv == IInv /\ Start => IInv'
<1> SUFFICES ASSUME IInv, Start
             PROVE  IInv'
  OBVIOUS
<1>1. BeginCycle("main") /\ "main" \in Routines
  BY DEF Start, Routines
<1>2. MainTypeOK'
  BY <1>1, BeginCycleInv DEF Start, ticker, server, IInv, MainInv, MainTypeOK
<1>3. work'["main"] = Requests /\ work'["loop"] = work["loop"] /\ Requests # 0
  BY <1>1, BeginCycleInv, ExporterAssumption DEF IInv, MainInv, MainTypeOK, Routines
<1>4. LifeInv'
  BY <1>3 DEF Start, ticker, server, IInv, MainInv, LifeInv
<1> QED
  BY <1>1, <1>2, <1>4, BeginCycleInv DEF IInv, MainInv

LEMMA NextCycleInv == IInv /\ NextCycle => IInv'
<1> SUFFICES ASSUME IInv, NextCycle
             PROVE  IInv'
  OBVIOUS
<1>1. BeginCycle("loop") /\ "loop" \in Routines
  BY DEF NextCycle, Routines
<1>2. MainTypeOK'
  BY <1>1, BeginCycleInv DEF NextCycle, server, IInv, MainInv, MainTypeOK
<1>3. work'["main"] = work["main"]
  BY <1>1, BeginCycleInv DEF IInv, MainInv, MainTypeOK, Routines
<1>4. phase \notin {"down", "first"}
  BY DEF NextCycle, IInv, MainInv, LifeInv
<1>5. LifeInv'
  BY <1>3, <1>4 DEF NextCycle, server, IInv, MainInv, LifeInv
<1> QED
  BY <1>1, <1>2, <1>5, BeginCycleInv DEF IInv, MainInv

\* The steps of the server and of main that leave the cycles and the polls alone.
LEMMA ServerInv ==
  ASSUME IInv, Serve \/ Listen \/ Scrape \/ ScrapeEnds \/ Signal
  PROVE  IInv'
<1>1. PollsInv'
  BY UnchangedPolls DEF IInv, Serve, Listen, Scrape, ScrapeEnds, Signal
<1>2. Interval \in 0 .. Interval /\ Grace \in 0 .. Grace /\ 0 \in 0 .. Interval
  BY ExporterAssumption
<1>3. MainTypeOK'
  BY <1>2 DEF IInv, MainInv, MainTypeOK, Serve, Listen, Scrape, ScrapeEnds, Signal,
              goroutines, ticker, server
<1>4. LifeInv'
  BY DEF IInv, MainInv, LifeInv, MainTypeOK, Serve, Listen, Scrape, ScrapeEnds, Signal,
         goroutines, ticker, server
<1> QED
  BY <1>1, <1>3, <1>4 DEF IInv, MainInv

LEMMA ElapseInv == IInv /\ Elapse => IInv'
<1> SUFFICES ASSUME IInv, Elapse
             PROVE  IInv'
  OBVIOUS
<1>1. PollsInv'
  BY PollTimeInv, PollTimePair DEF Elapse, IInv, PollsInv
<1>2. tick' \in 0 .. Interval /\ ticked' \in BOOLEAN /\ grace' \in 0 .. Grace
  BY ExporterAssumption DEF Elapse, TickerTime, Less, IInv, MainInv, MainTypeOK
<1>3. left' \in [Routines -> 0 .. Timeout]
  BY PollAssumption DEF Elapse, Less, IInv, MainInv, MainTypeOK
<1>4. MainTypeOK'
  BY <1>2, <1>3 DEF Elapse, server, IInv, MainInv, MainTypeOK
<1>5. tick = 0 => tick' = 0 /\ ticked' = ticked
  BY DEF Elapse, TickerTime, Less, IInv, MainInv, MainTypeOK
<1>6. LifeInv'
  BY <1>5 DEF Elapse, server, IInv, MainInv, MainTypeOK, LifeInv
<1> QED
  BY <1>1, <1>4, <1>6 DEF IInv, MainInv

LEMMA NextInv == IInv /\ [Next]_vars => IInv'
<1> SUFFICES ASSUME IInv, [Next]_vars
             PROVE  IInv'
  OBVIOUS
<1>1. CASE Start
  BY <1>1, StartInv
<1>2. CASE Killed \/ PortTaken \/ Stopped
  BY <1>2, CutInv DEF Killed, PortTaken, Stopped
<1>3. CASE \E g \in Routines : Answered(g) \/ TimedOut(g)
  BY <1>3, RequestEndsInv DEF Answered, TimedOut
<1>4. CASE Serve \/ Listen \/ Scrape \/ ScrapeEnds \/ Signal
  BY <1>4, ServerInv
<1>5. CASE NextCycle
  BY <1>5, NextCycleInv
<1>6. CASE Elapse
  BY <1>6, ElapseInv
<1>7. CASE \E k \in Poll : PollStep(k) /\ UNCHANGED mainVars
  <2>1. PICK k \in Poll : PollStep(k) /\ UNCHANGED mainVars
    BY <1>7
  <2>2. PollsInv'
    BY <2>1, PollStepInv, PollStepPair DEF IInv, PollsInv
  <2>3. MainInv'
    BY <2>1, UnchangedMain DEF IInv
  <2> QED
    BY <2>2, <2>3 DEF IInv
<1>8. CASE UNCHANGED vars
  BY <1>8, UnchangedPolls, UnchangedMain DEF IInv, vars
<1> QED
  BY <1>1, <1>2, <1>3, <1>4, <1>5, <1>6, <1>7, <1>8 DEF Next

LEMMA AlwaysIInv == Spec => []IInv
  BY InitInv, NextInv, PTL DEF Spec

(***************************************************************************)
(* The polls that are alive (PollsBounded).  A poll lives at most Timeout, *)
(* since time stands still for it otherwise, so the polls alive are those  *)
(* begun in the last Timeout units.  Over every shorter stretch of time a  *)
(* at least as much is known: of the polls begun in it all but one took a  *)
(* tick each, the ticks are Interval apart, and the next one is tick away. *)
(***************************************************************************)
Recent(a) == {k \in Alive : timer[k] >= Timeout - a}

\* The polls that a tick was spent on: while the channel is empty, one poll more than
\* the ticks of the stretch may account for is alive (the first cycle, or a late tick).
Spent(n) == IF ticked THEN n ELSE n - 1

NextTick == IF phase = "stopping" THEN Interval ELSE tick

Paced ==
    /\ IsFiniteSet(Alive)
    /\ phase = "down" => Alive = {}
    /\ phase = "stopping" => tick = 0
    /\ \A a \in 0 .. Timeout : Interval * Spent(Cardinality(Recent(a))) <= a + NextTick

LEMMA TimesMonotone ==
  ASSUME NEW i \in Nat, NEW m \in Int, NEW n \in Int, m <= n
  PROVE  i * m <= i * n
<1>1. PICK d \in Nat : n = m + d
  BY n - m \in Nat, n = m + (n - m)
<1>2. i * n = i * m + i * d
  BY <1>1
<1>3. i * d >= 0 /\ i * d \in Nat
  BY <1>1
<1> QED
  BY <1>2, <1>3

LEMMA RecentFinite ==
  ASSUME IsFiniteSet(Alive), NEW a
  PROVE  IsFiniteSet(Recent(a)) /\ Cardinality(Recent(a)) \in Nat
<1>1. IsFiniteSet(Recent(a))
  BY FS_Subset DEF Recent
<1> QED
  BY <1>1, FS_CardinalityType

LEMMA NextTickType ==
    /\ MainTypeOK => NextTick \in Nat
    /\ MainTypeOK' => NextTick' \in Nat
<1>1. Interval \in Nat /\ 0 .. Interval \subseteq Nat
  BY ExporterAssumption
<1> QED
  BY <1>1 DEF MainTypeOK, NextTick

LEMMA OneTickMore ==
  ASSUME NEW i \in Int, NEW z \in Int, NEW a \in Int, NEW t \in Int, NEW u \in Int,
         z - i <= (a - 1) + t, t - 1 = u - i
  PROVE  z <= a + u
  OBVIOUS

\* Paced survives a step that begins no poll, lets no time pass and takes no tick back.
LEMMA CalmPaced ==
  ASSUME MainTypeOK, MainTypeOK', Paced, Alive' \subseteq Alive,
         \A k \in Alive' : timer'[k] = timer[k],
         ticked' = ticked, NextTick <= NextTick', phase' = "down" => phase = "down",
         phase' = "stopping" => tick' = 0
  PROVE  Paced'
<1>1. IsFiniteSet(Alive) /\ IsFiniteSet(Alive')
  BY FS_Subset DEF Paced
<1>2. (phase' = "down" => Alive' = {}) /\ (phase' = "stopping" => tick' = 0)
  BY DEF Paced
<1>3. ASSUME NEW a \in 0 .. Timeout
      PROVE  Interval * (Spent(Cardinality(Recent(a))))' <= a + NextTick'
  <2> DEFINE n == Cardinality(Recent(a))
             m == Cardinality(Recent(a)')
  <2>1. Recent(a)' \subseteq Recent(a)
    BY DEF Recent
  <2>2. n \in Nat /\ m \in Nat /\ m <= n
    <3>1. IsFiniteSet(Recent(a)) /\ n \in Nat
      BY <1>1, RecentFinite
    <3>2. IsFiniteSet(Recent(a)') /\ m <= n
      BY <2>1, <3>1, FS_Subset
    <3> QED
      BY <3>1, <3>2, FS_CardinalityType
  <2>3. Interval * Spent(n) <= a + NextTick
    BY DEF Paced
  <2>4. (Spent(Cardinality(Recent(a))))' = (IF ticked THEN m ELSE m - 1)
    BY DEF Spent
  <2> HIDE DEF n, m
  <2>5. Spent(n) \in Int /\ (IF ticked THEN m ELSE m - 1) \in Int
        /\ (IF ticked THEN m ELSE m - 1) <= Spent(n)
    BY <2>2 DEF Spent
  <2>6. Interval * (IF ticked THEN m ELSE m - 1) <= Interval * Spent(n)
    BY <2>5, TimesMonotone, ExporterAssumption
  <2>7. Interval * (IF ticked THEN m ELSE m - 1) \in Int /\ Interval * Spent(n) \in Int
    BY <2>5, ExporterAssumption
  <2> QED
    BY <2>3, <2>4, <2>6, <2>7, NextTickType, PollAssumption
<1> QED
  BY <1>1, <1>2, <1>3 DEF Paced

LEMMA CutPaced == Cut => Paced'
<1> SUFFICES ASSUME Cut
             PROVE  Paced'
  OBVIOUS
<1>1. Alive' = {} /\ ticked' = FALSE /\ tick' = 0 /\ phase' = "down"
  BY DEF Cut, PollsCut, Alive
<1>2. IsFiniteSet(Alive')
  BY <1>1, FS_EmptySet
<1>3. \A a : Cardinality(Recent(a)') = 0
  BY <1>1, FS_EmptySet DEF Recent
<1>4. \A a \in 0 .. Timeout : Interval * (Spent(Cardinality(Recent(a))))' <= a + NextTick'
  BY <1>1, <1>3, ExporterAssumption, PollAssumption DEF Spent, NextTick
<1> QED
  BY <1>1, <1>2, <1>4 DEF Paced

LEMMA InitPaced == Init => Paced
<1> SUFFICES ASSUME Init
             PROVE  Paced
  OBVIOUS
<1>1. Alive = {} /\ ticked = FALSE /\ tick = 0 /\ phase = "down"
  BY DEF Init, NobodyPolls, Alive
<1>2. IsFiniteSet(Alive)
  BY <1>1, FS_EmptySet
<1>3. \A a : Cardinality(Recent(a)) = 0
  BY <1>1, FS_EmptySet DEF Recent
<1>4. \A a \in 0 .. Timeout : Interval * Spent(Cardinality(Recent(a))) <= a + NextTick
  BY <1>1, <1>3, ExporterAssumption, PollAssumption DEF Spent, NextTick
<1> QED
  BY <1>1, <1>2, <1>4 DEF Paced

\* A cycle begins one poll at most.
LEMMA BegunAlive ==
  ASSUME PollTypeOK, Paced, NEW g, BeginCycle(g)
  PROVE  /\ IsFiniteSet(Alive')
         /\ \A a : Cardinality(Recent(a)') \in Nat
                   /\ Cardinality(Recent(a)') <= Cardinality(Recent(a)) + 1
<1> DEFINE k == CHOOSE p \in Poll : stage[p] = "none"
<1>1. StartPoll(k)
  BY DEF BeginCycle
<1> HIDE DEF k
<1>2. Alive' \subseteq Alive \cup {k}
  BY <1>1 DEF StartPoll, Alive, PollTypeOK
<1>3. IsFiniteSet(Alive \cup {k}) /\ IsFiniteSet(Alive)
  BY FS_AddElement DEF Paced
<1>4. IsFiniteSet(Alive')
  BY <1>2, <1>3, FS_Subset
<1>5. ASSUME NEW a
      PROVE  Cardinality(Recent(a)') \in Nat
             /\ Cardinality(Recent(a)') <= Cardinality(Recent(a)) + 1
  <2>1. Recent(a)' \subseteq Recent(a) \cup {k}
    BY <1>1, <1>2 DEF Recent, StartPoll, Alive, PollTypeOK
  <2>2. IsFiniteSet(Recent(a)) /\ Cardinality(Recent(a)) \in Nat
    BY <1>3, RecentFinite
  <2>3. IsFiniteSet(Recent(a) \cup {k})
        /\ Cardinality(Recent(a) \cup {k}) <= Cardinality(Recent(a)) + 1
    BY <2>2, FS_AddElement
  <2>4. IsFiniteSet(Recent(a)') /\ Cardinality(Recent(a)') <= Cardinality(Recent(a) \cup {k})
    BY <2>1, <2>3, FS_Subset
  <2>5. Cardinality(Recent(a)') \in Nat /\ Cardinality(Recent(a) \cup {k}) \in Nat
    BY <2>3, <2>4, FS_CardinalityType
  <2> QED
    BY <2>2, <2>3, <2>4, <2>5
<1> QED
  BY <1>4, <1>5

LEMMA StartPaced == IInv /\ Paced /\ Start => Paced'
<1> SUFFICES ASSUME IInv, Paced, Start
             PROVE  Paced'
  OBVIOUS
<1>1. BeginCycle("main") /\ phase = "down" /\ phase' = "first" /\ Alive = {}
  BY DEF Start, Paced
<1>2. tick' = 0 /\ ticked' = FALSE
  BY <1>1 DEF Start, ticker, IInv, MainInv, MainTypeOK, LifeInv
<1>3. PollTypeOK
  BY DEF IInv, PollsInv
<1>4. IsFiniteSet(Alive')
  BY <1>1, <1>3, BegunAlive
<1>5. \A a : Cardinality(Recent(a)) = 0
  BY <1>1, FS_EmptySet DEF Recent
<1>6. ASSUME NEW a \in 0 .. Timeout
      PROVE  Interval * (Spent(Cardinality(Recent(a))))' <= a + NextTick'
  <2> DEFINE m == Cardinality(Recent(a)')
  <2>1. m \in 0 .. 1
    BY <1>1, <1>3, <1>5, BegunAlive
  <2>2. (Spent(Cardinality(Recent(a))))' = m - 1 /\ NextTick' = 0
    BY <1>1, <1>2 DEF Spent, NextTick
  <2> HIDE DEF m
  <2>3. Interval * (m - 1) <= Interval * 0
    BY <2>1, TimesMonotone, ExporterAssumption
  <2>4. Interval * 0 = 0 /\ a >= 0 /\ a \in Int /\ Interval * (m - 1) \in Int
    BY <2>1, ExporterAssumption, PollAssumption
  <2> QED
    BY <2>2, <2>3, <2>4
<1> QED
  BY <1>1, <1>4, <1>6 DEF Paced

LEMMA NextCyclePaced == IInv /\ Paced /\ NextCycle => Paced'
<1> SUFFICES ASSUME IInv, Paced, NextCycle
             PROVE  Paced'
  OBVIOUS
<1>1. BeginCycle("loop") /\ ticked /\ ticked' = FALSE /\ phase' = phase /\ tick' = tick
  BY DEF NextCycle
<1>2. PollTypeOK /\ phase # "down" /\ MainTypeOK
  BY <1>1 DEF IInv, PollsInv, MainInv, LifeInv
<1>3. IsFiniteSet(Alive') /\ IsFiniteSet(Alive)
  BY <1>1, <1>2, BegunAlive DEF Paced
<1>4. ASSUME NEW a \in 0 .. Timeout
      PROVE  Interval * (Spent(Cardinality(Recent(a))))' <= a + NextTick'
  <2> DEFINE n == Cardinality(Recent(a))
             m == Cardinality(Recent(a)')
  <2>1. n \in Nat /\ m \in Nat /\ m <= n + 1
    BY <1>1, <1>2, <1>3, BegunAlive, RecentFinite
  <2>2. Interval * n <= a + NextTick
    BY <1>1 DEF Paced, Spent
  <2>3. (Spent(Cardinality(Recent(a))))' = m - 1 /\ NextTick' = NextTick
    BY <1>1 DEF Spent, NextTick
  <2> HIDE DEF n, m
  <2>4. Interval * (m - 1) <= Interval * n
    BY <2>1, TimesMonotone, ExporterAssumption
  <2>5. Interval * (m - 1) \in Int /\ Interval * n \in Int
    BY <2>1, ExporterAssumption
  <2> QED
    BY <1>2, <2>2, <2>3, <2>4, <2>5, NextTickType, PollAssumption
<1> QED
  BY <1>1, <1>2, <1>3, <1>4 DEF Paced

LEMMA ElapsePaced == IInv /\ Paced /\ Elapse => Paced'
<1> SUFFICES ASSUME IInv, Paced, Elapse
             PROVE  Paced'
  OBVIOUS
<1>1. Alive' = Alive /\ phase' = phase /\ phase # "down"
      /\ (phase = "stopping" => tick = 0 /\ tick' = 0)
  BY DEF Elapse, PollTime, TickerTime, Less, Alive, Paced
<1>2. PollTypeOK /\ MainTypeOK /\ IsFiniteSet(Alive)
  BY DEF IInv, PollsInv, MainInv, Paced
<1>3. \A k \in Alive : timer[k] \in 1 .. Timeout /\ timer'[k] = timer[k] - 1
  BY <1>2, PollAssumption DEF Elapse, PollTime, PollWaits, Alive, PollTypeOK
\* A tick makes up for the time until the next one.
<1>4. \/ ticked' = ticked /\ NextTick - 1 <= NextTick'
      \/ ticked = FALSE /\ ticked' = TRUE /\ NextTick - 1 = NextTick' - Interval
  <2>1. tick \in 0 .. Interval /\ ticked \in BOOLEAN /\ Interval \in Nat /\ Interval > 0
    BY <1>2, ExporterAssumption DEF MainTypeOK
  <2>2. CASE tick = 1
    <3>1. ticked' = TRUE /\ tick' = Interval
      BY <2>2 DEF Elapse, TickerTime
    <3>2. NextTick = 1 /\ NextTick' = Interval
      BY <1>1, <2>1, <2>2, <3>1 DEF NextTick
    <3>3. NextTick - 1 = NextTick' - Interval /\ NextTick - 1 <= NextTick'
      BY <2>1, <3>2
    <3>4. ticked = TRUE \/ ticked = FALSE
      BY <2>1
    <3> QED
      BY <3>1, <3>3, <3>4
  <2>3. CASE tick # 1
    <3>1. ticked' = ticked
      BY <2>1, <2>3 DEF Elapse, TickerTime
    <3>2. tick' = IF tick > 0 THEN tick - 1 ELSE 0
      BY <2>3 DEF Elapse, TickerTime, Less
    <3>3. tick - 1 <= tick' /\ Interval - 1 <= Interval
      BY <2>1, <3>2
    <3> QED
      BY <1>1, <3>1, <3>3 DEF NextTick
  <2> QED
    BY <2>2, <2>3
<1>5. NextTick \in Nat /\ NextTick' \in Nat
  <2>1. MainTypeOK'
    BY ElapseInv DEF IInv, MainInv
  <2> QED
    BY <1>2, <2>1, NextTickType, ExporterAssumption DEF MainTypeOK, NextTick
<1>6. ASSUME NEW a \in 0 .. Timeout
      PROVE  Interval * (Spent(Cardinality(Recent(a))))' <= a + NextTick'
  <2>1. CASE a = 0
    <3>1. Recent(a)' = {}
      BY <1>1, <1>3, <2>1, PollAssumption DEF Recent
    <3>2. Cardinality(Recent(a)') = 0
      BY <3>1, FS_EmptySet
    <3> QED
      BY <1>5, <2>1, <3>2, ExporterAssumption DEF Spent
  <2>2. CASE a # 0
    <3> DEFINE n == Cardinality(Recent(a - 1))
    <3>1. a - 1 \in 0 .. Timeout /\ a \in Nat
      BY <2>2, PollAssumption
    <3>2. Recent(a)' = Recent(a - 1)
      BY <1>1, <1>3, <3>1, PollAssumption DEF Recent
    <3>3. n \in Nat
      BY <1>2, RecentFinite
    <3>4. Interval * Spent(n) <= (a - 1) + NextTick
      BY <3>1 DEF Paced
    <3>5. (Spent(Cardinality(Recent(a))))' = (IF ticked' THEN n ELSE n - 1)
      BY <3>2 DEF Spent
    <3> HIDE DEF n
    <3>6. Interval * (n - 1) = Interval * n - Interval /\ Interval * n \in Nat
      BY <3>3, ExporterAssumption
    <3>7. ticked \in BOOLEAN /\ ticked' \in BOOLEAN /\ Interval \in Nat
      BY <1>2, ExporterAssumption DEF Elapse, TickerTime, MainTypeOK
    <3>8. CASE ticked' = ticked /\ NextTick - 1 <= NextTick'
      BY <1>5, <3>1, <3>4, <3>5, <3>6, <3>7, <3>8 DEF Spent
    <3>9. CASE ticked = FALSE /\ ticked' = TRUE /\ NextTick - 1 = NextTick' - Interval
      <4>1. Interval * n - Interval <= (a - 1) + NextTick
        BY <3>4, <3>6, <3>9 DEF Spent
      <4>2. (Spent(Cardinality(Recent(a))))' = n
        BY <3>5, <3>9
      <4>3. NextTick - 1 = NextTick' - Interval
        BY <3>9
      <4>4. Interval * n <= a + NextTick'
        <5>1. Interval * n \in Int /\ Interval \in Int /\ a \in Int
              /\ NextTick \in Int /\ NextTick' \in Int
          BY <1>5, <3>1, <3>6, <3>7
        <5> QED
          BY <4>1, <4>3, <5>1, OneTickMore
      <4> QED
        BY <4>2, <4>4
    <3> QED
      BY <1>4, <3>7, <3>8, <3>9
  <2> QED
    BY <2>1, <2>2
<1> QED
  BY <1>1, <1>2, <1>6 DEF Paced

\* A poll ends or goes on, and keeps the time it has left.
LEMMA PollStepPaced ==
  ASSUME IInv, Paced, NEW k \in Poll, PollStep(k), UNCHANGED mainVars
  PROVE  Paced'
<1>1. PollTypeOK /\ MainTypeOK /\ MainTypeOK'
  BY UnchangedMain DEF IInv, PollsInv, MainInv
<1>2. Alive' \subseteq Alive
  BY <1>1 DEF PollStep, PollRuns, NotHigher, Raise, Higher, Hear, PollTimesOut, NoteTime,
              PublishHeight, Returned, PublishTime, Alive, PollTypeOK
<1>3. \A j \in Alive' : timer'[j] = timer[j]
  BY <1>1 DEF PollStep, PollRuns, NotHigher, Raise, Higher, Hear, PollTimesOut, NoteTime,
              PublishHeight, Returned, PublishTime, Forgotten, Alive, PollTypeOK
<1>4. ticked' = ticked /\ NextTick' = NextTick /\ phase' = phase
      /\ (phase' = "stopping" => tick' = 0)
  BY DEF mainVars, ticker, NextTick, Paced
<1>5. NextTick <= NextTick'
  BY <1>1, <1>4, NextTickType
<1> QED
  BY <1>1, <1>2, <1>3, <1>4, <1>5, CalmPaced

\* The steps of main, of the server and of requests begin no poll.
LEMMA MainPaced ==
  ASSUME IInv, Paced,
         \/ \E g \in Routines : Answered(g) \/ TimedOut(g)
         \/ Serve \/ Listen \/ Scrape \/ ScrapeEnds \/ Signal
         \/ UNCHANGED vars
  PROVE  Paced'
<1>1. IInv' /\ MainTypeOK /\ MainTypeOK'
  <2>1. [Next]_vars
    BY DEF Next
  <2> QED
    BY <2>1, NextInv DEF IInv, MainInv
<1>2. Alive' = Alive /\ timer' = timer /\ ticked' = ticked
  BY DEF Answered, TimedOut, RequestEnds, Serve, Listen, Scrape, ScrapeEnds, Signal,
         ticker, vars, mainVars, pollVars, pollState, Alive
<1>3. NextTick <= NextTick' /\ (phase' = "down" => phase = "down")
      /\ (phase' = "stopping" => tick' = 0)
  BY <1>1, ExporterAssumption
     DEF Answered, TimedOut, RequestEnds, Serve, Listen, Scrape, ScrapeEnds, Signal,
         ticker, vars, mainVars, MainTypeOK, IInv, MainInv, LifeInv, NextTick, Paced
<1> QED
  BY <1>1, <1>2, <1>3, CalmPaced

LEMMA NextPaced == IInv /\ Paced /\ [Next]_vars => Paced'
<1> SUFFICES ASSUME IInv, Paced, [Next]_vars
             PROVE  Paced'
  OBVIOUS
<1>1. CASE Start
  BY <1>1, StartPaced
<1>2. CASE Killed \/ PortTaken \/ Stopped
  BY <1>2, CutPaced DEF Killed, PortTaken, Stopped
<1>3. CASE \/ \E g \in Routines : Answered(g) \/ TimedOut(g)
           \/ Serve \/ Listen \/ Scrape \/ ScrapeEnds \/ Signal
           \/ UNCHANGED vars
  BY <1>3, MainPaced
<1>4. CASE NextCycle
  BY <1>4, NextCyclePaced
<1>5. CASE Elapse
  BY <1>5, ElapsePaced
<1>6. CASE \E k \in Poll : PollStep(k) /\ UNCHANGED mainVars
  BY <1>6, PollStepPaced
<1> QED
  BY <1>1, <1>2, <1>3, <1>4, <1>5, <1>6 DEF Next

\* Over the whole life of a poll.
LEMMA PacedBounds == IInv /\ Paced => PollsBounded
<1> SUFFICES ASSUME IInv, Paced
             PROVE  PollsBounded
  OBVIOUS
<1> DEFINE n == Cardinality(Alive)
<1>1. Recent(Timeout) = Alive /\ Timeout \in 0 .. Timeout
  BY PollAssumption DEF Recent, Alive, IInv, PollsInv, PollTypeOK
<1>2. n \in Nat
  BY FS_CardinalityType DEF Paced
<1>3. Interval * Spent(n) <= Timeout + NextTick
  BY <1>1 DEF Paced
<1>4. NextTick \in Nat /\ NextTick <= Interval
  BY ExporterAssumption DEF IInv, MainInv, MainTypeOK, NextTick
<1> HIDE DEF n
<1>5. n - 1 <= Spent(n) /\ Spent(n) \in Int
  BY <1>2 DEF Spent
<1>6. Interval * (n - 1) <= Interval * Spent(n)
  BY <1>2, <1>5, TimesMonotone, ExporterAssumption
<1>7. Interval * (n - 1) = Interval * (n - 2) + Interval
  BY <1>2, ExporterAssumption
<1>8. Interval * (n - 2) \in Int /\ Interval * (n - 1) \in Int /\ Interval * Spent(n) \in Int
  BY <1>2, <1>5, ExporterAssumption
<1>9. Interval * (n - 2) <= Timeout
  BY <1>3, <1>4, <1>6, <1>7, <1>8, ExporterAssumption, PollAssumption
<1>10. n - 2 <= Timeout \div Interval
  <2> DEFINE q == Timeout \div Interval
  <2>1. q \in Nat /\ Timeout = (Interval * q) + (Timeout % Interval) /\ Timeout % Interval \in 0 .. Interval - 1
    BY ExporterAssumption, PollAssumption
  <2> HIDE DEF q
  <2> SUFFICES ASSUME ~ (n - 2 <= q)
               PROVE  FALSE
    BY <2>1, <1>2 DEF q
  <2>2. q + 1 <= n - 2
    BY <2>1, <1>2
  <2>3. Interval * (q + 1) <= Interval * (n - 2)
    BY <2>1, <2>2, <1>2, TimesMonotone, ExporterAssumption
  <2>4. Interval * (q + 1) = Interval * q + Interval /\ Interval * q \in Nat
    BY <2>1, ExporterAssumption
  <2> QED
    BY <1>8, <1>9, <2>1, <2>3, <2>4, ExporterAssumption, PollAssumption
<1> QED
  BY <1>2, <1>10, ExporterAssumption, PollAssumption DEF PollsBounded, n

(***************************************************************************)
(* The theorems.                                                           *)
(***************************************************************************)
\* Every variable of main and of the polls keeps its type.
THEOREM TypeCorrect == Spec => []TypeOK
<1>1. IInv => TypeOK
  BY DEF IInv, PollsInv, MainInv, MainTypeOK, TypeOK
<1> QED
  BY <1>1, AlwaysIInv, PTL

\* Two cycles never run at the same time (main.go:57-65), though nothing but the order of
\* the statements of main keeps them apart.
THEOREM CyclesApart == Spec => []OneCollectAtATime
<1>1. IInv => OneCollectAtATime
  BY DEF IInv, MainInv, MainTypeOK, LifeInv, OneCollectAtATime
<1> QED
  BY <1>1, AlwaysIInv, PTL

\* No client reads the metrics of a process that has not collected yet (main.go:56-73).
THEOREM CollectedFirst == Spec => []NothingServedBeforeFirstCycle
<1>1. IInv => NothingServedBeforeFirstCycle
  BY DEF IInv, MainInv, MainTypeOK, LifeInv, NothingServedBeforeFirstCycle
<1> QED
  BY <1>1, AlwaysIInv, PTL

\* In whatever order the nodes answer, a poll ends with the first of the highest blocks it
\* was told of and with what that answer says of its time (fetcher_chain.go:91-96).
THEOREM HighestWithItsTime == Spec => []BestAnswer
<1>1. IInv => BestAnswer
  <2> SUFFICES ASSUME IInv, NEW k \in Poll, Returned(k)
               PROVE  Says(best[k], bestTime[k]) = highest[k]
    BY DEF BestAnswer
  <2>1. highest[k] \in Answer /\ highest[k].height = best[k] /\ highest[k].time = bestTime[k]
    BY DEF IInv, PollsInv, PollTypeOK, PollInv, Returned
  <2> QED
    BY <2>1 DEF Says, Answer
<1> QED
  BY <1>1, AlwaysIInv, PTL

\* Unless polls overlap, or a block comes without a usable time, the two network gauges are
\* of one block (collector.go:89-100).
THEOREM GaugesOfOneBlock == Spec => []PairOfOneBlock
<1>1. IInv => PairOfOneBlock
  BY DEF IInv, PollsInv, PairInv, PairOfOneBlock
<1> QED
  BY <1>1, AlwaysIInv, PTL

\* However long the polls hang and however late the ticks are taken, the goroutines that
\* nobody waits for do not pile up (collector.go:89, main.go:61-65).
THEOREM PollsDoNotPileUp == Spec => []PollsBounded
<1>1. Spec => [](IInv /\ Paced)
  <2>1. Init => IInv /\ Paced
    BY InitInv, InitPaced
  <2>2. IInv /\ Paced /\ [Next]_vars => (IInv /\ Paced)'
    BY NextInv, NextPaced
  <2> QED
    BY <2>1, <2>2, PTL DEF Spec
<1> QED
  BY <1>1, PacedBounds, PTL
=============================================================================
