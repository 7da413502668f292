------------------------------ MODULE Exporter ------------------------------
(***************************************************************************)
(* main of cmd/exporter/main.go with the polls its cycles leave behind:    *)
(* the first cycle, the ticker and its one-slot channel, the goroutine     *)
(* that ranges over it, the HTTP server, the signal and the shutdown.      *)
(*                                                                         *)
(* Time passes in units; every timer counts down, and no timer that has    *)
(* run out is passed over.  A cycle is a number of requests, each of which *)
(* takes up to the timeout of the HTTP client; what they do is the subject *)
(* of EpochTracker, NodeSweep and NetworkGauges.                           *)
(***************************************************************************)
EXTENDS ChainPoll

CONSTANTS
    Interval, \* REFRESH_INTERVAL
    Grace,    \* the timeout of srv.Shutdown
    Requests  \* how many requests a cycle makes, one after the other

VARIABLES
    phase,     \* where main is; "down" while no process runs
    work,      \* the requests left in the cycle that each goroutine is in
    left,      \* the time the request under way has left
    tick,      \* the time to the next tick, 0 when there is no ticker
    ticked,    \* whether a tick is in ticker.C
    listening, \* whether the server accepts connections
    scrape,    \* whether a request for /metrics is being served
    collected, \* whether a cycle of this process has ended
    grace      \* the time the shutdown has left

goroutines == <<work, left>>
ticker == <<tick, ticked>>
server == <<listening, scrape>>
mainVars == <<phase, goroutines, ticker, server, collected, grace>>
vars == <<pollVars, mainVars>>

Routines == {"main", "loop"}

\* time.NewTicker panics for an interval that is not positive.
ASSUME ExporterAssumption ==
    /\ Interval \in Nat \ {0} /\ Grace \in Nat \ {0} /\ Requests \in Nat \ {0}

TypeOK ==
    /\ PollTypeOK
    /\ phase \in {"down", "first", "serving", "stopping"}
    /\ work \in [Routines -> 0 .. Requests]
    /\ left \in [Routines -> 0 .. Timeout]
    /\ tick \in 0 .. Interval
    /\ ticked \in BOOLEAN /\ listening \in BOOLEAN /\ scrape \in BOOLEAN
    /\ collected \in BOOLEAN
    /\ grace \in 0 .. Grace

Idle == [g \in Routines |-> 0]

Init ==
    /\ NobodyPolls
    /\ phase = "down"
    /\ work = Idle /\ left = Idle
    /\ tick = 0 /\ grace = 0
    /\ ticked = FALSE /\ listening = FALSE /\ scrape = FALSE /\ collected = FALSE

(***************************************************************************)
(* The process starts and ends.  Whatever goroutine is still at work when  *)
(* it ends is cut off.                                                     *)
(***************************************************************************)
Cut ==
    /\ PollsCut
    /\ phase' = "down"
    /\ work' = Idle /\ left' = Idle
    /\ tick' = 0 /\ grace' = 0
    /\ ticked' = FALSE /\ listening' = FALSE /\ scrape' = FALSE /\ collected' = FALSE

BeginCycle(g) ==
    /\ work[g] = 0
    /\ work' = [work EXCEPT ![g] = Requests]
    /\ left' = [left EXCEPT ![g] = Timeout]
    /\ StartPoll(CHOOSE k \in Poll : stage[k] = "none")

\* Faulty variant: the ticker and its goroutine are there before the first cycle.
StartTickerFirst ==
    /\ phase = "down"
    /\ BeginCycle("main")
    /\ phase' = "first"
    /\ tick' = Interval
    /\ UNCHANGED <<ticked, server, collected, grace>>

Start ==
    /\ phase = "down"
    /\ BeginCycle("main")
    /\ phase' = "first"
    /\ UNCHANGED <<ticker, server, collected, grace>>

\* A signal before signal.Notify, that is in the first cycle, or a kill at any time.
Killed == phase # "down" /\ Cut

\* ListenAndServe fails: os.Exit(1).
PortTaken == phase = "serving" /\ ~ listening /\ Cut

(***************************************************************************)
(* A cycle.                                                                *)
(***************************************************************************)
RequestEnds(g) ==
    /\ work[g] > 0
    /\ work' = [work EXCEPT ![g] = @ - 1]
    /\ left' = [left EXCEPT ![g] = IF work[g] = 1 THEN 0 ELSE Timeout]
    /\ collected' = (collected \/ work[g] = 1)
    /\ UNCHANGED <<pollVars, phase, ticker, server, grace>>

\* An answer or an error, in time.
Answered(g) == left[g] > 0 /\ RequestEnds(g)

TimedOut(g) == left[g] = 0 /\ RequestEnds(g)

(***************************************************************************)
(* After the first cycle: the ticker and the server.                       *)
(***************************************************************************)
Serve ==
    /\ phase = "first"
    /\ work["main"] = 0
    /\ phase' = "serving"
    /\ tick' = Interval
    /\ UNCHANGED <<pollVars, goroutines, ticked, server, collected, grace>>

\* Faulty variant: the server does not wait for the first cycle.
ListenAtOnce ==
    /\ phase \in {"first", "serving"}
    /\ ~ listening
    /\ listening' = TRUE
    /\ UNCHANGED <<pollVars, phase, goroutines, ticker, scrape, collected, grace>>

Listen ==
    /\ phase = "serving"
    /\ ~ listening
    /\ listening' = TRUE
    /\ UNCHANGED <<pollVars, phase, goroutines, ticker, scrape, collected, grace>>

\* A client connects; it may read as slowly as it likes.
Scrape ==
    /\ listening
    /\ ~ scrape
    /\ scrape' = TRUE
    /\ UNCHANGED <<pollVars, phase, goroutines, ticker, listening, collected, grace>>

ScrapeEnds ==
    /\ scrape
    /\ scrape' = FALSE
    /\ UNCHANGED <<pollVars, phase, goroutines, ticker, listening, collected, grace>>

\* for range ticker.C; a tick that is in the channel outlives ticker.Stop.
NextCycle ==
    /\ ticked
    /\ ticked' = FALSE
    /\ BeginCycle("loop")
    /\ UNCHANGED <<phase, tick, server, collected, grace>>

(***************************************************************************)
(* The signal: ticker.Stop, then srv.Shutdown, which closes the listener   *)
(* and waits for the connections.                                          *)
(***************************************************************************)
Signal ==
    /\ phase = "serving"
    /\ phase' = "stopping"
    /\ tick' = 0
    /\ listening' = FALSE
    /\ grace' = Grace
    /\ UNCHANGED <<pollVars, goroutines, ticked, scrape, collected>>

\* Faulty variant: srv.Shutdown with a context that has no deadline.
StoppedWhenIdle == phase = "stopping" /\ ~ scrape /\ Cut

Stopped ==
    /\ phase = "stopping"
    /\ ~ scrape \/ grace = 0
    /\ Cut

(***************************************************************************)
(* Time.                                                                   *)
(***************************************************************************)
\* Faulty variant: a timer that is not set counts down too.
LessAlways(t) == t - 1

Less(t) == IF t > 0 THEN t - 1 ELSE 0

\* Faulty variant: a tick that finds the channel full stops the ticker.
TickerTimeBlocks ==
    /\ tick' = IF tick = 1 THEN (IF ticked THEN 0 ELSE Interval) ELSE Less(tick)
    /\ ticked' = (ticked \/ tick = 1)

\* The ticker drops a tick when the channel holds one.
TickerTime ==
    /\ tick' = IF tick = 1 THEN Interval ELSE Less(tick)
    /\ ticked' = (ticked \/ tick = 1)

Elapse ==
    /\ phase # "down"
    /\ \A g \in Routines : work[g] > 0 => left[g] > 0
    /\ phase = "first" => work["main"] > 0
    /\ ~ (ticked /\ work["loop"] = 0)
    /\ phase = "stopping" => grace > 0
    /\ PollTime
    /\ TickerTime
    /\ left' = [g \in Routines |-> Less(left[g])]
    /\ grace' = Less(grace)
    /\ UNCHANGED <<phase, work, server, collected>>

Next ==
    \/ Start
    \/ Killed
    \/ PortTaken
    \/ \E g \in Routines : Answered(g) \/ TimedOut(g)
    \/ Serve
    \/ Listen
    \/ Scrape
    \/ ScrapeEnds
    \/ NextCycle
    \/ Signal
    \/ Stopped
    \/ Elapse
    \/ \E k \in Poll : PollStep(k) /\ UNCHANGED mainVars

Spec == Init /\ [][Next]_vars

(***************************************************************************)
(* Time goes on, and the program takes its own steps; nothing is assumed   *)
(* of answers, clients or signals.  The container is started again         *)
(* (restart: unless-stopped).                                              *)
(***************************************************************************)
Fairness ==
    /\ WF_vars(Start)
    /\ WF_vars(Elapse)
    /\ WF_vars(\E g \in Routines : TimedOut(g))
    /\ WF_vars(Serve)
    /\ WF_vars(NextCycle)
    /\ WF_vars(Stopped)
    /\ WF_vars(\E k \in Poll : PollRuns(k) /\ UNCHANGED mainVars)

FairSpec == Spec /\ Fairness

(***************************************************************************)
(* Properties.                                                             *)
(***************************************************************************)
\* Two cycles never run at the same time, the first one included: Collector has no lock
\* of its own.
OneCollectAtATime == work["main"] = 0 \/ work["loop"] = 0

\* Who reads /metrics never finds a process that has not collected yet (main.go:56-58).
NothingServedBeforeFirstCycle == scrape => collected

\* Polls that hang do not pile up: cycles begin at most one interval apart from one tick
\* to the next, however long they take and however late the ticks are taken.
PollsBounded == Cardinality(Alive) <= 2 + Timeout \div Interval

\* While the process serves and nobody ends it, cycles go on for ever, also when every
\* request times out and cycles take longer than the interval.
CyclesGoOn == <>[](phase = "serving") => []<>(work["loop"] = Requests)

\* A process that got the signal ends, also with a client that never finishes reading.
SignalEnds == phase = "stopping" ~> phase = "down"
=============================================================================
