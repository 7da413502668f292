----------------------------- MODULE ChainPoll -----------------------------
(***************************************************************************)
(* The goroutine that collectChain starts and nobody waits for: it asks a  *)
(* sample of the public nodes (FetchMaxBlockHeightFromNodes), reduces the  *)
(* answers under a mutex, and sets two gauges one after the other.  Polls  *)
(* of several cycles may be alive at the same time.                        *)
(*                                                                         *)
(* A block time is named by the height of its block.  A node may name a    *)
(* block without a time that can be parsed: that time is 0.  The nodes are *)
(* interchangeable here, since any of them may lag behind: only the number *)
(* of requests under way is kept.                                          *)
(***************************************************************************)
EXTENDS Integers, FiniteSets

CONSTANTS
    Poll,        \* bound: the polls that the model can tell apart
    PublicNodes, \* len(BLOCK_HEIGHT_NODES)
    SampleSize,  \* how many of them are asked: 5 in the code
    MaxHeight,   \* bound: the heights the nodes may name
    Timeout      \* http.Client.Timeout, in units of time

VARIABLES
    stage,    \* where each poll is
    asking,   \* the requests of each poll that are under way
    timer,    \* the time they have left
    best,     \* maxHeight
    bestTime, \* latestTime
    pending,  \* the answers whose block times are about to be written
    highest,  \* the first of the highest answers a poll was given (for properties)
    shown,    \* the gauges gonka_block_height_max and gonka_block_time_network_seconds
    mixed     \* whether the gauges were set by polls that overlapped, or the second
              \* one was not set for want of a block time (for properties)

pollState == <<stage, asking, timer, best, bestTime, pending, highest>>
pollVars == <<pollState, shown, mixed>>

Height == 0 .. MaxHeight

\* What a node says of its latest block, with a block time or without.
Answer == [height : Height, time : Height]
Says(h, t) == [height |-> h, time |-> t]
Nothing == Says(0, 0)

ASSUME PollAssumption ==
    /\ PublicNodes \in Nat /\ SampleSize \in Nat /\ MaxHeight \in Nat
    /\ Timeout \in Nat \ {0}

PollTypeOK ==
    /\ stage \in [Poll -> {"none", "reduce", "time"}]
    /\ asking \in [Poll -> 0 .. SampleSize]
    /\ timer \in [Poll -> 0 .. Timeout]
    /\ best \in [Poll -> Height]
    /\ bestTime \in [Poll -> Height]
    /\ pending \in [Poll -> SUBSET Answer]
    /\ highest \in [Poll -> Answer]
    /\ shown \in [height : Height, time : Height]
    /\ mixed \in BOOLEAN

NoPoll == [k \in Poll |-> 0]
Unheard == [k \in Poll |-> Nothing]

NobodyPolls ==
    /\ stage = [k \in Poll |-> "none"]
    /\ asking = NoPoll /\ timer = NoPoll /\ best = NoPoll /\ bestTime = NoPoll
    /\ pending = [k \in Poll |-> {}]
    /\ highest = Unheard
    /\ shown = Nothing
    /\ mixed = FALSE

\* The process is gone, and its goroutines and gauges with it.
PollsCut ==
    /\ stage' = [k \in Poll |-> "none"]
    /\ asking' = NoPoll /\ timer' = NoPoll /\ best' = NoPoll /\ bestTime' = NoPoll
    /\ pending' = [k \in Poll |-> {}]
    /\ highest' = Unheard
    /\ shown' = Nothing
    /\ mixed' = FALSE

Alive == {k \in Poll : stage[k] # "none"}

(***************************************************************************)
(* collectChain starts a poll, which starts a request per sampled node.    *)
(***************************************************************************)
StartPoll(k) ==
    /\ stage[k] = "none"
    /\ stage' = [stage EXCEPT ![k] = "reduce"]
    /\ asking' = [asking EXCEPT ![k] = IF PublicNodes > SampleSize THEN SampleSize ELSE PublicNodes]
    /\ timer' = [timer EXCEPT ![k] = Timeout]
    /\ UNCHANGED <<best, bestTime, pending, highest, shown, mixed>>

\* One request less.
Hear(k, a) ==
    /\ asking[k] > 0
    /\ asking' = [asking EXCEPT ![k] = @ - 1]
    /\ highest' = [highest EXCEPT ![k] = IF a.height > @.height THEN a ELSE @]
    /\ UNCHANGED <<stage, timer, shown, mixed>>

\* No answer, an answer that does not parse, or one that is not higher.
NotHigher(k, a) ==
    /\ a.height <= best[k]
    /\ pending[k] = {}
    /\ Hear(k, a)
    /\ UNCHANGED <<best, bestTime, pending>>

Higher(k, a) ==
    /\ a.height > best[k]
    /\ Hear(k, a)
    /\ best' = [best EXCEPT ![k] = a.height]
    /\ pending' = [pending EXCEPT ![k] = @ \cup {a}]
    /\ UNCHANGED bestTime

\* Faulty variant: the comparison and the two assignments without the mutex.
RaiseUnlocked(k, a) == Higher(k, a)

\* mu.Lock, the comparison and the first assignment.
Raise(k, a) == pending[k] = {} /\ Higher(k, a)

\* Faulty variant: an answer without a time leaves the time of a lower one.
NoteTimeIfAny(k, a) ==
    /\ a \in pending[k]
    /\ bestTime' = [bestTime EXCEPT ![k] = IF a.time > 0 THEN a.time ELSE @]
    /\ pending' = [pending EXCEPT ![k] = @ \ {a}]
    /\ UNCHANGED <<stage, asking, timer, best, highest, shown, mixed>>

\* The second assignment, whatever the answer has for a time, and mu.Unlock.
NoteTime(k, a) ==
    /\ a \in pending[k]
    /\ bestTime' = [bestTime EXCEPT ![k] = a.time]
    /\ pending' = [pending EXCEPT ![k] = @ \ {a}]
    /\ UNCHANGED <<stage, asking, timer, best, highest, shown, mixed>>

\* The client gives up (or the connection breaks before that: NotHigher with Nothing).
PollTimesOut(k) ==
    /\ timer[k] = 0
    /\ pending[k] = {}
    /\ Hear(k, Nothing)
    /\ UNCHANGED <<best, bestTime, pending>>

(***************************************************************************)
(* wg.Wait, then the two gauges.                                           *)
(***************************************************************************)
Returned(k) == stage[k] = "reduce" /\ asking[k] = 0 /\ pending[k] = {}

PublishHeight(k) ==
    /\ Returned(k)
    /\ shown' = IF best[k] > 0 THEN [shown EXCEPT !.height = best[k]] ELSE shown
    /\ mixed' = (Alive # {k} \/ (mixed /\ best[k] = 0))
    /\ stage' = [stage EXCEPT ![k] = "time"]
    /\ UNCHANGED <<asking, timer, best, bestTime, pending, highest>>

Forgotten(f, k) == [f EXCEPT ![k] = 0]

\* Whether a poll has a block but no time for it.
Timeless(k) == best[k] > 0 /\ bestTime[k] = 0

\* The time gauge keeps its value when there is no time, or none that can be parsed.
PublishTime(k) ==
    /\ stage[k] = "time"
    /\ shown' = IF bestTime[k] > 0 THEN [shown EXCEPT !.time = bestTime[k]] ELSE shown
    /\ mixed' = (mixed \/ Alive # {k} \/ Timeless(k))
    /\ stage' = [stage EXCEPT ![k] = "none"]
    /\ best' = Forgotten(best, k)
    /\ bestTime' = Forgotten(bestTime, k)
    /\ highest' = [highest EXCEPT ![k] = Nothing]
    /\ timer' = Forgotten(timer, k)
    /\ UNCHANGED <<asking, pending>>

PollRuns(k) ==
    \/ PollTimesOut(k)
    \/ \E a \in Answer : NoteTime(k, a)
    \/ PublishHeight(k)
    \/ PublishTime(k)

PollStep(k) ==
    \/ \E h \in Height : \E t \in {h, 0} : NotHigher(k, Says(h, t)) \/ Raise(k, Says(h, t))
    \/ PollRuns(k)

(***************************************************************************)
(* Time passes only while every poll waits for an answer; what the program *)
(* does itself takes no time.                                              *)
(***************************************************************************)
\* Faulty variant: a client without a timeout.
PollWaitsForEver(k) == stage[k] = "reduce" /\ asking[k] > 0 /\ pending[k] = {}

PollWaits(k) == stage[k] = "reduce" /\ asking[k] > 0 /\ pending[k] = {} /\ timer[k] > 0

PollTime ==
    /\ \A k \in Alive : PollWaits(k)
    /\ timer' = [k \in Poll |-> IF timer[k] > 0 THEN timer[k] - 1 ELSE 0]
    /\ UNCHANGED <<stage, asking, best, bestTime, pending, highest, shown, mixed>>

(***************************************************************************)
(* Properties.                                                             *)
(***************************************************************************)
\* A poll that returns has the first of the highest blocks its nodes named, with the time
\* that this very answer gave or, if it gave none, with no time rather than that of a lower
\* block, in whatever order the answers come in (fetcher_chain.go:91-96).
BestAnswer == \A k \in Poll : Returned(k) => Says(best[k], bestTime[k]) = highest[k]

\* The two network gauges are of one block, as long as since they were set no poll overtook
\* another one or ran into it, and no block came without a usable time: then the height is
\* set and the time keeps its value (collector.go:89-100 sets them one after the other).
PairOfOneBlock ==
    ~ mixed /\ (\A k \in Poll : stage[k] # "time") => shown.height = shown.time
=============================================================================
