---------------------------- MODULE CollectGate ----------------------------
(***************************************************************************)
(* The single-flight gate the agent puts in front of every expensive       *)
(* collection (agent/collect_gate.go).  Interval loops, PushAll and the    *)
(* watchdog call do() concurrently; the gate must keep at most one         *)
(* collection in flight, hand its result to everybody who queued behind    *)
(* it, and reuse a result that is still warm.                              *)
(*                                                                         *)
(* The mutex makes each locked region one step; the channel g.done is an   *)
(* identifier, `closed` the identifiers already closed.  A collection's    *)
(* outcome is the instant at which it read the machine, so that the age of *)
(* what a caller is given can be stated.                                   *)
(***************************************************************************)
EXTENDS Naturals

CONSTANTS Callers,   \* the goroutines that call do()
          Fresh,     \* freshS, in clock ticks
          MaxTime    \* bound on the clock

ASSUME FreshAssumption == Fresh \in Nat
ASSUME MaxTimeAssumption == MaxTime \in Nat

VARIABLES now,       \* the clock
          running,   \* g.running
          done,      \* g.done: identifier of the current channel, 0 before any
          closed,    \* identifiers of the channels closed so far
          value, at, \* g.value and g.at; at = 0 is the zero time
          pc,        \* where each caller stands inside do()
          chan,      \* the channel a caller captured before it unlocked
          mine,      \* v of a caller that is collecting
          start,     \* history: when the caller's current do() began
          ret        \* history: what its last finished do() returned

vars == <<now, running, done, closed, value, at, pc, chan, mine, start, ret>>

gate == <<running, done, closed, value, at>>

PCs == {"idle", "waiting", "collecting", "collected", "published"}

NoResult == [val |-> 0, at |-> 0, called |-> 0]

TypeOK == /\ now \in Nat \ {0}
          /\ running \in BOOLEAN
          /\ done \in Nat
          /\ closed \subseteq 1..done
          /\ value \in Nat /\ at \in Nat
          /\ pc \in [Callers -> PCs]
          /\ chan \in [Callers -> Nat]
          /\ mine \in [Callers -> Nat]
          /\ start \in [Callers -> Nat]
          /\ ret \in [Callers -> [val : Nat, at : Nat, called : Nat]]

\* newCollectGate: nothing collected, nothing running.  The clock starts at
\* 1 so that 0 is left for the zero time.
Init == /\ now = 1
        /\ running = FALSE /\ done = 0 /\ closed = {}
        /\ value = 0 /\ at = 0
        /\ pc = [c \in Callers |-> "idle"]
        /\ chan = [c \in Callers |-> 0]
        /\ mine = [c \in Callers |-> 0]
        /\ start = [c \in Callers |-> 0]
        /\ ret = [c \in Callers |-> NoResult]

\* !g.at.IsZero() && time.Since(g.at) < g.freshS
Warm == at # 0 /\ now < at + Fresh

\* The gate's value as a caller that called at time t is given it.
Result(v, a, t) == [val |-> v, at |-> a, called |-> t]

\* A warm value is returned from the first locked region.
ReuseWarm(c) == /\ pc[c] = "idle"
                /\ Warm
                /\ start' = [start EXCEPT ![c] = now]
                /\ ret' = [ret EXCEPT ![c] = Result(value, at, now)]
                /\ UNCHANGED <<now, gate, pc, chan, mine>>

\* A collection is in flight: capture its channel and wait on it.
Join(c) == /\ pc[c] = "idle"
           /\ ~Warm
           /\ running
           /\ chan' = [chan EXCEPT ![c] = done]
           /\ pc' = [pc EXCEPT ![c] = "waiting"]
           /\ start' = [start EXCEPT ![c] = now]
           /\ UNCHANGED <<now, gate, mine, ret>>

\* Mutant of StartCollect: the running test dropped.
StartCollectAnyway(c) == /\ pc[c] = "idle"
                         /\ ~Warm
                         /\ running' = TRUE
                         /\ done' = done + 1
                         /\ chan' = [chan EXCEPT ![c] = done + 1]
                         /\ pc' = [pc EXCEPT ![c] = "collecting"]
                         /\ start' = [start EXCEPT ![c] = now]
                         /\ UNCHANGED <<now, closed, value, at, mine, ret>>

\* Mutant of StartCollect: the channel is not made, so nil would be closed.
StartCollectNoChan(c) == /\ pc[c] = "idle"
                         /\ ~Warm
                         /\ ~running
                         /\ running' = TRUE
                         /\ pc' = [pc EXCEPT ![c] = "collecting"]
                         /\ start' = [start EXCEPT ![c] = now]
                         /\ UNCHANGED <<now, done, closed, value, at, chan, mine, ret>>

\* Nothing in flight: make a new channel and become the collector.
StartCollect(c) == /\ pc[c] = "idle"
                   /\ ~Warm
                   /\ ~running
                   /\ running' = TRUE
                   /\ done' = done + 1
                   /\ chan' = [chan EXCEPT ![c] = done + 1]
                   /\ pc' = [pc EXCEPT ![c] = "collecting"]
                   /\ start' = [start EXCEPT ![c] = now]
                   /\ UNCHANGED <<now, closed, value, at, mine, ret>>

\* collect() itself, outside the lock.
Collect(c) == /\ pc[c] = "collecting"
              /\ mine' = [mine EXCEPT ![c] = now]
              /\ pc' = [pc EXCEPT ![c] = "collected"]
              /\ UNCHANGED <<now, gate, chan, start, ret>>

\* The second locked region: store the result, clear running, unlock.
Publish(c) == /\ pc[c] = "collected"
              /\ value' = mine[c]
              /\ at' = now
              /\ running' = FALSE
              /\ pc' = [pc EXCEPT ![c] = "published"]
              /\ UNCHANGED <<now, done, closed, chan, mine, start, ret>>

\* Mutant of CloseDone: closes g.done instead of the captured channel.
CloseCurrent(c) == /\ pc[c] = "published"
                   /\ closed' = closed \cup {done}
                   /\ pc' = [pc EXCEPT ![c] = "idle"]
                   /\ ret' = [ret EXCEPT ![c] = Result(mine[c], mine[c], start[c])]
                   /\ UNCHANGED <<now, running, done, value, at, chan, mine, start>>

\* close(done) after the unlock, on the channel captured by the collector,
\* which then returns its own reading.
CloseDone(c) == /\ pc[c] = "published"
                /\ closed' = closed \cup {chan[c]}
                /\ pc' = [pc EXCEPT ![c] = "idle"]
                /\ ret' = [ret EXCEPT ![c] = Result(mine[c], mine[c], start[c])]
                /\ UNCHANGED <<now, running, done, value, at, chan, mine, start>>

\* Mutant of TakeShared: reads the value without waiting for the channel.
TakeAtOnce(c) == /\ pc[c] = "waiting"
                 /\ pc' = [pc EXCEPT ![c] = "idle"]
                 /\ ret' = [ret EXCEPT ![c] = Result(value, at, start[c])]
                 /\ UNCHANGED <<now, gate, chan, mine, start>>

\* <-wait returns, then the value is read under the lock.
TakeShared(c) == /\ pc[c] = "waiting"
                 /\ chan[c] \in closed
                 /\ pc' = [pc EXCEPT ![c] = "idle"]
                 /\ ret' = [ret EXCEPT ![c] = Result(value, at, start[c])]
                 /\ UNCHANGED <<now, gate, chan, mine, start>>

Tick == /\ now < MaxTime
        /\ now' = now + 1
        /\ UNCHANGED <<gate, pc, chan, mine, start, ret>>

Step(c) == \/ ReuseWarm(c) \/ Join(c) \/ StartCollect(c) \/ Collect(c)
           \/ Publish(c) \/ CloseDone(c) \/ TakeShared(c)

Next == Tick \/ \E c \in Callers : Step(c)

Spec == Init /\ [][Next]_vars

\* Inside do() the scheduler lets every goroutine go on, and collect()
\* returns: the commands it runs have timeouts.  Nobody is obliged to call.
Inside(c) == Collect(c) \/ Publish(c) \/ CloseDone(c) \/ TakeShared(c)

Fairness == \A c \in Callers : WF_vars(Inside(c))

-----------------------------------------------------------------------------
\* "collect is never called concurrently with itself" (the comment on do):
\* whatever the interleaving of the three kinds of caller, at most one of
\* them is between taking the gate and publishing.
OneCollection ==
    \A c, d \in Callers :
        /\ pc[c] \in {"collecting", "collected"}
        /\ pc[d] \in {"collecting", "collected"}
        => c = d

\* What do() returns was gathered by a collection that ended after the call
\* began or less than freshS before it: a waiter that skips the freshness
\* test when it wakes is never given the value of an earlier collection, nor
\* the zero value of a gate that has not collected yet.
ResultFresh ==
    \A c \in Callers : ret[c] # NoResult => ret[c].called < ret[c].at + Fresh
                                            \/ ret[c].called <= ret[c].at

\* The collector closes its channel after unlocking, when another caller may
\* already have replaced g.done: no channel is ever closed twice (a panic),
\* and none whose collection is still in flight.
CloseOnce ==
    /\ \A c \in Callers :
          pc[c] \in {"collecting", "collected", "published"} => chan[c] \notin closed
    /\ running => done \notin closed

\* Everyone who joined a collection is released with its result.
WaitersReleased ==
    \A c \in Callers : pc[c] = "waiting" ~> pc[c] = "idle"

=============================================================================
