--------------------------- MODULE PluginRuntime ---------------------------
(***************************************************************************)
(* One plugin's Lua state (shared/plugin/runtime.go), which its tasks, its *)
(* handlers and the host enter one at a time, and the sampler that cancels *)
(* a call for its memory (memory.go).                                      *)
(*                                                                         *)
(* What a call computes is left out: it ends with a result, a Lua error or *)
(* its deadline, and may set or drop the plugin's metric on the way.       *)
(***************************************************************************)
EXTENDS Naturals

CONSTANTS Tasks,         \* registered with beacle.every
          Handlers,      \* callers of Handle: the panel's buttons, events
          MaxFailures,   \* maxFailures
          MaxCalls       \* bound: calls of a handler

Loader == "load"
Goroutines == Tasks \cup Handlers \cup {Loader}

VARIABLES pc,        \* each caller: off, idle, in Lua, judging, in fail, gone
          res,       \* what its last call ended with
          mu,        \* Runtime.mu is held by a call
          closed,    \* Runtime.closed, and Runtime.stop
          lua,       \* the LState: open, about to be closed, closed
          said,      \* Runtime.errMsg is set
          values,    \* Runtime.values has the metric
          strikes,   \* memStrike, of which only 0, 1 and more are told apart
          failures,  \* of each task, in a row
          over,      \* activeCall: fine, cancelled beside another, cancelled alone
          beside,    \* another plugin's call is active
          host,      \* the host's Close: not called, waiting, done
          calls

rtVars == <<pc, res, mu, closed, lua, said, values, strikes, failures, over, beside, host, calls>>
flow == <<mu, closed, lua, strikes, over>>
data == <<said, values>>

Results == {"ok", "err", "stopErr", "stopOk"}

TypeOK ==
    /\ pc \in [Goroutines -> {"off", "idle", "call", "judge", "fail", "gone"}]
    /\ res \in [Goroutines -> Results]
    /\ {mu, closed, said, values, beside} \subseteq BOOLEAN
    /\ lua \in {"open", "closing", "closed"}
    /\ strikes \in 0..2 /\ failures \in [Tasks -> 0..MaxFailures]
    /\ over \in {"no", "beside", "alone"} /\ host \in {"none", "wait", "done"}
    /\ calls \in [Handlers -> 0..MaxCalls]

\* New, and Load about to run the top-level chunk.
Init ==
    /\ pc = [c \in Goroutines |-> IF c = Loader THEN "idle" ELSE "off"]
    /\ res = [c \in Goroutines |-> "ok"]
    /\ mu = FALSE /\ closed = FALSE /\ lua = "open" /\ said = FALSE /\ values = FALSE
    /\ strikes = 0 /\ failures = [t \in Tasks |-> 0] /\ over = "no" /\ beside = FALSE
    /\ host = "none" /\ calls = [h \in Handlers |-> 0]

At(c, where) == pc' = [pc EXCEPT ![c] = where]

\* call, up to the Lua function: a stopped plugin answers "plugin stopped".
Enter(c) ==
    /\ pc[c] = "idle" /\ ~mu
    /\ IF closed
       THEN At(c, "judge") /\ res' = [res EXCEPT ![c] = "err"] /\ UNCHANGED <<mu, over>>
       ELSE At(c, "call") /\ mu' = TRUE /\ UNCHANGED <<res, over>>
    /\ UNCHANGED <<closed, lua, strikes, data, failures, beside, host, calls>>

\* luaMetric
Reading(c) ==
    /\ pc[c] = "call"
    /\ values' \in BOOLEAN
    /\ UNCHANGED <<pc, res, flow, said, failures, beside, host, calls>>

\* luaConfigure: the restart waits for this very call, so it is a goroutine's.
Configure(c) ==
    /\ pc[c] = "call" /\ host = "none"
    /\ host' = "wait"
    /\ UNCHANGED <<pc, res, flow, data, failures, beside, calls>>

\* memWatch.check finds the heap grown: every active call is cancelled.
Cancels(c) ==
    /\ pc[c] = "call" /\ over = "no"
    /\ over' = IF beside THEN "beside" ELSE "alone"
    /\ UNCHANGED <<pc, res, mu, closed, lua, strikes, data, failures, beside, host, calls>>
Beside == beside' = ~beside /\ UNCHANGED <<pc, res, flow, data, failures, host, calls>>

\* Mutant: luaConfigure restarts the plugin itself.
ReturnsAfterRestart(c) == pc[c] = "call" /\ host # "wait"

\* CallByParam comes back: the function's end, its deadline or the sampler.
Returns(c) == pc[c] = "call"

\* call, after the Lua function: the strikes, the error, the retained size.
Outcome(c) ==
    IF over # "no"
    THEN /\ strikes' = IF over = "alone" \/ strikes > 0 THEN 2 ELSE 1
         /\ res' = [res EXCEPT ![c] = IF strikes' >= 2 THEN "stopErr" ELSE "err"]
    ELSE \/ res' = [res EXCEPT ![c] = "err"] /\ UNCHANGED strikes
         \/ res' \in {[res EXCEPT ![c] = r] : r \in {"ok", "stopOk"}} /\ strikes' = 0
Ends(c) ==
    /\ Returns(c)
    /\ At(c, "judge") /\ mu' = FALSE /\ over' = "no"
    /\ Outcome(c)
    /\ UNCHANGED <<closed, lua, data, failures, beside, host, calls>>

\* fail, before it asks for mu.
Says == said' = TRUE /\ values' = FALSE

\* Call's own verdict: a plugin that used or keeps too much is stopped.
Stopped(c) ==
    /\ pc[c] = "judge" /\ res[c] \in {"stopErr", "stopOk"}
    /\ At(c, "fail") /\ Says
    /\ UNCHANGED <<res, flow, failures, beside, host, calls>>

\* Mutant: the plugin is stopped without waiting for the call in progress.
FailsAtOnce(c) ==
    /\ closed' = TRUE
    /\ lua' = IF closed THEN lua ELSE "closing"

\* fail, under mu: once.
FailLocked(c) ==
    /\ ~mu
    /\ closed' = TRUE
    /\ lua' = IF closed THEN lua ELSE "closing"
Fail(c) ==
    /\ pc[c] = "fail"
    /\ FailLocked(c)
    /\ res' = [res EXCEPT ![c] = IF @ = "stopOk" THEN "ok" ELSE "err"]
    /\ At(c, IF res[c] = "err" THEN "gone" ELSE "judge")
    /\ UNCHANGED <<mu, strikes, over, data, failures, beside, host, calls>>
LuaCloses ==
    /\ lua = "closing"
    /\ lua' = "closed"
    /\ UNCHANGED <<pc, res, mu, closed, strikes, over, data, failures, beside, host, calls>>

\* Load: the tasks start once the chunk has run; an error stops the plugin.
Loaded ==
    /\ pc[Loader] = "judge"
    /\ \/ /\ res[Loader] = "ok"
          /\ pc' = [c \in Goroutines |-> IF c = Loader THEN "gone" ELSE "idle"]
          /\ UNCHANGED data
       \/ /\ res[Loader] = "err"
          /\ At(Loader, "fail") /\ Says
    /\ UNCHANGED <<res, flow, failures, beside, host, calls>>

\* runTask: failures in a row stop the plugin, a closed stop ends the task;
\* a tick that is due at the same time may win once more.
Judge(t) ==
    /\ pc[t] = "judge"
    /\ \/ /\ res[t] = "ok"
          /\ failures' = [failures EXCEPT ![t] = 0] /\ At(t, "idle") /\ UNCHANGED data
       \/ /\ res[t] = "err" /\ failures[t] + 1 < MaxFailures
          /\ failures' = [failures EXCEPT ![t] = @ + 1] /\ At(t, "idle") /\ UNCHANGED data
       \/ /\ res[t] = "err" /\ failures[t] + 1 >= MaxFailures
          /\ failures' = [failures EXCEPT ![t] = MaxFailures] /\ At(t, "fail") /\ Says
    /\ UNCHANGED <<res, flow, beside, host, calls>>
TaskEnds(t) ==
    /\ pc[t] = "idle" /\ closed
    /\ At(t, "gone")
    /\ UNCHANGED <<res, flow, data, failures, beside, host, calls>>

\* Handle: an error is the caller's.
Answered(h) ==
    /\ pc[h] = "judge" /\ res[h] \in {"ok", "err"}
    /\ calls' = [calls EXCEPT ![h] = @ + 1]
    /\ At(h, IF calls[h] + 1 = MaxCalls THEN "gone" ELSE "idle")
    /\ UNCHANGED <<res, flow, data, failures, beside, host>>

\* The host stops the plugin: Close.
HostStops ==
    /\ host = "none"
    /\ host' = "wait"
    /\ UNCHANGED <<pc, res, flow, data, failures, beside, calls>>
Close ==
    /\ host = "wait" /\ ~mu
    /\ host' = "done" /\ closed' = TRUE
    /\ lua' = IF closed THEN lua ELSE "closed"
    /\ UNCHANGED <<pc, res, mu, strikes, over, data, failures, beside, calls>>

Step(c) == Enter(c) \/ Ends(c) \/ Stopped(c) \/ Fail(c)
Next ==
    \/ Loaded \/ LuaCloses \/ HostStops \/ Close \/ Beside
    \/ \E c \in Goroutines : Step(c) \/ Reading(c) \/ Configure(c) \/ Cancels(c)
    \/ \E t \in Tasks : Judge(t) \/ TaskEnds(t)
    \/ \E h \in Handlers : Answered(h)

\* A call has a deadline, a waiter gets the mutex in the end (Go's does not
\* starve one) and select does not ignore a closed channel for ever.
Fairness ==
    /\ WF_rtVars(Loaded) /\ WF_rtVars(LuaCloses) /\ SF_rtVars(Close)
    /\ \A c \in Goroutines : WF_rtVars(Ends(c)) /\ WF_rtVars(Stopped(c)) /\ SF_rtVars(Fail(c))
    /\ \A t \in Tasks : WF_rtVars(Judge(t)) /\ SF_rtVars(TaskEnds(t))
    /\ \A h \in Handlers : WF_rtVars(Answered(h))

-----------------------------------------------------------------------------
(* Properties.                                                             *)

\* The Lua state is never closed under a call: whichever of fail and Close
\* comes first, and however many of them there are.
NotUnderACall == lua # "open" => \A c \in Goroutines : pc[c] # "call"

\* Whoever stops the plugin is not held up for ever by its calls, not even by
\* the call that asked for the restart, and then its tasks end.
StopReturns == host = "wait" ~> (host = "done" /\ \A t \in Tasks : pc[t] \in {"off", "gone"})

\* Refuted: "its metrics go, since a value nobody refreshes any more would look
\* current".  fail drops the values before it has mu, and a call of another
\* task that holds it may set one again.
StoppedShowsNothing == (said /\ closed /\ host # "done" /\ \A c \in Goroutines : pc[c] # "fail") => ~values
=============================================================================
