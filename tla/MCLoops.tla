------------------------------ MODULE MCLoops ------------------------------
(***************************************************************************)
(* Goroutines that wait for each other, each part on its own: the          *)
(* collection gate, the snapshot pipeline and a plugin's runtime share no  *)
(* state.  focus is chosen at the start, and only that part moves.         *)
(***************************************************************************)
EXTENDS CollectGate

CONSTANTS Tasks, Handlers, MaxFailures, MaxCalls,
          Pushers, Loop, SnapFresh, InvFor, MaxChanges, MaxFaults

ASSUME RuntimeAssumption ==
    /\ MaxFailures \in Nat \ {0} /\ MaxCalls \in Nat \ {0}
    /\ Tasks \cap Handlers = {} /\ "load" \notin Tasks \cup Handlers
ASSUME SyncAssumption ==
    /\ SnapFresh \in Nat /\ InvFor \in Nat
    /\ MaxChanges \in Nat /\ MaxFaults \in Nat

VARIABLES focus,
          rtPc, rtClosed, res, mu, lua, said, values, strikes, failures, over, beside, host, calls,
          images, inv, invAge, gVal, gAge, gBusy, syncPc, val, pushQueued, asleep, due, prune, pruned,
          frame, panel, faults

rtVars == <<rtPc, rtClosed, res, mu, lua, said, values, strikes, failures, over, beside, host, calls>>
syncVars == <<images, inv, invAge, gVal, gAge, gBusy, syncPc, val, pushQueued, asleep, due, prune, pruned,
              frame, panel, faults>>
all == <<focus, vars, rtVars, syncVars>>

Runtime == INSTANCE PluginRuntime WITH pc <- rtPc, closed <- rtClosed
Sync == INSTANCE SnapshotSync WITH pc <- syncPc, Fresh <- SnapFresh

Parts == {"gate", "runtime", "snapshots"}

LoopsInit ==
    /\ focus \in Parts
    /\ Init /\ Runtime!Init /\ Sync!Init

LoopsNext ==
    /\ UNCHANGED focus
    /\ \/ focus = "gate" /\ Next /\ UNCHANGED <<rtVars, syncVars>>
       \/ focus = "runtime" /\ Runtime!Next /\ UNCHANGED <<vars, syncVars>>
       \/ focus = "snapshots" /\ Sync!Next /\ UNCHANGED <<vars, rtVars>>

\* The Fairness of each part, while it is the focus.
LoopsFairness ==
    /\ \A c \in Callers : WF_vars(focus = "gate" /\ Inside(c))
    /\ \A c \in Runtime!Goroutines : /\ WF_rtVars(focus = "runtime" /\ Runtime!Ends(c))
                                  /\ WF_rtVars(focus = "runtime" /\ Runtime!Stopped(c))
                                  /\ SF_rtVars(focus = "runtime" /\ Runtime!Fail(c))
    /\ \A t \in Tasks : /\ WF_rtVars(focus = "runtime" /\ Runtime!Judge(t))
                        /\ SF_rtVars(focus = "runtime" /\ Runtime!TaskEnds(t))
    /\ \A h \in Handlers : WF_rtVars(focus = "runtime" /\ Runtime!Answered(h))
    /\ WF_rtVars(focus = "runtime" /\ Runtime!Loaded)
    /\ WF_rtVars(focus = "runtime" /\ Runtime!LuaCloses)
    /\ SF_rtVars(focus = "runtime" /\ Runtime!Close)
    /\ \A c \in Sync!Collectors : WF_syncVars(focus = "snapshots" /\ Sync!Step(c))
    /\ WF_syncVars(focus = "snapshots" /\ Sync!LoopTick)
    /\ WF_syncVars(focus = "snapshots" /\ Sync!Tick)
    /\ WF_syncVars(focus = "snapshots" /\ \E p \in Pushers : Sync!StartPush(p))
    /\ WF_syncVars(focus = "snapshots" /\ (Sync!DropInventory \/ Sync!PruneFails))
    /\ WF_syncVars(focus = "snapshots" /\ Sync!Answer)
    /\ WF_syncVars(focus = "snapshots" /\ Sync!RefreshFrame)
LoopsSpec == LoopsInit /\ [][LoopsNext]_all /\ LoopsFairness

-----------------------------------------------------------------------------
(* What is checked of each part; its module says what it means.            *)

\* No part leaves its types; a plugin's Lua state is not closed under a call
\* (Runtime.fail, Runtime.Close); nobody waits at the docker gate for a result
\* that is not being collected (collectGate.do), and no refresh is left to a
\* goroutine that has already begun (schedulePushAll).
LoopsSound ==
    /\ TypeOK /\ Runtime!TypeOK /\ Sync!TypeOK
    /\ Runtime!NotUnderACall
    /\ Sync!GateHeld /\ Sync!RefreshHeld

\* Whoever waits for a collection gets a result (collectGate.do); whoever stops
\* a plugin gets away, and its tasks end (Runtime.Close).
NobodyStuck == WaitersReleased /\ Runtime!StopReturns

\* Once changes stop the panel shows the server as it is, through the gate and
\* the inventory cache behind it (collectGate.do, attachInventory), and no
\* refresh is swallowed by one under way (schedulePushAll).
RefreshLands == (focus = "snapshots" => Sync!PanelConverges) /\ Sync!RefreshRuns
=============================================================================
