---------------------------- MODULE LoopsProofs ----------------------------
(***************************************************************************)
(* For any number of callers, tasks, handlers and pushers, and any windows *)
(* and bounds: the collection gate, the plugin runtime and the snapshot    *)
(* pipeline keep what the run Loops checks of them.  The three parts share *)
(* no variable, so each has an inductive invariant of its own and a step   *)
(* of one leaves the other two where they were.                            *)
(***************************************************************************)
EXTENDS MCLoops, TLAPS

-----------------------------------------------------------------------------
(* The collection gate.                                                    *)

\* A caller that has taken the gate and not yet published.
InFlight(c) == pc[c] \in {"collecting", "collected"}

\* The collector's channel is the gate's current one, and only one caller is
\* in flight: `running` is the lock.
Lock == /\ \A c \in Callers : InFlight(c) => running /\ chan[c] = done
        /\ OneCollection

\* Channel identities.  Every channel in use or closed was created by the
\* gate; a collector holds a channel nobody else collects on.
Channels ==
    /\ \A c \in Callers :
          /\ chan[c] <= done
          /\ pc[c] \in {"collecting", "collected", "published"} => chan[c] > 0
    /\ \A c, d \in Callers :
          /\ c # d
          /\ pc[c] \in {"collecting", "collected", "published"}
          /\ pc[d] \in {"collecting", "collected", "published"}
          => chan[c] # chan[d]
    /\ \A c \in Callers : pc[c] = "published" /\ running => chan[c] # done

\* A caller that waits joined a collection that is still the current one, or
\* one that has published since the caller arrived.
Waiting ==
    /\ at <= now
    /\ \A c \in Callers :
          /\ start[c] <= now
          /\ pc[c] = "waiting" => \/ running /\ chan[c] = done
                                  \/ start[c] <= at
          /\ pc[c] \in {"collected", "published"} => start[c] <= mine[c]

\* The inductive invariant.
GateInv == TypeOK /\ Lock /\ Channels /\ CloseOnce /\ Waiting /\ ResultFresh

\* A new gate satisfies it.
LEMMA GateInit == Init => GateInv
<1> SUFFICES ASSUME Init PROVE GateInv
    OBVIOUS
<1>1. TypeOK
  <2>1. NoResult \in [val : Nat, at : Nat, called : Nat]
    BY DEF NoResult
  <2>2. ret \in [Callers -> [val : Nat, at : Nat, called : Nat]]
    BY <2>1 DEF Init
  <2>3. pc \in [Callers -> PCs]
    BY DEF Init, PCs
  <2>4. running \in BOOLEAN
    BY DEF Init
  <2>5. now \in Nat \ {0} /\ closed \subseteq 1..done
    BY DEF Init
  <2> QED
    BY <2>2, <2>3, <2>4, <2>5 DEF Init, TypeOK
<1>2. Lock /\ Channels
  BY DEF Init, Lock, Channels, OneCollection, InFlight
<1>3. CloseOnce /\ Waiting
  BY DEF Init, CloseOnce, Waiting
<1>4. ResultFresh
  BY DEF Init, ResultFresh
<1> QED
  BY <1>1, <1>2, <1>3, <1>4 DEF GateInv

\* One case per action; what the action leaves alone is carried by the
\* UNCHANGED conjunct.
LEMMA GateStep == GateInv /\ [Next]_vars => GateInv'
<1> SUFFICES ASSUME GateInv, [Next]_vars PROVE GateInv'
    OBVIOUS
<1> USE FreshAssumption, MaxTimeAssumption
        DEF GateInv, TypeOK, Lock, Channels, CloseOnce, Waiting, ResultFresh,
            OneCollection, InFlight, PCs, NoResult, gate, Result
<1>1. CASE Tick
  BY <1>1 DEF Tick
<1>2. ASSUME NEW c \in Callers, ReuseWarm(c) PROVE GateInv'
  BY <1>2 DEF ReuseWarm, Warm
<1>3. ASSUME NEW c \in Callers, Join(c) PROVE GateInv'
  BY <1>3 DEF Join
<1>4. ASSUME NEW c \in Callers, StartCollect(c) PROVE GateInv'
  BY <1>4 DEF StartCollect
<1>5. ASSUME NEW c \in Callers, Collect(c) PROVE GateInv'
  BY <1>5 DEF Collect
<1>6. ASSUME NEW c \in Callers, Publish(c) PROVE GateInv'
  <2>1. (TypeOK /\ Lock)'
    BY <1>6 DEF Publish
  <2>2. (Channels /\ CloseOnce)'
    BY <1>6 DEF Publish
  <2>3. (Waiting /\ ResultFresh)'
    BY <1>6 DEF Publish
  <2> QED
    BY <2>1, <2>2, <2>3
<1>7. ASSUME NEW c \in Callers, CloseDone(c) PROVE GateInv'
  <2>1. (TypeOK /\ Lock)'
    <3>1. chan[c] \in 1..done
      BY <1>7 DEF CloseDone
    <3>2. closed' \subseteq 1..done'
      BY <1>7, <3>1 DEF CloseDone
    <3>3. ret' \in [Callers -> [val : Nat, at : Nat, called : Nat]]
      BY <1>7 DEF CloseDone
    <3> QED
      BY <1>7, <3>2, <3>3 DEF CloseDone
  <2>2. (Channels /\ CloseOnce)'
    BY <1>7 DEF CloseDone
  <2>3. (Waiting /\ ResultFresh)'
    BY <1>7 DEF CloseDone
  <2> QED
    BY <2>1, <2>2, <2>3
<1>8. ASSUME NEW c \in Callers, TakeShared(c) PROVE GateInv'
  BY <1>8 DEF TakeShared
<1>9. CASE UNCHANGED vars
  BY <1>9 DEF vars
<1> QED
  BY <1>1, <1>2, <1>3, <1>4, <1>5, <1>6, <1>7, <1>8, <1>9 DEF Next, Step

\* The inductive invariant holds in every reachable state.
THEOREM GateInvariant == Spec => []GateInv
BY GateInit, GateStep, PTL DEF Spec

\* "collect is never called concurrently with itself".
THEOREM GateOneCollection == Spec => []OneCollection
BY GateInvariant, PTL DEF GateInv, Lock

\* Whatever path do() takes, its result is no older than the window allows.
THEOREM GateResultFresh == Spec => []ResultFresh
BY GateInvariant, PTL DEF GateInv

\* No channel is closed twice, nor before its collection has published.
THEOREM GateCloseOnce == Spec => []CloseOnce
BY GateInvariant, PTL DEF GateInv

-----------------------------------------------------------------------------

IsBool(x) == x = TRUE \/ x = FALSE

-----------------------------------------------------------------------------
(* A plugin's runtime.                                                     *)

RtPlaces == {"off", "idle", "call", "judge", "fail", "gone"}

RtTyped ==
    /\ rtPc \in [Runtime!Goroutines -> RtPlaces]
    /\ res \in [Runtime!Goroutines -> Runtime!Results]
    /\ lua \in {"open", "closing", "closed"}
    /\ strikes \in 0..2
    /\ failures \in [Tasks -> 0..MaxFailures]
    /\ over \in {"no", "beside", "alone"}
    /\ host \in {"none", "wait", "done"}
    /\ calls \in [Handlers -> 0..MaxCalls]

RtFlags == IsBool(mu) /\ IsBool(rtClosed) /\ IsBool(said) /\ IsBool(values) /\ IsBool(beside)

\* Runtime.mu is what a call holds, and a call is let in only while the plugin
\* is not closed; closed is set first, the Lua state goes after.
RtLock ==
    /\ \A c \in Runtime!Goroutines : rtPc[c] = "call" => mu = TRUE /\ rtClosed = FALSE
    /\ \A c, d \in Runtime!Goroutines : rtPc[c] = "call" /\ rtPc[d] = "call" => c = d
    /\ lua # "open" => rtClosed = TRUE

\* Nobody else is there before the chunk has run, and a handler that has calls
\* left is not gone.
RtOrder ==
    /\ rtPc["load"] # "gone" =>
          \A c \in Tasks \cup Handlers : rtPc[c] = "off"
    /\ \A h \in Handlers : rtPc[h] # "gone" => calls[h] < MaxCalls

RtInv == RtTyped /\ RtFlags /\ RtLock /\ RtOrder

\* The bundle implies what the run checks of the runtime.
LEMMA RtGives == RtInv => Runtime!TypeOK /\ Runtime!NotUnderACall
<1> SUFFICES ASSUME RtInv PROVE Runtime!TypeOK /\ Runtime!NotUnderACall
    OBVIOUS
<1>1. mu \in BOOLEAN /\ rtClosed \in BOOLEAN /\ said \in BOOLEAN /\ values \in BOOLEAN
      /\ beside \in BOOLEAN
  BY Zenon DEF RtInv, RtFlags, IsBool
<1>2. {mu, rtClosed, said, values, beside} \subseteq BOOLEAN
  BY <1>1, Zenon
<1>3. Runtime!TypeOK
  BY <1>2 DEF RtInv, RtTyped, RtPlaces, Runtime!TypeOK
<1>4. Runtime!NotUnderACall
  BY DEF RtInv, RtLock, Runtime!NotUnderACall
<1> QED
  BY <1>3, <1>4

\* A runtime is born with nobody in it but the loader.
LEMMA RtStart == Runtime!Init => RtInv
<1> SUFFICES ASSUME Runtime!Init PROVE RtInv
    OBVIOUS
<1> USE RuntimeAssumption DEF Runtime!Goroutines, Runtime!Loader
<1>1. RtTyped
  BY DEF Runtime!Init, RtTyped, RtPlaces, Runtime!Results
<1>2. RtFlags
  BY Zenon DEF Runtime!Init, RtFlags, IsBool
<1>3. RtLock
  BY DEF Runtime!Init, RtLock
<1>4. RtOrder
  <2>1. \A c \in Tasks \cup Handlers : c # "load"
    OBVIOUS
  <2>2. \A c \in Tasks \cup Handlers : rtPc[c] = "off"
    BY <2>1 DEF Runtime!Init
  <2>3. \A h \in Handlers : calls[h] = 0
    BY DEF Runtime!Init
  <2> QED
    BY <2>2, <2>3 DEF RtOrder
<1> QED
  BY <1>1, <1>2, <1>3, <1>4 DEF RtInv

\* What each step of a runtime does to the flags.
LEMMA RtFlagsStep ==
    ASSUME RtFlags, Runtime!Next PROVE RtFlags'
<1> USE DEF RtFlags, IsBool, Runtime!flow, Runtime!data, Runtime!At, Runtime!Says
<1>1. CASE Runtime!Loaded
  BY <1>1, Zenon DEF Runtime!Loaded
<1>2. CASE Runtime!LuaCloses
  BY <1>2, Zenon DEF Runtime!LuaCloses
<1>3. CASE Runtime!HostStops
  BY <1>3, Zenon DEF Runtime!HostStops
<1>4. CASE Runtime!Close
  BY <1>4, Zenon DEF Runtime!Close
<1>5. CASE Runtime!Beside
  BY <1>5, Zenon DEF Runtime!Beside
<1>6. ASSUME NEW c \in Runtime!Goroutines, Runtime!Enter(c) PROVE RtFlags'
  BY <1>6, Zenon DEF Runtime!Enter
<1>7. ASSUME NEW c \in Runtime!Goroutines, Runtime!Ends(c) PROVE RtFlags'
  BY <1>7, Zenon DEF Runtime!Ends
<1>8. ASSUME NEW c \in Runtime!Goroutines, Runtime!Stopped(c) PROVE RtFlags'
  BY <1>8, Zenon DEF Runtime!Stopped
<1>9. ASSUME NEW c \in Runtime!Goroutines, Runtime!Fail(c) PROVE RtFlags'
  BY <1>9, Zenon DEF Runtime!Fail, Runtime!FailLocked
<1>10. ASSUME NEW c \in Runtime!Goroutines, Runtime!Reading(c) PROVE RtFlags'
  <2>1. values' = TRUE \/ values' = FALSE
    BY <1>10, Zenon DEF Runtime!Reading
  <2> QED
    BY <1>10, <2>1, Zenon DEF Runtime!Reading
<1>11. ASSUME NEW c \in Runtime!Goroutines, Runtime!Configure(c) PROVE RtFlags'
  BY <1>11, Zenon DEF Runtime!Configure
<1>12. ASSUME NEW c \in Runtime!Goroutines, Runtime!Cancels(c) PROVE RtFlags'
  BY <1>12, Zenon DEF Runtime!Cancels
<1>13. ASSUME NEW t \in Tasks, Runtime!Judge(t) PROVE RtFlags'
  BY <1>13, Zenon DEF Runtime!Judge
<1>14. ASSUME NEW t \in Tasks, Runtime!TaskEnds(t) PROVE RtFlags'
  BY <1>14, Zenon DEF Runtime!TaskEnds
<1>15. ASSUME NEW h \in Handlers, Runtime!Answered(h) PROVE RtFlags'
  BY <1>15, Zenon DEF Runtime!Answered
<1> QED
  BY <1>1, <1>2, <1>3, <1>4, <1>5, <1>6, <1>7, <1>8, <1>9, <1>10, <1>11, <1>12,
     <1>13, <1>14, <1>15, Zenon DEF Runtime!Next, Runtime!Step

\* Every step of a runtime keeps its invariant.
LEMMA RtStep == RtInv /\ Runtime!Next => RtInv'
<1> SUFFICES ASSUME RtInv, Runtime!Next PROVE RtInv'
    OBVIOUS
<1>0. RtFlags'
  BY RtFlagsStep DEF RtInv
<1> DEFINE Rest == RtTyped /\ RtLock /\ RtOrder
<1> SUFFICES Rest'
  BY <1>0 DEF RtInv
<1>a. RtTyped /\ RtLock /\ RtOrder /\ RtFlags
  BY DEF RtInv
<1>b. "load" \in Runtime!Goroutines /\ Tasks \subseteq Runtime!Goroutines
      /\ Handlers \subseteq Runtime!Goroutines /\ "load" \notin Tasks /\ "load" \notin Handlers
      /\ Tasks \cap Handlers = {} /\ MaxFailures \in Nat \ {0} /\ MaxCalls \in Nat \ {0}
  BY RuntimeAssumption DEF Runtime!Goroutines, Runtime!Loader
<1> USE <1>a, <1>b DEF RtTyped, RtPlaces, RtLock, RtOrder, Runtime!Results, Runtime!flow, Runtime!data,
        Runtime!At, Runtime!Says, Runtime!Loader
<1>1. CASE Runtime!Loaded
  <2>1. CASE res["load"] = "ok" /\ rtPc' = [c \in Runtime!Goroutines |-> IF c = "load" THEN "gone" ELSE "idle"]
    BY <1>1, <2>1 DEF Runtime!Loaded
  <2>2. CASE rtPc' = [rtPc EXCEPT !["load"] = "fail"]
    BY <1>1, <2>2 DEF Runtime!Loaded
  <2> QED
    BY <1>1, <2>1, <2>2 DEF Runtime!Loaded
<1>2. CASE Runtime!LuaCloses
  BY <1>2 DEF Runtime!LuaCloses
<1>3. CASE Runtime!HostStops
  BY <1>3 DEF Runtime!HostStops
<1>4. CASE Runtime!Close
  BY <1>4 DEF Runtime!Close
<1>5. CASE Runtime!Beside
  BY <1>5 DEF Runtime!Beside
<1>6. ASSUME NEW c \in Runtime!Goroutines, Runtime!Enter(c) PROVE Rest'
  BY <1>6 DEF Runtime!Enter, RtFlags, IsBool
<1>7. ASSUME NEW c \in Runtime!Goroutines, Runtime!Ends(c) PROVE Rest'
  BY <1>7 DEF Runtime!Ends, Runtime!Outcome, Runtime!Returns
<1>8. ASSUME NEW c \in Runtime!Goroutines, Runtime!Stopped(c) PROVE Rest'
  BY <1>8 DEF Runtime!Stopped
<1>9. ASSUME NEW c \in Runtime!Goroutines, Runtime!Fail(c) PROVE Rest'
  BY <1>9 DEF Runtime!Fail, Runtime!FailLocked
<1>10. ASSUME NEW c \in Runtime!Goroutines, Runtime!Reading(c) PROVE Rest'
  BY <1>10 DEF Runtime!Reading
<1>11. ASSUME NEW c \in Runtime!Goroutines, Runtime!Configure(c) PROVE Rest'
  BY <1>11 DEF Runtime!Configure
<1>12. ASSUME NEW c \in Runtime!Goroutines, Runtime!Cancels(c) PROVE Rest'
  BY <1>12 DEF Runtime!Cancels
<1>13. ASSUME NEW t \in Tasks, Runtime!Judge(t) PROVE Rest'
  BY <1>13 DEF Runtime!Judge
<1>14. ASSUME NEW t \in Tasks, Runtime!TaskEnds(t) PROVE Rest'
  BY <1>14 DEF Runtime!TaskEnds
<1>15. ASSUME NEW h \in Handlers, Runtime!Answered(h) PROVE Rest'
  BY <1>15 DEF Runtime!Answered
<1> QED
  BY <1>1, <1>2, <1>3, <1>4, <1>5, <1>6, <1>7, <1>8, <1>9, <1>10, <1>11, <1>12,
     <1>13, <1>14, <1>15, Zenon DEF Runtime!Next, Runtime!Step

-----------------------------------------------------------------------------
(* The snapshot pipeline.                                                  *)

SyncPlaces == {"idle", "call", "waiting", "woken", "inventory", "reading", "storing", "publish", "send"}

SyncTyped ==
    /\ images \in Sync!Versions /\ inv \in Sync!Versions /\ gVal \in Sync!Versions
    /\ invAge \in 0..InvFor /\ gAge \in 0..SnapFresh
    /\ syncPc \in [Sync!Collectors -> SyncPlaces]
    /\ val \in [Sync!Collectors -> Sync!Versions]
    /\ prune \in {"idle", "pruned", "dropped"}
    /\ pruned \in Sync!Versions /\ panel \in Sync!Versions
    /\ faults \in 0..MaxFaults

\* dockerGate.running is set exactly while one caller is between taking the
\* gate and publishing, and nobody waits while it is clear.
SyncGate ==
    /\ IsBool(gBusy)
    /\ \A c \in Sync!Collectors : syncPc[c] \in Sync!AtTheGate \cup {"waiting"} => gBusy = TRUE
    /\ gBusy = TRUE => \E c \in Sync!Collectors : syncPc[c] \in Sync!AtTheGate
    /\ \A c, d \in Sync!Collectors :
          syncPc[c] \in Sync!AtTheGate /\ syncPc[d] \in Sync!AtTheGate => c = d

\* pushQueued is set exactly while a goroutine sleeps, and a refresh that is
\* due is that goroutine's.
SyncRefresh ==
    /\ IsBool(pushQueued) /\ IsBool(asleep) /\ IsBool(due) /\ IsBool(frame)
    /\ pushQueued = asleep
    /\ due = TRUE => asleep = TRUE

SyncInv == SyncTyped /\ SyncGate /\ SyncRefresh

\* The bundle implies what the run checks of the pipeline.
LEMMA SyncGives == SyncInv => Sync!TypeOK /\ Sync!GateHeld /\ Sync!RefreshHeld
<1> SUFFICES ASSUME SyncInv PROVE Sync!TypeOK /\ Sync!GateHeld /\ Sync!RefreshHeld
    OBVIOUS
<1>1. gBusy \in BOOLEAN /\ pushQueued \in BOOLEAN /\ asleep \in BOOLEAN /\ due \in BOOLEAN
      /\ frame \in BOOLEAN
  BY Zenon DEF SyncInv, SyncGate, SyncRefresh, IsBool
<1>2. Sync!TypeOK
  BY <1>1, Zenon DEF SyncInv, SyncTyped, SyncPlaces, Sync!TypeOK
<1>3. Sync!GateHeld
  BY DEF SyncInv, SyncGate, Sync!GateHeld, Sync!AtTheGate
<1>4. Sync!RefreshHeld
  BY Zenon DEF SyncInv, SyncRefresh, Sync!RefreshHeld, IsBool
<1> QED
  BY <1>2, <1>3, <1>4

\* At the start nothing is cached, collected or asked for.
LEMMA SyncStart == Sync!Init => SyncInv
<1> SUFFICES ASSUME Sync!Init PROVE SyncInv
    OBVIOUS
<1>1. SyncTyped
  BY SyncAssumption DEF Sync!Init, SyncTyped, SyncPlaces, Sync!Versions
<1>2. SyncGate
  BY DEF Sync!Init, SyncGate, Sync!AtTheGate, IsBool
<1>3. SyncRefresh
  BY Zenon DEF Sync!Init, SyncRefresh, IsBool
<1> QED
  BY <1>1, <1>2, <1>3 DEF SyncInv

\* Ageing stays within the window.
LEMMA OlderIs ==
    ASSUME NEW w \in Nat, NEW a \in 0..w PROVE Sync!Older(a, w) \in 0..w
BY DEF Sync!Older

\* Every step keeps the types.
LEMMA SyncTypedStep == SyncTyped /\ Sync!Next => SyncTyped'
<1> SUFFICES ASSUME SyncTyped, Sync!Next PROVE SyncTyped'
    OBVIOUS
<1>a. Loop \in Sync!Collectors /\ Pushers \subseteq Sync!Collectors
  BY DEF Sync!Collectors
<1>b. 0 \in Sync!Versions /\ (images <= MaxChanges => images + 1 \in Sync!Versions)
  BY SyncAssumption DEF SyncTyped, Sync!Versions
<1>c. 0 \in 0..InvFor /\ InvFor \in 0..InvFor /\ 0 \in 0..SnapFresh
  BY SyncAssumption
<1>d. faults < MaxFaults => faults + 1 \in 0..MaxFaults
  BY SyncAssumption DEF SyncTyped
<1> USE <1>a, <1>b, <1>c, <1>d DEF SyncTyped, SyncPlaces, Sync!caches, Sync!callers, Sync!refresh,
        Sync!Goto, Sync!Return, Sync!Schedule
<1>1. CASE Sync!LoopTick
  BY <1>1 DEF Sync!LoopTick
<1>2. CASE Sync!Tick
  <2>1. gAge' \in 0..SnapFresh /\ invAge' \in 0..InvFor
    BY <1>2, OlderIs, SyncAssumption DEF Sync!Tick
  <2> QED
    BY <1>2, <2>1 DEF Sync!Tick
<1>3. CASE Sync!Change
  BY <1>3 DEF Sync!Change
<1>4. CASE Sync!Prune
  BY <1>4 DEF Sync!Prune
<1>5. CASE Sync!DropInventory
  BY <1>5 DEF Sync!DropInventory
<1>6. CASE Sync!PruneFails
  BY <1>6 DEF Sync!PruneFails
<1>7. CASE Sync!Answer
  BY <1>7 DEF Sync!Answer
<1>8. CASE Sync!RefreshFrame
  BY <1>8 DEF Sync!RefreshFrame
<1>9. ASSUME NEW p \in Pushers, Sync!StartPush(p) PROVE SyncTyped'
  BY <1>9 DEF Sync!StartPush
<1>10. ASSUME NEW c \in Sync!Collectors, Sync!Step(c) PROVE SyncTyped'
  <2>1. CASE Sync!Reuse(c)
    BY <2>1 DEF Sync!Reuse
  <2>2. CASE Sync!Wait(c)
    BY <2>2 DEF Sync!Wait
  <2>3. CASE Sync!Collect(c)
    BY <2>3 DEF Sync!Collect
  <2>4. CASE Sync!CheckInventory(c)
    BY <2>4 DEF Sync!CheckInventory
  <2>5. CASE Sync!ReadImages(c)
    BY <2>5 DEF Sync!ReadImages
  <2>6. CASE Sync!ReadFails(c)
    BY <2>6 DEF Sync!ReadFails
  <2>7. CASE Sync!StoreInventory(c)
    BY <2>7 DEF Sync!StoreInventory
  <2>8. CASE Sync!Publish(c)
    BY <2>8 DEF Sync!Publish
  <2>9. CASE Sync!Take(c)
    BY <2>9 DEF Sync!Take
  <2>10. CASE Sync!Send(c)
    BY <2>10 DEF Sync!Send
  <2>11. CASE Sync!SendFails(c)
    BY <2>11 DEF Sync!SendFails
  <2> QED
    BY <1>10, <2>1, <2>2, <2>3, <2>4, <2>5, <2>6, <2>7, <2>8, <2>9, <2>10, <2>11 DEF Sync!Step
<1> QED
  BY <1>1, <1>2, <1>3, <1>4, <1>5, <1>6, <1>7, <1>8, <1>9, <1>10, Zenon DEF Sync!Next

\* A caller that moves between two places away from the gate, the others staying
\* where they are, leaves the gate as it was.
LEMMA GateMoves ==
    ASSUME SyncTyped, SyncGate, NEW c \in Sync!Collectors, NEW l \in SyncPlaces,
           syncPc' = [syncPc EXCEPT ![c] = l], gBusy' = gBusy,
           \/ syncPc[c] \notin Sync!AtTheGate /\ l \notin Sync!AtTheGate /\ (l = "waiting" => gBusy = TRUE)
           \/ syncPc[c] \in Sync!AtTheGate /\ l \in Sync!AtTheGate
    PROVE  SyncGate'
<1> USE DEF SyncTyped, SyncGate, SyncPlaces, Sync!AtTheGate
<1>1. IsBool(gBusy')
  BY DEF IsBool
<1>2. \A d \in Sync!Collectors : syncPc'[d] = IF d = c THEN l ELSE syncPc[d]
  OBVIOUS
<1>3. CASE syncPc[c] \notin Sync!AtTheGate /\ l \notin Sync!AtTheGate /\ (l = "waiting" => gBusy = TRUE)
  BY <1>1, <1>2, <1>3
<1>4. CASE syncPc[c] \in Sync!AtTheGate /\ l \in Sync!AtTheGate
  BY <1>1, <1>2, <1>4
<1> QED
  BY <1>3, <1>4

\* Every step keeps the gate.
LEMMA SyncGateStep == SyncTyped /\ SyncGate /\ Sync!Next => SyncGate'
<1> SUFFICES ASSUME SyncTyped, SyncGate, Sync!Next PROVE SyncGate'
    OBVIOUS
<1>a. Loop \in Sync!Collectors /\ Pushers \subseteq Sync!Collectors
  BY DEF Sync!Collectors
<1>b. ASSUME UNCHANGED <<syncPc, gBusy>> PROVE SyncGate'
  BY <1>b DEF SyncGate, IsBool
<1> USE <1>a DEF Sync!caches, Sync!callers, Sync!refresh, Sync!Goto, Sync!Return, Sync!Schedule, SyncPlaces,
        Sync!AtTheGate
<1>1. CASE Sync!LoopTick
  BY <1>1, GateMoves DEF Sync!LoopTick
<1>2. CASE Sync!Tick \/ Sync!Change \/ Sync!Prune \/ Sync!DropInventory \/ Sync!PruneFails \/ Sync!Answer
           \/ Sync!RefreshFrame
  BY <1>2, <1>b DEF Sync!Tick, Sync!Change, Sync!Prune, Sync!DropInventory, Sync!PruneFails, Sync!Answer,
     Sync!RefreshFrame
<1>3. ASSUME NEW p \in Pushers, Sync!StartPush(p) PROVE SyncGate'
  BY <1>3, GateMoves DEF Sync!StartPush
<1>4. ASSUME NEW c \in Sync!Collectors, Sync!Step(c) PROVE SyncGate'
  <2>1. CASE Sync!Reuse(c)
    BY <2>1, GateMoves DEF Sync!Reuse
  <2>2. CASE Sync!Wait(c)
    <3>1. gBusy = TRUE
      BY <2>2, Zenon DEF Sync!Wait, SyncGate, IsBool
    <3> QED
      BY <2>2, <3>1, GateMoves DEF Sync!Wait
  <2>3. CASE Sync!Collect(c)
    <3>1. gBusy = FALSE
      BY <2>3, Zenon DEF Sync!Collect, SyncGate, IsBool
    <3>2. \A d \in Sync!Collectors : syncPc[d] \notin Sync!AtTheGate
      BY <3>1 DEF SyncGate
    <3>3. \A d \in Sync!Collectors : syncPc'[d] = IF d = c THEN "inventory" ELSE syncPc[d]
      BY <2>3 DEF Sync!Collect, SyncTyped
    <3>4. gBusy' = TRUE
      BY <2>3, Zenon DEF Sync!Collect
    <3> QED
      BY <3>2, <3>3, <3>4 DEF SyncGate, IsBool
  <2>4. CASE Sync!CheckInventory(c)
    BY <2>4, GateMoves DEF Sync!CheckInventory
  <2>5. CASE Sync!ReadImages(c)
    BY <2>5, GateMoves DEF Sync!ReadImages
  <2>6. CASE Sync!ReadFails(c)
    BY <2>6, GateMoves DEF Sync!ReadFails
  <2>7. CASE Sync!StoreInventory(c)
    BY <2>7, GateMoves DEF Sync!StoreInventory
  <2>8. CASE Sync!Publish(c)
    <3>1. gBusy' = FALSE
      BY <2>8, Zenon DEF Sync!Publish
    <3>2. \A d \in Sync!Collectors : d # c => syncPc[d] \notin Sync!AtTheGate
      BY <2>8 DEF Sync!Publish, SyncGate
    <3>3. \A d \in Sync!Collectors : syncPc'[d] \notin Sync!AtTheGate \cup {"waiting"}
      BY <2>8, <3>2 DEF Sync!Publish, SyncTyped
    <3> QED
      BY <3>1, <3>3 DEF SyncGate, IsBool
  <2>9. CASE Sync!Take(c)
    BY <2>9, GateMoves DEF Sync!Take
  <2>10. CASE Sync!Send(c)
    BY <2>10, GateMoves DEF Sync!Send
  <2>11. CASE Sync!SendFails(c)
    BY <2>11, GateMoves DEF Sync!SendFails
  <2> QED
    BY <1>4, <2>1, <2>2, <2>3, <2>4, <2>5, <2>6, <2>7, <2>8, <2>9, <2>10, <2>11 DEF Sync!Step
<1> QED
  BY <1>1, <1>2, <1>3, <1>4, Zenon DEF Sync!Next

\* Every step keeps the account of what is asked for and who will do it.
LEMMA SyncRefreshStep == SyncRefresh /\ Sync!Next => SyncRefresh'
<1> SUFFICES ASSUME SyncRefresh, Sync!Next PROVE SyncRefresh'
    OBVIOUS
<1>a. ASSUME UNCHANGED <<pushQueued, asleep, due, frame>> PROVE SyncRefresh'
  BY <1>a, Zenon DEF SyncRefresh, IsBool
<1>b. ASSUME Sync!Schedule, IsBool(frame') PROVE SyncRefresh'
  <2>1. due' = TRUE /\ pushQueued' = TRUE
    BY <1>b, Zenon DEF Sync!Schedule
  <2>2. asleep' = TRUE
    BY <1>b, Zenon DEF Sync!Schedule, SyncRefresh, IsBool
  <2> QED
    BY <1>b, <2>1, <2>2, Zenon DEF SyncRefresh, IsBool
<1> USE DEF Sync!refresh
<1>1. CASE Sync!LoopTick \/ Sync!Tick \/ Sync!Change
  BY <1>1, <1>a, Zenon DEF Sync!LoopTick, Sync!Tick, Sync!Change
<1>2. CASE Sync!Prune \/ Sync!DropInventory \/ Sync!PruneFails
  <2>1. UNCHANGED <<pushQueued, asleep, due, frame>>
    BY <1>2, Zenon DEF Sync!Prune, Sync!DropInventory, Sync!PruneFails
  <2> QED
    BY <2>1, <1>a
<1>3. CASE Sync!Answer
  BY <1>3, <1>b, Zenon DEF Sync!Answer, IsBool
<1>4. CASE Sync!RefreshFrame
  BY <1>4, <1>b, Zenon DEF Sync!RefreshFrame, IsBool
<1>5. ASSUME NEW p \in Pushers, Sync!StartPush(p) PROVE SyncRefresh'
  BY <1>5, Zenon DEF Sync!StartPush, SyncRefresh, IsBool
<1>6. ASSUME NEW c \in Sync!Collectors, Sync!Step(c) PROVE SyncRefresh'
  <2>1. UNCHANGED <<pushQueued, asleep, due, frame>>
    BY <1>6, Zenon DEF Sync!Step, Sync!Reuse, Sync!Wait, Sync!Collect, Sync!CheckInventory, Sync!ReadImages,
       Sync!ReadFails, Sync!StoreInventory, Sync!Publish, Sync!Take, Sync!Send, Sync!SendFails
  <2> QED
    BY <2>1, <1>a
<1> QED
  BY <1>1, <1>2, <1>3, <1>4, <1>5, <1>6, Zenon DEF Sync!Next

\* Every step of the pipeline keeps its invariant.
LEMMA SyncStep == SyncInv /\ Sync!Next => SyncInv'
BY SyncTypedStep, SyncGateStep, SyncRefreshStep, Zenon DEF SyncInv

-----------------------------------------------------------------------------
(* The three together.                                                     *)

LoopsInv == GateInv /\ RtInv /\ SyncInv

\* A part that does not move keeps its invariant.
LEMMA LoopsKept ==
    /\ GateInv /\ UNCHANGED vars => GateInv'
    /\ RtInv /\ UNCHANGED rtVars => RtInv'
    /\ SyncInv /\ UNCHANGED syncVars => SyncInv'
<1>1. GateInv /\ UNCHANGED vars => GateInv'
  BY GateStep
<1>2. ASSUME RtInv, UNCHANGED rtVars PROVE RtInv'
  BY <1>2, Zenon DEF rtVars, RtInv, RtTyped, RtFlags, RtLock, RtOrder, IsBool
<1>3. ASSUME SyncInv, UNCHANGED syncVars PROVE SyncInv'
  BY <1>3, Zenon DEF syncVars, SyncInv, SyncTyped, SyncGate, SyncRefresh, IsBool
<1> QED
  BY <1>1, <1>2, <1>3

\* The inductive invariant of the composition holds in every reachable state.
THEOREM LoopsInvariant == LoopsSpec => []LoopsInv
<1>1. LoopsInit => LoopsInv
  BY GateInit, RtStart, SyncStart, Zenon DEF LoopsInit, LoopsInv
<1>2. LoopsInv /\ [LoopsNext]_all => LoopsInv'
  <2> SUFFICES ASSUME LoopsInv, [LoopsNext]_all PROVE LoopsInv'
      OBVIOUS
  <2>1. CASE Next /\ UNCHANGED <<rtVars, syncVars>>
    BY <2>1, GateStep, LoopsKept, Zenon DEF LoopsInv
  <2>2. CASE Runtime!Next /\ UNCHANGED <<vars, syncVars>>
    BY <2>2, RtStep, LoopsKept, Zenon DEF LoopsInv
  <2>3. CASE Sync!Next /\ UNCHANGED <<vars, rtVars>>
    BY <2>3, SyncStep, LoopsKept, Zenon DEF LoopsInv
  <2>4. CASE UNCHANGED all
    BY <2>4, LoopsKept, Zenon DEF LoopsInv, all
  <2> QED
    BY <2>1, <2>2, <2>3, <2>4, Zenon DEF LoopsNext
<1> QED
  BY <1>1, <1>2, PTL DEF LoopsSpec

\* LoopsSound, for every number of goroutines and every bound: a plugin's Lua
\* state is not closed under a call, whoever waits at the docker gate has
\* somebody to wait for, and a refresh asked for has a goroutine to run it.
THEOREM LoopsAreSound == LoopsSpec => []LoopsSound
<1>1. LoopsInv => LoopsSound
  BY RtGives, SyncGives, Zenon DEF LoopsInv, LoopsSound, GateInv
<1> QED
  BY <1>1, LoopsInvariant, PTL

\* What is proved of the gate alone holds in the composition
\* that the run checks: one collection at a time, fresh results, channels
\* closed once.
THEOREM LoopsGate == LoopsSpec => [](OneCollection /\ ResultFresh /\ CloseOnce)
<1>1. LoopsInv => OneCollection /\ ResultFresh /\ CloseOnce
  BY Zenon DEF LoopsInv, GateInv, Lock
<1> QED
  BY <1>1, LoopsInvariant, PTL
=============================================================================
