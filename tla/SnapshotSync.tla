---------------------------- MODULE SnapshotSync ----------------------------
(***************************************************************************)
(* How a change on the server reaches the panel: the interval loop and the *)
(* coalesced PushAll of agent/sync_engine.go, the docker gate of           *)
(* agent/reporter.go, and the inventory cache of agent/docker_linux.go.    *)
(*                                                                         *)
(* The server's images are a version number.  Two caches lie between them  *)
(* and the panel: the docker client's inventory (images, volumes,          *)
(* networks) and the gate's last result.  The gate is taken at the level   *)
(* CollectGate establishes: one collection at a time, those who come       *)
(* meanwhile wait and take its result.  Ages are counted in ticks up to    *)
(* the window that matters, so time never runs out.                        *)
(***************************************************************************)
EXTENDS Naturals

CONSTANTS Pushers,    \* bound: PushAll goroutines at a time
          Loop,       \* the interval loop of the docker stage
          Fresh,      \* freshS of dockerGate, in ticks
          InvFor,     \* dockerInventoryFor, in ticks
          MaxChanges, \* bound: changes to the images
          MaxFaults   \* bound: frames refused by a full buffer, failed reads

Collectors == Pushers \cup {Loop}

VARIABLES images,     \* the docker daemon's images: a version
          inv, invAge,     \* dockerClient.images and the age of inventoryAt
          gVal, gAge,      \* dockerGate's value and the age of at
          gBusy,           \* dockerGate.running
          pc, val,         \* per caller: where it stands, the result it holds
          pushQueued, \* SyncEngine.pushQueued
          asleep,     \* a goroutine of schedulePushAll sleeps its 30 ms
          due,        \* history: a refresh was asked for and none has begun
          prune,      \* where a DockerPrune command stands
          pruned,     \* history: the version the last answered prune left
          frame,      \* the backend's refresh frame is under way
          panel,      \* the version the panel was last sent
          faults

caches == <<inv, invAge, gVal, gAge, gBusy>>
callers == <<pc, val>>
refresh == <<pushQueued, asleep, due, prune, pruned, frame>>
vars == <<images, caches, callers, refresh, panel, faults>>

\* 0 stands for an empty list, which a failed read also leaves behind.
Versions == 0..(MaxChanges + 1)

TypeOK ==
    /\ images \in Versions /\ inv \in Versions /\ gVal \in Versions
    /\ invAge \in 0..InvFor /\ gAge \in 0..Fresh
    /\ gBusy \in BOOLEAN
    /\ pc \in [Collectors -> {"idle", "call", "waiting", "woken", "inventory",
                           "reading", "storing", "publish", "send"}]
    /\ val \in [Collectors -> Versions]
    /\ pushQueued \in BOOLEAN /\ asleep \in BOOLEAN /\ due \in BOOLEAN /\ frame \in BOOLEAN
    /\ prune \in {"idle", "pruned", "dropped"}
    /\ pruned \in Versions /\ panel \in Versions
    /\ faults \in 0..MaxFaults

\* A window that has run out stands for a zero time as well.
Init ==
    /\ images = 1
    /\ inv = 0 /\ invAge = InvFor
    /\ gVal = 0 /\ gAge = Fresh /\ gBusy = FALSE
    /\ pc = [c \in Collectors |-> "idle"]
    /\ val = [c \in Collectors |-> 0]
    /\ pushQueued = FALSE /\ asleep = FALSE /\ due = FALSE /\ frame = FALSE
    /\ prune = "idle" /\ pruned = 0
    /\ panel = 0 /\ faults = 0

Goto(c, l) == pc' = [pc EXCEPT ![c] = l]

\* pushDocker is over: its locals are gone.
Return(c) == /\ Goto(c, "idle")
             /\ val' = [val EXCEPT ![c] = 0]

-----------------------------------------------------------------------------
(* Collecting and pushing.                                                 *)

\* The ticker of the stage's loop: pushDocker.
LoopTick ==
    /\ pc[Loop] = "idle"
    /\ Goto(Loop, "call")
    /\ UNCHANGED <<images, caches, val, refresh, panel, faults>>

\* Mutant of StartPush: the flag is not cleared.
StartPushKeepsFlag(p) ==
    /\ asleep /\ pc[p] = "idle"
    /\ asleep' = FALSE /\ due' = FALSE
    /\ Goto(p, "call")
    /\ UNCHANGED <<images, caches, val, pushQueued, prune, pruned, frame, panel, faults>>

\* The goroutine of schedulePushAll wakes: clear pushQueued, then PushAll,
\* whose docker part is pushDocker.
StartPush(p) ==
    /\ asleep /\ pc[p] = "idle"
    /\ asleep' = FALSE /\ pushQueued' = FALSE /\ due' = FALSE
    /\ Goto(p, "call")
    /\ UNCHANGED <<images, caches, val, prune, pruned, frame, panel, faults>>

\* dockerGate.do with a warm value.
Reuse(c) ==
    /\ pc[c] = "call" /\ gAge < Fresh
    /\ Goto(c, "send")
    /\ val' = [val EXCEPT ![c] = gVal]
    /\ UNCHANGED <<images, caches, refresh, panel, faults>>

\* dockerGate.do behind a collection in flight.
Wait(c) ==
    /\ pc[c] = "call" /\ gAge >= Fresh /\ gBusy
    /\ Goto(c, "waiting")
    /\ UNCHANGED <<images, caches, val, refresh, panel, faults>>

\* dockerGate.do collects.
Collect(c) ==
    /\ pc[c] = "call" /\ gAge >= Fresh /\ ~gBusy
    /\ gBusy' = TRUE
    /\ Goto(c, "inventory")
    /\ UNCHANGED <<images, inv, invAge, gVal, gAge, val, refresh, panel, faults>>

\* Mutant of InvFresh: the inventory never goes stale of itself.
InvFreshForever == inv # 0

\* !inventoryAt.IsZero() && time.Since(inventoryAt) < dockerInventoryFor
InvFresh == invAge < InvFor

\* attachInventory, first locked region: a fresh inventory is copied.
CheckInventory(c) ==
    /\ pc[c] = "inventory"
    /\ IF InvFresh
       THEN /\ val' = [val EXCEPT ![c] = inv]
            /\ Goto(c, "publish")
       ELSE /\ Goto(c, "reading")
            /\ UNCHANGED val
    /\ UNCHANGED <<images, caches, refresh, panel, faults>>

\* The daemon is asked, outside the lock.
ReadImages(c) ==
    /\ pc[c] = "reading"
    /\ val' = [val EXCEPT ![c] = images]
    /\ Goto(c, "storing")
    /\ UNCHANGED <<images, caches, refresh, panel, faults>>

\* A failed request leaves an empty list, which is stored like any other.
ReadFails(c) ==
    /\ pc[c] = "reading" /\ faults < MaxFaults
    /\ faults' = faults + 1
    /\ val' = [val EXCEPT ![c] = 0]
    /\ Goto(c, "storing")
    /\ UNCHANGED <<images, caches, refresh, panel>>

\* attachInventory, second locked region.
StoreInventory(c) ==
    /\ pc[c] = "storing"
    /\ inv' = val[c] /\ invAge' = 0
    /\ Goto(c, "publish")
    /\ UNCHANGED <<images, gVal, gAge, gBusy, val, refresh, panel, faults>>

\* The gate stores the result and releases those who waited.
Publish(c) ==
    /\ pc[c] = "publish"
    /\ gVal' = val[c] /\ gAge' = 0 /\ gBusy' = FALSE
    /\ pc' = [d \in Collectors |-> IF d = c THEN "send"
                                ELSE IF pc[d] = "waiting" THEN "woken" ELSE pc[d]]
    /\ UNCHANGED <<images, inv, invAge, val, refresh, panel, faults>>

\* A waiter reads the gate's value.
Take(c) ==
    /\ pc[c] = "woken"
    /\ val' = [val EXCEPT ![c] = gVal]
    /\ Goto(c, "send")
    /\ UNCHANGED <<images, caches, refresh, panel, faults>>

\* pushDocker sends what it got.
Send(c) ==
    /\ pc[c] = "send"
    /\ panel' = val[c]
    /\ Return(c)
    /\ UNCHANGED <<images, caches, refresh, faults>>

\* "ws write buffer full": the frame is gone.
SendFails(c) ==
    /\ pc[c] = "send" /\ faults < MaxFaults
    /\ faults' = faults + 1
    /\ Return(c)
    /\ UNCHANGED <<images, caches, refresh, panel>>

-----------------------------------------------------------------------------
(* Changes.                                                                *)

\* schedulePushAll: one goroutine sleeps at a time.
Schedule == /\ due' = TRUE
            /\ pushQueued' = TRUE
            /\ asleep' = (asleep \/ ~pushQueued)

\* Somebody changes the images behind the agent's back.
Change ==
    /\ images <= MaxChanges
    /\ images' = images + 1
    /\ UNCHANGED <<caches, callers, refresh, panel, faults>>

\* DockerPrune, the requests to the daemon.
Prune ==
    /\ prune = "idle" /\ images <= MaxChanges
    /\ images' = images + 1
    /\ prune' = "pruned"
    /\ UNCHANGED <<caches, callers, pushQueued, asleep, due, pruned, frame, panel, faults>>

\* DockerPrune, the locked end: inventoryAt = time.Time{}
DropInventory ==
    /\ prune = "pruned"
    /\ invAge' = InvFor
    /\ prune' = "dropped"
    /\ UNCHANGED <<images, inv, gVal, gAge, gBusy, callers, pushQueued, asleep, due,
                   pruned, frame, panel, faults>>

\* DockerPrune returns early: a later request fails, what was pruned is gone,
\* the inventory is not dropped, and an error asks for no refresh.
PruneFails ==
    /\ prune = "pruned" /\ faults < MaxFaults
    /\ faults' = faults + 1
    /\ prune' = "idle"
    /\ UNCHANGED <<images, caches, callers, pushQueued, asleep, due, pruned, frame, panel>>

\* runCommand answers and asks for a refresh; the backend, on the answer,
\* sends a refresh frame.
Answer ==
    /\ prune = "dropped"
    /\ prune' = "idle"
    /\ pruned' = images
    /\ frame' = TRUE
    /\ Schedule
    /\ UNCHANGED <<images, caches, callers, panel, faults>>

\* readLoop: a refresh frame.
RefreshFrame ==
    /\ frame
    /\ frame' = FALSE
    /\ Schedule
    /\ UNCHANGED <<images, caches, callers, prune, pruned, panel, faults>>

\* time.Since, counted no further than the window it is compared with.
Older(age, window) == IF age < window THEN age + 1 ELSE age

Tick ==
    /\ gAge < Fresh \/ invAge < InvFor
    /\ gAge' = Older(gAge, Fresh) /\ invAge' = Older(invAge, InvFor)
    /\ UNCHANGED <<images, inv, gVal, gBusy, callers, refresh, panel, faults>>

Step(c) == \/ Reuse(c) \/ Wait(c) \/ Collect(c) \/ CheckInventory(c)
           \/ ReadImages(c) \/ ReadFails(c) \/ StoreInventory(c) \/ Publish(c)
           \/ Take(c) \/ Send(c) \/ SendFails(c)

Next == \/ LoopTick \/ Tick \/ Change \/ Prune \/ DropInventory \/ PruneFails \/ Answer \/ RefreshFrame
        \/ \E p \in Pushers : StartPush(p)
        \/ \E c \in Collectors : Step(c)

Spec == Init /\ [][Next]_vars

\* The loop ticks for as long as the session lasts, goroutines go on, time
\* passes.  A command that has begun is answered.
Fairness ==
    /\ WF_vars(LoopTick) /\ WF_vars(Tick)
    /\ \A c \in Collectors : WF_vars(Step(c))
    /\ WF_vars(\E p \in Pushers : StartPush(p))
    /\ WF_vars(DropInventory \/ PruneFails) /\ WF_vars(Answer) /\ WF_vars(RefreshFrame)

-----------------------------------------------------------------------------
\* Whoever waits at the docker gate waits for a collection that somebody is in
\* the middle of, and is its only collector (collectGate.do): a result is never
\* waited for that nobody is going to publish.
AtTheGate == {"inventory", "reading", "storing", "publish"}
GateHeld ==
    /\ \A c, d \in Collectors : pc[c] \in AtTheGate /\ pc[d] \in AtTheGate => c = d
    /\ \A c \in Collectors : pc[c] = "waiting" => \E d \in Collectors : pc[d] \in AtTheGate

\* A refresh that was asked for has a goroutine still to come that will run it:
\* pushQueued is set only while one sleeps, so a request that finds it set may
\* rely on that one (schedulePushAll).
RefreshHeld == (due => asleep) /\ (pushQueued <=> asleep)

\* When changes stop, the panel ends up showing the server as it is,
\* whatever the two caches held, however the pushers overtook each other and
\* whatever was lost on the way: nothing wrong is cached for good.
PanelConverges == <>[](panel = images)

\* Every refresh that was asked for is followed by a PushAll: one that comes
\* while another is being scheduled or run is not swallowed.
RefreshRuns == due ~> ~due

\* "The inventory cache is dropped so the next snapshot shows the freed space
\* immediately" (the comment on DockerPrune): once a prune has been answered,
\* the inventory served from the cache is not one read before it.
DroppedStaysDropped == InvFresh /\ inv # 0 => inv >= pruned
=============================================================================
