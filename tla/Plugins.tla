------------------------------ MODULE Plugins ------------------------------
(***************************************************************************)
(* One plugin in the panel and on one server: installing, reloading,       *)
(* switching, configuring and removing it (backend/plugins.go), its        *)
(* backend part's runtimes, its alerts, and the agent part that SyncAgent  *)
(* pushes to the server (agent/plugins.go).                                *)
(*                                                                         *)
(* Each request runs on its own goroutine and gives up p.mu between its    *)
(* steps; SyncAll is a goroutine of its own, so an older list may be       *)
(* applied after a newer one.  Inside a runtime: module PluginRuntime.     *)
(***************************************************************************)
EXTENDS Naturals, Sequences, FiniteSets

CONSTANTS Slots,        \* requests that may be in progress at once
          Versions,     \* package versions
          MaxOps, MaxRestarts, MaxDrops, MaxCalls   \* bounds

None == [ver |-> 0]
States == [on: BOOLEAN, here: BOOLEAN, cfg: {0, 1}]

VARIABLES list,       \* Plugins.list: the installed object, 0 for none
          objs,       \* every backendPlugin made so far
          rts,        \* every Runtime made so far
          disk,       \* <data>/plugins/<id>: the files and state.json
          ops,        \* each request: the steps it has left
          raised,     \* an alert of the plugin's is open
          syncs,      \* SyncAgent goroutines that have not built their list
          pushes,     \* lists on the way to the agent
          applied,    \* the newest list the agent has had
          stale,      \* the agent's last list was an older one
          syncErr, link, agent, count,
          overlapped, unsaved, torn \* history: requests overlapped; a save failed; the
                \* panel died in a request that switches the plugin, or found it off
                \* after a save that failed

pluginVars == <<list, objs, rts, disk, ops, raised, syncs, pushes, applied, stale, syncErr, link,
                agent, count, overlapped, unsaved, torn>>
history == <<overlapped, unsaved, torn>>
server == <<pushes, applied, stale, syncErr, link, agent>>

Steps == {"copy", "write", "swap", "close", "start", "resolve", "delete", "push"}
Free == [todo |-> <<>>, obj |-> 0, stop |-> 0, again |-> FALSE, off |-> FALSE]
Busy(s) == ops[s].todo # <<>>
Idle == \A s \in Slots : ~Busy(s)
On == list # 0 /\ objs[list].st.on
Live == {r \in DOMAIN rts : rts[r].run # "closed"}

TypeOK ==
    /\ list \in 0..Len(objs)
    /\ \A o \in DOMAIN objs : objs[o].ver \in Versions /\ objs[o].st \in States /\ objs[o].rt \in 0..Len(rts)
    /\ \A r \in DOMAIN rts : rts[r].run \in {"run", "call", "closed"}
    /\ disk = None \/ (disk.ver \in Versions /\ disk.st \in States)
    /\ \A s \in Slots : \A n \in DOMAIN ops[s].todo : ops[s].todo[n] \in Steps
    /\ {raised, stale, syncErr, overlapped, unsaved, torn} \subseteq BOOLEAN
    /\ link \in {"up", "lost"}
    /\ syncs + Len(pushes) <= MaxOps + MaxDrops + MaxRestarts

Init ==
    /\ list = 0 /\ objs = <<>> /\ rts = <<>> /\ disk = None
    /\ ops = [s \in Slots |-> Free] /\ raised = FALSE
    /\ syncs = 0 /\ pushes = <<>> /\ applied = 0 /\ stale = FALSE /\ syncErr = FALSE
    /\ link = "up" /\ agent = [runs |-> None, disk |-> None]
    /\ count = [ops |-> 0, restarts |-> 0, drops |-> 0, calls |-> 0, built |-> 0]
    /\ overlapped = FALSE /\ unsaved = FALSE /\ torn = FALSE

Counts(what) == count' = [count EXCEPT ![what] = @ + 1]

-----------------------------------------------------------------------------
(* Requests.                                                               *)

Begins(s, op) ==
    /\ ~Busy(s) /\ count.ops < MaxOps
    /\ Counts("ops")
    /\ ops' = [ops EXCEPT ![s] = op]
    /\ overlapped' = (overlapped \/ ~Idle)

\* Install, and WatchLinked's reload: the package is read and parsed first.
InstallFiles(s) ==
    /\ Begins(s, [Free EXCEPT !.todo = <<"copy", "write", "swap", "close", "start", "push">>, !.again = TRUE])
    /\ UNCHANGED <<list, objs, rts, disk, raised, syncs, server, unsaved, torn>>

\* What SetState leaves to do: a failed save returns before changed.
SetSteps(saved) == IF saved THEN <<"close", "start", "resolve", "push">> ELSE <<"close", "start", "resolve">>

\* SetState, under p.mu: the object, its runtime and state.json.
SetState(s, st, saved) ==
    /\ list # 0 /\ st # objs[list].st
    /\ LET old == objs[list]
           toggle == st.on # old.st.on
           restart == toggle \/ (st.cfg # old.st.cfg /\ st.on)
       IN /\ Begins(s, [todo |-> SetSteps(saved), obj |-> list,
                        stop |-> IF restart THEN old.rt ELSE 0, again |-> restart, off |-> toggle])
          /\ objs' = [objs EXCEPT ![list] = [old EXCEPT !.st = st, !.rt = IF restart THEN 0 ELSE old.rt]]
          /\ disk' = IF saved /\ disk # None THEN [disk EXCEPT !.st = st] ELSE disk
    /\ unsaved' = (unsaved \/ ~saved)
    /\ UNCHANGED <<list, rts, raised, syncs, server, torn>>

Remove(s) ==
    /\ list # 0
    /\ Begins(s, [Free EXCEPT !.todo = <<"swap", "close", "push", "resolve", "delete">>])
    /\ UNCHANGED <<list, objs, rts, disk, raised, syncs, server, unsaved, torn>>

At(s, step) == Busy(s) /\ Head(ops[s].todo) = step
StepsLeft(s) == Tail(ops[s].todo)
Done(s) == ops' = [ops EXCEPT ![s] = IF Len(ops[s].todo) = 1 THEN Free ELSE [ops[s] EXCEPT !.todo = StepsLeft(s)]]

\* InstallFiles keeps the settings of the plugin it replaces.
KeptState == IF list = 0 THEN [on |-> TRUE, here |-> TRUE, cfg |-> 0] ELSE objs[list].st
Copy(s, ver) ==
    /\ At(s, "copy")
    /\ objs' = Append(objs, [ver |-> ver, st |-> KeptState, rt |-> 0])
    /\ ops' = [ops EXCEPT ![s] = [ops[s] EXCEPT !.todo = StepsLeft(s), !.obj = Len(objs) + 1]]
    /\ UNCHANGED <<list, rts, disk, raised, syncs, server, count, history>>

\* writeInstalled; a failure may leave the files and an older state.json.
Write(s) ==
    /\ At(s, "write")
    /\ LET o == objs[ops[s].obj] IN
       \/ disk' = [ver |-> o.ver, st |-> o.st] /\ Done(s) /\ UNCHANGED unsaved
       \/ /\ disk' \in {disk, IF disk = None THEN disk ELSE [disk EXCEPT !.ver = o.ver]}
          /\ ops' = [ops EXCEPT ![s] = Free] /\ unsaved' = TRUE
    /\ UNCHANGED <<list, objs, rts, raised, syncs, server, count, overlapped, torn>>

\* replace, under p.mu.
Swap(s) ==
    /\ At(s, "swap")
    /\ ops' = [ops EXCEPT ![s] = [ops[s] EXCEPT !.todo = StepsLeft(s), !.stop = IF list = 0 THEN 0 ELSE objs[list].rt]]
    /\ list' = ops[s].obj
    /\ UNCHANGED <<objs, rts, disk, raised, syncs, server, count, history>>

\* Mutant: the old runtime is closed without waiting for its call, which goes on.
ClosesIdle(s) == IF rts[ops[s].stop].run = "call" THEN rts ELSE [rts EXCEPT ![ops[s].stop].run = "closed"]

\* Runtime.Close waits for the call in progress.
Closes(s) == [rts EXCEPT ![ops[s].stop].run = IF @ = "call" THEN "waits" ELSE "closed"]
Close(s) ==
    /\ At(s, "close")
    /\ IF ops[s].stop = 0 THEN UNCHANGED rts
       ELSE rts' = Closes(s) /\ rts'[ops[s].stop].run # "waits"
    /\ Done(s)
    /\ UNCHANGED <<list, objs, disk, raised, syncs, server, count, history>>

\* startBackend, unless the plugin is off by now.
StartBackend(s) ==
    /\ At(s, "start")
    /\ LET o == ops[s].obj IN
       IF o # 0 /\ ops[s].again /\ objs[o].st.on
       THEN /\ rts' = Append(rts, [run |-> "run", cfg |-> objs[o].st.cfg])
            /\ objs' = [objs EXCEPT ![o].rt = Len(rts) + 1]
       ELSE UNCHANGED <<rts, objs>>
    /\ Done(s)
    /\ UNCHANGED <<list, disk, raised, syncs, server, count, history>>

\* Mutant: removing a plugin leaves its alerts.
ResolvesToggled(s) == ops[s].off /\ ~objs[ops[s].obj].st.on

\* SetState resolves what a plugin it turned off has raised, Remove always.
Resolves(s) == ops[s].obj = 0 \/ (ops[s].off /\ ~objs[ops[s].obj].st.on)
ResolvePluginAll(s) ==
    /\ At(s, "resolve")
    /\ raised' = (raised /\ ~Resolves(s))
    /\ Done(s)
    /\ UNCHANGED <<list, objs, rts, disk, syncs, server, count, history>>

Deleted == None
RemoveAll(s) ==
    /\ At(s, "delete")
    /\ disk' = Deleted
    /\ Done(s)
    /\ UNCHANGED <<list, objs, rts, raised, syncs, server, count, history>>

\* changed: go SyncAll.
Changed(s) ==
    /\ At(s, "push")
    /\ syncs' = syncs + 1
    /\ Done(s)
    /\ UNCHANGED <<list, objs, rts, disk, raised, server, count, history>>

-----------------------------------------------------------------------------
(* Runtimes: a task, a handler or the chunk may raise or resolve an alert. *)

CallBegins(r) ==
    /\ rts[r].run = "run" /\ count.calls < MaxCalls
    /\ rts' = [rts EXCEPT ![r].run = "call"] /\ Counts("calls")
    /\ UNCHANGED <<list, objs, disk, ops, raised, syncs, server, history>>
CallEnds(r) ==
    /\ rts[r].run = "call"
    /\ \/ raised' \in BOOLEAN /\ rts' = [rts EXCEPT ![r].run = "run"]
       \/ UNCHANGED raised /\ rts' = [rts EXCEPT ![r].run = "closed"]   \* Runtime.fail
    /\ UNCHANGED <<list, objs, disk, ops, syncs, server, count, history>>

-----------------------------------------------------------------------------
(* The server.                                                             *)

\* The bundle SyncAgent makes: its SHA covers the agent part and the settings.
Bundle == IF On /\ objs[list].st.here THEN [ver |-> objs[list].ver, cfg |-> objs[list].st.cfg] ELSE None

SyncAgent ==
    /\ syncs > 0
    /\ syncs' = syncs - 1
    /\ IF link = "lost" THEN UNCHANGED <<pushes, count>>
       ELSE pushes' = Append(pushes, [n |-> count.built + 1, want |-> Bundle]) /\ Counts("built")
    /\ UNCHANGED <<list, objs, rts, disk, ops, raised, applied, stale, syncErr, link, agent, history>>

\* PluginHost.Sync: the same bundle is left alone; a missing one goes with its
\* files; a new one is written and started, or, when it cannot be written, the
\* old one is stopped and stays on disk.
Synced(want) ==
    IF want = agent.runs THEN {[agent |-> agent, err |-> FALSE]}
    ELSE {[agent |-> [runs |-> want, disk |-> want], err |-> FALSE]}
         \cup {[agent |-> [agent EXCEPT !.runs = None], err |-> TRUE] : w \in {want} \ {None}}

Sync(n) ==
    /\ link = "up"
    /\ pushes' = SubSeq(pushes, 1, n - 1) \o SubSeq(pushes, n + 1, Len(pushes))
    /\ \E r \in Synced(pushes[n].want) : agent' = r.agent /\ syncErr' = r.err
    /\ stale' = (pushes[n].n < applied)
    /\ applied' = IF stale' THEN applied ELSE pushes[n].n
    /\ UNCHANGED <<list, objs, rts, disk, ops, raised, syncs, link, count, history>>

\* The socket goes, with or without the agent restarting (NewPluginHost).
LinkLost ==
    /\ link = "up" /\ count.drops < MaxDrops
    /\ link' = "lost" /\ pushes' = <<>> /\ Counts("drops")
    /\ syncErr' = (syncErr \/ pushes # <<>>)
    /\ agent' \in {agent, [agent EXCEPT !.runs = agent.disk]}
    /\ UNCHANGED <<list, objs, rts, disk, ops, raised, syncs, applied, stale, history>>

\* Mutant: a server that connects is not sent its list.
ConnectsOnly == syncs
AfterConnect == syncs + 1
Connects ==
    /\ link = "lost"
    /\ link' = "up" /\ syncs' = AfterConnect
    /\ UNCHANGED <<list, objs, rts, disk, ops, raised, pushes, applied, stale, syncErr, agent, count, history>>

\* The panel dies and starts: NewPlugins, loadInstalled, Start.
PanelRestarts ==
    /\ count.restarts < MaxRestarts /\ Counts("restarts")
    /\ LET dead == [r \in DOMAIN rts |-> [rts[r] EXCEPT !.run = "closed"]]
           runs == disk # None /\ disk.st.on
       IN /\ rts' = IF runs THEN Append(dead, [run |-> "run", cfg |-> disk.st.cfg]) ELSE dead
          /\ list' = IF disk = None THEN 0 ELSE Len(objs) + 1
          /\ objs' = IF disk = None THEN objs
                     ELSE Append(objs, [ver |-> disk.ver, st |-> disk.st, rt |-> IF runs THEN Len(rts) + 1 ELSE 0])
    /\ torn' = (torn \/ (\E s \in Slots : Busy(s) /\ ops[s].off) \/ (unsaved /\ ~(disk # None /\ disk.st.on)))
    /\ ops' = [s \in Slots |-> Free] /\ unsaved' = FALSE
    /\ syncs' = 0 /\ pushes' = <<>> /\ syncErr' = FALSE /\ link' = "lost"
    /\ UNCHANGED <<disk, raised, applied, stale, agent, overlapped>>

Request(s) ==
    \/ InstallFiles(s) \/ Remove(s)
    \/ \E st \in States, saved \in BOOLEAN : SetState(s, st, saved)
Proceed(s) ==
    \/ Write(s) \/ Swap(s) \/ Close(s) \/ StartBackend(s) \/ ResolvePluginAll(s) \/ RemoveAll(s) \/ Changed(s)
    \/ \E v \in Versions : Copy(s, v)

Next ==
    \/ \E s \in Slots : Request(s) \/ Proceed(s)
    \/ \E r \in DOMAIN rts : CallBegins(r) \/ CallEnds(r)
    \/ \E n \in DOMAIN pushes : Sync(n)
    \/ SyncAgent \/ LinkLost \/ Connects \/ PanelRestarts

-----------------------------------------------------------------------------
(* Properties.                                                             *)

\* Once the requests are done: no runtime is left behind, the one that runs has
\* the settings the user saved, and a restart of the panel finds the same
\* plugin.  Requests that overlap are excluded: see LeftBehind.
RunsAsSaved ==
    Idle /\ ~overlapped =>
        /\ Live \subseteq (IF On THEN {objs[list].rt} ELSE {})
        /\ On => objs[list].rt # 0 /\ rts[objs[list].rt].cfg = objs[list].st.cfg
        /\ ~unsaved => disk = IF list = 0 THEN None ELSE [ver |-> objs[list].ver, st |-> objs[list].st]

\* A plugin that was removed or turned off has no alert open, which nothing
\* would ever close: not by a call in progress then, nor by a panel that died,
\* except between saving that it is off and resolving, or when it had been
\* turned on and that could not be saved (SetState starts it all the same).
AlertHasOwner == raised /\ Idle /\ ~overlapped /\ ~torn => On

\* A connected server runs what the panel wants it to, or the panel shows an
\* error: across lost sockets, restarts of either side and failed writes, as
\* long as no older list came last.
InStep ==
    link = "up" /\ Idle /\ syncs = 0 /\ pushes = <<>> /\ ~stale /\ ~unsaved
        => agent.runs = Bundle \/ syncErr

\* Refuted: two requests that overlap can each start a runtime, or start one of
\* a plugin the other turned off; the one that lost runs on for ever.
LeftBehind == Idle => Live \subseteq (IF On THEN {objs[list].rt} ELSE {})

\* Refuted: an older list applied last stays until the server reconnects.
AlwaysInStep == link = "up" /\ Idle /\ syncs = 0 /\ pushes = <<>> /\ ~unsaved => agent.runs = Bundle \/ syncErr
=============================================================================
