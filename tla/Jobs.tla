-------------------------------- MODULE Jobs --------------------------------
(***************************************************************************)
(* Background jobs of a server and what a reboot does to them: one nohup   *)
(* job with its state file (agent/nohup_linux.go), the processes it is     *)
(* pinned to (proc_identity_linux.go), one screen session                  *)
(* (services_linux.go), and the reboot with restore (reboot_linux.go).     *)
(*                                                                         *)
(* The commands of one lane run one at a time; the restore at the start of *)
(* the agent and the reboot command overlap with them.  The machine and    *)
(* the agent may go down between any two steps.  The kernel hands out a    *)
(* free process number to anyone.                                          *)
(***************************************************************************)
EXTENDS Naturals, Sequences, FiniteSets

CONSTANTS Pids,                                 \* process numbers
          MaxStarts,                            \* bound: processes started in one boot
          MaxBoots, MaxRestarts, MaxOps         \* bounds

\* 0 is no process's number.
ASSUME JobsAssumption ==
    /\ Pids \subseteq Nat \ {0}
    /\ MaxStarts \in Nat /\ MaxBoots \in Nat \ {0}

Nobody == [of |-> "nobody", group |-> 0, start |-> 0]
NoRec == [pid |-> 0, boot |-> 0, start |-> 0]
Torn == [pid |-> 0, boot |-> 1, start |-> 0]    \* a file that does not parse
NoManifest == [job |-> FALSE, screen |-> "absent"]
TornManifest == [job |-> FALSE, screen |-> "torn"]

VARIABLES procs,      \* each number: the process that has it
          clock,      \* start time of the newest process, in ticks since boot
          boot,       \* boot id
          rec,        \* the job's state file
          screens,    \* sessions of that name, idle or busy
          acts,       \* where the nohup lane and the restore stand
          host,       \* what the reboot command is about to write
          manifest, result, pending, count,
          struck,     \* history: Stop signalled a process that is not the job's
          excused,    \* history: a way to lose track of a job, see Reachable
          asked,      \* history: what the last reboot command said it queued
          began       \* history: the job was started since then

jobVars == <<procs, clock, boot, rec, screens, acts, host, manifest, result, pending, count,
             struck, excused, asked, began>>
hostSide == <<host, manifest, result, pending>>
history == <<struck, excused, asked, began>>

Actors == {"lane", "restore"}
Off == [at |-> "off", pid |-> 0, start |-> 0, group |-> {}, todo |-> NoManifest, item |-> "none"]
Begin == [Off EXCEPT !.at = "begin"]

TypeOK ==
    /\ \A p \in Pids : procs[p].of \in {"nobody", "job", "worker", "other"}
    /\ clock \in 0..MaxStarts /\ boot \in 1..MaxBoots
    /\ rec.pid \in {0} \cup Pids
    /\ \A n \in DOMAIN screens : screens[n] \in {"idle", "busy"}
    /\ \A a \in Actors : acts[a].at \in {"off", "begin", "screen", "read", "check", "spawn", "record",
                                         "term", "kill", "forget", "result", "remove"}
    /\ host.screen \in {"absent", "none", "idle", "busy"}
    /\ result \in {"absent", "none", "torn", "ok", "failed"}
    /\ {struck, excused, pending, began} \subseteq BOOLEAN

Init ==
    /\ procs = [p \in Pids |-> Nobody] /\ clock = 0 /\ boot = 1 /\ rec = NoRec /\ screens = <<>>
    /\ acts = [a \in Actors |-> Off]
    /\ host = NoManifest /\ manifest = NoManifest /\ result = "absent" /\ pending = FALSE
    /\ count = [ops |-> 0, restarts |-> 0]
    /\ struck = FALSE /\ excused = FALSE /\ asked = NoManifest /\ began = FALSE

Counts(what) == count' = [count EXCEPT ![what] = @ + 1]
\* The manifest is read before the agent takes commands.
Command == acts["restore"].at # "begin" /\ count.ops < MaxOps /\ Counts("ops")
Step(a, at) == acts' = [acts EXCEPT ![a].at = at]

-----------------------------------------------------------------------------
(* Processes.                                                              *)

Starts(p, of, group) == [procs EXCEPT ![p] = [of |-> of, group |-> group, start |-> clock + 1]]
Free(p) == procs[p] = Nobody /\ clock < MaxStarts

\* Somebody else's process, or a worker the job forks.
OtherStarts(p) ==
    /\ Free(p)
    /\ \/ procs' = Starts(p, "other", p)
       \/ \E q \in Pids : procs[q].of = "job" /\ procs' = Starts(p, "worker", q)
    /\ clock' = clock + 1
    /\ UNCHANGED <<boot, rec, screens, acts, hostSide, count, history>>
Exits(p) ==
    /\ procs[p] # Nobody
    /\ procs' = [procs EXCEPT ![p] = Nobody]
    /\ UNCHANGED <<clock, boot, rec, screens, acts, hostSide, count, history>>

\* Mutant: the record's boot is not compared.
SameStart(r) == procs[r.pid].start = r.start

\* jobProcess on a pinned record.
Pinned(r) == r.boot = boot /\ procs[r.pid].start = r.start

\* jobProcess: a record without a start time is matched by its log file.
JobProcess(r) ==
    /\ r.pid # 0 /\ procs[r.pid] # Nobody
    /\ IF r.start # 0 THEN Pinned(r) ELSE procs[r.pid].of \in {"job", "worker"}

Running == JobProcess(rec)

-----------------------------------------------------------------------------
(* NohupStart: the command's, and the one restoreNohup calls.              *)

\* A nohup command that fails or succeeds ends; the restore goes on to its
\* result.
Ends(a, item) ==
    acts' = [acts EXCEPT ![a] = IF a = "lane" THEN Off ELSE [@ EXCEPT !.at = "result", !.item = item]]

NohupStart ==
    /\ Command /\ acts["lane"].at = "off"
    /\ Step("lane", "check")
    /\ excused' = (excused \/ acts["restore"].at # "off")
    /\ UNCHANGED <<procs, clock, boot, rec, screens, hostSide, struck, asked, began>>

\* Mutant: the name may be in use.
NameFree == TRUE

\* A name in use by a live job is refused, and so is a bad directory.
NameUnused == ~Running
Check(a) ==
    /\ acts[a].at = "check"
    /\ \/ NameUnused /\ Step(a, "spawn")
       \/ Ends(a, "failed")
    /\ UNCHANGED <<procs, clock, boot, rec, screens, hostSide, count, history>>

\* The shell starts the job, and its start time is read: 0 when it is over by then.
Spawn(a, p) ==
    /\ acts[a].at = "spawn" /\ Free(p)
    /\ \E alive \in BOOLEAN :
        /\ procs' = IF alive THEN Starts(p, "job", p) ELSE procs
        /\ acts' = [acts EXCEPT ![a] = [@ EXCEPT !.at = "record", !.pid = p,
                                                 !.start = IF alive THEN clock + 1 ELSE 0]]
    /\ clock' = clock + 1
    /\ UNCHANGED <<boot, rec, screens, hostSide, count, history>>

\* kill -TERM of the job that cannot be recorded, which may ignore it.
Unrecorded(a) == [procs EXCEPT ![acts[a].pid] = Nobody]
Record(a) ==
    /\ acts[a].at = "record"
    /\ \/ /\ rec' = [pid |-> acts[a].pid, boot |-> IF acts[a].start = 0 THEN 0 ELSE boot, start |-> acts[a].start]
          /\ began' = TRUE
          /\ Ends(a, "ok")
          /\ UNCHANGED <<procs, excused>>
       \/ /\ rec' \in {rec, Torn}
          /\ \/ procs' = Unrecorded(a) /\ UNCHANGED excused
             \/ UNCHANGED procs /\ excused' = TRUE
          /\ Ends(a, "failed") /\ UNCHANGED began
    /\ UNCHANGED <<clock, boot, screens, hostSide, count, struck, asked>>

-----------------------------------------------------------------------------
(* NohupStop.                                                              *)

\* The group of the leader, each member pinned to its start time.
Members(leader) ==
    LET pin(p) == [pid |-> p, start |-> procs[p].start]
    IN IF procs[leader].group = leader
       THEN {pin(p) : p \in {q \in Pids : procs[q] # Nobody /\ procs[q].group = leader}}
       ELSE {pin(leader)}

NohupStop ==
    /\ Command /\ acts["lane"].at = "off"
    /\ rec # NoRec /\ rec # Torn
    /\ acts' = [acts EXCEPT !["lane"] =
                    IF Running THEN [@ EXCEPT !.at = "term", !.group = Members(rec.pid)]
                    ELSE [@ EXCEPT !.at = "forget"]]
    /\ excused' = (excused \/ acts["restore"].at # "off")
    /\ UNCHANGED <<procs, clock, boot, rec, screens, hostSide, struck, asked, began>>

\* procRef.still
Still(ref) == procs[ref.pid].start = ref.start
Hit == {ref.pid : ref \in {r \in acts["lane"].group : procs[r.pid] # Nobody /\ Still(r)}}
Strikes(dead) ==
    /\ procs' = [p \in Pids |-> IF p \in dead THEN Nobody ELSE procs[p]]
    /\ struck' = (struck \/ \E p \in Hit : procs[p].of = "other")

\* SIGTERM, which a process may ignore; up to two seconds; SIGKILL.
Term ==
    /\ acts["lane"].at = "term"
    /\ \E dead \in SUBSET Hit : Strikes(dead)
    /\ Step("lane", "kill")
    /\ UNCHANGED <<clock, boot, rec, screens, hostSide, count, excused, asked, began>>
Kill ==
    /\ acts["lane"].at = "kill"
    /\ Strikes(Hit)
    /\ Step("lane", "forget")
    /\ UNCHANGED <<clock, boot, rec, screens, hostSide, count, excused, asked, began>>
Forget ==
    /\ acts["lane"].at = "forget"
    /\ rec' = NoRec
    /\ Ends("lane", "none")
    /\ UNCHANGED <<procs, clock, boot, screens, hostSide, count, history>>

-----------------------------------------------------------------------------
(* screen, and the restore after a reboot.                                 *)

\* ScreenStart: it refuses a busy session, types into an idle one, or opens one.
ScreenStarted ==
    IF screens = <<>> THEN {<<"busy">>, <<"idle">>}
    ELSE IF screens[1] = "busy" THEN {screens} ELSE {[screens EXCEPT ![1] = "busy"], screens}

\* ScreenStart, ScreenStop (Ctrl+C, or the program ends) and ScreenKill.
ScreenCommand ==
    /\ Command
    /\ screens' \in ScreenStarted
           \cup {[screens EXCEPT ![1] = "idle"] : s \in {screens} \ {<<>>}}
           \cup {Tail(screens) : s \in {screens} \ {<<>>}}
    /\ UNCHANGED <<procs, clock, boot, rec, acts, hostSide, history>>

\* Mutant: the manifest goes before the work.
RemovedFirst == NoManifest

\* maybeRestoreSessions: a manifest that does not parse is reported and removed.
WhileWorking == manifest
RestoreBegins ==
    /\ acts["restore"].at = "begin"
    /\ IF manifest = NoManifest THEN Step("restore", "off") /\ UNCHANGED <<result, manifest>>
       ELSE IF manifest = TornManifest
       THEN Step("restore", "remove") /\ result' = "torn" /\ UNCHANGED manifest
       ELSE /\ acts' = [acts EXCEPT !["restore"] = [@ EXCEPT !.at = "screen", !.todo = manifest]]
            /\ manifest' = WhileWorking /\ UNCHANGED result
    /\ UNCHANGED <<procs, clock, boot, rec, screens, host, pending, count, history>>

\* restoreScreen: an idle one is opened bare, whether or not there is one.
RestoreScreen ==
    /\ acts["restore"].at = "screen"
    /\ CASE acts["restore"].todo.screen = "none" -> UNCHANGED screens
         [] acts["restore"].todo.screen = "idle" -> Len(screens) < 2 /\ screens' = Append(screens, "idle")
         [] acts["restore"].todo.screen = "busy" -> screens' \in ScreenStarted
    /\ Step("restore", IF acts["restore"].todo.job THEN "read" ELSE "result")
    /\ UNCHANGED <<procs, clock, boot, rec, hostSide, count, history>>

\* restoreNohup: the record is read and removed.
RestoreNohup ==
    /\ acts["restore"].at = "read"
    /\ IF rec \in {NoRec, Torn} THEN Ends("restore", "failed") /\ UNCHANGED rec
       ELSE Step("restore", "check") /\ rec' = NoRec
    /\ UNCHANGED <<procs, clock, boot, screens, hostSide, count, history>>

\* writeRestoreResult, which may fail, and then the manifest is removed.
RestoreResult ==
    /\ acts["restore"].at = "result"
    /\ \/ result' = acts["restore"].item /\ UNCHANGED asked
       \/ UNCHANGED result /\ asked' = NoManifest
    /\ Step("restore", "remove")
    /\ UNCHANGED <<procs, clock, boot, rec, screens, host, manifest, pending, count, struck, excused, began>>
RestoreEnds ==
    /\ acts["restore"].at = "remove"
    /\ manifest' = NoManifest
    /\ acts' = [acts EXCEPT !["restore"] = Off]
    /\ UNCHANGED <<procs, clock, boot, rec, screens, host, result, pending, count, history>>

-----------------------------------------------------------------------------
(* Reboot, Poweroff and crashes.                                           *)

\* snapshotScreens and snapshotNohup.
Snapshot == [job |-> Running, screen |-> IF screens = <<>> THEN "none" ELSE screens[1]]

Reboot ==
    /\ Command /\ host = NoManifest /\ ~pending
    /\ host' = Snapshot
    /\ UNCHANGED <<procs, clock, boot, rec, screens, acts, manifest, result, pending, history>>

\* Not covered: a reboot asked for while a restore is in progress, which then
\* removes the new manifest with its own.
WriteManifest ==
    /\ host # NoManifest
    /\ host' = NoManifest
    /\ \/ /\ manifest' = host /\ result' = "absent" /\ pending' = TRUE
          /\ asked' = IF acts["restore"].at = "off" THEN host ELSE NoManifest
          /\ began' = FALSE
       \/ /\ manifest' \in {manifest, TornManifest}
          /\ UNCHANGED <<result, pending, asked, began>>
    /\ UNCHANGED <<procs, clock, boot, rec, screens, acts, count, struck, excused>>

\* Reboot without restore, and Poweroff: no older manifest is brought back.
RebootPlain ==
    /\ Command /\ host = NoManifest /\ ~pending
    /\ manifest' = NoManifest /\ result' = "absent" /\ pending' = TRUE /\ asked' = NoManifest
    /\ UNCHANGED <<procs, clock, boot, rec, screens, acts, host, struck, excused, began>>

\* scheduleHostAction: none of the three commands worked.
RebootFails ==
    /\ pending
    /\ pending' = FALSE
    /\ UNCHANGED <<procs, clock, boot, rec, screens, acts, host, manifest, result, count, history>>

\* What was being written when it went down may be cut off.
CutRec == IF \E a \in Actors : acts[a].at = "record" THEN {rec, Torn} ELSE {rec}
CutManifest == IF host # NoManifest THEN {manifest, TornManifest} ELSE {manifest}
MidOperation == \E a \in Actors : acts[a].at \in {"spawn", "record", "term", "kill", "forget"}

\* As asked for, or a power cut; the agent starts with the machine.
MachineBoots ==
    /\ boot < MaxBoots
    /\ boot' = boot + 1 /\ clock' = 0 /\ procs' = [p \in Pids |-> Nobody] /\ screens' = <<>>
    /\ rec' \in CutRec /\ manifest' \in CutManifest
    /\ acts' = [a \in Actors |-> IF a = "restore" THEN Begin ELSE Off]
    /\ host' = NoManifest /\ pending' = FALSE
    /\ excused' = FALSE
    /\ UNCHANGED <<result, count, struck, asked, began>>

\* The agent alone: the unit has no KillMode, so under systemd what it started
\* goes with it; otherwise it stays.
AgentRestarts ==
    /\ count.restarts < MaxRestarts /\ Counts("restarts")
    /\ \E goes \in BOOLEAN : procs' = [p \in Pids |-> IF goes /\ procs[p].of \in {"job", "worker"}
                                                      THEN Nobody ELSE procs[p]]
    /\ rec' \in CutRec /\ manifest' \in CutManifest
    /\ acts' = [a \in Actors |-> IF a = "restore" THEN Begin ELSE Off]
    /\ host' = NoManifest /\ pending' = FALSE
    /\ excused' = (excused \/ MidOperation \/ manifest # NoManifest)
    /\ UNCHANGED <<clock, boot, screens, result, struck, asked, began>>

Next ==
    \/ \E p \in Pids : OtherStarts(p) \/ Exits(p)
    \/ NohupStart \/ NohupStop \/ Term \/ Kill \/ Forget \/ ScreenCommand
    \/ \E a \in Actors : Check(a) \/ Record(a) \/ \E p \in Pids : Spawn(a, p)
    \/ RestoreBegins \/ RestoreScreen \/ RestoreNohup \/ RestoreResult \/ RestoreEnds
    \/ Reboot \/ WriteManifest \/ RebootPlain \/ RebootFails \/ MachineBoots \/ AgentRestarts

-----------------------------------------------------------------------------
(* Properties.                                                             *)

\* Stopping a job never signals a process that is not the job's, whatever ended
\* and started since, across reboots and while it waits out the grace.
StopHitsOwn == ~struck

\* A job's live process can be stopped from the panel: the record names it,
\* unless the agent or the write of the record was interrupted in this boot, or
\* a command overlapped with the restore (see OneCopy).
Reachable ==
    ~excused /\ acts = [a \in Actors |-> Off]
        => \A p \in Pids : procs[p].of = "job" => Running /\ rec.pid = p

\* A reboot command that said it queued the job keeps its word, whatever goes
\* down and however often on the way: once the manifest is gone the job was
\* started, or the result says that it was not.
RestoreAccounted ==
    asked.job /\ manifest = NoManifest /\ acts["restore"].at = "off"
        => result \in {"torn", "failed"} \/ (result = "ok" /\ began)

\* Refuted: "consumes the manifest once".  The agent restarting in mid-restore,
\* or a reboot that never came, starts the job again next to the first.
OneCopy == Cardinality({p \in Pids : procs[p].of = "job"}) <= 1

\* Refuted under the installed unit: "restarting the agent cannot take the job
\* down with it".
SurvivesRestart ==
    [][\A p \in Pids : procs[p].of = "job" /\ count'.restarts > count.restarts => procs'[p] = procs[p]]_jobVars
=============================================================================
