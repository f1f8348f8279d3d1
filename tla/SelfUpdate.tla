----------------------------- MODULE SelfUpdate -----------------------------
(***************************************************************************)
(* The agent replacing its own binary and going back to the one before     *)
(* (agent/updater.go).                                                     *)
(*                                                                         *)
(* Update and Rollback are in different lanes: they may overlap, and both  *)
(* write <bin>.new.  Downloads and copies may fail half-way, and the agent *)
(* dies at any moment, not only by the restart half a second after either. *)
(***************************************************************************)
EXTENDS Naturals

CONSTANTS Releases,             \* what GitHub has, besides the one installed
          MaxOps, MaxRestarts   \* bounds

Installed == "installed"
Cut == "cut"                    \* a part of a binary, or no binary at all
None == "none"

VARIABLES file,     \* bin, new and prev, by name
          op,       \* where Update and Rollback stand
          runs,     \* the binary that is running
          before,   \* history: what the last update replaced; None: it is gone
          overlap,  \* history: the two overlapped
          torn,     \* history: Rollback found a cut prev
          count

updateVars == <<file, op, runs, before, overlap, torn, count>>

Ops == {"update", "rollback"}
Idle == [at |-> "idle", want |-> None, fd |-> "gone"]
Names == {"bin", "new", "prev"}

TypeOK ==
    /\ \A n \in Names : file[n] \in Releases \cup {Installed, Cut, None}
    /\ file["bin"] # None
    /\ \A o \in Ops : /\ op[o].at \in {"idle", "write", "backup", "copy", "swap"}
                      /\ op[o].fd \in {"new", "bin", "gone"}
    /\ {overlap, torn} \subseteq BOOLEAN

Init ==
    /\ file = [n \in Names |-> IF n = "bin" THEN Installed ELSE None]
    /\ op = [o \in Ops |-> Idle]
    /\ runs = Installed /\ before = None /\ overlap = FALSE /\ torn = FALSE
    /\ count = [ops |-> 0, restarts |-> 0]

\* A file that is opened for writing is empty from then on.
Begins(o, want) ==
    /\ op[o] = Idle /\ runs # Cut
    /\ count.ops < MaxOps /\ count' = [count EXCEPT !.ops = @ + 1]
    /\ op' = [op EXCEPT ![o] = [at |-> "write", want |-> want, fd |-> "new"]]
    /\ file' = [file EXCEPT !["new"] = Cut]
    /\ overlap' = (overlap \/ \E p \in Ops : op[p] # Idle)

\* What is in the file o wrote, wherever that is by now: a mixture if the other
\* one still writes to it.
Written(o, c) ==
    IF op[o].fd = "gone" THEN {file}
    ELSE {[file EXCEPT ![op[o].fd] = x] :
            x \in {c} \cup {y \in {Cut} : \E p \in Ops \ {o} : op[p].at = "write" /\ op[p].fd = op[o].fd}}

\* os.Rename(<bin>.new, bin): open files follow their names.
Swaps(o) ==
    /\ file["new"] # None
    /\ file' = [file EXCEPT !["bin"] = file["new"], !["new"] = None]
    /\ op' = [p \in Ops |-> IF p = o THEN Idle
                            ELSE [op[p] EXCEPT !.fd = IF @ = "new" THEN "bin" ELSE "gone"]]
GivesUp(o) == op' = [op EXCEPT ![o] = Idle]
\* os.Remove(<bin>.new)
Discards(o) ==
    /\ file' = [file EXCEPT !["new"] = None]
    /\ op' = [p \in Ops |-> IF p = o THEN Idle ELSE [op[p] EXCEPT !.fd = IF @ = "new" THEN "gone" ELSE @]]

-----------------------------------------------------------------------------
(* Update.                                                                 *)

\* GitHub answers 200: a release, or a page that is too small to be one.
Download(r) == Begins("update", r) /\ UNCHANGED <<runs, before, torn>>

\* Mutant: what was downloaded is not looked at.
TakesAny(r) == TRUE
\* n >= 1 MB
BigEnough(r) == r # Cut

\* Mutant: the backup is left for later.
SwapsAtOnce == "swap"
BackupFirst == "backup"

Downloaded ==
    /\ op["update"].at = "write"
    /\ \/ /\ BigEnough(op["update"].want)
          /\ file' \in Written("update", op["update"].want)
          /\ op' = [op EXCEPT !["update"].at = BackupFirst]
       \/ Discards("update")
    /\ UNCHANGED <<runs, before, overlap, torn, count>>

\* copyFile(bin, prev), which may stop half-way: prev is gone from the start.
BackupBegins ==
    /\ op["update"].at = "backup"
    /\ op' = [op EXCEPT !["update"].at = "copy", !["update"].want = file["bin"]]
    /\ file' = [file EXCEPT !["prev"] = Cut]
    /\ before' = None
    /\ UNCHANGED <<runs, overlap, torn, count>>
BackupEnds ==
    /\ op["update"].at = "copy"
    /\ \/ file' = [file EXCEPT !["prev"] = op["update"].want] /\ op' = [op EXCEPT !["update"].at = "swap"]
       \/ UNCHANGED file /\ GivesUp("update")
    /\ UNCHANGED <<runs, before, overlap, torn, count>>

UpdateSwaps ==
    /\ op["update"].at = "swap"
    /\ \/ Swaps("update") /\ before' = file["bin"]
       \/ UNCHANGED <<file, before>> /\ GivesUp("update")
    /\ UNCHANGED <<runs, overlap, torn, count>>

-----------------------------------------------------------------------------
(* Rollback.                                                               *)

Rollback ==
    /\ file["prev"] # None
    /\ Begins("rollback", file["prev"])
    /\ UNCHANGED <<runs, before, torn>>

\* copyFile(prev, <bin>.new)
Copied ==
    /\ op["rollback"].at = "write"
    /\ \/ /\ file' \in Written("rollback", file["prev"])
          /\ op' = [op EXCEPT !["rollback"].at = "swap"]
          /\ torn' = (torn \/ file["prev"] = Cut)
       \/ UNCHANGED <<file, torn>> /\ GivesUp("rollback")
    /\ UNCHANGED <<runs, before, overlap, count>>
RollbackSwaps ==
    /\ op["rollback"].at = "swap"
    /\ \/ Swaps("rollback") /\ before' = None
       \/ UNCHANGED <<file, before>> /\ GivesUp("rollback")
    /\ UNCHANGED <<runs, overlap, torn, count>>

-----------------------------------------------------------------------------

\* restartSoon, or the agent dies for a reason of its own.
Restarts ==
    /\ count.restarts < MaxRestarts /\ count' = [count EXCEPT !.restarts = @ + 1]
    /\ op' = [o \in Ops |-> Idle]
    /\ runs' = file["bin"]
    /\ UNCHANGED <<file, before, overlap, torn>>

Next ==
    \/ \E r \in Releases : Download(r)
    \/ Download(Cut)
    \/ Downloaded \/ BackupBegins \/ BackupEnds \/ UpdateSwaps
    \/ Rollback \/ Copied \/ RollbackSwaps \/ Restarts

-----------------------------------------------------------------------------
(* Properties.                                                             *)

\* The agent's path always holds a whole binary: not one cut off by a lost
\* connection, a full disk or a restart, nor an error page.  Not covered: an
\* update and a rollback that overlap, and a rollback to a cut backup.
BinWhole == ~overlap /\ ~torn => file["bin"] # Cut

\* From the moment a new binary is in place the one it replaced is the backup,
\* until the next update starts on its own.
WayBack == before # None /\ ~overlap => file["prev"] = before

\* Refuted: "Rollback restores the previous binary".  An update that cannot
\* finish its backup fails and leaves a cut one, which Rollback then installs.
RollbackWhole == ~overlap => file["bin"] # Cut
=============================================================================
