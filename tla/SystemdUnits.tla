---------------------------- MODULE SystemdUnits ----------------------------
(***************************************************************************)
(* One systemd unit the panel creates, acts on and deletes                 *)
(* (agent/systemd_create_linux.go, services_linux.go).                     *)
(*                                                                         *)
(* The requests share a lane and run one at a time.  Creating a unit runs  *)
(* systemctl several times, each of which may fail, and the agent may die  *)
(* between any two steps.                                                  *)
(***************************************************************************)
EXTENDS Naturals

CONSTANTS MaxUnits, MaxDies   \* bounds: times the unit is created, deaths

VARIABLES unit,     \* the unit's file: 0 for none, else which
          known,    \* what systemd has loaded
          enabled,  \* it has a link in multi-user.target.wants
          runs,     \* what is running of it
          make,     \* the request in progress
          half,     \* history: the agent died in one, or a command failed that nobody looks at
          told,     \* history: the unit the panel was last told is installed
          dies, made

unitVars == <<unit, known, enabled, runs, make, half, told, dies, made>>

Off == [at |-> "idle", prev |-> 0, enable |-> FALSE, start |-> FALSE]

TypeOK ==
    /\ {unit, known, runs, told, make.prev} \subseteq 0..MaxUnits
    /\ make.at \in {"idle", "write", "reload", "enable", "start", "undo", "stop", "remove"}
    /\ {enabled, half} \subseteq BOOLEAN /\ dies \in 0..MaxDies /\ made \in 0..MaxUnits

Init ==
    /\ unit = 0 /\ known = 0 /\ enabled = FALSE /\ runs = 0 /\ make = Off /\ half = FALSE
    /\ told = 0 /\ dies = 0 /\ made = 0

At(at) == make' = [make EXCEPT !.at = at]

\* CreateSystemdUnit: a unit that is there needs overwrite; systemd-analyze
\* has accepted a copy of the new one.
CreateSystemdUnit(overwrite, enable, start) ==
    /\ make = Off /\ (unit = 0 \/ overwrite) /\ made < MaxUnits
    /\ made' = made + 1
    /\ make' = [at |-> "write", prev |-> unit, enable |-> enable, start |-> start]
    /\ UNCHANGED <<unit, known, enabled, runs, half, told, dies>>

\* os.WriteFile; the cut file a full disk leaves is not covered.
UnitWritten ==
    /\ make.at = "write"
    /\ \/ unit' = made /\ At("reload")
       \/ UNCHANGED unit /\ make' = Off
    /\ UNCHANGED <<known, enabled, runs, half, told, dies, made>>

\* daemon-reload, enable and start; a unit that does not start is left in
\* place, for its logs.
UnitReloaded ==
    /\ make.at = "reload"
    /\ \/ known' = unit /\ At(IF make.enable THEN "enable" ELSE "start")
       \/ UNCHANGED known /\ At("undo")
    /\ UNCHANGED <<unit, enabled, runs, half, told, dies, made>>
UnitEnabled ==
    /\ make.at = "enable"
    /\ \/ enabled' = TRUE /\ At("start")
       \/ UNCHANGED enabled /\ At("undo")
    /\ UNCHANGED <<unit, known, runs, half, told, dies, made>>
UnitStarted ==
    /\ make.at = "start"
    /\ make' = Off /\ told' = unit
    /\ \/ make.start /\ runs = 0 /\ runs' = known
       \/ UNCHANGED runs
    /\ UNCHANGED <<unit, known, enabled, half, dies, made>>

\* Mutant: the new unit is left.
LeavesNew == unit
\* undo restores what was there before.
PutBack == make.prev
UnitUndone ==
    /\ make.at = "undo"
    /\ make' = Off
    /\ unit' = PutBack
    /\ \/ known' = unit' /\ UNCHANGED half
       \/ UNCHANGED known /\ half' = TRUE
    /\ UNCHANGED <<enabled, runs, told, dies, made>>

\* DeleteSystemdUnit: stop and disable may fail unnoticed.
DeleteSystemdUnit ==
    /\ make = Off /\ unit # 0
    /\ make' = [Off EXCEPT !.at = "stop"]
    /\ UNCHANGED <<unit, known, enabled, runs, half, told, dies, made>>
UnitStopped ==
    /\ make.at = "stop"
    /\ At("remove")
    /\ runs' \in {0, runs} /\ enabled' \in {FALSE, enabled}
    /\ half' = (half \/ runs' # 0 \/ enabled')
    /\ UNCHANGED <<unit, known, told, dies, made>>
UnitRemoved ==
    /\ make.at = "remove"
    /\ make' = Off
    /\ \/ UNCHANGED <<unit, known, half, told>>
       \/ unit' = 0 /\ known' = 0 /\ told' = 0 /\ UNCHANGED half
       \/ unit' = 0 /\ UNCHANGED <<known, told>> /\ half' = TRUE
    /\ UNCHANGED <<enabled, runs, dies, made>>

\* SystemdAction, of a unit systemd knows and has the file of.
SystemdAction ==
    /\ make = Off /\ known # 0 /\ unit # 0
    /\ \/ runs' \in {0, known} /\ UNCHANGED enabled
       \/ enabled' = ~enabled /\ UNCHANGED runs
    /\ UNCHANGED <<unit, known, make, half, told, dies, made>>
UnitExits ==
    /\ runs # 0
    /\ runs' = 0
    /\ UNCHANGED <<unit, known, enabled, make, half, told, dies, made>>

AgentDies ==
    /\ dies < MaxDies /\ dies' = dies + 1
    /\ make' = Off
    /\ half' = (half \/ make # Off)
    /\ UNCHANGED <<unit, known, enabled, runs, told, made>>

Next ==
    \/ \E overwrite, enable, start \in BOOLEAN : CreateSystemdUnit(overwrite, enable, start)
    \/ UnitWritten \/ UnitReloaded \/ UnitEnabled \/ UnitStarted \/ UnitUndone
    \/ DeleteSystemdUnit \/ UnitStopped \/ UnitRemoved \/ SystemdAction \/ UnitExits \/ AgentDies

-----------------------------------------------------------------------------
(* Properties.                                                             *)

\* A request leaves nothing half-installed: on disk is the unit the panel was
\* told of, systemd knows that one, and nothing runs or is enabled of a unit
\* that is gone.  Excluded: the agent died
\* in a request, or a systemctl of an undo or a delete failed.
NothingHalf == make = Off /\ ~half => unit = told /\ known = unit /\ (unit = 0 => runs = 0 /\ ~enabled)
=============================================================================
