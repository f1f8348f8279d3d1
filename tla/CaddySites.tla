----------------------------- MODULE CaddySites -----------------------------
(***************************************************************************)
(* Editing a server's Caddy sites from the panel (agent/proxy_caddy.go):   *)
(* sites Beacle writes as files of their own, blocks somebody wrote into   *)
(* the Caddyfile, the form and the raw editor.                             *)
(*                                                                         *)
(* Caddy loads all of them as one configuration: one file it refuses keeps *)
(* every site from being reloaded.  Form and raw requests are in different *)
(* lanes of the agent and may overlap; the agent may die in the middle.    *)
(* What a block says is left out but for the addresses it claims and       *)
(* whether Caddy accepts it and can load it.                               *)
(***************************************************************************)
EXTENDS Naturals

CONSTANTS Domains, Ids,                       \* site addresses, site files
          MaxOps, MaxFlaky, MaxDies           \* bounds: requests, reloads that fail, deaths

Absent == [doms |-> {}, st |-> "good"]
\* good: accepted; bad: caddy validate refuses it; stuck: only a reload finds out.
Contents == [doms: (SUBSET Domains) \ {{}}, st: {"good", "bad", "stuck"}]
Main == "main"

VARIABLES disk,     \* the Caddyfile's blocks and each site file
          running,  \* the configuration Caddy has loaded
          form,     \* the form request in progress
          raw,      \* the raw edit in progress
          err,      \* caddyAdapter.lastError is set
          unsure,   \* history: requests overlapped, the agent died in one, or
                    \* somebody edited the Caddyfile
          count

siteVars == <<disk, running, form, raw, err, unsure, count>>

Idle == [at |-> "idle", file |-> Main, new |-> Absent, prev |-> Absent, good |-> TRUE]
Files == Ids \cup {Main}

TypeOK ==
    /\ \A f \in Files : disk[f] \in Contents \cup {Absent} /\ running[f] \in Contents \cup {Absent}
    /\ form.at \in {"idle", "write", "reload", "quiet"}
    /\ raw.at \in {"idle", "validate", "reload", "again"}
    /\ {err, unsure} \subseteq BOOLEAN

Init ==
    /\ disk \in {[f \in Files |-> IF f = Main /\ d # {} THEN [doms |-> d, st |-> "good"] ELSE Absent]
                    : d \in SUBSET Domains}
    /\ running = disk /\ form = Idle /\ raw = Idle /\ err = FALSE /\ unsure = FALSE
    /\ count = [ops |-> 0, flaky |-> 0, dies |-> 0]

Counts(what) == count' = [count EXCEPT ![what] = @ + 1]
Quiet == form = Idle /\ raw = Idle

\* caddy validate: no block it refuses, no address claimed twice.
Accepts(d) ==
    /\ \A f \in Files : d[f].st # "bad"
    /\ \A f, g \in Files : f # g => d[f].doms \cap d[g].doms = {}
Loads(d) == Accepts(d) /\ \A f \in Files : d[f].st # "stuck"

\* Reload: Caddy goes on with what it has when it cannot load the new one, and
\* when it cannot be told.
ReloadWorks == Loads(disk) /\ running' = disk /\ UNCHANGED count
ReloadFails ==
    /\ UNCHANGED running
    /\ \/ ~Loads(disk) /\ UNCHANGED count
       \/ Loads(disk) /\ count.flaky < MaxFlaky /\ Counts("flaky")

-----------------------------------------------------------------------------
(* The form.                                                               *)

Begins(which, others) ==
    /\ count.ops < MaxOps /\ Counts("ops")
    /\ which
    /\ unsure' = (unsure \/ others # Idle)

\* AddSite: refused when the address is in the Caddyfile.
AddSite(f, d) ==
    /\ form = Idle /\ disk[f] = Absent
    /\ d \notin disk[Main].doms
    /\ Begins(form' = [Idle EXCEPT !.at = "write", !.file = f, !.new = [doms |-> {d}, st |-> "good"]], raw)
    /\ UNCHANGED <<disk, running, raw, err>>

\* UpdateSite
UpdateSite(f, d) ==
    /\ form = Idle /\ disk[f] # Absent
    /\ Begins(form' = [Idle EXCEPT !.at = "write", !.file = f, !.new = [doms |-> {d}, st |-> "good"]], raw)
    /\ UNCHANGED <<disk, running, raw, err>>

\* ensureImport and the site's file; it is not tried first.
FormWrites ==
    /\ form.at = "write"
    /\ disk' = [disk EXCEPT ![form.file] = form.new]
    /\ form' = [form EXCEPT !.at = "reload"]
    /\ UNCHANGED <<running, raw, err, unsure, count>>

\* DeleteSite: an error is noted, success does not take an older one back.
DeleteSite(f) ==
    /\ form = Idle /\ disk[f] # Absent
    /\ Begins(form' = [Idle EXCEPT !.at = "quiet", !.file = f], raw)
    /\ disk' = [disk EXCEPT ![f] = Absent]
    /\ UNCHANGED <<running, raw, err>>

\* Mutant: a reload that fails is not noted.
NotNoted(worked) == FALSE
Noted(worked) == ~worked
FormReloads ==
    /\ form.at \in {"reload", "quiet"}
    /\ \/ ReloadWorks /\ err' = IF form.at = "quiet" THEN err ELSE Noted(TRUE)
       \/ ReloadFails /\ err' = Noted(FALSE)
    /\ form' = Idle
    /\ UNCHANGED <<disk, raw, unsure>>

-----------------------------------------------------------------------------
(* The raw editor: updateCaddyfileRaw, updateManagedRaw, writeChecked.     *)

\* replaceBlock puts the text where the block of domain d was.
Replaced(d, c) ==
    LET others == disk[Main].doms \ {d}
    IN [doms |-> others \cup c.doms, st |-> IF others \cap c.doms # {} THEN "bad" ELSE c.st]

RawBegins(f, c) ==
    /\ raw = Idle
    /\ Begins(raw' = [at |-> "validate", file |-> f, new |-> c, prev |-> disk[f], good |-> Accepts(disk)], form)
    /\ disk' = [disk EXCEPT ![f] = c]
    /\ UNCHANGED <<running, form, err>>
UpdateSiteRaw(c) ==
    \/ \E d \in disk[Main].doms : RawBegins(Main, Replaced(d, c))
    \/ \E f \in Ids : disk[f] # Absent /\ RawBegins(f, c)

\* Mutant: what was there is not put back.
KeepsNew == disk
Restored == [disk EXCEPT ![raw.file] = raw.prev]

RawValidates ==
    /\ raw.at = "validate"
    /\ IF Accepts(disk) THEN raw' = [raw EXCEPT !.at = "reload"] /\ UNCHANGED <<disk, err>>
       ELSE raw' = Idle /\ disk' = Restored /\ err' = TRUE
    /\ UNCHANGED <<running, form, unsure, count>>

\* The second reload's error is not looked at.
RawReloads ==
    /\ raw.at = "reload"
    /\ \/ ReloadWorks /\ raw' = Idle /\ err' = FALSE /\ UNCHANGED disk
       \/ ReloadFails /\ raw' = [raw EXCEPT !.at = "again"] /\ disk' = Restored /\ UNCHANGED err
    /\ UNCHANGED <<form, unsure>>
RawReloadsAgain ==
    /\ raw.at = "again"
    /\ ReloadWorks \/ ReloadFails
    /\ raw' = Idle /\ err' = TRUE
    /\ UNCHANGED <<disk, form, unsure>>

-----------------------------------------------------------------------------
(* The world.                                                              *)

\* POST /api/proxy/reload, and somebody at a shell.
Reload ==
    /\ running # disk
    /\ ReloadWorks
    /\ UNCHANGED <<disk, form, raw, err, unsure>>
SomebodyEdits(c) ==
    /\ count.ops < MaxOps /\ Counts("ops")
    /\ disk' = [disk EXCEPT ![Main] = c] /\ unsure' = TRUE
    /\ UNCHANGED <<running, form, raw, err>>
AgentDies ==
    /\ count.dies < MaxDies /\ Counts("dies")
    /\ form' = Idle /\ raw' = Idle /\ err' = FALSE
    /\ unsure' = TRUE
    /\ UNCHANGED <<disk, running>>

Next ==
    \/ \E f \in Ids : DeleteSite(f) \/ \E d \in Domains : AddSite(f, d) \/ UpdateSite(f, d)
    \/ \E c \in Contents : UpdateSiteRaw(c) \/ SomebodyEdits(c)
    \/ FormWrites \/ FormReloads \/ RawValidates \/ RawReloads \/ RawReloadsAgain
    \/ Reload \/ AgentDies

-----------------------------------------------------------------------------
(* Properties.                                                             *)

\* A raw edit that Caddy refuses, at once or only when it reloads, leaves the
\* configuration as good as it was: Caddy could be restarted with it.
RawLeavesGood == [][raw # Idle /\ raw' = Idle /\ raw.good /\ ~unsure' => Accepts(disk')]_siteVars

\* While no error is shown Caddy serves what is on disk.
ServedAsSaved == Quiet /\ ~unsure /\ ~err => running = disk

\* Refuted: a clash "has to be caught before anything is written".  Two sites
\* of the form with one address, or one changed to an address of the Caddyfile,
\* are written; Caddy refuses the configuration from then on.
AlwaysAccepted == Quiet /\ ~unsure /\ (\A f \in Files : disk[f].st = "good") => Accepts(disk)
=============================================================================
