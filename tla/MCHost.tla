------------------------------- MODULE MCHost -------------------------------
(***************************************************************************)
(* What the panel may do to a server: jobs and reboots, plugins, the       *)
(* firewall, Caddy's sites, the agent's own binary, files, the crontab and *)
(* systemd units.  They share no state, so each is looked at on its own:   *)
(* focus is chosen at the start, and only that part moves.                 *)
(***************************************************************************)
EXTENDS Jobs

\* The parts' own sets and bounds, as their modules explain them; those of
\* Jobs are its own constants.
CONSTANTS Slots, Versions, MaxPluginOps, MaxPanelRestarts, MaxDrops, MaxCalls,
          MaxRules, MaxReqs, MaxShellEdits,
          Domains, SiteIds, MaxSiteOps, MaxFlaky, MaxSiteDies,
          Releases, MaxUpdates, MaxUpdateRestarts,
          Editors, Sources, Chunks, MaxUploads, MaxSaves, MaxOther,
          MaxLines, MaxEdits, MaxCrontabEdits,
          MaxUnits, MaxUnitDies

\* A release is a binary, a bound is a number, requests are finitely many, and an
\* upload has a chunk, be it empty.
ASSUME HostAssumption ==
    /\ Releases \cap {"cut", "none"} = {}
    /\ MaxRules \in Nat \ {0, 1} /\ MaxUnits \in Nat /\ MaxUnitDies \in Nat
    /\ IsFiniteSet(Slots) /\ MaxPluginOps \in Nat /\ MaxPanelRestarts \in Nat /\ MaxDrops \in Nat
    /\ Chunks \in Nat \ {0} /\ MaxEdits \in Nat /\ MaxCrontabEdits \in Nat

VARIABLES focus,
          list, objs, rts, pluginDisk, ops, raised, syncs, pushes, applied, stale, syncErr, link, agent,
          pluginCount, overlapped, unsaved, tornOff,
          backend, rules, saved, ssh, req, dirty, fwCount,
          siteDisk, running, form, raw, err, unsure, siteCount,
          exe, op, exeRuns, before, overlap, cutBackup, updateCount,
          file, part, editors, saving, moving, client, wire, ending, ids, fileCount,
          tab, seen, cron, cronCount,
          unit, known, enabled, runs, make, half, told, dies, made

pluginVars == <<list, objs, rts, pluginDisk, ops, raised, syncs, pushes, applied, stale, syncErr, link, agent,
                pluginCount, overlapped, unsaved, tornOff>>
fwVars == <<backend, rules, saved, ssh, req, dirty, fwCount>>
siteVars == <<siteDisk, running, form, raw, err, unsure, siteCount>>
updateVars == <<exe, op, exeRuns, before, overlap, cutBackup, updateCount>>
fileVars == <<file, part, editors, saving, moving, client, wire, ending, ids, fileCount>>
cronVars == <<tab, seen, cron, cronCount>>
unitVars == <<unit, known, enabled, runs, make, half, told, dies, made>>

Plugin == INSTANCE Plugins WITH MaxOps <- MaxPluginOps, MaxRestarts <- MaxPanelRestarts,
                                disk <- pluginDisk, count <- pluginCount, torn <- tornOff
Wall == INSTANCE Firewall WITH MaxOutside <- MaxShellEdits, count <- fwCount
Site == INSTANCE CaddySites WITH Ids <- SiteIds, MaxOps <- MaxSiteOps, MaxDies <- MaxSiteDies,
                                 disk <- siteDisk, count <- siteCount
Update == INSTANCE SelfUpdate WITH MaxOps <- MaxUpdates, MaxRestarts <- MaxUpdateRestarts,
                                   file <- exe, runs <- exeRuns, torn <- cutBackup, count <- updateCount
File == INSTANCE FileManager WITH count <- fileCount
Cron == INSTANCE Crontab WITH MaxOutside <- MaxCrontabEdits, count <- cronCount
Unit == INSTANCE SystemdUnits WITH MaxDies <- MaxUnitDies

\* Lost sockets and restarts of the panel, counted together.
PluginFaults == pluginCount.restarts + pluginCount.drops
MaxPluginFaults == 1

\* Uploads, saves and everything else that happens to the file.
FileEvents == fileCount.uploads + fileCount.saves + fileCount.other
MaxFileEvents == 3

\* The parts that do not move start in one fixed state.
HostInit ==
    /\ focus \in {"jobs", "plugins", "firewall", "sites", "update", "files", "cron", "units"}
    /\ Init /\ Plugin!Init /\ Wall!Init /\ Site!Init /\ Update!Init /\ File!Init /\ Cron!Init /\ Unit!Init
    /\ focus # "firewall" => backend = "ufw" /\ Len(rules) = 2
    /\ focus # "sites" => siteDisk["main"].doms = {}
    /\ focus # "files" => file.id = 0
    /\ focus # "cron" => tab = <<>>

HostNext ==
    /\ UNCHANGED focus
    /\ \/ /\ focus = "jobs" /\ Next
          /\ UNCHANGED <<pluginVars, fwVars, siteVars, updateVars, fileVars, cronVars, unitVars>>
       \/ /\ focus = "plugins" /\ Plugin!Next /\ PluginFaults' <= MaxPluginFaults
          /\ UNCHANGED <<jobVars, fwVars, siteVars, updateVars, fileVars, cronVars, unitVars>>
       \/ /\ focus = "firewall" /\ Wall!Next
          /\ UNCHANGED <<jobVars, pluginVars, siteVars, updateVars, fileVars, cronVars, unitVars>>
       \/ /\ focus = "sites" /\ Site!Next
          /\ UNCHANGED <<jobVars, pluginVars, fwVars, updateVars, fileVars, cronVars, unitVars>>
       \/ /\ focus = "update" /\ Update!Next
          /\ UNCHANGED <<jobVars, pluginVars, fwVars, siteVars, fileVars, cronVars, unitVars>>
       \/ /\ focus = "files" /\ File!Next /\ FileEvents' <= MaxFileEvents
          /\ UNCHANGED <<jobVars, pluginVars, fwVars, siteVars, updateVars, cronVars, unitVars>>
       \/ /\ focus = "cron" /\ Cron!Next
          /\ UNCHANGED <<jobVars, pluginVars, fwVars, siteVars, updateVars, fileVars, unitVars>>
       \/ /\ focus = "units" /\ Unit!Next
          /\ UNCHANGED <<jobVars, pluginVars, fwVars, siteVars, updateVars, fileVars, cronVars>>

HostSpec == HostInit
    /\ [][HostNext]_<<focus, jobVars, pluginVars, fwVars, siteVars, updateVars, fileVars, cronVars, unitVars>>

-----------------------------------------------------------------------------
(* What is checked of each part; its module says what it means.            *)

\* Stopping a job signals the job's processes only, a job that runs can be
\* stopped, and a job queued for after a reboot is started or said not to be
\* (NohupStop, NohupStart, restoreAfterReboot).
JobsSound == focus = "jobs" => TypeOK /\ StopHitsOwn /\ Reachable /\ RestoreAccounted

\* Once plugin requests are done, what runs is what was saved; a plugin that is
\* off or gone has no alert open; a connected server runs the plugins the panel
\* wants, or an error is shown (SetState, InstallFiles, Remove,
\* ResolvePluginAll, SyncAgent).
PluginsSound ==
    focus = "plugins" => Plugin!TypeOK /\ Plugin!RunsAsSaved /\ Plugin!AlertHasOwner /\ Plugin!InStep

\* The panel does not close sshd's port unasked (guardDeny and the guards of
\* delete and toggle), and a change that was reported survives a reboot
\* (iptablesPersist).
FirewallSound ==
    /\ [](focus = "firewall" => Wall!TypeOK /\ Wall!KeptOnReboot)
    /\ Wall!SshStaysOpen

\* While no error is shown Caddy serves what is on disk (AddSite, UpdateSite,
\* DeleteSite), and a raw edit Caddy refuses leaves a configuration it accepts
\* (UpdateSiteRaw).
SitesSound ==
    /\ [](focus = "sites" => Site!TypeOK /\ Site!ServedAsSaved)
    /\ Site!RawLeavesGood

\* The agent's path always holds a whole binary and the backup is the one the
\* last update replaced (Update, Rollback); a unit is installed whole or not at
\* all (CreateSystemdUnit, DeleteSystemdUnit).
InstalledWhole ==
    /\ focus = "update" => Update!TypeOK /\ Update!BinWhole /\ Update!WayBack
    /\ focus = "units" => Unit!TypeOK /\ Unit!NothingHalf

\* An upload that landed is complete and in order, a save does not replace
\* another window's unseen (FileManager), and an edit of the crontab touches
\* one entry and no comment (CronUpdate, CronDelete).
EditsKept ==
    /\ []((focus = "files" => File!TypeOK /\ File!UploadWhole) /\ (focus = "cron" => Cron!TypeOK))
    /\ File!EditKept
    /\ Cron!KeepsOthers
=============================================================================
