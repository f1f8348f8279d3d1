------------------------------ MODULE Transport ------------------------------
(***************************************************************************)
(* How one agent reaches the panel: over Tailscale, or through the tunnel  *)
(* both run in their own process (agent/transport.go, the session part of  *)
(* agent/ws_client.go, backend/wireguard.go, backend/wireguard_api.go).    *)
(*                                                                         *)
(* A tunnel key is a number, 0 is "no key".  The agent's configuration is  *)
(* the key (0: Tailscale), whether it holds the Tailscale URL to fall back *)
(* on, and the trial's deadline.  The panel's registry entry is the        *)
(* transport it believes in, the key it expects and whether it still holds *)
(* the private half; peers are the keys installed in the panel's device.   *)
(***************************************************************************)
EXTENDS Naturals, FiniteSets

CONSTANTS MaxKeys,    \* bound: keys the panel issues
          MaxOps,     \* bound: things the user does
          MaxFaults   \* bound: paths lost, restarts, failed saves

VARIABLES cfg,    \* the agent's Config in memory
          disk,   \* and as saved
          ses,    \* the agent's session
          att,    \* the panel's socket: "none", "live" (the agent's own), "stale"
          entry,  \* the registry entry
          peers,  \* keys installed in the panel's tunnel device
          migrate, back,  \* where the panel's two handlers stand
          old,    \* the key Rekey replaces
          cmd,    \* per handler, the command on its way to the agent
          up,     \* which of the two paths and the panel are up
          heard,  \* history: keys an agent has registered with
          issued, \* keys issued so far
          ops, faults

agent == <<cfg, disk, ses>>
panel == <<entry, peers, issued, heard>>
handlers == <<migrate, back, old, cmd>>
world == <<up, ops, faults>>
vars == <<agent, att, panel, handlers, world>>

Keys == 0..MaxKeys
Config == [key: Keys, fb: BOOLEAN, until: {"none", "running", "past"}]
Tailscale == [key |-> 0, fb |-> FALSE, until |-> "none"]

\* st: the loop of Run sleeps, runSession dials, waits for its ack, is up;
\* via: the path it took and with which key; fb: useFallback; cut: its
\* context was cancelled by KickSession; gone: the other end closed it.
Session == [st: {"idle", "dial", "hello", "ack", "up"}, via: {"ts", "wg"},
            key: Keys, fb: BOOLEAN, cut: BOOLEAN, gone: BOOLEAN]
Idle == [st |-> "idle", via |-> "ts", key |-> 0, fb |-> FALSE, cut |-> FALSE, gone |-> FALSE]
NoCmd == [op |-> "none", key |-> 0]

TypeOK ==
    /\ cfg \in Config /\ disk \in Config /\ ses \in Session
    /\ cfg.key = 0 => cfg = Tailscale
    /\ att \in {"none", "live", "stale"}
    /\ entry \in [tr: {"ts", "wg"}, key: Keys, held: BOOLEAN]
    /\ peers \subseteq Keys \ {0}
    /\ migrate \in {"idle", "rekeyed", "installing", "push", "wait"}
    /\ back \in {"idle", "wait", "forget", "remove"}
    /\ old \in Keys
    /\ cmd \in [{"migrate", "back"} -> [op: {"none", "sent", "run", "ok"}, key: Keys]]
    /\ up \in [{"ts", "wg", "panel"} -> BOOLEAN]
    /\ heard \subseteq Keys /\ issued \in Keys
    /\ ops \in 0..MaxOps /\ faults \in 0..MaxFaults

Init ==
    /\ cfg = Tailscale /\ disk = Tailscale /\ ses = Idle
    /\ att = "none"
    /\ entry = [tr |-> "ts", key |-> 0, held |-> FALSE]
    /\ peers = {} /\ heard = {} /\ issued = 0
    /\ migrate = "idle" /\ back = "idle" /\ old = 0
    /\ cmd = [h \in {"migrate", "back"} |-> NoCmd]
    /\ up = [p \in {"ts", "wg", "panel"} |-> TRUE]
    /\ ops = 0 /\ faults = 0

-----------------------------------------------------------------------------
(* Faults and saving.                                                      *)

Fault == faults < MaxFaults /\ faults' = faults + 1

\* agentTransport.update: the configuration changes in memory and is then
\* saved, which may fail.
Saves(c) == cfg' = c /\ disk' = c /\ UNCHANGED faults
SaveFails(c) == cfg' = c /\ UNCHANGED disk /\ Fault
Update(c) == Saves(c) \/ SaveFails(c)

-----------------------------------------------------------------------------
(* The agent's session.                                                    *)

\* WGFallbackActive
WGFallbackActive == cfg.key # 0 /\ cfg.fb /\ cfg.until # "past"

\* upTunnel: the agent's device answers to the panel's only while that one
\* has a peer with its key.
TunnelUp(key) == up.wg /\ key \in peers

\* The path of a session (dialerLocked).
PathUp(via, key) == up.panel /\ IF via = "ts" THEN up.ts ELSE TunnelUp(key)

\* A socket in the tunnel lives while its datagrams pass.
SocketUp == ~ses.gone /\ PathUp(ses.via, ses.key)

\* endpoint: where runSession dials, and with which tunnel.
Endpoint(fb) ==
    IF (fb /\ WGFallbackActive) \/ cfg.key = 0
    THEN [via |-> "ts", key |-> 0]
    ELSE [via |-> "wg", key |-> cfg.key]

\* Mutant: the condition on the fallback is turned round.
NeverExpires == cfg.key # 0 /\ ~cfg.fb /\ cfg.until = "past"

\* expireWireGuardTrial
Expired == cfg.key # 0 /\ cfg.fb /\ cfg.until = "past"

\* One round of Run: the trial's deadline is looked at, then session dials.
Begin ==
    /\ ses.st = "idle"
    /\ IF Expired THEN Update(Tailscale) ELSE UNCHANGED <<cfg, disk, faults>>
    /\ ses' = [Idle EXCEPT !.st = "dial"]
    /\ UNCHANGED <<att, panel, handlers, up, ops>>

\* What session does when runSession fails: one attempt over the fallback.
AfterFailure ==
    IF ~ses.fb /\ WGFallbackActive
    THEN [Idle EXCEPT !.st = "dial", !.fb = TRUE, !.cut = ses.cut]
    ELSE Idle

\* A dial through a tunnel ends at an entry that has a peer (handleAgentWS).
Answers(e) == PathUp(e.via, e.key) /\ (e.via = "wg" => entry.key # 0)

Dial ==
    /\ ses.st = "dial" /\ ~ses.cut
    /\ LET e == Endpoint(ses.fb)
       IN  /\ Answers(e)
           /\ ses' = [ses EXCEPT !.st = "hello", !.via = e.via, !.key = e.key]
    /\ UNCHANGED <<cfg, disk, att, panel, handlers, world>>

DialFails ==
    /\ ses.st = "dial"
    /\ ses.cut \/ ~Answers(Endpoint(ses.fb))
    /\ ses' = AfterFailure
    /\ UNCHANGED <<cfg, disk, att, panel, handlers, world>>

\* Mutant: an entry that is on WireGuard already keeps its key.
KeepsHeld(e) == IF e.tr = "wg" THEN e ELSE [e EXCEPT !.tr = "wg", !.held = FALSE]

\* The register frame at the panel.  Over Tailscale the token is the proof
\* and the entry's transport stays; a tunnel pins the socket to the entry,
\* whose key is spent and whose transport is WireGuard from here on.
RegisterPinned(e) == [e EXCEPT !.tr = "wg", !.held = FALSE]

Register ==
    /\ ses.st = "hello" /\ SocketUp
    /\ att' = "live"
    /\ ses' = [ses EXCEPT !.st = "ack"]
    /\ IF ses.via = "wg"
       THEN entry' = RegisterPinned(entry) /\ heard' = heard \cup {ses.key}
       ELSE UNCHANGED <<entry, heard>>
    /\ UNCHANGED <<cfg, disk, peers, issued, handlers, world>>

\* Mutant: any ack confirms the trial.
AnyAckConfirms(viaTunnel) == cfg.key # 0 /\ cfg.until # "none"

\* ApplyRegisterAck: only an ack through the tunnel confirms a trial.  That
\* the socket is a tunnel's was settled when it was dialled (runSession).
Confirms(viaTunnel) == viaTunnel /\ cfg.key # 0 /\ cfg.until # "none"

Ack ==
    /\ ses.st = "ack" /\ SocketUp
    /\ ses' = [ses EXCEPT !.st = "up"]
    /\ IF Confirms(ses.via = "wg" /\ ~ses.fb)
       THEN Update([cfg EXCEPT !.until = "none"])
       ELSE UNCHANGED <<cfg, disk, faults>>
    /\ UNCHANGED <<att, panel, handlers, up, ops>>

\* The socket dies.  The read loop of the agent returns, and session goes on
\* to the fallback; the panel finds out for itself.  A command nobody read
\* is lost, one that runs goes on.
Unread == [h \in DOMAIN cmd |-> IF cmd[h].op = "sent" THEN NoCmd ELSE cmd[h]]

SessionEnds ==
    /\ ses.st \in {"hello", "ack", "up"}
    /\ ~SocketUp
    /\ ses' = AfterFailure
    /\ att' = IF att = "live" THEN "stale" ELSE att
    /\ cmd' = Unread
    /\ UNCHANGED <<cfg, disk, panel, migrate, back, old, world>>

PanelDrops ==
    /\ att = "stale"
    /\ att' = "none"
    /\ UNCHANGED <<agent, panel, handlers, world>>

\* The trial's window closes.
TrialTimeout ==
    /\ cfg.until = "running"
    /\ cfg' = [cfg EXCEPT !.until = "past"]
    /\ disk' = IF disk.until = "running" THEN [disk EXCEPT !.until = "past"] ELSE disk
    /\ UNCHANGED <<ses, att, panel, handlers, world>>

-----------------------------------------------------------------------------
(* Commands that switch the transport, run by the agent.                   *)

\* applySwitchToWireGuard: a fallback already held is left as it is.
ToWireGuard(k) ==
    [key |-> k, fb |-> TRUE,
     until |-> IF cfg.fb THEN cfg.until ELSE "running"]

\* The agent of a join token has no Tailscale URL to put aside.
SwitchTo(k) == IF cfg.key # 0 /\ ~cfg.fb THEN [cfg EXCEPT !.key = k] ELSE ToWireGuard(k)

\* KickSession cancels the context of whatever session there is.
Kick == ses' = [ses EXCEPT !.cut = ses.st # "idle"]

\* readLoop hands a command to a goroutine, which may outlive the session.
Receive(h) ==
    /\ cmd[h].op = "sent" /\ att = "live" /\ ses.st = "up" /\ SocketUp
    /\ cmd' = [cmd EXCEPT ![h].op = "run"]
    /\ UNCHANGED <<agent, att, panel, migrate, back, old, world>>

\* handleTransportWireGuard, handleTransportTailscale: change, save, kick,
\* answer.  A save that fails is answered with an error, and no kick.  The
\* answer goes through the channel of the session that was just cancelled.
Waiting(h) == IF h = "migrate" THEN migrate = "wait" ELSE back = "wait"

AgentSwitch(h) ==
    /\ cmd[h].op = "run"
    /\ LET c == IF h = "migrate" THEN SwitchTo(cmd[h].key) ELSE Tailscale
       IN  \/ /\ Saves(c) /\ Kick
              /\ \/ Waiting(h) /\ cmd' = [cmd EXCEPT ![h].op = "ok"]
                 \/ cmd' = [cmd EXCEPT ![h] = NoCmd]
           \/ /\ SaveFails(c)
              /\ cmd' = [cmd EXCEPT ![h] = NoCmd]
              /\ UNCHANGED ses
    /\ UNCHANGED <<att, panel, migrate, back, old, up, ops>>

-----------------------------------------------------------------------------
(* The panel's handlers.                                                   *)

UserActs == ops < MaxOps /\ ops' = ops + 1

\* Rekey, first half: fresh keys are stored.  A new key is always one the
\* panel has never issued.
Rekey ==
    /\ issued < MaxKeys
    /\ issued' = issued + 1 /\ old' = entry.key
    /\ entry' = [entry EXCEPT !.key = issued + 1, !.held = TRUE]

\* handleWireGuardMigrate
Migrate ==
    /\ up.panel /\ migrate = "idle" /\ entry.tr # "wg"
    /\ UserActs /\ Rekey
    /\ migrate' = "rekeyed"
    /\ UNCHANGED <<agent, att, peers, heard, back, cmd, up, faults>>

\* handleWireGuardRegenerate: the same, and no push.
Regenerate ==
    /\ up.panel /\ migrate = "idle" /\ entry.key # 0
    /\ UserActs /\ Rekey
    /\ migrate' = "installing"
    /\ UNCHANGED <<agent, att, peers, heard, back, cmd, up, faults>>

\* Rekey, second half: RemovePeer of the old key, SyncPeer of the new one,
\* from the copy of the entry that was stored.
SetPeer(ps, k) == ps \cup {k}

SyncPeer ==
    /\ migrate \in {"rekeyed", "installing"}
    /\ peers' = SetPeer(peers \ {old}, issued)
    /\ migrate' = IF migrate = "rekeyed" THEN "push" ELSE "idle"
    /\ UNCHANGED <<agent, att, entry, issued, heard, back, old, cmd, world>>

\* The join token of the command, with the key in it.
WGJoin(k) == [op |-> "sent", key |-> k]

\* Request: without a socket it fails at once, with a dead one it times out.
\* One command of a kind is under way at a time (a bound).
PushSwitch ==
    /\ migrate = "push" /\ cmd["migrate"].op = "none"
    /\ IF att = "none"
       THEN migrate' = "idle" /\ UNCHANGED cmd
       ELSE migrate' = "wait" /\ cmd' = [cmd EXCEPT !["migrate"] = WGJoin(issued)]
    /\ UNCHANGED <<agent, att, panel, back, old, world>>

\* The answer or its timeout; the user is shown the command either way.
PushEnds ==
    /\ migrate = "wait"
    /\ migrate' = "idle"
    /\ cmd' = IF cmd["migrate"].op = "ok" THEN [cmd EXCEPT !["migrate"] = NoCmd] ELSE cmd
    /\ UNCHANGED <<agent, att, panel, back, old, world>>

\* handleWireGuardSwitchTailscale: an agent that is connected is told first.
SwitchBack ==
    /\ up.panel /\ back = "idle" /\ cmd["back"].op = "none"
    /\ (entry.key # 0 \/ entry.tr = "wg")
    /\ UserActs
    /\ IF att = "none"
       THEN back' = "forget" /\ UNCHANGED cmd
       ELSE back' = "wait" /\ cmd' = [cmd EXCEPT !["back"] = [op |-> "sent", key |-> 0]]
    /\ UNCHANGED <<agent, att, panel, migrate, old, up, faults>>

BackAnswered ==
    /\ back = "wait" /\ cmd["back"].op = "ok"
    /\ back' = "forget"
    /\ cmd' = [cmd EXCEPT !["back"] = NoCmd]
    /\ UNCHANGED <<agent, att, panel, migrate, old, world>>

BackTimeout ==
    /\ back = "wait" /\ cmd["back"].op # "ok"
    /\ back' = "idle"
    /\ UNCHANGED <<agent, att, panel, migrate, old, cmd, world>>

\* Forget: RemovePeer of the key read, then the entry is cleared.
RemovePeer ==
    /\ back = "forget"
    /\ peers' = peers \ {entry.key}
    /\ back' = "remove"
    /\ UNCHANGED <<agent, att, entry, issued, heard, migrate, old, cmd, world>>

Forget ==
    /\ back = "remove"
    /\ entry' = [tr |-> "ts", key |-> 0, held |-> FALSE]
    /\ back' = "idle"
    /\ UNCHANGED <<agent, att, peers, issued, heard, migrate, old, cmd, world>>

JoinFor(e) == e.held /\ e.key # 0

\* The installer writes a configuration over the agent's and restarts it.
RunInstaller(c) ==
    /\ UserActs
    /\ cfg' = c /\ disk' = c /\ ses' = Idle
    /\ att' = IF att = "live" THEN "stale" ELSE att
    /\ cmd' = [h \in DOMAIN cmd |-> NoCmd]
    /\ UNCHANGED <<panel, migrate, back, old, up, faults>>

\* With --wg, which JoinFor makes only while the panel holds the key:
\* applyJoin drops what the agent had.  Without, the tunnel is taken out.
Install == JoinFor(entry) /\ RunInstaller([key |-> entry.key, fb |-> FALSE, until |-> "none"])

Reinstall == cfg # Tailscale /\ RunInstaller(Tailscale)

-----------------------------------------------------------------------------
(* The world.                                                              *)

\* A path is lost: Tailscale, or the UDP port of the tunnel.
PathFails(p) ==
    /\ p \in {"ts", "wg"} /\ up[p] /\ Fault
    /\ up' = [up EXCEPT ![p] = FALSE]
    /\ UNCHANGED <<agent, att, panel, handlers, ops>>

PathReturns(p) ==
    /\ p \in {"ts", "wg"} /\ ~up[p]
    /\ up' = [up EXCEPT ![p] = TRUE]
    /\ UNCHANGED <<agent, att, panel, handlers, ops, faults>>

AgentRestarts ==
    /\ Fault
    /\ cfg' = disk /\ ses' = Idle
    /\ att' = IF att = "live" THEN "stale" ELSE att
    /\ cmd' = [h \in DOMAIN cmd |-> NoCmd]
    /\ UNCHANGED <<disk, panel, migrate, back, old, up, ops>>

\* The panel is closed: its handlers, sockets and device go with it.
PanelCloses ==
    /\ up.panel /\ Fault
    /\ up' = [up EXCEPT !.panel = FALSE]
    /\ att' = "none" /\ peers' = {}
    /\ ses' = [ses EXCEPT !.gone = ses.st \in {"hello", "ack", "up"}]
    /\ migrate' = "idle" /\ back' = "idle"
    /\ cmd' = Unread
    /\ UNCHANGED <<cfg, disk, entry, issued, heard, old, ops>>

\* Start and ensureUpLocked install the peer of every entry that has one.
PanelOpens ==
    /\ ~up.panel
    /\ up' = [up EXCEPT !.panel = TRUE]
    /\ peers' = {entry.key} \ {0}
    /\ UNCHANGED <<agent, att, entry, issued, heard, handlers, ops, faults>>

-----------------------------------------------------------------------------
AgentStep == Begin \/ Dial \/ DialFails \/ Ack \/ SessionEnds
PanelStep == \/ Register \/ PanelDrops \/ SyncPeer \/ PushSwitch \/ PushEnds
             \/ BackAnswered \/ BackTimeout \/ RemovePeer \/ Forget
User == Migrate \/ Regenerate \/ SwitchBack \/ Install \/ Reinstall
World == \/ \E p \in {"ts", "wg"} : PathFails(p) \/ PathReturns(p)
         \/ AgentRestarts \/ PanelCloses \/ PanelOpens \/ TrialTimeout

Next == \/ AgentStep \/ PanelStep \/ User \/ World
        \/ \E h \in {"migrate", "back"} : Receive(h) \/ AgentSwitch(h)

Spec == Init /\ [][Next]_vars

\* The agent's loop, the panel's goroutines and the clock go on; nobody has
\* to act, and what is lost need not come back.
FairSpec ==
    /\ Spec
    /\ WF_vars(AgentStep) /\ WF_vars(Register) /\ WF_vars(PanelDrops)
    /\ WF_vars(SyncPeer) /\ WF_vars(PushSwitch) /\ WF_vars(PushEnds)
    /\ WF_vars(BackAnswered \/ BackTimeout) /\ WF_vars(RemovePeer) /\ WF_vars(Forget)
    /\ WF_vars(TrialTimeout)

-----------------------------------------------------------------------------
(* Properties.                                                             *)

\* The panel holds an agent's private key, and so can put it into another
\* install command, only until an agent has registered with it: a spent
\* command is dead (registerPinnedAgent), whatever sockets, restarts and new
\* keys lie between the key's issue and its use.
SingleUse == entry.held => entry.key \notin heard

\* A trial that is running ends with the tunnel kept only on a session that
\* the panel has heard through a tunnel: an ack over the fallback proves
\* nothing (ApplyRegisterAck).  That the session's key is still the one on
\* trial the code does not make sure of: a switch that a slow command brings
\* between register and ack is confirmed unheard.
TrialEndsHeard ==
    [][(cfg.until = "running" /\ cfg'.until = "none" /\ cfg'.key = cfg.key /\ cfg'.fb)
          => ses.via = "wg" /\ ses.key \in heard]_vars

\* Wherever a switch, a switch back, a new key, a lost path, a failed save or
\* a restart left it, an agent that has Tailscale as its transport or as its
\* fallback ends up on a socket the panel routes to, once panel and Tailscale
\* stay up.
HasTailscale == cfg.key = 0 \/ cfg.fb
ComesBack ==
    <>[](up.panel /\ up.ts /\ HasTailscale) => <>[](att = "live")

\* A kicked session ends, so that the change of transport takes effect
\* (the comment on kickSession in agent/api.go).
KickEnds == (ses.cut /\ ses.st = "up") ~> ~(ses.cut /\ ses.st = "up")
=============================================================================
