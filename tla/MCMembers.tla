----------------------------- MODULE MCMembers -----------------------------
(***************************************************************************)
(* How servers get into the registry and by which path they reach it: the  *)
(* registry with its rules of admission, and one agent's change between    *)
(* Tailscale and the tunnel.  Neither model has the other's state, so each *)
(* is looked at on its own: focus is chosen at the start, and only that    *)
(* part moves.                                                             *)
(***************************************************************************)
EXTENDS Registry

\* One machine elsewhere and the panel's own.
CONSTANTS a1, a2, MaxKeys
MCAgents == {a1, a2}
MCLocal == {a2}

ASSUME MembersAssumption == MaxKeys \in Nat

VARIABLES focus, cfg, disk, ses, att, entry, wgPeers, migrate, back, old, cmd, paths, heard, keysIssued,
          trOps, trFaults

pathVars == <<cfg, disk, ses, att, entry, wgPeers, migrate, back, old, cmd, paths, heard, keysIssued,
              trOps, trFaults>>
Path == INSTANCE Transport WITH peers <- wgPeers, up <- paths, issued <- keysIssued,
                                ops <- trOps, faults <- trFaults

MembersInit == focus \in {"registry", "transport"} /\ Init /\ Path!Init
MembersNext ==
    \/ focus = "registry" /\ Next /\ UNCHANGED <<focus, pathVars>>
    \/ focus = "transport" /\ Path!Next /\ UNCHANGED <<focus, vars>>

\* The fairness of either part, while it is the focus.
MembersFairness ==
    /\ WF_vars(focus = "registry" /\ WritePeers)
    /\ WF_vars(focus = "registry" /\ Start)
    /\ \A a \in Agents : /\ WF_vars(focus = "registry" /\ Dial(a))
                         /\ WF_vars(focus = "registry" /\ Panel(a))
                         /\ WF_vars(focus = "registry" /\ Ack(a))
    /\ \A i \in Ids : WF_vars(focus = "registry" /\ PanelDrops(i))
    /\ WF_pathVars(focus = "transport" /\ Path!AgentStep)
    /\ WF_pathVars(focus = "transport" /\ Path!Register)
    /\ WF_pathVars(focus = "transport" /\ Path!PanelDrops)
    /\ WF_pathVars(focus = "transport" /\ Path!SyncPeer)
    /\ WF_pathVars(focus = "transport" /\ Path!PushSwitch)
    /\ WF_pathVars(focus = "transport" /\ Path!PushEnds)
    /\ WF_pathVars(focus = "transport" /\ (Path!BackAnswered \/ Path!BackTimeout))
    /\ WF_pathVars(focus = "transport" /\ Path!RemovePeer)
    /\ WF_pathVars(focus = "transport" /\ Path!Forget)
    /\ WF_pathVars(focus = "transport" /\ Path!TrialTimeout)
MembersSpec == MembersInit /\ [][MembersNext]_<<focus, vars, pathVars>> /\ MembersFairness

-----------------------------------------------------------------------------
(* What is checked of either part; its module says what it means.          *)

\* Both parts keep their types.  No two servers share a tunnel address, and
\* what was deleted stays gone (allocateTunnelIP, restoreWGPeers, DeleteVPS).
\* The panel holds an agent's private key only until an agent has registered
\* with it (registerPinnedAgent).
MembersSound == IF focus = "registry" THEN TypeOK /\ TunnelUnique /\ DeletedStaysGone
                                      ELSE Path!TypeOK /\ Path!SingleUse

\* An agent that was acked is known again from what is on disk (logAction,
\* UpdateVPSNow, restoreWGPeers), and one the registry has a place for ends up
\* connected under it (registerAgent).
AgentsKept == [](focus = "registry" => AckedIsKnown) /\ Readmitted

\* A trial of the tunnel ends with the tunnel kept only on a session the panel
\* has heard through it (ApplyRegisterAck).
TrialEndsHeard == Path!TrialEndsHeard

\* An agent with Tailscale as its transport or its fallback ends up on a socket
\* the panel routes to, once panel and Tailscale stay up (Run of ws_client.go,
\* the switch handlers of wireguard_api.go).
ComesBack == focus = "transport" => Path!ComesBack
=============================================================================
