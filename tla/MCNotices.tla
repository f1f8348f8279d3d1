----------------------------- MODULE MCNotices -----------------------------
(***************************************************************************)
(* What a person is told: the panel's alerts and the fleet watchdog's      *)
(* notices.  They share no state, so each is looked at on its own: focus   *)
(* is chosen at the start, and only that part moves.                       *)
(***************************************************************************)
EXTENDS Alerts

CONSTANTS alpha, beta, gamma, NoServer, DownAfter, Quiet, MaxFaults

VARIABLES focus, alive, line, tun, panelUp, pair, push, cfg, scan, down, announced, isolated, lost, noticed,
          noted, run, faults

watchVars == <<alive, line, tun, panelUp, pair, push, cfg, scan, down, announced, isolated, lost, noticed,
               noted, run, faults>>

\* Two things of one server: every kind next to a plugin's own alert, and three
\* pairs whose alerts push each other out of the list.  Kinds are in the order
\* EvaluateSnapshot goes through them.
MCWatched == {<<k, "plugin">> : k \in DOMAIN Readings}
               \cup {<<"load", "cert">>, <<"disk", "container">>, <<"proxy", "metric">>}

\* Three servers, the fewest with which a watcher can tell that it is the one
\* cut off.
Watch == INSTANCE Watchdog WITH Servers <- {alpha, beta, gamma}, PeerList <- <<alpha, beta, gamma>>,
                                Watchers <- {alpha}, told <- noted

\* Bounds are naturals, at least one row is kept, every watched thing has a
\* kind, and the three servers are three.
ASSUME NoticesAssumption ==
    /\ NumItems \in Nat /\ Window \in Nat /\ MaxUser \in Nat /\ MaxRestarts \in Nat
    /\ MaxAlerts \in Nat \ {0}
    /\ Watched \subseteq [Items -> DOMAIN Readings]
    /\ DownAfter \in Nat /\ Quiet \in Nat /\ MaxFaults \in Nat
    /\ alpha # beta /\ alpha # gamma /\ beta # gamma
    /\ NoServer \notin {alpha, beta, gamma}

\* The part that does not move starts in one fixed state.
NoticesInit ==
    /\ focus \in {"watchdog", "alerts"}
    /\ Init /\ Watch!Init
    /\ focus = "watchdog" => kind = <<"load", "plugin">> /\ reading = <<"low", "ok">>
NoticesNext ==
    \/ focus = "alerts" /\ Next /\ UNCHANGED <<focus, watchVars>>
    \/ focus = "watchdog" /\ Watch!Next /\ UNCHANGED <<focus, vars>>

\* The fairness of either part, while it is the focus.
NoticesFairness ==
    /\ WF_vars(focus = "alerts" /\ Frame)
    /\ WF_vars(focus = "alerts" /\ Tick)
    /\ WF_watchVars(focus = "watchdog" /\ Watch!Tick(alpha))
    /\ WF_watchVars(focus = "watchdog" /\ (Watch!SetConfig(alpha) \/ Watch!PushLost(alpha)))
NoticesSpec == NoticesInit /\ [][NoticesNext]_<<focus, vars, watchVars>> /\ NoticesFairness

-----------------------------------------------------------------------------
(* What is checked of either part; its module says what it means.          *)

\* The part that moves keeps its types; a condition has one open row, also
\* over a restart, and is not raised again while it lasts (AlertEngine.raise,
\* AddAlert, the rows adopted at the start).
AlertsSound == IF focus = "alerts" THEN TypeOK /\ OneRow /\ NoRepeat ELSE Watch!TypeOK

\* An alert does not outlive its cause, and a condition that lasts is reported
\* at its level (the evaluate functions, sustained, raise).
AlertsSettle == focus = "alerts" => AlertEnds /\ AlertStarts

\* A down notice is earned by a full run of failures in which the watcher was
\* not the one cut off, and a watcher repeats none while the outage lasts
\* (probePeers, setConfig).
NoticesSound == Watch!NoticeEarned /\ Watch!MarkKept

\* A primary that has lost the panel reports a peer that stays down, however
\* often sending fails (probePeers).
DownReported == Watch!DownReported
=============================================================================
