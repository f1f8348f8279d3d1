---------------------------- MODULE Reachability ----------------------------
(***************************************************************************)
(* Which servers the panel calls down, and which it pages for: the offline *)
(* sweep of backend/alerts.go (WatchOffline, sweepOffline, hostReachable,  *)
(* clearReachability), this computer's own line (backend/localnet.go) and  *)
(* the restart marker of backend/store.go.                                 *)
(*                                                                         *)
(* The sweep walks a copy of the server list, and asks the hub, the marker *)
(* and, through a process that takes seconds, the network as it goes.      *)
(* Sockets come and go meanwhile (AgentHub is their detailed model).  Ages *)
(* are counted in ticks up to the limit they are compared with.            *)
(***************************************************************************)
EXTENDS Naturals, Sequences, FiniteSets

CONSTANTS Servers,
          Order,      \* the order ListVPS gives: a sequence of the servers
          Grace,      \* OfflineAfterSec
          Silent,     \* the longest a live socket goes without a frame: the
                      \* interval of sleep mode, and the read timeout
          Hold,       \* localOutageGrace
          StartHold,  \* agentReconnectGrace
          Recheck,    \* netUpRecheck
          ProbeEvery, \* reachProbeEvery
          Expect,     \* RestartExpectSec
          LiveClear,  \* RestartLiveClearSec
          MaxFaults   \* bound: failures, reboots, naps, restarts

ASSUME ReachAssumption ==
    /\ Order \in Seq(Servers) /\ {Order[n] : n \in 1..Len(Order)} = Servers /\ Servers # {}
    /\ {Grace, Silent, Hold, StartHold, Recheck, ProbeEvery, Expect, LiveClear,
        MaxFaults} \subseteq Nat

VARIABLES srv,        \* per server: up, its agent gone, or the host gone
          line,       \* this computer's internet
          conn,       \* per server: AgentHub.Connected
          status,     \* VPS.Status
          seen,       \* age of LastSeen
          mark,       \* age of the restart marker; NoMark for none
          active,     \* per server: its open reachability alerts
          reach,      \* hostReachable's cache
          online, checked, \* LocalNet.online and the age of checked
          hold,       \* ticks left until quietUntil
          tailnetLost,
          sweep,      \* where sweepOffline stands, with its locals
          faults

world == <<srv, line, conn>>
store == <<status, seen, mark>>
engine == <<reach, online, checked, hold, tailnetLost>>
reachVars == <<world, store, active, engine, sweep, faults>>

NoMark == Expect + 1          \* age Expect: set, and no longer fresh

\* Mutant of Fresh: a marker is believed until something clears it.
FreshForever(m) == m < NoMark

\* RestartMarker.Fresh.
Fresh(m) == m < Expect

NoReach == [up |-> FALSE, age |-> ProbeEvery]
Idle == [pc |-> "idle", left |-> <<>>, was |-> [v \in Servers |-> "online"],
         age |-> [v \in Servers |-> 0], alertable |-> FALSE]

Statuses == {"online", "offline", "agent_down", "restarting"}
Alerts == {"agent_offline", "agent_down"}

ReachTypeOK ==
    /\ srv \in [Servers -> {"up", "agent", "host"}] /\ line \in BOOLEAN
    /\ conn \in [Servers -> BOOLEAN]
    /\ status \in [Servers -> Statuses]
    /\ seen \in [Servers -> 0..(Grace + 1)] /\ mark \in [Servers -> 0..NoMark]
    /\ active \in [Servers -> SUBSET Alerts]
    /\ reach \in [Servers -> [up : BOOLEAN, age : 0..ProbeEvery]]
    /\ online \in BOOLEAN /\ checked \in 0..Recheck
    /\ hold \in 0..(Hold + StartHold) /\ tailnetLost \in BOOLEAN
    /\ sweep.pc \in {"idle", "each", "probe"}
    /\ sweep.left \in Seq(Servers) /\ Len(sweep.left) <= Len(Order)
    /\ \A n \in 1..Len(sweep.left) : sweep.left[n] = Order[Len(Order) - Len(sweep.left) + n]
    /\ sweep.alertable \in BOOLEAN
    /\ sweep.was \in [Servers -> Statuses] /\ sweep.age \in [Servers -> 0..(Grace + 1)]
    /\ faults \in 0..MaxFaults

\* A panel that has just been started, on a fleet it knows.
ReachInit ==
    /\ srv = [v \in Servers |-> "up"] /\ line = TRUE
    /\ conn = [v \in Servers |-> FALSE]
    /\ status = [v \in Servers |-> "offline"]
    /\ seen = [v \in Servers |-> Grace + 1] /\ mark = [v \in Servers |-> NoMark]
    /\ active = [v \in Servers |-> {}] /\ reach = [v \in Servers |-> NoReach]
    /\ online = TRUE /\ checked = Recheck
    /\ hold = StartHold /\ tailnetLost = FALSE
    /\ sweep = Idle
    /\ faults = 0

-----------------------------------------------------------------------------
(* The sweep.                                                              *)

Missing == \E v \in Servers : ~conn[v]

\* holdAlerts.
HoldFor(d) == hold' = IF d > hold THEN d ELSE hold

Begin(alertable) ==
    sweep' = [pc |-> "each", left |-> Order, was |-> status, age |-> seen,
              alertable |-> alertable]

\* LocalNet.Up(netUpRecheck), asked only when it matters.
AskLine == Missing \/ ~online
Reused == online /\ checked < Recheck
NetUp == IF AskLine /\ ~Reused THEN line ELSE TRUE

CheckLine == IF AskLine /\ ~Reused THEN online' = line /\ checked' = 0
                                   ELSE UNCHANGED <<online, checked>>

\* With the line up and two servers or more, none of them reachable.
AllLost == NetUp /\ Cardinality(Servers) >= 2 /\ \A v \in Servers : ~conn[v]

\* sweepOffline up to its loop.
SweepBegins ==
    /\ sweep.pc = "idle" /\ hold = 0
    /\ CheckLine
    /\ IF NetUp /\ ~online
       THEN HoldFor(Hold) /\ UNCHANGED <<tailnetLost, sweep>>
       ELSE IF tailnetLost /\ NetUp /\ Cardinality(Servers) >= 2 /\ ~AllLost
       THEN HoldFor(Hold) /\ tailnetLost' = FALSE /\ UNCHANGED sweep
       ELSE /\ tailnetLost' = (tailnetLost \/ AllLost)
            /\ Begin(NetUp /\ ~tailnetLost')
            /\ UNCHANGED hold
    /\ UNCHANGED <<world, store, active, reach, faults>>

NextServer(v) ==
    sweep' = IF Len(sweep.left) = 1 THEN Idle
             ELSE [sweep EXCEPT !.left = Tail(@), !.pc = "each"]

Set(f, v, x) == [f EXCEPT ![v] = x]

\* Mutant of ClearReachability: only what the copied status calls for.
ClearIfOffline(v) ==
    IF sweep.was[v] = "online" THEN UNCHANGED <<active, reach>>
    ELSE active' = Set(active, v, {}) /\ reach' = Set(reach, v, NoReach)

\* clearReachability.
ClearReachability(v) == active' = Set(active, v, {}) /\ reach' = Set(reach, v, NoReach)

\* A server with a live socket and a fresh marker: the reboot is awaited, or
\* it never happened.
EachLiveMarked(v) ==
    /\ conn[v] /\ Fresh(mark[v])
    /\ IF mark[v] > LiveClear
       THEN /\ mark' = Set(mark, v, NoMark)
            /\ status' = Set(status, v, "online") /\ seen' = Set(seen, v, 0)
       ELSE /\ status' = IF sweep.was[v] # "restarting"
                         THEN Set(status, v, "restarting") ELSE status
            /\ UNCHANGED <<mark, seen>>
    /\ ClearReachability(v)
    /\ NextServer(v)

\* A server with a live socket.
EachLive(v) ==
    /\ conn[v] /\ ~Fresh(mark[v])
    /\ IF sweep.was[v] \in {"offline", "agent_down"}
       THEN status' = Set(status, v, "online") /\ seen' = Set(seen, v, 0)
       ELSE UNCHANGED <<status, seen>>
    /\ mark' = Set(mark, v, NoMark)
    /\ ClearReachability(v)
    /\ NextServer(v)

\* "Expected silence: show it, alert nothing."
EachAwaited(v) ==
    /\ ~conn[v] /\ Fresh(mark[v])
    /\ status' = IF sweep.was[v] # "restarting" THEN Set(status, v, "restarting") ELSE status
    /\ NextServer(v)
    /\ UNCHANGED <<seen, mark, active, reach>>

\* Mutant of Overdue: the grace is forgotten.
OverdueAtOnce(v) == TRUE

\* time.Since(v.LastSeen) > OfflineAfterSec, of the copied entry.
Overdue(v) == sweep.age[v] > Grace

\* A server with no socket and nothing to explain it.
EachGone(v) ==
    /\ ~conn[v] /\ ~Fresh(mark[v])
    /\ mark' = Set(mark, v, NoMark)
    /\ status' = IF sweep.was[v] \notin {"offline", "agent_down"}
                 THEN Set(status, v, "offline") ELSE status
    /\ IF sweep.alertable /\ Overdue(v)
       THEN sweep' = [sweep EXCEPT !.pc = "probe"]
       ELSE NextServer(v)
    /\ UNCHANGED <<seen, active, reach>>

\* One turn of the loop.
Each == LET v == Head(sweep.left)
        IN /\ sweep.pc = "each"
           /\ EachLiveMarked(v) \/ EachLive(v) \/ EachAwaited(v) \/ EachGone(v)
           /\ UNCHANGED <<world, online, checked, hold, tailnetLost, faults>>

\* hostReachable: the cache, or a probe.
HostUp(v) == IF reach[v].age < ProbeEvery THEN reach[v].up ELSE line /\ srv[v] # "host"

\* The probe's answer: the status it calls for, one alert and not the other.
Judge ==
    /\ sweep.pc = "probe"
    /\ LET v == Head(sweep.left)
           want == IF HostUp(v) THEN "agent_down" ELSE "offline"
       IN /\ reach' = Set(reach, v, IF reach[v].age < ProbeEvery THEN reach[v]
                                     ELSE [up |-> HostUp(v), age |-> 0])
          /\ status' = IF sweep.was[v] # want THEN Set(status, v, want) ELSE status
          /\ active' = Set(active, v, {IF HostUp(v) THEN "agent_down" ELSE "agent_offline"})
          /\ NextServer(v)
    /\ UNCHANGED <<world, seen, mark, online, checked, hold, tailnetLost, faults>>

-----------------------------------------------------------------------------
(* Sockets.                                                                *)

\* A register frame: applyAgentOnline.
Connect(v) ==
    /\ ~conn[v] /\ line /\ srv[v] = "up"
    /\ conn' = Set(conn, v, TRUE)
    /\ status' = Set(status, v, "online") /\ seen' = Set(seen, v, 0)
    /\ mark' = Set(mark, v, NoMark)
    /\ UNCHANGED <<srv, line, active, engine, sweep, faults>>

\* A snapshot frame: mergeSnapshot.
SnapshotFrame(v) ==
    /\ conn[v] /\ line /\ srv[v] = "up" /\ seen[v] > 0
    /\ seen' = Set(seen, v, 0)
    /\ status' = Set(status, v, IF Fresh(mark[v]) THEN "restarting" ELSE "online")
    /\ UNCHANGED <<world, mark, active, engine, sweep, faults>>

\* AgentHub.disconnect.
Disconnect(v) ==
    /\ conn[v]
    /\ IF line /\ srv[v] = "up" THEN faults < MaxFaults /\ faults' = faults + 1
                                ELSE UNCHANGED faults
    /\ conn' = Set(conn, v, FALSE)
    /\ IF Fresh(mark[v])
       THEN status' = Set(status, v, "restarting") /\ UNCHANGED mark
       ELSE status' = Set(status, v, "offline") /\ mark' = Set(mark, v, NoMark)
    /\ UNCHANGED <<srv, line, seen, active, engine, sweep>>

-----------------------------------------------------------------------------
(* The world.                                                              *)

Fault == faults < MaxFaults /\ faults' = faults + 1

\* Mutant of Older: the count runs past its limit.
OlderPast(n, limit) == IF n <= limit THEN n + 1 ELSE n

Older(n, limit) == IF n < limit THEN n + 1 ELSE n

AllOlder(f, limit) == [v \in Servers |-> Older(f[v], limit)]

\* Time passes.  A live socket that has been silent for too long is dropped
\* before it does.
Tick ==
    /\ \A v \in Servers : conn[v] => seen[v] < Silent
    /\ seen' = AllOlder(seen, Grace + 1)
    /\ mark' = [v \in Servers |-> IF mark[v] < Expect THEN mark[v] + 1 ELSE mark[v]]
    /\ reach' = [v \in Servers |-> [reach[v] EXCEPT !.age = Older(@, ProbeEvery)]]
    /\ checked' = Older(checked, Recheck)
    /\ hold' = IF hold > 0 THEN hold - 1 ELSE 0
    /\ sweep' = IF sweep.pc = "idle" THEN sweep
                ELSE [sweep EXCEPT !.age = AllOlder(@, Grace + 1)]
    /\ UNCHANGED <<world, status, active, online, tailnetLost, faults>>

LineDown == /\ line /\ Fault
            /\ line' = FALSE
            /\ UNCHANGED <<srv, conn, store, active, engine, sweep>>

LineUp == /\ ~line
          /\ line' = TRUE
          /\ UNCHANGED <<srv, conn, store, active, engine, sweep, faults>>

ServerDown(v, how) ==
    /\ srv[v] = "up" /\ Fault
    /\ srv' = Set(srv, v, how)
    /\ UNCHANGED <<line, conn, store, active, engine, sweep>>

ServerUp(v) ==
    /\ srv[v] # "up"
    /\ srv' = Set(srv, v, "up")
    /\ UNCHANGED <<line, conn, store, active, engine, sweep, faults>>

\* A reboot command is answered: MarkRestart.
MarkRestart(v) ==
    /\ conn[v] /\ Fault
    /\ mark' = Set(mark, v, 0)
    /\ status' = Set(status, v, "restarting")
    /\ UNCHANGED <<world, seen, active, engine, sweep>>

\* The computer sleeps between two sweeps: the sockets are dead, everything
\* is older, and WatchOffline sees the gap.
Nap ==
    /\ sweep.pc = "idle" /\ Fault
    /\ conn' = [v \in Servers |-> FALSE]
    /\ status' = [v \in Servers |-> IF conn[v] THEN "offline" ELSE status[v]]
    /\ mark' = [v \in Servers |-> IF conn[v] \/ mark[v] = NoMark THEN NoMark ELSE Expect]
    /\ seen' = [v \in Servers |-> Grace + 1]
    /\ reach' = [v \in Servers |-> NoReach] /\ checked' = Recheck
    /\ HoldFor(Hold)
    /\ UNCHANGED <<srv, line, active, online, tailnetLost, sweep>>

\* The panel is started again: open alerts are adopted, the rest is new.
PanelRestart ==
    /\ Fault
    /\ conn' = [v \in Servers |-> FALSE]
    /\ status' = [v \in Servers |-> IF Fresh(mark[v]) THEN status[v] ELSE "offline"]
    /\ reach' = [v \in Servers |-> NoReach]
    /\ online' = TRUE /\ checked' = Recheck
    /\ hold' = StartHold /\ tailnetLost' = FALSE
    /\ sweep' = Idle
    /\ mark' = [v \in Servers |-> IF Fresh(mark[v]) THEN mark[v] ELSE NoMark]
    /\ UNCHANGED <<srv, line, seen, active>>

SweepStep == SweepBegins \/ Each \/ Judge

ReachNext ==
    \/ SweepStep \/ Tick \/ LineDown \/ LineUp \/ Nap \/ PanelRestart
    \/ \E v \in Servers : \/ Connect(v) \/ SnapshotFrame(v) \/ Disconnect(v)
                          \/ ServerDown(v, "agent") \/ ServerDown(v, "host")
                          \/ ServerUp(v) \/ MarkRestart(v)

ReachSpec == ReachInit /\ [][ReachNext]_reachVars

\* The sweep runs every three seconds and its probes time out; time passes;
\* an agent that can connect does, and one that is silent is dropped.
ReachFairSpec ==
    /\ ReachSpec
    /\ WF_reachVars(SweepStep) /\ WF_reachVars(Tick)
    /\ \A v \in Servers : WF_reachVars(Connect(v)) /\ WF_reachVars(SnapshotFrame(v) \/ Disconnect(v))

-----------------------------------------------------------------------------
Down(v) == status[v] \in {"offline", "agent_down"}

\* A server that stays down is reported in the end, whatever restart marker,
\* hold or stale probe was in the way, as long as the line is up and some
\* other server is there to say that the tunnel works.
OutageAlerts ==
    \A v \in Servers :
        <>[](srv[v] # "up" /\ line /\ \E u \in Servers \ {v} : conn[u])
          => <>[](active[v] # {})

\* A server whose socket stays up ends up online with no alert open: "the row
\* itself stayed open forever" (clear), "left the row hanging forever"
\* (clearReachability) do not happen again.
RecoveryClears ==
    \A v \in Servers : <>[]conn[v] => <>[](active[v] = {} /\ status[v] = "online")

\* What the sweep shows ends up true, both ways.
SweepSettles == OutageAlerts /\ RecoveryClears

\* Nobody is paged for this computer's own outage ("the wall of red you come
\* back to in the morning"): when an alert opens, no hold is on (start, wake-up,
\* the line or the tunnel coming back), the line was up and some server in
\* reach when the sweep began, seconds of probing ago, and the server's last
\* frame is older than the grace.
PagesEarned ==
    [][\A v \in Servers : ~(active'[v] \subseteq active[v]) =>
          hold = 0 /\ online /\ ~tailnetLost /\ sweep.age[v] > Grace]_reachVars

\* The sweep is sound, in a panel of any age.
ReachSound == []ReachTypeOK /\ PagesEarned

\* "Live sockets are never marked offline regardless of this value."
LiveNotMarked ==
    [][\A v \in Servers : conn[v] /\ conn'[v] /\ status[v] = "online" => ~Down(v)']_reachVars
=============================================================================
