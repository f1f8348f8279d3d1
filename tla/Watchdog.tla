------------------------------ MODULE Watchdog ------------------------------
(***************************************************************************)
(* The fleet supervising itself while the panel is away: the election and  *)
(* its push from backend/webhooks.go (SyncWatchers), and the watcher's     *)
(* loop of agent/watchdog.go (probePeers, panelQuiet, panelBack).          *)
(*                                                                         *)
(* A watcher's tick reads its configuration and its tunnel, probes every   *)
(* peer, and then takes the peers one by one, giving up the lock while a   *)
(* down notice is sent; a new configuration can arrive in between.  One    *)
(* tick is a minute.                                                       *)
(***************************************************************************)
EXTENDS Naturals, Sequences, FiniteSetsExt, SequencesExt

CONSTANTS Servers,    \* the fleet
          Watchers,   \* the servers that can be elected
          PeerList,   \* WatchdogConfig.Peers: every server, in order
          NoServer,
          DownAfter,  \* watchdogDownAfter
          Quiet,      \* PanelQuietMin in ticks, 0 for never
          MaxFaults   \* bound: failures of any kind

VARIABLES alive, line, tun,  \* per server: runs, has internet, has a tunnel
          panelUp,
          pair,       \* the pair Elect chose last: <<primary, secondary>>
          push,       \* watchers whose /api/watchdog/config is under way
          cfg,        \* per watcher: WatchdogConfig
          scan,       \* per watcher: where its tick stands, with its locals
          down,       \* watchdog.down
          announced,  \* watchdog.announced
          isolated,   \* watchdog.isolated
          lost,       \* ticks since panelLost was set, plus one; 0 for unset
          noticed,    \* watchdog.panelNoticed
          told,       \* history: down notices not followed by a recovery
          run,        \* history: ticks in a row the peer failed and the
                      \* watcher was not cut off
          faults

world == <<alive, line, tun, panelUp>>
config == <<pair, push, cfg>>
peers == <<down, announced, told, run>>
panelState == <<isolated, lost, noticed>>
vars == <<world, config, scan, peers, panelState, faults>>

Off == [role |-> "", primary |-> NoServer]
Configs == [role : {"", "primary", "secondary"}, primary : Servers \cup {NoServer}]
\* The peers but for this watcher, which the backend lists too.
Others(w) == RemoveAt(PeerList, CHOOSE n \in DOMAIN PeerList : PeerList[n] = w)

Resting == [pc |-> "idle", wc |-> Off, conn |-> FALSE, up |-> {}, left |-> <<>>]

TypeOK ==
    /\ alive \in [Servers -> BOOLEAN] /\ line \in [Servers -> BOOLEAN]
    /\ tun \in [Servers -> BOOLEAN] /\ panelUp \in BOOLEAN
    /\ pair \in (Servers \cup {NoServer}) \X (Servers \cup {NoServer})
    /\ push \subseteq Watchers /\ cfg \in [Watchers -> Configs]
    /\ \A w \in Watchers :
         /\ scan[w].pc \in {"idle", "peers", "sending", "panel"} /\ scan[w].wc \in Configs
         /\ scan[w].conn \in BOOLEAN /\ scan[w].up \subseteq Servers
         /\ \E n \in 1..Len(PeerList) : scan[w].left = SubSeq(Others(w), n, Len(Others(w)))
    /\ down \in [Watchers -> [Servers -> 0..DownAfter]]
    /\ run \in [Watchers -> [Servers -> 0..DownAfter]]
    /\ announced \in [Watchers -> [Servers -> BOOLEAN]]
    /\ told \in [Watchers -> [Servers -> BOOLEAN]]
    /\ isolated \in [Watchers -> BOOLEAN] /\ noticed \in [Watchers -> BOOLEAN]
    /\ lost \in [Watchers -> 0..(Quiet + 1)]
    /\ faults \in 0..MaxFaults

All(v) == [p \in Servers |-> v]
UpTo(n, bound) == IF n < bound THEN n ELSE bound

Init ==
    /\ alive = All(TRUE) /\ line = All(TRUE) /\ tun = All(TRUE) /\ panelUp = TRUE
    /\ pair = <<NoServer, NoServer>> /\ push = {} /\ cfg = [w \in Watchers |-> Off]
    /\ scan = [w \in Watchers |-> Resting]
    /\ down = [w \in Watchers |-> All(0)] /\ run = [w \in Watchers |-> All(0)]
    /\ announced = [w \in Watchers |-> All(FALSE)]
    /\ told = [w \in Watchers |-> All(FALSE)]
    /\ isolated = [w \in Watchers |-> FALSE] /\ noticed = [w \in Watchers |-> FALSE]
    /\ lost = [w \in Watchers |-> 0]
    /\ faults = 0

-----------------------------------------------------------------------------
(* The panel.                                                              *)

Candidates == {w \in Watchers : panelUp /\ tun[w]}

\* Elect: two different candidates, or one, or none.  Which is a matter of
\* the ranking, left open here.
Elections ==
    {e \in (Candidates \cup {NoServer}) \X (Candidates \cup {NoServer}) :
       /\ (e[1] = NoServer) <=> (Candidates = {})
       /\ (e[2] = NoServer) <=> (Cardinality(Candidates) < 2)
       /\ e[1] # e[2] \/ e[1] = NoServer}

\* SyncWatchers: elect, then a push to every server that is connected.  Runs
\* on a timer, on a change of settings, when an agent comes back.
SyncWatchers ==
    /\ panelUp /\ push = {}
    /\ pair' \in Elections
    /\ push' = Candidates
    /\ UNCHANGED <<world, cfg, scan, peers, panelState, faults>>

\* The configuration pushed to w.
Elected(w) == IF w = pair[1] THEN [role |-> "primary", primary |-> pair[1]]
              ELSE IF w = pair[2] THEN [role |-> "secondary", primary |-> pair[1]]
              ELSE Off

\* Mutant of RoleChanges: every push resets the tracking.
RoleChangesAlways(w) == TRUE

RoleChanges(w) == Elected(w).role # cfg[w].role

\* setConfig: stored, and the tracking reset when the role changes.
SetConfig(w) ==
    /\ w \in push /\ tun[w]
    /\ push' = push \ {w}
    /\ cfg' = [cfg EXCEPT ![w] = Elected(w)]
    /\ IF RoleChanges(w)
       THEN /\ down' = [down EXCEPT ![w] = All(0)]
            /\ announced' = [announced EXCEPT ![w] = All(FALSE)]
       ELSE UNCHANGED <<down, announced>>
    /\ UNCHANGED <<world, pair, scan, told, run, panelState, faults>>

\* The push is lost with the tunnel; SyncWatchers goes on to the next.
PushLost(w) ==
    /\ w \in push /\ ~tun[w]
    /\ push' = push \ {w}
    /\ UNCHANGED <<world, pair, cfg, scan, peers, panelState, faults>>

-----------------------------------------------------------------------------
(* The watcher's tick.                                                     *)

Reach(w, p) == alive[p] /\ line[w] /\ line[p]

\* cutOff, of the peers' answers; a lone peer has no witness but the line.
CutOff(w, up) == IF Len(Others(w)) < 2 THEN ~line[w] ELSE up = {}

\* No other server answers w, or w has no internet: for NoticeEarned.
Blind(w, up) == up = {} /\ (Len(Others(w)) >= 2 \/ ~line[w])

\* Mutant of Uncounted: the failures of before the isolation are kept.
UncountedKept(w) == UNCHANGED down

\* "each one fails a full fresh run before it is announced"
Uncounted(w) == down' = [down EXCEPT ![w] = All(0)]

\* watchdogTickOnce up to the answers of probeAll and the isolation rule.
Probe(w) ==
    /\ alive[w] /\ scan[w].pc = "idle" /\ cfg[w].role # ""
    /\ LET up == {p \in Servers \ {w} : Reach(w, p)}
           cut == CutOff(w, up)
       IN /\ scan' = [scan EXCEPT ![w] =
                        [pc |-> IF cut THEN "panel" ELSE "peers",
                         wc |-> cfg[w], conn |-> tun[w], up |-> up,
                         left |-> IF cut THEN <<>> ELSE Others(w)]]
          /\ isolated' = [isolated EXCEPT ![w] = cut]
          /\ IF cut THEN Uncounted(w) ELSE UNCHANGED down
          /\ run' = [run EXCEPT ![w] =
                       [p \in Servers |->
                          IF p = w \/ p \in up \/ Blind(w, up)
                          THEN 0 ELSE UpTo(run[w][p] + 1, DownAfter)]]
    /\ UNCHANGED <<world, config, announced, told, lost, noticed, faults>>

\* allowedToSendLocked.
Allowed(w, wc, marks) ==
    \/ wc.role # "secondary" \/ wc.primary \in {NoServer, w}
    \/ marks[w][wc.primary]

\* sendAll reaches a webhook, or it does not.
Sent(w, ok) == /\ ok => line[w]
               /\ ~ok /\ line[w] => faults < MaxFaults
               /\ faults' = IF ~ok /\ line[w] THEN faults + 1 ELSE faults

NextPeer(w) == scan' = [scan EXCEPT ![w].left = Tail(@),
                                    ![w].pc = IF Len(scan[w].left) = 1 THEN "panel" ELSE "peers"]

\* probePeers, a peer that answers: its count and its mark are cleared, and
\* a recovery notice goes out if one is due.  Its failure is ignored.
PeerAnswers(w) ==
    /\ alive[w] /\ scan[w].pc = "peers"
    /\ LET p == Head(scan[w].left)
           cleared == [announced EXCEPT ![w][p] = FALSE]
           due == announced[w][p] /\ ~scan[w].conn /\ Allowed(w, scan[w].wc, cleared)
       IN /\ p \in scan[w].up
          /\ down' = [down EXCEPT ![w][p] = 0]
          /\ announced' = cleared
          /\ IF due THEN \E ok \in BOOLEAN : /\ Sent(w, ok)
                                             /\ told' = [told EXCEPT ![w][p] = @ /\ ~ok]
                    ELSE UNCHANGED <<told, faults>>
    /\ NextPeer(w)
    /\ UNCHANGED <<world, config, run, panelState>>

\* Mutant of Failures: a failure does not add up.
FailuresForgot(w, p) == 1

\* w.down[peer.ID]++, counted no further than it is compared.
Failures(w, p) == UpTo(down[w][p] + 1, DownAfter)

\* A down notice is due for p.
DownDue(w, p) ==
    /\ ~scan[w].conn /\ ~announced[w][p]
    /\ Failures(w, p) >= DownAfter
    /\ Allowed(w, scan[w].wc, announced)

\* probePeers, a peer that does not answer.
PeerSilent(w) ==
    /\ alive[w] /\ scan[w].pc = "peers"
    /\ LET p == Head(scan[w].left)
       IN /\ p \notin scan[w].up
          /\ down' = [down EXCEPT ![w][p] = Failures(w, p)]
          /\ IF DownDue(w, p) THEN scan' = [scan EXCEPT ![w].pc = "sending"]
                              ELSE NextPeer(w)
    /\ UNCHANGED <<world, config, announced, told, run, panelState, faults>>

\* The down notice, sent without the lock, and the mark once it went out.
DownNotice(w) ==
    /\ alive[w] /\ scan[w].pc = "sending"
    /\ LET p == Head(scan[w].left)
       IN \E ok \in BOOLEAN :
            /\ Sent(w, ok)
            /\ IF ok THEN /\ announced' = [announced EXCEPT ![w][p] = TRUE]
                          /\ told' = [told EXCEPT ![w][p] = TRUE]
                     ELSE UNCHANGED <<announced, told>>
    /\ NextPeer(w)
    /\ UNCHANGED <<world, config, down, run, panelState>>

EndTick(w) == scan' = [scan EXCEPT ![w] = Resting]

\* panelBack.
PanelBack(w) ==
    /\ alive[w] /\ scan[w].pc = "panel" /\ scan[w].conn
    /\ lost' = [lost EXCEPT ![w] = 0]
    /\ noticed' = [noticed EXCEPT ![w] = FALSE]
    /\ EndTick(w)
    /\ UNCHANGED <<world, config, peers, isolated, faults>>

\* panelSeenBy some other server.
PanelSeen(w) == \E p \in Servers \ {w} : Reach(w, p) /\ tun[p]

\* panelQuiet: counted from the first tick without a tunnel.
PanelQuiet(w) ==
    /\ alive[w] /\ scan[w].pc = "panel" /\ ~scan[w].conn
    /\ LET since == UpTo(lost[w] + 1, Quiet + 1)
           skip == \/ Quiet = 0 \/ noticed[w] \/ isolated[w]
                   \/ ~Allowed(w, scan[w].wc, announced) \/ since <= Quiet
       IN /\ lost' = [lost EXCEPT ![w] = since]
          /\ IF skip \/ PanelSeen(w) THEN UNCHANGED <<noticed, faults>>
             ELSE \E ok \in BOOLEAN :
                    /\ Sent(w, ok)
                    /\ noticed' = [noticed EXCEPT ![w] = ok]
    /\ EndTick(w)
    /\ UNCHANGED <<world, config, peers, isolated>>

-----------------------------------------------------------------------------
(* The world.                                                              *)

Fault == faults < MaxFaults /\ faults' = faults + 1

\* The panel is closed: every tunnel goes with it.
PanelCloses ==
    /\ panelUp /\ Fault
    /\ panelUp' = FALSE /\ tun' = All(FALSE) /\ push' = {}
    /\ UNCHANGED <<alive, line, pair, cfg, scan, peers, panelState>>

PanelOpens ==
    /\ ~panelUp
    /\ panelUp' = TRUE
    /\ UNCHANGED <<alive, line, tun, config, scan, peers, panelState, faults>>

TunnelUp(s) ==
    /\ panelUp /\ alive[s] /\ line[s] /\ ~tun[s]
    /\ tun' = [tun EXCEPT ![s] = TRUE]
    /\ UNCHANGED <<alive, line, panelUp, config, scan, peers, panelState, faults>>

TunnelDown(s) ==
    /\ tun[s] /\ Fault
    /\ tun' = [tun EXCEPT ![s] = FALSE]
    /\ UNCHANGED <<alive, line, panelUp, config, scan, peers, panelState>>

LineDown(s) ==
    /\ line[s] /\ Fault
    /\ line' = [line EXCEPT ![s] = FALSE] /\ tun' = [tun EXCEPT ![s] = FALSE]
    /\ UNCHANGED <<alive, panelUp, config, scan, peers, panelState>>

LineUp(s) ==
    /\ ~line[s]
    /\ line' = [line EXCEPT ![s] = TRUE]
    /\ UNCHANGED <<alive, tun, panelUp, config, scan, peers, panelState, faults>>

\* A server goes down.  A watcher's agent starts again with the
\* configuration loadWatchdogConfig finds and nothing else.
ServerDown(s) ==
    /\ alive[s] /\ Fault
    /\ alive' = [alive EXCEPT ![s] = FALSE] /\ tun' = [tun EXCEPT ![s] = FALSE]
    /\ IF s \in Watchers
       THEN /\ scan' = [scan EXCEPT ![s] = Resting]
            /\ down' = [down EXCEPT ![s] = All(0)]
            /\ announced' = [announced EXCEPT ![s] = All(FALSE)]
            /\ isolated' = [isolated EXCEPT ![s] = FALSE]
            /\ lost' = [lost EXCEPT ![s] = 0] /\ noticed' = [noticed EXCEPT ![s] = FALSE]
            /\ run' = [run EXCEPT ![s] = All(0)]
       ELSE UNCHANGED <<scan, down, announced, isolated, lost, noticed, run>>
    /\ UNCHANGED <<line, panelUp, config, told>>

ServerUp(s) ==
    /\ ~alive[s]
    /\ alive' = [alive EXCEPT ![s] = TRUE]
    /\ UNCHANGED <<line, tun, panelUp, config, scan, peers, panelState, faults>>

Tick(w) == \/ Probe(w) \/ PeerAnswers(w) \/ PeerSilent(w) \/ DownNotice(w)
           \/ PanelBack(w) \/ PanelQuiet(w)

Next == \/ SyncWatchers \/ PanelCloses \/ PanelOpens
        \/ \E w \in Watchers : SetConfig(w) \/ PushLost(w) \/ Tick(w)
        \/ \E s \in Servers : \/ TunnelUp(s) \/ TunnelDown(s) \/ LineDown(s)
                              \/ LineUp(s) \/ ServerDown(s) \/ ServerUp(s)

Spec == Init /\ [][Next]_vars

\* The ticker of a running agent fires every minute and its tick comes to an
\* end; a push ends one way or the other.  Nothing is assumed of the world.
Fairness == \A w \in Watchers : WF_vars(Tick(w)) /\ WF_vars(SetConfig(w) \/ PushLost(w))
FairSpec == Spec /\ Fairness

-----------------------------------------------------------------------------
\* A down notice is earned: the peer failed DownAfter ticks in a row, in each
\* of which this watcher was not the one cut off ("a blink ... used to page
\* for every agent at once").
NoticeEarned ==
    [][\A w \in Watchers, p \in Servers :
         ~told[w][p] /\ told'[w][p] => run[w][p] >= DownAfter]_vars

\* "Announced peers stay announced, for their recovery": while an outage
\* lasts no watcher repeats itself, and its mark is only lost to a restart, a
\* change of role, or the peer's answer.
MarkKept ==
    [][\A w \in Watchers, p \in Servers :
         announced[w][p] /\ ~announced'[w][p]
           => \/ cfg'[w].role # cfg[w].role \/ ~alive'[w]
              \/ p \in scan[w].up]_vars

Stranded(w, p) ==
    /\ alive[w] /\ line[w] /\ ~tun[w]
    /\ ~Reach(w, p)
    /\ Len(Others(w)) >= 2 => \E q \in Servers \ {w, p} : Reach(w, q)

\* A primary that has lost the panel reports a peer that stays down.
DownReported ==
    \A w \in Watchers, p \in Servers :
        p # w /\ <>[](cfg[w].role = "primary" /\ Stranded(w, p)) => <>[]announced[w][p]

\* "the secondary only acts while the primary itself is unreachable": so it
\* does act when the primary is down and the panel away.
SecondaryTakesOver ==
    \A w \in Watchers :
        <>[](/\ ~panelUp /\ cfg[w].role = "secondary" /\ cfg[w].primary \notin {NoServer, w}
             /\ Stranded(w, cfg[w].primary))
          => <>(\E p \in Servers : told[w][p])

\* "so nothing is ever announced twice": no two watchers have a down notice
\* out for the same server.
NeverTwice == \A w, v \in Watchers : w # v => \A p \in Servers : ~(told[w][p] /\ told[v][p])
=============================================================================
