------------------------------ MODULE Delivery ------------------------------
(***************************************************************************)
(* How a fired alert leaves the fleet (backend/webhooks.go, the send path  *)
(* of agent/watchdog.go): the panel elects two servers as watchers, pushes *)
(* them the destinations, and hands each message to the primary, then to   *)
(* the secondary, which check a reachability alert from their side.        *)
(*                                                                         *)
(* Servers are numbers in the order of their stability, 0 is none.  The    *)
(* destinations are a version number, 0 is an empty list.  A server is     *)
(* "dead" when its agent does not run and "cut" when it and the others do  *)
(* not reach each other; it may still reach the destinations.              *)
(***************************************************************************)
EXTENDS Naturals, Sequences, FiniteSets

CONSTANTS N,         \* servers
          Starts,    \* networks and pins to start from
          QueueCap,  \* capacity of WebhookService.queue
          MaxMsgs,   \* bound: alerts fired
          MaxEdits,  \* bound: edits of the destinations
          MaxOps,    \* bound: alerts and edits together
          MaxFaults  \* bound: sockets lost, agents stopped, requests timed out

\* A cut-off watcher tells by a third server; SetPins refuses one server for
\* both seats.
ASSUME DeliveryAssumption ==
    /\ N \in Nat /\ N >= 3 /\ {QueueCap, MaxMsgs, MaxEdits, MaxOps, MaxFaults} \subseteq Nat
    /\ \A s \in Starts : /\ s.net \in [1..N -> Nat] /\ s.pin \in [primary: 0..N, secondary: 0..N]
                         /\ s.pin.primary = s.pin.secondary => s.pin.primary = 0

VARIABLES net, pin,      \* networkKey of each server; the pinned watchers
          conn, dead, cut,
          targets,       \* WebhookService.targets
          held,          \* each agent's watchdog config: the version of its targets
          pushed,        \* WebhookService.pushed: the last pair, none at first
          sync,          \* SyncWatchers
          queue,
          worker,        \* WebhookService.Run
          slow,          \* requests the panel gave up and the agent still does
          sends, denied, tardy, \* history: times sent, denied by a watcher, given up
          msgs, edits, faults

world == <<net, pin, conn, dead, cut>>
outcome == <<sends, denied, tardy>>
bounds == <<msgs, edits, faults>>
vars == <<world, targets, held, pushed, sync, queue, worker, slow, outcome, bounds>>

Servers == 1..N
Nobody == 0
Seat == Servers \cup {Nobody}
Pair == [primary: Seat, secondary: Seat]
NoPair == [primary |-> Nobody, secondary |-> Nobody]
Msgs == 1..MaxMsgs
Message == [id: Msgs, about: Seat]
Versions == 0..MaxEdits + 1
Idle == [at |-> "idle", pair |-> NoPair, msg |-> [id |-> 1, about |-> Nobody], seat |-> "primary"]
NotSyncing == [at |-> "idle", pair |-> NoPair, ver |-> 0, left |-> {}, for |-> "timer"]
Slow == [what: {"push"}, to: Servers, ver: Versions] \cup [what: {"send"}, to: Servers, msg: Message]

TypeOK ==
    /\ conn \subseteq Servers \ dead /\ dead \subseteq Servers /\ cut \subseteq Servers
    /\ targets \in Versions /\ held \in [Servers -> Versions]
    /\ pushed \subseteq Pair
    /\ sync.at \in {"idle", "push"} /\ sync.pair \in Pair /\ sync.left \subseteq Servers
    /\ Len(queue) <= QueueCap /\ \A n \in DOMAIN queue : queue[n] \in Message
    /\ worker.at \in {"idle", "sync", "ask"} /\ worker.pair \in Pair
    /\ \A x \in slow : x \in Slow
    /\ sends \in [Msgs -> 0..3] /\ denied \subseteq Msgs /\ tardy \subseteq Msgs

Init ==
    /\ \E s \in Starts : net = s.net /\ pin = s.pin
    /\ conn = Servers /\ dead = {} /\ cut = {}
    /\ targets = 1 /\ held = [v \in Servers |-> 0]
    /\ pushed = {} /\ sync = NotSyncing
    /\ queue = <<>> /\ worker = Idle /\ slow = {}
    /\ sends = [m \in Msgs |-> 0] /\ denied = {} /\ tardy = {}
    /\ msgs = 0 /\ edits = 0 /\ faults = 0

Fault == faults < MaxFaults /\ faults' = faults + 1

-----------------------------------------------------------------------------
(* The election.                                                           *)

sameNetwork(a, b) == net[a] # 0 /\ net[a] = net[b]

\* The most stable of a set.
Stablest(S) == IF S = {} THEN Nobody ELSE CHOOSE v \in S : \A w \in S : v <= w

\* Mutant: the server that already has a seat is not left out.
BestOfAll(taken) ==
    LET outside == {v \in conn : taken = Nobody \/ ~sameNetwork(v, taken)}
    IN  IF outside # {} THEN Stablest(outside) ELSE Stablest(conn)

\* best: outside the taken server's network when there is one.
Best(taken) ==
    LET others == conn \ {taken}
        outside == {v \in others : taken = Nobody \/ ~sameNetwork(v, taken)}
    IN  IF outside # {} THEN Stablest(outside) ELSE Stablest(others)

\* electWatchers: a pinned server that is connected keeps its seat.
Pinned(v) == IF v \in conn THEN v ELSE Nobody
Elect ==
    LET second == IF Pinned(pin.secondary) = Pinned(pin.primary) THEN Nobody
                  ELSE Pinned(pin.secondary)
        first == IF Pinned(pin.primary) # Nobody THEN Pinned(pin.primary) ELSE Best(second)
    IN  [primary |-> first, secondary |-> IF second # Nobody THEN second ELSE Best(first)]

Watchers(p) == {p.primary, p.secondary} \ {Nobody}

-----------------------------------------------------------------------------
(* Pushing the election to the fleet.                                      *)

\* SyncWatchers, up to the pushes.  It runs alone: a call that finds another
\* one under way returns at once.
StartSync(for) ==
    /\ sync.at = "idle"
    /\ pushed' = {Elect}
    /\ sync' = [at |-> "push", pair |-> Elect, ver |-> targets, left |-> Servers, for |-> for]

\* The timer, an edit's and a registration's `go SyncWatchers()`.
Sync ==
    /\ StartSync("timer")
    /\ UNCHANGED <<world, targets, held, queue, worker, slow, outcome, bounds>>

\* Mutant: only the watchers are told, nobody is told to stop.
OnlyWatchers(v) == IF v \in Watchers(sync.pair) THEN sync.ver ELSE held[v]

\* What a push tells a server: everyone but the pair is disabled.
Config(v) == IF v \in Watchers(sync.pair) THEN sync.ver ELSE 0

\* One push.  A server that is not connected is passed over; a push whose
\* answer does not come in time may still be carried out later.
Push(v) ==
    /\ sync.at = "push" /\ sync.left # {} /\ v = Stablest(sync.left)
    /\ sync' = [sync EXCEPT !.left = @ \ {v}]
    /\ \/ v \notin conn /\ UNCHANGED <<held, slow, faults>>
       \/ v \in conn /\ held' = [held EXCEPT ![v] = Config(v)] /\ UNCHANGED <<slow, faults>>
       \/ /\ v \in conn /\ Fault
          /\ slow' = slow \cup {[what |-> "push", to |-> v, ver |-> Config(v)]}
          /\ UNCHANGED held
    /\ UNCHANGED <<world, targets, pushed, queue, worker, outcome, msgs, edits>>

\* SyncWatchers returns, to deliver when that called it.
EndSync ==
    /\ sync.at = "push" /\ sync.left = {}
    /\ sync' = NotSyncing
    /\ worker' = IF sync.for = "worker" THEN [worker EXCEPT !.at = "ask"] ELSE worker
    /\ UNCHANGED <<world, targets, held, pushed, queue, slow, outcome, bounds>>

\* SetTargets; what it pushes is a Sync.
SetTargets ==
    /\ edits < MaxEdits /\ msgs + edits < MaxOps /\ edits' = edits + 1
    /\ targets' \in {0, edits + 2}
    /\ UNCHANGED <<world, held, pushed, sync, queue, worker, slow, outcome, msgs, faults>>

-----------------------------------------------------------------------------
(* The queue and its worker.                                               *)

\* Mutant: one message too many.
EnqueueLate(m) == IF Len(queue) <= QueueCap THEN Append(queue, m) ELSE queue

\* AlertEngine.fire and Enqueue: about a server whose socket is gone, or
\* anything else a server measured itself.  A full queue drops the message.
Enqueue(m) == IF Len(queue) < QueueCap THEN Append(queue, m) ELSE queue

Alert(v) ==
    /\ msgs < MaxMsgs /\ msgs + edits < MaxOps /\ msgs' = msgs + 1
    /\ v \notin conn
    /\ queue' = Enqueue([id |-> msgs + 1, about |-> v])
    /\ UNCHANGED <<world, targets, held, pushed, sync, worker, slow, outcome, edits, faults>>

\* deliver, up to the requests.  Without destinations there is nothing to do;
\* a pair that differs from the last one pushed is pushed first, unless
\* SyncWatchers is busy.
Take ==
    /\ worker.at = "idle" /\ queue # <<>>
    /\ queue' = Tail(queue)
    /\ \/ targets = 0 /\ UNCHANGED <<worker, sync, pushed>>
       \/ /\ targets # 0 /\ pushed # {Elect} /\ StartSync("worker")
          /\ worker' = [at |-> "sync", pair |-> Elect, msg |-> Head(queue), seat |-> "primary"]
       \/ /\ targets # 0 /\ (pushed = {Elect} \/ sync.at # "idle")
          /\ worker' = [at |-> "ask", pair |-> Elect, msg |-> Head(queue), seat |-> "primary"]
          /\ UNCHANGED <<sync, pushed>>
    /\ UNCHANGED <<world, targets, held, slow, outcome, bounds>>

\* agentAlive and peerReachable: whether w gets an answer.
Answers(w, v) == v \notin dead /\ v \notin cut /\ w \notin cut
HostAnswers(w, v) == v \notin cut /\ w \notin cut

\* Mutant: a watcher never doubts its own line.
NeverCutOff(w, v) == FALSE

\* cutOff: none of the other servers answers.  (With no other server the
\* watcher asks its own internet line; there are at least three here.)
CutOff(w, v) == \A x \in Servers \ {w, v} : ~HostAnswers(w, x)

\* verify: "send", "deny" or "cannot vouch".
Verify(w, m) ==
    CASE m.about = Nobody -> "send"
      [] m.about = w -> "deny"
      [] held[w] = 0 -> "send"
      [] Answers(w, m.about) -> "deny"
      [] CutOff(w, m.about) -> "cannot vouch"
      [] OTHER -> "send"

\* watchdog.deliver at w: the answer it gives.  sendAll fails without
\* destinations, and when none of them takes the message.
Answer(w, m, taken) ==
    IF Verify(w, m) # "send" THEN Verify(w, m)
    ELSE IF held[w] # 0 /\ taken THEN "sent" ELSE "failed"

Sent(m) == sends' = [sends EXCEPT ![m.id] = @ + 1]

\* Mutant: a watcher that found the alert untrue counts as one that failed.
DenialFails(answer) == answer = "sent"

\* deliver: a 2xx answer ends it, whether the watcher sent or not.
Done(answer) == answer \in {"sent", "deny"}

NextSeat == IF worker.seat = "primary" THEN [worker EXCEPT !.seat = "secondary"] ELSE Idle

\* One POST to a watcher that answers within its budget.
Ask(taken) ==
    LET w == worker.pair[worker.seat]
        answer == Answer(w, worker.msg, taken)
    IN  /\ worker.at = "ask" /\ w \in conn
        /\ IF answer = "sent" THEN Sent(worker.msg) ELSE UNCHANGED sends
        /\ denied' = IF answer = "deny" THEN denied \cup {worker.msg.id} ELSE denied
        /\ worker' = IF Done(answer) THEN Idle ELSE NextSeat
        /\ UNCHANGED <<world, targets, held, pushed, sync, queue, slow, tardy, bounds>>

\* The seat is empty, or its watcher's socket is gone.
AskNobody ==
    /\ worker.at = "ask" /\ worker.pair[worker.seat] \notin conn
    /\ worker' = NextSeat
    /\ UNCHANGED <<world, targets, held, pushed, sync, queue, slow, outcome, bounds>>

\* The watcher takes longer than watchdogSendBudget, or its socket is lost
\* before it has answered.
AskLate ==
    /\ worker.at = "ask" /\ worker.pair[worker.seat] \in conn
    /\ Fault
    /\ slow' = slow \cup {[what |-> "send", to |-> worker.pair[worker.seat], msg |-> worker.msg]}
    /\ tardy' = tardy \cup {worker.msg.id}
    /\ worker' = NextSeat
    /\ UNCHANGED <<world, targets, held, pushed, sync, queue, sends, denied, msgs, edits>>

\* The agent gets to it after all, or never (it stopped).
Late(x) ==
    /\ x \in slow
    /\ slow' = slow \ {x}
    /\ IF x.what = "push"
       THEN /\ held' = IF x.to \in dead THEN held ELSE [held EXCEPT ![x.to] = x.ver]
            /\ UNCHANGED sends
       ELSE /\ IF x.to \notin dead /\ Answer(x.to, x.msg, TRUE) = "sent" THEN Sent(x.msg) ELSE UNCHANGED sends
            /\ UNCHANGED held
    /\ UNCHANGED <<world, targets, pushed, sync, queue, worker, denied, tardy, bounds>>

-----------------------------------------------------------------------------
(* The fleet.                                                              *)

SocketLost(v) ==
    /\ v \in conn /\ Fault
    /\ conn' = conn \ {v}
    /\ dead' \in {dead, dead \cup {v}}
    /\ UNCHANGED <<net, pin, cut, targets, held, pushed, sync, queue, worker, slow, outcome, msgs, edits>>

LineLost(v) ==
    /\ v \notin cut /\ Fault
    /\ cut' = cut \cup {v}
    /\ UNCHANGED <<net, pin, conn, dead, targets, held, pushed, sync, queue, worker, slow, outcome, msgs, edits>>

\* The agent is back, and its line; the registration is followed by a Sync.
Returns(v) ==
    /\ v \notin conn \/ v \in cut
    /\ conn' = conn \cup {v} /\ dead' = dead \ {v} /\ cut' = cut \ {v}
    /\ UNCHANGED <<net, pin, targets, held, pushed, sync, queue, worker, slow, outcome, bounds>>

Work == Take \/ (\E taken \in BOOLEAN : Ask(taken)) \/ AskNobody \/ AskLate
Syncing == (\E v \in Servers : Push(v)) \/ EndSync

Next ==
    \/ Sync \/ SetTargets \/ Work \/ Syncing
    \/ \E v \in Seat : Alert(v)
    \/ \E v \in Servers : SocketLost(v) \/ LineLost(v) \/ Returns(v)
    \/ \E x \in slow : Late(x)

Spec == Init /\ [][Next]_vars

\* Every request ends by its budget, the timer fires every watcherSyncEvery,
\* and what an agent was asked to do it does.
FairSpec == Spec /\ WF_vars(Work) /\ WF_vars(Syncing) /\ SF_vars(Sync)
                 /\ WF_vars(\E x \in slow : Late(x))

-----------------------------------------------------------------------------
(* Properties.                                                             *)

\* What the election promises, said without its algorithm: two different
\* connected servers when there are two, a pinned one that is connected in
\* its seat, and two networks when the seats that are not pinned allow it.
SeatsSound ==
    LET p == Elect
        free == conn \ {pin.primary, pin.secondary}
    IN  /\ Watchers(p) \subseteq conn
        /\ Cardinality(Watchers(p)) = (IF Cardinality(conn) < 2 THEN Cardinality(conn) ELSE 2)
        /\ pin.primary \in conn => p.primary = pin.primary
        /\ pin.secondary \in conn => p.secondary = pin.secondary
        /\ (Cardinality(Watchers(p)) = 2 /\ sameNetwork(p.primary, p.secondary))
              => \/ {pin.primary, pin.secondary} \subseteq conn
                 \/ \A v \in conn \ Watchers(p) : sameNetwork(v, p.primary)

\* A message goes out twice, or after a watcher proved it untrue, only when
\* the panel gave up a watcher that was still at it.
OncePerAlert ==
    \A m \in Msgs \ tardy : sends[m] <= 1 /\ (m \in denied => sends[m] = 0)

\* Types, and what holds of every election (Elect) and every message (deliver).
DeliverySound == TypeOK /\ SeatsSound /\ OncePerAlert

\* Nobody is told that a server is down while its agent runs and its line is
\* up: a watcher that is cut off itself does not vouch for anything.
NoFalsePage ==
    [][\A v \in Servers : v \notin dead \cup cut =>
          \A m \in Msgs : sends'[m] > sends[m] =>
             \/ worker.msg = [id |-> m, about |-> Nobody]
             \/ (worker.msg.id = m /\ worker.msg.about # v)
             \/ \E x \in slow : x.what = "send" /\ x.msg.id = m /\ x.msg.about # v]_vars

\* Once fleet and destinations are left alone, the elected pair holds the
\* present destinations and no other connected server holds any.
Converges ==
    <>[][UNCHANGED <<world, targets, slow>>]_vars
       => <>[](\A v \in conn : held[v] = (IF v \in Watchers(Elect) THEN targets ELSE 0))

\* Refuted: the worker asks a watcher that does not hold the destinations
\* when SyncWatchers is busy with an older election, or its push was slow.
AskedHolds == worker.at = "ask" /\ worker.pair[worker.seat] \in conn
                 => held[worker.pair[worker.seat]] # 0
=============================================================================
