------------------------------ MODULE AgentHub ------------------------------
(***************************************************************************)
(* The one WebSocket between an agent and the panel: backend/agent_hub.go  *)
(* on one end, agent/ws_client.go on the other.                            *)
(*                                                                         *)
(* A socket is a pair <<v, n>>: one of the sockets the agent of server v    *)
(* dialled; its number is used again once the panel has forgotten it.      *)
(* On the panel each socket has a read-loop goroutine (rd), a bounded send *)
(* buffer drained by its write loop (send) and a shutdown flag (shut, the  *)
(* closed `done` channel together with the closed connection); the hub     *)
(* maps each server to the socket that serves it (agents).  The locked     *)
(* regions of a handler are steps of their own, so everything the code     *)
(* leaves unlocked between them can interleave.                            *)
(*                                                                         *)
(* The TCP buffers are folded into send and up: a frame is delivered in    *)
(* order while the link is up, and what a broken link held is lost.  A     *)
(* broken link is noticed by each end in its own time.                     *)
(***************************************************************************)
EXTENDS Naturals, Sequences, FiniteSets

CONSTANTS VPS,          \* servers
          Reqs,         \* command requests; each is issued at most once
          Modes,        \* power modes
          DefaultMode,  \* PowerModeActive
          NoSess,       \* "no socket"
          SendCap,      \* capacity of agentSession.send
          MaxSess,      \* bound: sockets of one agent the panel may hold at a time
          MaxFaults,    \* bound: link failures
          MaxRestarts,  \* bound: panel restarts
          MaxCalls      \* bound: power-mode calls from the app

Sessions == VPS \X (1..MaxSess)

ASSUME HubAssumption ==
    /\ SendCap \in Nat \ {0, 1} /\ MaxSess \in Nat /\ MaxFaults \in Nat
    /\ MaxRestarts \in Nat /\ MaxCalls \in Nat
    /\ DefaultMode \in Modes
    /\ NoSess \notin Sessions

VARIABLES
    link,     \* per socket: not dialled, up, broken
    rd,       \* per socket: where the panel's readLoop stands
    shut,     \* per socket: agentSession.shutdown has run
    send,     \* per socket: frames on their way to the agent
    up,       \* per socket: frames on their way to the panel
    greet,    \* per socket: the mode read for its register_ack (until it is sent)
    agents,   \* AgentHub.agents
    known,    \* servers in the registry
    knocks,   \* servers with a rejoin request waiting for approval
    status,   \* VPSEntry.VPS.Status
    marker,   \* servers with a fresh VPSEntry.Restart
    uiMode,   \* Server.uiPowerMode
    casts,    \* power-mode calls between the lock and the broadcast
    calls,    \* history: power-mode calls made so far
    req,      \* per request: where its caller stands, and on which socket
    pending,  \* AgentHub.pending
    box,      \* requests with an answer in their channel
    ran,      \* history: requests the agent has executed
    jobs,     \* commands running on the agents, with their socket
    aPc,      \* per agent: idle, handshake, up
    aSess,    \* per agent: number of its current socket
    aMode,    \* per agent: SyncEngine.mode
    faults, restarts

sockets  == <<link, rd, shut, send, up, greet>>
registry == <<known, knocks, status, marker>>
power    == <<uiMode, casts, calls>>
requests == <<req, pending, box>>
agent    == <<ran, jobs, aPc, aSess, aMode>>
env      == <<faults, restarts>>
vars == <<sockets, agents, registry, power, requests, agent, env>>

Owner(s) == s[1]
Cur(v) == <<v, aSess[v]>>

Readers == {"none", "open", "accepted", "attached", "greeting", "reading",
            "merging", "closing", "ended"}
Attached == {"attached", "greeting", "reading", "merging"}
Statuses == {"none", "pending", "online", "offline", "restarting"}
Frames == ({"ack", "mode"} \X Modes) \cup ({"cmd"} \X Reqs)
UpFrames == {<<"register">>, <<"metrics">>} \cup ({"result"} \X Reqs)
ReqPcs == {"new", "enqueue", "wait", "ok", "offline", "full", "timeout", "gone"}

SocketsOK ==
    /\ link \in [Sessions -> {"none", "up", "broken"}]
    /\ rd \in [Sessions -> Readers]
    /\ shut \in [Sessions -> BOOLEAN]
    /\ send \in [Sessions -> Seq(Frames)]
    /\ \A s \in Sessions : Len(send[s]) <= SendCap
    /\ up \in [Sessions -> Seq(UpFrames)]
    /\ greet \in [Sessions -> Modes]

RegistryOK ==
    /\ agents \in [VPS -> Sessions \cup {NoSess}]
    /\ known \subseteq VPS /\ knocks \subseteq VPS /\ marker \subseteq VPS
    /\ status \in [VPS -> Statuses]

PowerOK ==
    /\ uiMode \in Modes
    /\ casts \in [1..MaxCalls -> Modes \cup {"none"}]
    /\ calls \in 0..MaxCalls

RequestsOK ==
    /\ req \in [Reqs -> [pc : ReqPcs, sess : Sessions \cup {NoSess}]]
    /\ pending \subseteq Reqs /\ box \subseteq Reqs

AgentOK ==
    /\ ran \subseteq Reqs
    /\ jobs \subseteq Reqs \X Sessions
    /\ aPc \in [VPS -> {"idle", "handshake", "up"}]
    /\ aSess \in [VPS -> 0..MaxSess]
    /\ aMode \in [VPS -> Modes]

EnvOK == faults \in 0..MaxFaults /\ restarts \in 0..MaxRestarts

TypeOK == SocketsOK /\ RegistryOK /\ PowerOK /\ RequestsOK /\ AgentOK /\ EnvOK

\* NewStore and NewAgentHub: no socket survives a panel start, so every
\* server the registry knows starts offline.
Init ==
    /\ link = [s \in Sessions |-> "none"]
    /\ rd = [s \in Sessions |-> "none"]
    /\ shut = [s \in Sessions |-> FALSE]
    /\ send = [s \in Sessions |-> <<>>]
    /\ up = [s \in Sessions |-> <<>>]
    /\ greet = [s \in Sessions |-> DefaultMode]
    /\ agents = [v \in VPS |-> NoSess]
    /\ known \in SUBSET VPS
    /\ knocks = {} /\ marker = {}
    /\ status = [v \in VPS |-> IF v \in known THEN "offline" ELSE "none"]
    /\ uiMode = DefaultMode
    /\ casts = [k \in 1..MaxCalls |-> "none"]
    /\ calls = 0
    /\ req = [r \in Reqs |-> [pc |-> "new", sess |-> NoSess]]
    /\ pending = {} /\ box = {} /\ ran = {} /\ jobs = {}
    /\ aPc = [v \in VPS |-> "idle"]
    /\ aSess = [v \in VPS |-> 0]
    /\ aMode = [v \in VPS |-> DefaultMode]
    /\ faults = 0 /\ restarts = 0

-----------------------------------------------------------------------------
(* The send buffer and the connection.                                     *)

\* AgentHub.Connected: a registered socket that has not been shut down.
Connected(v) == agents[v] # NoSess /\ ~shut[agents[v]]

\* The links of S break: nothing is delivered on them any more.
Break(S) == link' = [s \in Sessions |-> IF s \in S THEN "broken" ELSE link[s]]

\* agentSession.shutdown for every socket of S.
Shutdown(S) ==
    /\ shut' = [s \in Sessions |-> shut[s] \/ s \in S]
    /\ Break(S)

\* Mutant of Overflows: the full buffer is not noticed.
NeverOverflows(s, n) == FALSE

\* The buffer of s has no room for n frames.
Overflows(s, n) == ~shut[s] /\ Len(send[s]) + n > SendCap

\* AgentHub.send of the frames fs to each socket of S: dropped when the
\* socket is shut down, and the socket is shut down when its buffer is full.
SendTo(S, fs) ==
    /\ send' = [s \in Sessions |->
                  IF s \in S /\ ~shut[s] /\ ~Overflows(s, Len(fs))
                  THEN send[s] \o fs ELSE send[s]]
    /\ Shutdown({s \in S : Overflows(s, Len(fs))})

\* A link dies: the laptop sleeps, Tailscale re-keys, the network drops.
LinkFail(s) ==
    /\ link[s] = "up"
    /\ faults < MaxFaults
    /\ faults' = faults + 1
    /\ Break({s})
    /\ UNCHANGED <<rd, shut, send, up, greet, agents, registry, power,
                   requests, agent, restarts>>

\* writeLoop fails to write a frame or a ping and shuts the socket down.
WriteFail(s) ==
    /\ link[s] = "broken" /\ rd[s] \notin {"none", "ended"}
    /\ ~shut[s]
    /\ Shutdown({s})
    /\ UNCHANGED <<rd, send, up, greet, agents, registry, power, requests,
                   agent, env>>

-----------------------------------------------------------------------------
(* The panel's read loop.                                                  *)

\* handleMessage(register), first half: registerAgent marks a server the
\* registry knows online.  An unknown one knocks, is refused, and its socket
\* is shut down; whether the error frame still got out makes no difference
\* but to the length of the agent's back-off.
Register(s) ==
    /\ rd[s] = "open" /\ link[s] = "up"
    /\ up[s] # <<>> /\ Head(up[s]) = <<"register">>
    /\ up' = [up EXCEPT ![s] = Tail(@)]
    /\ IF Owner(s) \in known
       THEN /\ rd' = [rd EXCEPT ![s] = "accepted"]
            /\ status' = [status EXCEPT ![Owner(s)] = "online"]
            /\ marker' = marker \ {Owner(s)}
            /\ UNCHANGED <<link, shut, knocks>>
       ELSE /\ knocks' = knocks \cup {Owner(s)}
            /\ Shutdown({s})
            /\ UNCHANGED <<rd, status, marker>>
    /\ UNCHANGED <<send, greet, agents, known, power, requests, agent, env>>

\* Mutant of Replaced: the older socket is left running.
ReplacesNothing(s) == {}

\* The socket attachSession replaces, if any.
Replaced(s) == {agents[Owner(s)]} \ {NoSess, s}

\* attachSession: under h.mu the older socket is shut down and replaced.
Attach(s) ==
    /\ rd[s] = "accepted"
    /\ rd' = [rd EXCEPT ![s] = "attached"]
    /\ agents' = [agents EXCEPT ![Owner(s)] = s]
    /\ Shutdown(Replaced(s))
    /\ UNCHANGED <<send, up, greet, registry, power, requests, agent, env>>

\* ack.PowerMode = srv.agentPowerMode()
ReadMode(s) ==
    /\ rd[s] = "attached"
    /\ rd' = [rd EXCEPT ![s] = "greeting"]
    /\ greet' = [greet EXCEPT ![s] = uiMode]
    /\ UNCHANGED <<link, shut, send, up, agents, registry, power, requests,
                   agent, env>>

\* The register_ack and the power_mode frame are queued.
Greet(s) ==
    /\ rd[s] = "greeting"
    /\ rd' = [rd EXCEPT ![s] = "reading"]
    /\ SendTo({s}, <<<<"ack", greet[s]>>, <<"mode", greet[s]>>>>)
    /\ greet' = [greet EXCEPT ![s] = DefaultMode]
    /\ UNCHANGED <<up, agents, registry, power, requests, agent, env>>

\* A snapshot frame has been read; mergeSnapshot is still to run.
ReadFrame(s) ==
    /\ rd[s] = "reading" /\ link[s] = "up"
    /\ up[s] # <<>> /\ Head(up[s]) = <<"metrics">>
    /\ up' = [up EXCEPT ![s] = Tail(@)]
    /\ rd' = [rd EXCEPT ![s] = "merging"]
    /\ UNCHANGED <<link, shut, send, greet, agents, registry, power,
                   requests, agent, env>>

\* The status mergeSnapshot writes: a frame is proof of life, but a pending
\* entry stays pending and a reboot in flight keeps its marker's status.
LiveStatus(v) == IF status[v] = "pending" THEN "pending"
                 ELSE IF v \in marker THEN "restarting" ELSE "online"

\* mergeSnapshot, on whatever socket the frame came from.
MergeSnapshot(s) ==
    /\ rd[s] = "merging"
    /\ rd' = [rd EXCEPT ![s] = "reading"]
    /\ status' = [status EXCEPT ![Owner(s)] = LiveStatus(Owner(s))]
    /\ UNCHANGED <<link, shut, send, up, greet, agents, known, knocks,
                   marker, power, requests, agent, env>>

\* Mutant of Answers: any waiting caller takes the result.
AnswersAnyone(r, f) == f[1] = "result" /\ r \in pending

\* The result frame f carries the request_id of r.
Answers(r, f) == f = <<"result", r>>

\* handleMessage(command_result): under h.mu the request is taken out of
\* pending, then its channel gets the answer.
CommandResult(s) ==
    /\ rd[s] = "reading" /\ link[s] = "up"
    /\ up[s] # <<>>
    /\ \E r \in Reqs :
         /\ Answers(r, Head(up[s]))
         /\ pending' = pending \ {r}
         /\ box' = IF r \in pending THEN box \cup {r} ELSE box
    /\ up' = [up EXCEPT ![s] = Tail(@)]
    /\ UNCHANGED <<link, rd, shut, send, greet, agents, registry, power,
                   req, agent, env>>

\* Mutants of Owns: the map entry is always, or never, taken for its own.
OwnsAlways(s) == TRUE
OwnsNever(s) == FALSE

\* The hub still routes this server to socket s.
Owns(s) == agents[Owner(s)] = s

\* Mutant of ReadFails: the loop of a replaced socket never looks again.
ReadFailsIfOwned(s) == link[s] = "broken" /\ (rd[s] = "reading" => Owns(s))

\* ReadMessage returns an error: the link is down or the socket closed.
ReadFails(s) == link[s] = "broken"

\* ReadMessage fails and disconnect runs its locked half: the map entry goes
\* only if it is still this socket's, and the socket is shut down.  What its
\* buffers held is lost.
Disconnect(s) ==
    /\ rd[s] \in {"open", "reading"} /\ ReadFails(s)
    /\ IF rd[s] = "reading" /\ Owns(s)
       THEN /\ agents' = [agents EXCEPT ![Owner(s)] = NoSess]
            /\ rd' = [rd EXCEPT ![s] = "closing"]
       ELSE /\ rd' = [rd EXCEPT ![s] = "ended"]
            /\ UNCHANGED agents
    /\ Shutdown({s})
    /\ send' = [send EXCEPT ![s] = <<>>]
    /\ up' = [up EXCEPT ![s] = <<>>]
    /\ UNCHANGED <<greet, registry, power, requests, agent, env>>

\* The status a server without a socket gets.
GoneStatus(v) == IF status[v] = "pending" THEN "pending"
                 ELSE IF v \in marker THEN "restarting" ELSE "offline"

\* The unlocked half of disconnect: UpdateVPS marks the server offline.
MarkOffline(s) ==
    /\ rd[s] = "closing"
    /\ rd' = [rd EXCEPT ![s] = "ended"]
    /\ status' = [status EXCEPT ![Owner(s)] = GoneStatus(Owner(s))]
    /\ UNCHANGED <<link, shut, send, up, greet, agents, known, knocks,
                   marker, power, requests, agent, env>>

-----------------------------------------------------------------------------
(* The agent's session.                                                    *)

\* A socket number nothing refers to: its read loop has ended and neither a
\* caller nor a running command still holds the session.
Free(s) == /\ rd[s] \in {"none", "ended"}
           /\ \A r \in Reqs : /\ req[r].sess = s => req[r].pc # "enqueue"
                              /\ <<r, s>> \notin jobs

\* runSession dials, serveAgentWS starts the panel's loops, and handshake
\* writes the register frame.
Dial(v, n) ==
    /\ aPc[v] = "idle"
    /\ Free(<<v, n>>) /\ \A m \in 1..(n - 1) : ~Free(<<v, m>>)
    /\ link' = [link EXCEPT ![<<v, n>>] = "up"]
    /\ rd' = [rd EXCEPT ![<<v, n>>] = "open"]
    /\ shut' = [shut EXCEPT ![<<v, n>>] = FALSE]
    /\ send' = [send EXCEPT ![<<v, n>>] = <<>>]
    /\ up' = [up EXCEPT ![<<v, n>>] = <<<<"register">>>>]
    /\ aSess' = [aSess EXCEPT ![v] = n]
    /\ aPc' = [aPc EXCEPT ![v] = "handshake"]
    /\ UNCHANGED <<greet, agents, registry, power, requests, ran, jobs,
                   aMode, env>>

\* The agent reads one frame of its socket.
Reads(v, f) ==
    /\ link[Cur(v)] = "up"
    /\ send[Cur(v)] # <<>> /\ Head(send[Cur(v)]) = f
    /\ send' = [send EXCEPT ![Cur(v)] = Tail(@)]

\* Mutant of EndsHandshake: a power_mode frame passes for the ack.
EndsHandshakeOnMode(f) == f[1] \in {"ack", "mode"}

EndsHandshake(f) == f[1] = "ack"

\* handshake: the register_ack ends it; anything that overtook the ack is
\* read and ignored.
Handshake(v) ==
    /\ aPc[v] = "handshake"
    /\ \E f \in Frames :
         /\ Reads(v, f)
         /\ IF EndsHandshake(f)
            THEN /\ aPc' = [aPc EXCEPT ![v] = "up"]
                 /\ aMode' = [aMode EXCEPT ![v] = f[2]]
            ELSE UNCHANGED <<aPc, aMode>>
    /\ UNCHANGED <<link, rd, shut, up, greet, agents, registry, power,
                   requests, ran, jobs, aSess, env>>

\* readLoop: a power_mode frame.
AgentMode(v) ==
    /\ aPc[v] = "up"
    /\ \E m \in Modes : /\ Reads(v, <<"mode", m>>)
                        /\ aMode' = [aMode EXCEPT ![v] = m]
    /\ UNCHANGED <<link, rd, shut, up, greet, agents, registry, power,
                   requests, ran, jobs, aPc, aSess, env>>

\* readLoop: a command starts in a goroutine of its own.
AgentCommand(v) ==
    /\ aPc[v] = "up"
    /\ \E r \in Reqs : /\ Reads(v, <<"cmd", r>>)
                       /\ jobs' = jobs \cup {<<r, Cur(v)>>}
    /\ UNCHANGED <<link, rd, shut, up, greet, agents, registry, power,
                   requests, ran, aPc, aSess, aMode, env>>

\* runCommand: the command has run and its answer is queued on the socket it
\* came from, or dropped when that session is over.
CommandDone(r, s) ==
    /\ <<r, s>> \in jobs
    /\ jobs' = jobs \ {<<r, s>>}
    /\ ran' = ran \cup {r}
    /\ up' = IF s = Cur(Owner(s)) /\ aPc[Owner(s)] = "up"
             THEN [up EXCEPT ![s] = Append(@, <<"result", r>>)] ELSE up
    /\ UNCHANGED <<link, rd, shut, send, greet, agents, registry, power,
                   requests, aPc, aSess, aMode, env>>

\* SyncEngine pushes a snapshot; at most one is under way at a time here.
Push(v) ==
    /\ aPc[v] = "up"
    /\ \A i \in DOMAIN up[Cur(v)] : up[Cur(v)][i] # <<"metrics">>
    /\ up' = [up EXCEPT ![Cur(v)] = Append(@, <<"metrics">>)]
    /\ UNCHANGED <<link, rd, shut, send, greet, agents, registry, power,
                   requests, agent, env>>

\* The agent's read or write fails and runSession returns; Run dials again.
SessionEnds(v) ==
    /\ aPc[v] # "idle" /\ link[Cur(v)] = "broken"
    /\ aPc' = [aPc EXCEPT ![v] = "idle"]
    /\ UNCHANGED <<sockets, agents, registry, power, requests, ran, jobs,
                   aSess, aMode, env>>

-----------------------------------------------------------------------------
(* Callers inside the panel.                                               *)

\* Mutant of Forget: a failed request stays in pending.
ForgetNothing(r) == pending

\* delete(h.pending, requestID)
Forget(r) == pending \ {r}

\* Mutant of TimerFires: no timeout.
TimerNeverFires(r) == FALSE

\* <-time.After(timeout) while the caller waits.
TimerFires(r) == req[r].pc = "wait"

\* Request, locked half: look the socket up and add the request to pending.
RequestStart(r, v) ==
    /\ req[r].pc = "new" /\ v \in known
    /\ IF agents[v] = NoSess
       THEN /\ req' = [req EXCEPT ![r].pc = "offline"]
            /\ UNCHANGED pending
       ELSE /\ req' = [req EXCEPT ![r] = [pc |-> "enqueue", sess |-> agents[v]]]
            /\ pending' = pending \cup {r}
    /\ UNCHANGED <<sockets, agents, registry, power, box, agent, env>>

\* The first select: the frame goes into the buffer (possible even when the
\* socket is shut down, for select picks at random) ...
RequestQueued(r) ==
    /\ req[r].pc = "enqueue"
    /\ Len(send[req[r].sess]) < SendCap
    /\ send' = [send EXCEPT ![req[r].sess] = Append(@, <<"cmd", r>>)]
    /\ req' = [req EXCEPT ![r].pc = "wait"]
    /\ UNCHANGED <<link, rd, shut, up, greet, agents, registry, power,
                   pending, box, agent, env>>

\* ... or the socket is gone, or the buffer is full, and the request fails.
RequestRefused(r) ==
    /\ req[r].pc = "enqueue"
    /\ \/ shut[req[r].sess] /\ req' = [req EXCEPT ![r].pc = "offline"]
       \/ /\ ~shut[req[r].sess] /\ Len(send[req[r].sess]) >= SendCap
          /\ req' = [req EXCEPT ![r].pc = "full"]
    /\ pending' = Forget(r)
    /\ UNCHANGED <<sockets, agents, registry, power, box, agent, env>>

\* The second select: the answer ...
RequestAnswered(r) ==
    /\ req[r].pc = "wait" /\ r \in box
    /\ box' = box \ {r}
    /\ req' = [req EXCEPT ![r].pc = "ok"]
    /\ UNCHANGED <<sockets, agents, registry, power, pending, agent, env>>

\* ... or the timeout.
RequestTimeout(r) ==
    /\ TimerFires(r)
    /\ pending' = Forget(r)
    /\ req' = [req EXCEPT ![r].pc = "timeout"]
    /\ UNCHANGED <<sockets, agents, registry, power, box, agent, env>>

\* handleAgentProxy after a reboot or poweroff was answered: MarkRestart.
MarkRestart(r) ==
    /\ req[r].pc = "ok"
    /\ LET v == Owner(req[r].sess)
       IN  /\ marker' = marker \cup {v}
           /\ status' = [status EXCEPT ![v] = "restarting"]
    /\ req' = [req EXCEPT ![r].pc = "gone"]
    /\ UNCHANGED <<sockets, agents, known, knocks, power, pending, box,
                   agent, env>>

\* RestartMarker.Fresh turns false after RestartExpectSec.
MarkerExpires(v) ==
    /\ v \in marker
    /\ marker' = marker \ {v}
    /\ UNCHANGED <<sockets, agents, known, knocks, status, power, requests,
                   agent, env>>

\* setUIPowerMode, locked half: store the mode; an unchanged one stops here.
SetMode(m) ==
    /\ calls < MaxCalls
    /\ m # uiMode
    /\ calls' = calls + 1
    /\ uiMode' = m
    /\ casts' = [casts EXCEPT ![calls + 1] = m]
    /\ UNCHANGED <<sockets, agents, registry, requests, agent, env>>

\* AgentHub.SetPowerMode: the frame goes to every attached socket.
CastMode(k) ==
    /\ casts[k] # "none"
    /\ casts' = [casts EXCEPT ![k] = "none"]
    /\ SendTo({agents[v] : v \in VPS} \ {NoSess}, <<<<"mode", casts[k]>>>>)
    /\ UNCHANGED <<rd, up, greet, agents, registry, uiMode, calls, requests,
                   agent, env>>

\* handleApproveRejoin: the server is adopted back, pending until it dials.
Approve(v) ==
    /\ v \in knocks /\ v \notin known
    /\ knocks' = knocks \ {v}
    /\ known' = known \cup {v}
    /\ status' = [status EXCEPT ![v] = "pending"]
    /\ UNCHANGED <<sockets, agents, marker, power, requests, agent, env>>

\* The panel is closed and started again: every socket and every caller is
\* gone, the mode is the default, and NewStore resets the statuses.
PanelRestart ==
    /\ restarts < MaxRestarts
    /\ restarts' = restarts + 1
    /\ rd' = [s \in Sessions |-> IF rd[s] = "none" THEN "none" ELSE "ended"]
    /\ Shutdown({s \in Sessions : rd[s] # "none"})
    /\ agents' = [v \in VPS |-> NoSess]
    /\ knocks' = {}
    /\ status' = [v \in VPS |-> IF v \in known THEN GoneStatus(v) ELSE "none"]
    /\ uiMode' = DefaultMode
    /\ casts' = [k \in 1..MaxCalls |-> "none"]
    /\ req' = [r \in Reqs |-> IF req[r].pc \in {"enqueue", "wait", "ok"}
                              THEN [req[r] EXCEPT !.pc = "gone"] ELSE req[r]]
    /\ pending' = {} /\ box' = {}
    /\ send' = [s \in Sessions |-> <<>>]
    /\ up' = [s \in Sessions |-> <<>>]
    /\ greet' = [s \in Sessions |-> DefaultMode]
    /\ UNCHANGED <<known, marker, calls, agent, faults>>

-----------------------------------------------------------------------------
HubStep(s) == \/ Register(s) \/ Attach(s) \/ ReadMode(s) \/ Greet(s)
              \/ ReadFrame(s) \/ MergeSnapshot(s) \/ CommandResult(s)
              \/ Disconnect(s) \/ MarkOffline(s)

AgentStep(v) == \/ \E n \in 1..MaxSess : Dial(v, n)
                \/ Handshake(v) \/ AgentMode(v) \/ AgentCommand(v)
                \/ SessionEnds(v)

CallerStep(r) == \/ RequestQueued(r) \/ RequestRefused(r)
                 \/ RequestAnswered(r) \/ RequestTimeout(r)

Next == \/ \E s \in Sessions : HubStep(s) \/ LinkFail(s) \/ WriteFail(s)
        \/ \E v \in VPS : AgentStep(v) \/ Push(v) \/ MarkerExpires(v) \/ Approve(v)
        \/ \E r \in Reqs, s \in Sessions : CommandDone(r, s)
        \/ \E r \in Reqs, v \in VPS : RequestStart(r, v)
        \/ \E r \in Reqs : CallerStep(r) \/ MarkRestart(r)
        \/ \E m \in Modes : SetMode(m)
        \/ \E k \in 1..MaxCalls : CastMode(k)
        \/ PanelRestart

Spec == Init /\ [][Next]_vars

\* Goroutines that can run do: the read loops, the agent's loop (it dials
\* forever), the callers inside Request and the broadcast.  Nothing obliges
\* links to fail, the panel to restart, or the user to act.
Fairness == /\ \A s \in Sessions : WF_vars(HubStep(s))
            /\ \A v \in VPS : WF_vars(AgentStep(v))
            /\ \A r \in Reqs : WF_vars(CallerStep(r))
            /\ \A r \in Reqs, s \in Sessions : WF_vars(CommandDone(r, s))
            /\ \A k \in 1..MaxCalls : WF_vars(CastMode(k))

FairSpec == Spec /\ Fairness

-----------------------------------------------------------------------------
(* Properties.                                                             *)

\* However sockets of one agent overlap (a half-dead one the panel has not
\* noticed, and its replacement), the one the hub routes to is the only one
\* registered and not shut down: attachSession and disconnect decide that
\* under one lock.
OneLiveSession ==
    \A s \in Sessions : rd[s] \in Attached /\ ~shut[s] => agents[Owner(s)] = s

\* The hub never routes a server to a socket whose read loop has ended or
\* that belongs to another server: nobody would ever take the entry out, and
\* commands would go into a buffer nobody drains.
NoDeadEntry ==
    \A v \in VPS : agents[v] # NoSess =>
        rd[agents[v]] \in Attached /\ Owner(agents[v]) = v

\* No request leaks and no answer is lost on its way to its caller: every
\* entry of pending has a caller inside Request and an empty channel (so the
\* read loop never blocks on `ch <- result`), and a caller that waits is
\* either still in pending or already has its answer in the channel.
RequestAccounting ==
    /\ \A r \in pending : req[r].pc \in {"enqueue", "wait"} /\ r \notin box
    /\ \A r \in Reqs : req[r].pc = "wait" => r \in pending \cup box

\* Request reports success only for a command the agent has executed,
\* whatever answers to other requests arrive late on the same socket.
AnsweredRan == \A r \in Reqs : req[r].pc = "ok" => r \in ran

\* An agent believes it is connected only on a socket the panel registered
\* and greeted: frames that overtake the register_ack (a mode broadcast, a
\* command, between attachSession and the ack) do not end the handshake.
UpMeansGreeted ==
    \A v \in VPS : aPc[v] = "up" =>
        rd[Cur(v)] \in {"reading", "merging", "closing", "ended"}

\* Routing is sound: attachSession, disconnect and the handshake agree on which
\* socket serves a server.
RoutingSound == OneLiveSession /\ NoDeadEntry /\ UpMeansGreeted

\* What the caller of a request knows, and what its command has done.
Verdict(r) ==
    CASE req[r].pc = "new"                   -> "new"
      [] req[r].pc \in {"enqueue", "wait"}   -> "asked"
      [] req[r].pc = "ok"                    -> "answered"
      [] req[r].pc \in {"offline", "full"}   -> "refused"
      [] req[r].pc = "timeout"               -> "gaveup"
      [] req[r].pc = "gone"                  -> "gone"

Work(r) == IF \E s \in Sessions : <<r, s>> \in jobs THEN "running"
           ELSE IF r \in ran THEN "ran" ELSE "none"

Service == INSTANCE RequestService
               WITH Requests <- Reqs,
                    caller <- [r \in Reqs |-> Verdict(r)],
                    work   <- [r \in Reqs |-> Work(r)]

\* Request is sound: it leaks no entry and loses no answer, and what its callers
\* are told of their commands is what RequestService promises (at most one
\* execution, none of a refused command, success only after it ran), however
\* sockets break, overflow and replace each other and the panel restarts.
RequestsSound == []RequestAccounting /\ Service!Spec

\* When links stop failing, every agent the registry knows ends up connected
\* on the socket the hub routes to, and stays so.
Reconnects ==
    \A v \in VPS : <>[](v \in known => /\ Connected(v) /\ aPc[v] = "up"
                                        /\ agents[v] = Cur(v))

\* A socket that was shut down (superseded, overflowed, failed) is torn down
\* on the panel: its read loop ends.
ShutEnds == \A s \in Sessions : shut[s] ~> rd[s] = "ended"

\* Request returns, also when the socket dies under it.
RequestsEnd ==
    \A r \in Reqs : req[r].pc \in {"enqueue", "wait"}
                       ~> req[r].pc \notin {"enqueue", "wait"}

\* Nothing hangs: neither the read loop of a socket that was shut down, nor a
\* caller inside Request.
NothingHangs == ShutEnds /\ RequestsEnd

\* "Live sockets are never marked offline" (shared/thresholds.go): no step
\* turns the status of a server with a live socket to offline.
LiveNeverOffline ==
    [][\A v \in VPS : Connected(v) /\ status'[v] = "offline"
                        => status[v] = "offline"]_<<status>>

\* "agents keep the old tick rate until the backend has told them about the
\* new one, so for a moment" (app/lib/state/app_state.dart): when the app
\* stops changing the mode, a connected agent gets the panel's mode.
ModeConverges ==
    \A v \in VPS : <>[](v \in known => aMode[v] = uiMode)

=============================================================================
