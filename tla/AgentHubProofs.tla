--------------------------- MODULE AgentHubProofs ---------------------------
(***************************************************************************)
(* Theorems about AgentHub, for every set of servers, requests and modes   *)
(* and for every bound.                                                    *)
(***************************************************************************)
EXTENDS AgentHub, TLAPS

-----------------------------------------------------------------------------
(* Queues.                                                                 *)

\* The frame f is somewhere in the queue q.
In(f, q) == \E i \in 1..Len(q) : q[i] = f

\* The frame f is at most once in the queue q.
Single(f, q) == \A i, j \in 1..Len(q) : q[i] = f /\ q[j] = f => i = j

\* Reading a frame leaves the rest.
LEMMA TailFrames ==
    ASSUME NEW F, NEW q \in Seq(F), q # <<>>
    PROVE  /\ Tail(q) \in Seq(F) /\ Len(Tail(q)) <= Len(q)
           /\ Head(q) \in F /\ In(Head(q), q)
           /\ \A f : In(f, Tail(q)) => In(f, q)
           /\ \A f : Single(f, q) => Single(f, Tail(q))
           /\ Single(Head(q), q) => ~In(Head(q), Tail(q))
<1>1. Tail(q) \in Seq(F) /\ Len(Tail(q)) = Len(q) - 1 /\ Len(q) \in Nat \ {0}
  OBVIOUS
<1>2. Head(q) = q[1] /\ q[1] \in F
  OBVIOUS
<1>3. \A i \in 1..Len(Tail(q)) : Tail(q)[i] = q[i + 1] /\ i + 1 \in 1..Len(q)
  BY <1>1
<1>4. \A f : In(f, Tail(q)) => In(f, q)
  BY <1>3 DEF In
<1>5. ASSUME NEW f, Single(f, q) PROVE Single(f, Tail(q))
  <2>1. ASSUME NEW i \in 1..Len(Tail(q)), NEW j \in 1..Len(Tail(q)),
               Tail(q)[i] = f, Tail(q)[j] = f
        PROVE  i = j
    <3>1. i + 1 = j + 1
      BY <1>3, <1>5, <2>1 DEF Single
    <3> QED
      BY <3>1, <1>1
  <2> QED
    BY <2>1 DEF Single
<1>6. ASSUME Single(Head(q), q), NEW i \in 1..Len(Tail(q)), Tail(q)[i] = Head(q)
      PROVE  FALSE
  <2>1. i + 1 = 1
    BY <1>1, <1>2, <1>3, <1>6 DEF Single
  <2> QED
    BY <2>1, <1>1
<1>7. In(Head(q), q)
  BY <1>1, <1>2 DEF In
<1> QED
  BY <1>1, <1>2, <1>4, <1>5, <1>6, <1>7 DEF In

\* Appending adds one frame.
LEMMA AppendFrames ==
    ASSUME NEW F, NEW q \in Seq(F), NEW x \in F
    PROVE  /\ Append(q, x) \in Seq(F) /\ Len(Append(q, x)) = Len(q) + 1
           /\ \A f : In(f, Append(q, x)) => In(f, q) \/ f = x
           /\ \A f : Single(f, q) /\ (f # x \/ ~In(f, q)) => Single(f, Append(q, x))
<1>1. Append(q, x) \in Seq(F) /\ Len(Append(q, x)) = Len(q) + 1 /\ Len(q) \in Nat
  OBVIOUS
<1>2. \A i \in 1..(Len(q) + 1) :
         IF i <= Len(q) THEN Append(q, x)[i] = q[i] /\ i \in 1..Len(q)
                        ELSE Append(q, x)[i] = x /\ i = Len(q) + 1
  OBVIOUS
<1>3. \A f : Single(f, q) /\ (f # x \/ ~In(f, q)) => Single(f, Append(q, x))
  BY <1>1, <1>2 DEF In, Single
<1> QED
  BY <1>1, <1>2, <1>3 DEF In

\* Concatenation adds the frames of the second queue.
LEMMA ConcatFrames ==
    ASSUME NEW F, NEW q \in Seq(F), NEW p \in Seq(F)
    PROVE  /\ q \o p \in Seq(F) /\ Len(q \o p) = Len(q) + Len(p)
           /\ \A f : In(f, q \o p) => In(f, q) \/ In(f, p)
           /\ \A f : Single(f, q) /\ ~In(f, p) => Single(f, q \o p)
<1>1. q \o p \in Seq(F) /\ Len(q \o p) = Len(q) + Len(p)
      /\ Len(q) \in Nat /\ Len(p) \in Nat
  OBVIOUS
<1>2. \A i \in 1..(Len(q) + Len(p)) :
         IF i <= Len(q) THEN (q \o p)[i] = q[i] /\ i \in 1..Len(q)
                        ELSE (q \o p)[i] = p[i - Len(q)] /\ i - Len(q) \in 1..Len(p)
  BY <1>1
<1>3. \A f : Single(f, q) /\ ~In(f, p) => Single(f, q \o p)
  BY <1>1, <1>2 DEF In, Single
<1> QED
  BY <1>1, <1>2, <1>3 DEF In

\* An empty queue holds no frame.
LEMMA EmptyFrames ==
    \A F, f : <<>> \in Seq(F) /\ Len(<<>>) = 0 /\ ~In(f, <<>>) /\ Single(f, <<>>)
BY DEF In, Single

-----------------------------------------------------------------------------
(* What the send buffer and shutdown do.                                   *)

\* agentSession.shutdown marks exactly the given sockets.
LEMMA ShutdownEffect ==
    ASSUME SocketsOK, NEW S, Shutdown(S)
    PROVE  /\ link' \in [Sessions -> {"none", "up", "broken"}]
           /\ shut' \in [Sessions -> BOOLEAN]
           /\ \A s \in Sessions : shut'[s] <=> (shut[s] \/ s \in S)
<1>1. link' \in [Sessions -> {"none", "up", "broken"}]
  BY DEF Shutdown, Break, SocketsOK
<1>2. shut' = [s \in Sessions |-> shut[s] \/ s \in S]
  BY DEF Shutdown
<1> QED
  BY <1>1, <1>2

\* AgentHub.send keeps the buffers within their capacity, adds nothing but
\* the given frames, and only ever shuts sockets down.
LEMMA SendEffect ==
    ASSUME SocketsOK, NEW S, NEW fs \in Seq(Frames), SendTo(S, fs)
    PROVE  /\ link' \in [Sessions -> {"none", "up", "broken"}]
           /\ shut' \in [Sessions -> BOOLEAN]
           /\ \A s \in Sessions : shut[s] => shut'[s]
           /\ send' \in [Sessions -> Seq(Frames)]
           /\ \A s \in Sessions : Len(send'[s]) <= SendCap
           /\ \A s \in Sessions, f \in Frames :
                 In(f, send'[s]) => In(f, send[s]) \/ (s \in S /\ In(f, fs))
           /\ \A s \in Sessions, f \in Frames :
                 Single(f, send[s]) /\ ~In(f, fs) => Single(f, send'[s])
<1>1. Shutdown({s \in S : Overflows(s, Len(fs))})
  BY DEF SendTo
<1>2. \A s \in Sessions : send[s] \in Seq(Frames) /\ Len(send[s]) <= SendCap
  BY DEF SocketsOK
<1>3. send' = [s \in Sessions |->
                  IF s \in S /\ ~shut[s] /\ ~Overflows(s, Len(fs))
                  THEN send[s] \o fs ELSE send[s]]
  BY DEF SendTo
<1>4. ASSUME NEW s \in Sessions
      PROVE  /\ send'[s] \in Seq(Frames) /\ Len(send'[s]) <= SendCap
             /\ \A f \in Frames :
                   In(f, send'[s]) => In(f, send[s]) \/ (s \in S /\ In(f, fs))
             /\ \A f \in Frames :
                   Single(f, send[s]) /\ ~In(f, fs) => Single(f, send'[s])
  <2>1. CASE s \in S /\ ~shut[s] /\ ~Overflows(s, Len(fs))
    <3>1. send'[s] = send[s] \o fs
      BY <1>3, <2>1
    <3>2. Len(send[s]) + Len(fs) <= SendCap
      BY <2>1, <1>2, HubAssumption DEF Overflows
    <3> QED
      BY <3>1, <3>2, <2>1, <1>2, ConcatFrames
  <2>2. CASE ~(s \in S /\ ~shut[s] /\ ~Overflows(s, Len(fs)))
    BY <1>2, <1>3, <2>2
  <2> QED
    BY <2>1, <2>2
<1>5. send' \in [Sessions -> Seq(Frames)]
  BY <1>3, <1>4
<1> QED
  BY <1>1, <1>4, <1>5, ShutdownEffect

\* The agent takes the first frame of its socket and leaves the rest.
LEMMA ReadsEffect ==
    ASSUME SocketsOK, NEW v \in VPS, NEW f, Reads(v, f)
    PROVE  /\ send' \in [Sessions -> Seq(Frames)]
           /\ \A s \in Sessions : Len(send'[s]) <= SendCap
           /\ \A s \in Sessions, g \in Frames : In(g, send'[s]) => In(g, send[s])
           /\ Cur(v) \in Sessions => In(f, send[Cur(v)])
           /\ \A s \in Sessions, g \in Frames : Single(g, send[s]) => Single(g, send'[s])
           /\ Cur(v) \in Sessions /\ Single(f, send[Cur(v)]) => ~In(f, send'[Cur(v)])
<1>1. send' = [send EXCEPT ![Cur(v)] = Tail(@)] /\ send[Cur(v)] # <<>>
      /\ Head(send[Cur(v)]) = f
  BY DEF Reads
<1>2. \A s \in Sessions : send[s] \in Seq(Frames) /\ Len(send[s]) \in Nat /\ Len(send[s]) <= SendCap
  BY DEF SocketsOK
<1>3. CASE Cur(v) \in Sessions
  <2>1. /\ Tail(send[Cur(v)]) \in Seq(Frames)
        /\ Len(Tail(send[Cur(v)])) <= SendCap
        /\ \A g : In(g, Tail(send[Cur(v)])) => In(g, send[Cur(v)])
        /\ In(f, send[Cur(v)])
        /\ \A g : Single(g, send[Cur(v)]) => Single(g, Tail(send[Cur(v)]))
        /\ Single(f, send[Cur(v)]) => ~In(f, Tail(send[Cur(v)]))
    <3>1. Len(Tail(send[Cur(v)])) \in Nat
      BY <1>1, <1>2, <1>3, TailFrames
    <3> QED
      BY <1>1, <1>2, <1>3, <3>1, TailFrames, HubAssumption
  <2>2. \A s \in Sessions : send'[s] = IF s = Cur(v) THEN Tail(send[s]) ELSE send[s]
    BY <1>1, <1>3 DEF SocketsOK
  <2>3. send' \in [Sessions -> Seq(Frames)]
    BY <1>1, <1>2, <1>3, <2>1 DEF SocketsOK
  <2> QED
    BY <1>2, <2>1, <2>2, <2>3
<1>4. CASE Cur(v) \notin Sessions
  <2>1. send' = send
    BY <1>1, <1>4 DEF SocketsOK
  <2> QED
    BY <1>2, <1>4, <2>1 DEF SocketsOK
<1> QED
  BY <1>3, <1>4

-----------------------------------------------------------------------------
(* Types.                                                                  *)

\* A request that got past the lookup holds a socket, and so does an agent
\* in a session.
Holders ==
    /\ \A r \in Reqs : req[r].pc \notin {"new", "offline"} => req[r].sess \in Sessions
    /\ \A v \in VPS : aPc[v] # "idle" => aSess[v] \in 1..MaxSess

\* Every step keeps the types; one step per action, one part per conjunct of
\* TypeOK that it touches.
LEMMA TypeStep == TypeOK /\ Holders /\ Next => TypeOK' /\ Holders'
<1> SUFFICES ASSUME TypeOK, Holders, Next PROVE TypeOK' /\ Holders'
    OBVIOUS
<1> USE HubAssumption DEF TypeOK
<1>1. ASSUME NEW s \in Sessions, Register(s) PROVE TypeOK' /\ Holders'
  <2>1. SocketsOK'
    <3>1. up' \in [Sessions -> Seq(UpFrames)]
      BY <1>1, TailFrames DEF Register, SocketsOK
    <3>2. CASE Owner(s) \in known
      BY <1>1, <3>1, <3>2 DEF Register, SocketsOK, Readers
    <3>3. CASE Owner(s) \notin known
      BY <1>1, <3>1, <3>3, ShutdownEffect DEF Register, SocketsOK
    <3> QED
      BY <3>2, <3>3
  <2>2. RegistryOK'
    <3>1. Owner(s) \in VPS
      BY DEF Owner, Sessions
    <3> QED
      BY <1>1, <3>1 DEF Register, RegistryOK, Statuses
  <2>3. PowerOK' /\ RequestsOK' /\ AgentOK' /\ EnvOK'
    BY <1>1 DEF Register, PowerOK, RequestsOK, AgentOK, EnvOK, power, requests, agent, env
  <2>4. Holders'
    BY <1>1 DEF Register, Holders, RequestsOK, AgentOK, requests, agent
  <2> QED
    BY <2>1, <2>2, <2>3, <2>4
<1>2. ASSUME NEW s \in Sessions, Attach(s) PROVE TypeOK' /\ Holders'
  <2>1. SocketsOK'
    BY <1>2, ShutdownEffect DEF Attach, SocketsOK, Readers
  <2>2. RegistryOK'
    BY <1>2 DEF Attach, RegistryOK, registry
  <2>3. PowerOK' /\ RequestsOK' /\ AgentOK' /\ EnvOK'
    BY <1>2 DEF Attach, PowerOK, RequestsOK, AgentOK, EnvOK, power, requests, agent, env
  <2>4. Holders'
    BY <1>2 DEF Attach, Holders, RequestsOK, AgentOK, requests, agent
  <2> QED
    BY <2>1, <2>2, <2>3, <2>4
<1>3. ASSUME NEW s \in Sessions, ReadMode(s) PROVE TypeOK' /\ Holders'
  <2>1. SocketsOK'
    BY <1>3 DEF ReadMode, SocketsOK, PowerOK, Readers
  <2>2. RegistryOK' /\ PowerOK' /\ RequestsOK' /\ AgentOK' /\ EnvOK'
    BY <1>3 DEF ReadMode, RegistryOK, PowerOK, RequestsOK, AgentOK, EnvOK, registry, power, requests, agent, env
  <2>3. Holders'
    BY <1>3 DEF ReadMode, Holders, RequestsOK, AgentOK, requests, agent
  <2> QED
    BY <2>1, <2>2, <2>3
<1>4. ASSUME NEW s \in Sessions, Greet(s) PROVE TypeOK' /\ Holders'
  <2>1. SocketsOK'
    <3>1. greet[s] \in Modes
      BY DEF SocketsOK
    <3>2. <<<<"ack", greet[s]>>, <<"mode", greet[s]>>>> \in Seq(Frames)
      BY <3>1 DEF Frames
    <3> QED
      BY <1>4, <3>2, SendEffect DEF Greet, SocketsOK, Readers
  <2>2. RegistryOK' /\ PowerOK' /\ RequestsOK' /\ AgentOK' /\ EnvOK'
    BY <1>4 DEF Greet, RegistryOK, PowerOK, RequestsOK, AgentOK, EnvOK, registry, power, requests, agent, env
  <2>3. Holders'
    BY <1>4 DEF Greet, Holders, RequestsOK, AgentOK, requests, agent
  <2> QED
    BY <2>1, <2>2, <2>3
<1>5. ASSUME NEW s \in Sessions, ReadFrame(s) PROVE TypeOK' /\ Holders'
  <2>1. SocketsOK'
    <3>1. up' \in [Sessions -> Seq(UpFrames)]
      BY <1>5, TailFrames DEF ReadFrame, SocketsOK
    <3> QED
      BY <1>5, <3>1 DEF ReadFrame, SocketsOK, Readers
  <2>2. RegistryOK' /\ PowerOK' /\ RequestsOK' /\ AgentOK' /\ EnvOK'
    BY <1>5 DEF ReadFrame, RegistryOK, PowerOK, RequestsOK, AgentOK, EnvOK, registry, power, requests, agent, env
  <2>3. Holders'
    BY <1>5 DEF ReadFrame, Holders, RequestsOK, AgentOK, requests, agent
  <2> QED
    BY <2>1, <2>2, <2>3
<1>6. ASSUME NEW s \in Sessions, MergeSnapshot(s) PROVE TypeOK' /\ Holders'
  <2>1. SocketsOK'
    BY <1>6 DEF MergeSnapshot, SocketsOK, Readers
  <2>2. RegistryOK'
    BY <1>6 DEF MergeSnapshot, RegistryOK, LiveStatus, Statuses
  <2>3. PowerOK' /\ RequestsOK' /\ AgentOK' /\ EnvOK'
    BY <1>6 DEF MergeSnapshot, PowerOK, RequestsOK, AgentOK, EnvOK, power, requests, agent, env
  <2>4. Holders'
    BY <1>6 DEF MergeSnapshot, Holders, RequestsOK, AgentOK, requests, agent
  <2> QED
    BY <2>1, <2>2, <2>3, <2>4
<1>7. ASSUME NEW s \in Sessions, CommandResult(s) PROVE TypeOK' /\ Holders'
  <2>1. SocketsOK'
    <3>1. up' \in [Sessions -> Seq(UpFrames)]
      BY <1>7, TailFrames DEF CommandResult, SocketsOK
    <3> QED
      BY <1>7, <3>1 DEF CommandResult, SocketsOK, Readers
  <2>2. RequestsOK'
    BY <1>7 DEF CommandResult, RequestsOK
  <2>3. RegistryOK' /\ PowerOK' /\ AgentOK' /\ EnvOK'
    BY <1>7 DEF CommandResult, RegistryOK, PowerOK, AgentOK, EnvOK, registry, power, agent, env
  <2>4. Holders'
    BY <1>7 DEF CommandResult, Holders, RequestsOK, AgentOK, requests, agent
  <2> QED
    BY <2>1, <2>2, <2>3, <2>4
<1>8. ASSUME NEW s \in Sessions, Disconnect(s) PROVE TypeOK' /\ Holders'
  <2>1. SocketsOK'
    <3>1. /\ link' \in [Sessions -> {"none", "up", "broken"}]
          /\ shut' \in [Sessions -> BOOLEAN]
      BY <1>8, ShutdownEffect DEF Disconnect
    <3>2. rd' \in [Sessions -> Readers] /\ greet' \in [Sessions -> Modes]
      BY <1>8 DEF Disconnect, SocketsOK, Readers
    <3>3. /\ send' \in [Sessions -> Seq(Frames)] /\ up' \in [Sessions -> Seq(UpFrames)]
          /\ \A t \in Sessions : Len(send'[t]) <= SendCap
      BY <1>8, EmptyFrames, HubAssumption DEF Disconnect, SocketsOK
    <3> QED
      BY <3>1, <3>2, <3>3 DEF SocketsOK
  <2>2. RegistryOK'
    BY <1>8 DEF Disconnect, RegistryOK, registry
  <2>3. PowerOK' /\ RequestsOK' /\ AgentOK' /\ EnvOK'
    BY <1>8 DEF Disconnect, PowerOK, RequestsOK, AgentOK, EnvOK, power, requests, agent, env
  <2>4. Holders'
    BY <1>8 DEF Disconnect, Holders, RequestsOK, AgentOK, requests, agent
  <2> QED
    BY <2>1, <2>2, <2>3, <2>4
<1>9. ASSUME NEW s \in Sessions, MarkOffline(s) PROVE TypeOK' /\ Holders'
  <2>1. SocketsOK'
    BY <1>9 DEF MarkOffline, SocketsOK, Readers
  <2>2. RegistryOK'
    BY <1>9 DEF MarkOffline, RegistryOK, GoneStatus, Statuses
  <2>3. PowerOK' /\ RequestsOK' /\ AgentOK' /\ EnvOK'
    BY <1>9 DEF MarkOffline, PowerOK, RequestsOK, AgentOK, EnvOK, power, requests, agent, env
  <2>4. Holders'
    BY <1>9 DEF MarkOffline, Holders, RequestsOK, AgentOK, requests, agent
  <2> QED
    BY <2>1, <2>2, <2>3, <2>4
<1>10. ASSUME NEW s \in Sessions, LinkFail(s) PROVE TypeOK' /\ Holders'
  <2>1. SocketsOK'
    BY <1>10 DEF LinkFail, Break, SocketsOK
  <2>2. EnvOK'
    BY <1>10 DEF LinkFail, EnvOK
  <2>3. RegistryOK' /\ PowerOK' /\ RequestsOK' /\ AgentOK'
    BY <1>10 DEF LinkFail, RegistryOK, PowerOK, RequestsOK, AgentOK, registry, power, requests, agent
  <2>4. Holders'
    BY <1>10 DEF LinkFail, Holders, RequestsOK, AgentOK, requests, agent
  <2> QED
    BY <2>1, <2>2, <2>3, <2>4
<1>11. ASSUME NEW s \in Sessions, WriteFail(s) PROVE TypeOK' /\ Holders'
  <2>1. SocketsOK'
    BY <1>11, ShutdownEffect DEF WriteFail, SocketsOK
  <2>2. RegistryOK' /\ PowerOK' /\ RequestsOK' /\ AgentOK' /\ EnvOK'
    BY <1>11 DEF WriteFail, RegistryOK, PowerOK, RequestsOK, AgentOK, EnvOK, registry, power, requests, agent, env
  <2>3. Holders'
    BY <1>11 DEF WriteFail, Holders, RequestsOK, AgentOK, requests, agent
  <2> QED
    BY <2>1, <2>2, <2>3
<1>12. ASSUME NEW v \in VPS, NEW n \in 1..MaxSess, Dial(v, n) PROVE TypeOK' /\ Holders'
  <2>1. SocketsOK'
    <3>1. <<v, n>> \in Sessions
      BY DEF Sessions
    <3>2. <<<<"register">>>> \in Seq(UpFrames)
      BY DEF UpFrames
    <3> QED
      BY <1>12, <3>1, <3>2, EmptyFrames DEF Dial, SocketsOK, Readers
  <2>2. AgentOK'
    BY <1>12 DEF Dial, AgentOK
  <2>3. RegistryOK' /\ PowerOK' /\ RequestsOK' /\ EnvOK'
    BY <1>12 DEF Dial, RegistryOK, PowerOK, RequestsOK, EnvOK, registry, power, requests, env
  <2>4. Holders'
    BY <1>12 DEF Dial, Holders, RequestsOK, AgentOK, requests, agent
  <2> QED
    BY <2>1, <2>2, <2>3, <2>4
<1>13. ASSUME NEW v \in VPS, Handshake(v) PROVE TypeOK' /\ Holders'
  <2>1. SocketsOK'
    BY <1>13, ReadsEffect DEF Handshake, SocketsOK
  <2>2. AgentOK'
    <3>1. PICK f \in Frames : IF EndsHandshake(f)
                              THEN /\ aPc' = [aPc EXCEPT ![v] = "up"]
                                   /\ aMode' = [aMode EXCEPT ![v] = f[2]]
                              ELSE UNCHANGED <<aPc, aMode>>
      BY <1>13 DEF Handshake
    <3>2. EndsHandshake(f) => f[2] \in Modes
      BY DEF EndsHandshake, Frames
    <3> QED
      BY <1>13, <3>1, <3>2 DEF Handshake, AgentOK
  <2>3. RegistryOK' /\ PowerOK' /\ RequestsOK' /\ EnvOK'
    BY <1>13 DEF Handshake, RegistryOK, PowerOK, RequestsOK, EnvOK, registry, power, requests, env
  <2>4. Holders'
    BY <1>13 DEF Handshake, Holders, RequestsOK, AgentOK, requests
  <2> QED
    BY <2>1, <2>2, <2>3, <2>4
<1>14. ASSUME NEW v \in VPS, AgentMode(v) PROVE TypeOK' /\ Holders'
  <2>1. SocketsOK'
    BY <1>14, ReadsEffect DEF AgentMode, SocketsOK
  <2>2. AgentOK'
    BY <1>14 DEF AgentMode, AgentOK
  <2>3. RegistryOK' /\ PowerOK' /\ RequestsOK' /\ EnvOK'
    BY <1>14 DEF AgentMode, RegistryOK, PowerOK, RequestsOK, EnvOK, registry, power, requests, env
  <2>4. Holders'
    BY <1>14 DEF AgentMode, Holders, RequestsOK, AgentOK, requests, agent
  <2> QED
    BY <2>1, <2>2, <2>3, <2>4
<1>15. ASSUME NEW v \in VPS, AgentCommand(v) PROVE TypeOK' /\ Holders'
  <2>1. SocketsOK'
    BY <1>15, ReadsEffect DEF AgentCommand, SocketsOK
  <2>2. AgentOK'
    <3>1. Cur(v) \in Sessions
      BY <1>15 DEF AgentCommand, Holders, Cur, Sessions
    <3> QED
      BY <1>15, <3>1 DEF AgentCommand, AgentOK
  <2>3. RegistryOK' /\ PowerOK' /\ RequestsOK' /\ EnvOK'
    BY <1>15 DEF AgentCommand, RegistryOK, PowerOK, RequestsOK, EnvOK, registry, power, requests, env
  <2>4. Holders'
    BY <1>15 DEF AgentCommand, Holders, RequestsOK, AgentOK, requests, agent
  <2> QED
    BY <2>1, <2>2, <2>3, <2>4
<1>16. ASSUME NEW v \in VPS, SessionEnds(v) PROVE TypeOK' /\ Holders'
  <2>1. AgentOK'
    BY <1>16 DEF SessionEnds, AgentOK
  <2>2. SocketsOK' /\ RegistryOK' /\ PowerOK' /\ RequestsOK' /\ EnvOK'
    BY <1>16 DEF SessionEnds, SocketsOK, RegistryOK, PowerOK, RequestsOK, EnvOK, sockets, registry, power, requests, env
  <2>3. Holders'
    BY <1>16 DEF SessionEnds, Holders, RequestsOK, AgentOK, requests, agent
  <2> QED
    BY <2>1, <2>2, <2>3
<1>17. ASSUME NEW v \in VPS, Push(v) PROVE TypeOK' /\ Holders'
  <2>1. SocketsOK'
    <3>1. <<"metrics">> \in UpFrames
      BY DEF UpFrames
    <3>2. up' \in [Sessions -> Seq(UpFrames)]
      BY <1>17, <3>1, AppendFrames DEF Push, SocketsOK
    <3> QED
      BY <1>17, <3>2 DEF Push, SocketsOK
  <2>2. RegistryOK' /\ PowerOK' /\ RequestsOK' /\ AgentOK' /\ EnvOK'
    BY <1>17 DEF Push, RegistryOK, PowerOK, RequestsOK, AgentOK, EnvOK, registry, power, requests, agent, env
  <2>3. Holders'
    BY <1>17 DEF Push, Holders, RequestsOK, AgentOK, requests, agent
  <2> QED
    BY <2>1, <2>2, <2>3
<1>18. ASSUME NEW v \in VPS, MarkerExpires(v) PROVE TypeOK' /\ Holders'
  <2>1. RegistryOK'
    BY <1>18 DEF MarkerExpires, RegistryOK, Statuses
  <2>2. SocketsOK' /\ PowerOK' /\ RequestsOK' /\ AgentOK' /\ EnvOK'
    BY <1>18 DEF MarkerExpires, SocketsOK, PowerOK, RequestsOK, AgentOK, EnvOK, sockets, power, requests, agent, env
  <2>3. Holders'
    BY <1>18 DEF MarkerExpires, Holders, RequestsOK, AgentOK, requests, agent
  <2> QED
    BY <2>1, <2>2, <2>3
<1>19. ASSUME NEW v \in VPS, Approve(v) PROVE TypeOK' /\ Holders'
  <2>1. RegistryOK'
    BY <1>19 DEF Approve, RegistryOK, Statuses
  <2>2. SocketsOK' /\ PowerOK' /\ RequestsOK' /\ AgentOK' /\ EnvOK'
    BY <1>19 DEF Approve, SocketsOK, PowerOK, RequestsOK, AgentOK, EnvOK, sockets, power, requests, agent, env
  <2>3. Holders'
    BY <1>19 DEF Approve, Holders, RequestsOK, AgentOK, requests, agent
  <2> QED
    BY <2>1, <2>2, <2>3
<1>20. ASSUME NEW r \in Reqs, NEW s \in Sessions, CommandDone(r, s) PROVE TypeOK' /\ Holders'
  <2>1. SocketsOK'
    <3>1. <<"result", r>> \in UpFrames
      BY DEF UpFrames
    <3>2. up' \in [Sessions -> Seq(UpFrames)]
      BY <1>20, <3>1, AppendFrames DEF CommandDone, SocketsOK
    <3> QED
      BY <1>20, <3>2 DEF CommandDone, SocketsOK
  <2>2. AgentOK'
    BY <1>20 DEF CommandDone, AgentOK
  <2>3. RegistryOK' /\ PowerOK' /\ RequestsOK' /\ EnvOK'
    BY <1>20 DEF CommandDone, RegistryOK, PowerOK, RequestsOK, EnvOK, registry, power, requests, env
  <2>4. Holders'
    BY <1>20 DEF CommandDone, Holders, RequestsOK, AgentOK, requests, agent
  <2> QED
    BY <2>1, <2>2, <2>3, <2>4
<1>21. ASSUME NEW r \in Reqs, NEW v \in VPS, RequestStart(r, v) PROVE TypeOK' /\ Holders'
  <2>1. RequestsOK'
    BY <1>21 DEF RequestStart, RequestsOK, RegistryOK, ReqPcs
  <2>2. SocketsOK' /\ RegistryOK' /\ PowerOK' /\ AgentOK' /\ EnvOK'
    BY <1>21 DEF RequestStart, SocketsOK, RegistryOK, PowerOK, AgentOK, EnvOK, sockets, registry, power, agent, env
  <2>3. Holders'
    BY <1>21 DEF RequestStart, Holders, RequestsOK, RegistryOK, AgentOK, agent
  <2> QED
    BY <2>1, <2>2, <2>3
<1>22. ASSUME NEW r \in Reqs, RequestQueued(r) PROVE TypeOK' /\ Holders'
  <2>1. SocketsOK'
    <3>1. <<"cmd", r>> \in Frames
      BY DEF Frames
    <3>2. req[r].sess \in Sessions
      BY <1>22 DEF RequestQueued, Holders
    <3>3. /\ send' \in [Sessions -> Seq(Frames)]
          /\ \A s \in Sessions : Len(send'[s]) <= SendCap
      BY <1>22, <3>1, <3>2, AppendFrames DEF RequestQueued, SocketsOK
    <3> QED
      BY <1>22, <3>3 DEF RequestQueued, SocketsOK
  <2>2. RequestsOK'
    BY <1>22 DEF RequestQueued, RequestsOK, ReqPcs
  <2>3. RegistryOK' /\ PowerOK' /\ AgentOK' /\ EnvOK'
    BY <1>22 DEF RequestQueued, RegistryOK, PowerOK, AgentOK, EnvOK, registry, power, agent, env
  <2>4. Holders'
    BY <1>22 DEF RequestQueued, Holders, RequestsOK, AgentOK, requests, agent
  <2> QED
    BY <2>1, <2>2, <2>3, <2>4
<1>23. ASSUME NEW r \in Reqs, RequestRefused(r) PROVE TypeOK' /\ Holders'
  <2>1. RequestsOK'
    BY <1>23 DEF RequestRefused, Forget, RequestsOK, ReqPcs
  <2>2. SocketsOK' /\ RegistryOK' /\ PowerOK' /\ AgentOK' /\ EnvOK'
    BY <1>23 DEF RequestRefused, SocketsOK, RegistryOK, PowerOK, AgentOK, EnvOK, sockets, registry, power, agent, env
  <2>3. Holders'
    BY <1>23 DEF RequestRefused, Holders, RequestsOK, AgentOK, requests, agent
  <2> QED
    BY <2>1, <2>2, <2>3
<1>24. ASSUME NEW r \in Reqs, RequestAnswered(r) PROVE TypeOK' /\ Holders'
  <2>1. RequestsOK'
    BY <1>24 DEF RequestAnswered, RequestsOK, ReqPcs
  <2>2. SocketsOK' /\ RegistryOK' /\ PowerOK' /\ AgentOK' /\ EnvOK'
    BY <1>24 DEF RequestAnswered, SocketsOK, RegistryOK, PowerOK, AgentOK, EnvOK, sockets, registry, power, agent, env
  <2>3. Holders'
    BY <1>24 DEF RequestAnswered, Holders, RequestsOK, AgentOK, requests, agent
  <2> QED
    BY <2>1, <2>2, <2>3
<1>25. ASSUME NEW r \in Reqs, RequestTimeout(r) PROVE TypeOK' /\ Holders'
  <2>1. RequestsOK'
    BY <1>25 DEF RequestTimeout, TimerFires, Forget, RequestsOK, ReqPcs
  <2>2. SocketsOK' /\ RegistryOK' /\ PowerOK' /\ AgentOK' /\ EnvOK'
    BY <1>25 DEF RequestTimeout, SocketsOK, RegistryOK, PowerOK, AgentOK, EnvOK, sockets, registry, power, agent, env
  <2>3. Holders'
    BY <1>25 DEF RequestTimeout, TimerFires, Holders, RequestsOK, AgentOK, agent
  <2> QED
    BY <2>1, <2>2, <2>3
<1>26. ASSUME NEW r \in Reqs, MarkRestart(r) PROVE TypeOK' /\ Holders'
  <2>1. RegistryOK'
    <3>1. Owner(req[r].sess) \in VPS
      BY <1>26 DEF MarkRestart, Holders, Owner, Sessions
    <3> QED
      BY <1>26, <3>1 DEF MarkRestart, RegistryOK, Statuses
  <2>2. RequestsOK'
    BY <1>26 DEF MarkRestart, RequestsOK, ReqPcs
  <2>3. SocketsOK' /\ PowerOK' /\ AgentOK' /\ EnvOK'
    BY <1>26 DEF MarkRestart, SocketsOK, PowerOK, AgentOK, EnvOK, sockets, power, agent, env
  <2>4. Holders'
    BY <1>26 DEF MarkRestart, Holders, RequestsOK, AgentOK, requests, agent
  <2> QED
    BY <2>1, <2>2, <2>3, <2>4
<1>27. ASSUME NEW m \in Modes, SetMode(m) PROVE TypeOK' /\ Holders'
  <2>1. PowerOK'
    BY <1>27 DEF SetMode, PowerOK
  <2>2. SocketsOK' /\ RegistryOK' /\ RequestsOK' /\ AgentOK' /\ EnvOK'
    BY <1>27 DEF SetMode, SocketsOK, RegistryOK, RequestsOK, AgentOK, EnvOK, sockets, registry, requests, agent, env
  <2>3. Holders'
    BY <1>27 DEF SetMode, Holders, RequestsOK, AgentOK, requests, agent
  <2> QED
    BY <2>1, <2>2, <2>3
<1>28. ASSUME NEW k \in 1..MaxCalls, CastMode(k) PROVE TypeOK' /\ Holders'
  <2>1. SocketsOK'
    <3>1. casts[k] \in Modes
      BY <1>28 DEF CastMode, PowerOK
    <3>2. <<<<"mode", casts[k]>>>> \in Seq(Frames)
      BY <3>1 DEF Frames
    <3> QED
      BY <1>28, <3>2, SendEffect DEF CastMode, SocketsOK
  <2>2. PowerOK'
    BY <1>28 DEF CastMode, PowerOK
  <2>3. RegistryOK' /\ RequestsOK' /\ AgentOK' /\ EnvOK'
    BY <1>28 DEF CastMode, RegistryOK, RequestsOK, AgentOK, EnvOK, registry, requests, agent, env
  <2>4. Holders'
    BY <1>28 DEF CastMode, Holders, RequestsOK, AgentOK, requests, agent
  <2> QED
    BY <2>1, <2>2, <2>3, <2>4
<1>29. CASE PanelRestart
  <2>1. SocketsOK'
    BY <1>29, ShutdownEffect, EmptyFrames DEF PanelRestart, SocketsOK, Readers
  <2>2. RegistryOK'
    BY <1>29 DEF PanelRestart, RegistryOK, GoneStatus, Statuses
  <2>3. PowerOK'
    BY <1>29 DEF PanelRestart, PowerOK
  <2>4. RequestsOK'
    BY <1>29 DEF PanelRestart, RequestsOK, ReqPcs
  <2>5. EnvOK'
    BY <1>29 DEF PanelRestart, EnvOK
  <2>6. AgentOK'
    BY <1>29 DEF PanelRestart, AgentOK, agent
  <2>7. Holders'
    BY <1>29 DEF PanelRestart, Holders, RequestsOK, AgentOK, requests, agent
  <2> QED
    BY <2>1, <2>2, <2>3, <2>4, <2>5, <2>6, <2>7
<1> QED
  BY <1>1, <1>2, <1>3, <1>4, <1>5, <1>6, <1>7, <1>8, <1>9, <1>10, <1>11, <1>12, <1>13, <1>14, <1>15, <1>16, <1>17, <1>18, <1>19, <1>20, <1>21, <1>22, <1>23, <1>24, <1>25, <1>26, <1>27, <1>28, <1>29 DEF Next, HubStep, AgentStep, CallerStep

-----------------------------------------------------------------------------
(* Routing.                                                                *)

\* The hub's map: OneLiveSession and NoDeadEntry are inductive together.
Routes == OneLiveSession /\ NoDeadEntry

\* attachSession replaces under the lock, disconnect removes only its own
\* entry, and a number is dialled again only after its read loop ended.
LEMMA RouteStep == TypeOK /\ Routes /\ Next => Routes'
<1> SUFFICES ASSUME TypeOK, Routes, Next PROVE Routes'
    OBVIOUS
<1> USE DEF Routes, OneLiveSession, NoDeadEntry, Attached
<1>0. /\ \A s \in Sessions : Owner(s) \in VPS
      /\ rd \in [Sessions -> Readers] /\ shut \in [Sessions -> BOOLEAN]
      /\ agents \in [VPS -> Sessions \cup {NoSess}] /\ NoSess \notin Sessions
      /\ SocketsOK
  BY HubAssumption DEF Owner, Sessions, TypeOK, SocketsOK, RegistryOK
<1>1. ASSUME NEW s \in Sessions, Register(s) PROVE Routes'
  <2>1. CASE Owner(s) \in known
    BY <1>0, <1>1, <2>1 DEF Register
  <2>2. CASE Owner(s) \notin known
    BY <1>0, <1>1, <2>2, ShutdownEffect DEF Register
  <2> QED
    BY <1>0, <2>1, <2>2
<1>2. ASSUME NEW s \in Sessions, Attach(s) PROVE Routes'
  <2>1. \A t \in Sessions : shut'[t] <=> (shut[t] \/ t \in Replaced(s))
    BY <1>0, <1>2, ShutdownEffect DEF Attach
  <2>2. ASSUME NEW t \in Sessions, rd'[t] \in Attached, ~shut'[t]
        PROVE  agents'[Owner(t)] = t
    <3>1. CASE t = s
      BY <1>0, <1>2, <3>1 DEF Attach
    <3>2. CASE t # s /\ Owner(t) = Owner(s)
      <4>1. agents[Owner(s)] = t
        BY <1>0, <1>2, <2>1, <2>2, <3>2 DEF Attach
      <4> QED
        BY <1>0, <2>1, <2>2, <3>2, <4>1 DEF Replaced
    <3>3. CASE Owner(t) # Owner(s)
      BY <1>0, <1>2, <2>1, <2>2, <3>3 DEF Attach
    <3> QED
      BY <3>1, <3>2, <3>3
  <2>3. NoDeadEntry'
    BY <1>0, <1>2 DEF Attach
  <2> QED
    BY <1>0, <2>2, <2>3
<1>3. ASSUME NEW s \in Sessions, \/ ReadMode(s) \/ ReadFrame(s) \/ MergeSnapshot(s) PROVE Routes'
  BY <1>0, <1>3 DEF ReadMode, ReadFrame, MergeSnapshot
<1>4. ASSUME NEW s \in Sessions, Greet(s) PROVE Routes'
  <2>1. \A t \in Sessions : shut[t] => shut'[t]
    <3>1. greet[s] \in Modes
      BY <1>0 DEF SocketsOK
    <3>2. <<<<"ack", greet[s]>>, <<"mode", greet[s]>>>> \in Seq(Frames)
      BY <3>1 DEF Frames
    <3>3. PICK fs : fs = <<<<"ack", greet[s]>>, <<"mode", greet[s]>>>>
      OBVIOUS
    <3>4. fs \in Seq(Frames)
      BY <3>2, <3>3
    <3>5. SendTo({s}, fs)
      BY <1>4, <3>3 DEF Greet
    <3>6. SocketsOK
      BY <1>0
    <3> QED
      BY <3>4, <3>5, <3>6, SendEffect
  <2> QED
    BY <1>0, <1>4, <2>1 DEF Greet
<1>5. ASSUME NEW s \in Sessions, Disconnect(s) PROVE Routes'
  <2>1. \A t \in Sessions : shut'[t] <=> (shut[t] \/ t = s)
    BY <1>0, <1>5, ShutdownEffect DEF Disconnect
  <2>2. CASE rd[s] = "reading" /\ Owns(s)
    BY <1>0, <1>5, <2>1, <2>2 DEF Disconnect, Owns
  <2>3. CASE ~(rd[s] = "reading" /\ Owns(s))
    BY <1>0, <1>5, <2>1, <2>3 DEF Disconnect, Owns
  <2> QED
    BY <1>0, <2>2, <2>3
<1>6. ASSUME NEW s \in Sessions, MarkOffline(s) PROVE Routes'
  BY <1>0, <1>6 DEF MarkOffline
<1>7. ASSUME NEW s \in Sessions, WriteFail(s) PROVE Routes'
  BY <1>0, <1>7, ShutdownEffect DEF WriteFail
<1>8. ASSUME NEW v \in VPS, NEW n \in 1..MaxSess, Dial(v, n) PROVE Routes'
  <2>1. <<v, n>> \in Sessions /\ rd[<<v, n>>] \in {"none", "ended"}
    BY <1>0, <1>8 DEF Dial, Free, Sessions
  <2> QED
    BY <1>0, <1>8, <2>1 DEF Dial
<1>9. ASSUME NEW k \in 1..MaxCalls, CastMode(k) PROVE Routes'
  <2>1. \A t \in Sessions : shut[t] => shut'[t]
    <3>1. casts[k] \in Modes
      BY <1>9 DEF CastMode, TypeOK, PowerOK
    <3>2. <<<<"mode", casts[k]>>>> \in Seq(Frames)
      BY <3>1 DEF Frames
    <3> QED
      BY <1>0, <1>9, <3>2, SendEffect DEF CastMode
  <2> QED
    BY <1>0, <1>9, <2>1 DEF CastMode
<1>10. CASE PanelRestart
  BY <1>0, <1>10 DEF PanelRestart
<1>11. CASE UNCHANGED <<rd, shut, agents>>
  BY <1>0, <1>11
<1>12. ASSUME NEW s \in Sessions, CommandResult(s) \/ LinkFail(s)
       PROVE  UNCHANGED <<rd, shut, agents>>
  BY <1>0, <1>12 DEF CommandResult, LinkFail
<1>13. ASSUME NEW v \in VPS, \/ Handshake(v) \/ AgentMode(v) \/ AgentCommand(v)
                             \/ SessionEnds(v) \/ Push(v) \/ MarkerExpires(v) \/ Approve(v)
       PROVE  UNCHANGED <<rd, shut, agents>>
  BY <1>0, <1>13 DEF Handshake, AgentMode, AgentCommand, SessionEnds, Push, MarkerExpires, Approve, sockets
<1>14. ASSUME NEW r \in Reqs, CallerStep(r) \/ MarkRestart(r)
       PROVE  UNCHANGED <<rd, shut, agents>>
  BY <1>0, <1>14 DEF CallerStep, RequestQueued, RequestRefused, RequestAnswered, RequestTimeout,
               MarkRestart, sockets
<1>15. ASSUME NEW r \in Reqs, \/ \E s \in Sessions : CommandDone(r, s)
                              \/ \E v \in VPS : RequestStart(r, v)
       PROVE  UNCHANGED <<rd, shut, agents>>
  BY <1>0, <1>15 DEF CommandDone, RequestStart, sockets
<1>16. ASSUME NEW m \in Modes, SetMode(m) PROVE UNCHANGED <<rd, shut, agents>>
  BY <1>0, <1>16 DEF SetMode, sockets
<1> QED
  BY <1>1, <1>2, <1>3, <1>4, <1>5, <1>6, <1>7, <1>8, <1>9, <1>10, <1>11, <1>12, <1>13,
     <1>14, <1>15, <1>16 DEF Next, HubStep, AgentStep

-----------------------------------------------------------------------------
(* Requests.                                                               *)

\* The caller of r has put its command on a socket, or given up.
Issued(r) == req[r].pc \notin {"new", "enqueue"}

\* Where a request has left its mark: a command is only under way once it
\* was issued, an answer only once it was executed.
Traces ==
    /\ \A s \in Sessions, r \in Reqs : In(<<"cmd", r>>, send[s]) => Issued(r)
    /\ \A s \in Sessions, r \in Reqs : <<r, s>> \in jobs => Issued(r)
    /\ \A s \in Sessions, r \in Reqs : In(<<"result", r>>, up[s]) => Issued(r) /\ r \in ran
    /\ \A r \in box : Issued(r) /\ r \in ran

\* No step takes back an issue or an execution.
LEMMA IssuedStays ==
    TypeOK /\ Next => ran \subseteq ran' /\ \A r \in Reqs : Issued(r) => Issued(r)'
<1> SUFFICES ASSUME TypeOK, Next
             PROVE  ran \subseteq ran' /\ \A r \in Reqs : Issued(r) => Issued(r)'
    OBVIOUS
<1> USE DEF TypeOK, RequestsOK, AgentOK, Issued
<1>1. ASSUME NEW s \in Sessions, HubStep(s) \/ LinkFail(s) \/ WriteFail(s)
      PROVE  UNCHANGED <<ran, req>>
  BY <1>1 DEF HubStep, LinkFail, WriteFail, Register, Attach, ReadMode, Greet, ReadFrame,
              MergeSnapshot, CommandResult, Disconnect, MarkOffline, agent, requests
<1>2. ASSUME NEW v \in VPS, AgentStep(v) \/ Push(v) \/ MarkerExpires(v) \/ Approve(v)
      PROVE  UNCHANGED <<ran, req>>
  BY <1>2 DEF AgentStep, Dial, Handshake, AgentMode, AgentCommand, SessionEnds, Push,
              MarkerExpires, Approve, agent, requests
<1>3. ASSUME NEW r \in Reqs, NEW s \in Sessions, CommandDone(r, s)
      PROVE  ran \subseteq ran' /\ UNCHANGED req
  BY <1>3 DEF CommandDone, requests
<1>4. ASSUME NEW r \in Reqs, NEW v \in VPS, RequestStart(r, v)
      PROVE  UNCHANGED ran /\ \A q \in Reqs : Issued(q) => Issued(q)'
  BY <1>4 DEF RequestStart, agent
<1>5. ASSUME NEW r \in Reqs, CallerStep(r) \/ MarkRestart(r)
      PROVE  UNCHANGED ran /\ \A q \in Reqs : Issued(q) => Issued(q)'
  BY <1>5 DEF CallerStep, RequestQueued, RequestRefused, RequestAnswered, RequestTimeout,
              MarkRestart, agent
<1>6. ASSUME NEW m \in Modes, SetMode(m) PROVE UNCHANGED <<ran, req>>
  BY <1>6 DEF SetMode, agent, requests
<1>7. ASSUME NEW k \in 1..MaxCalls, CastMode(k) PROVE UNCHANGED <<ran, req>>
  BY <1>7 DEF CastMode, agent, requests
<1>8. CASE PanelRestart
  BY <1>8 DEF PanelRestart, agent
<1> QED
  BY <1>1, <1>2, <1>3, <1>4, <1>5, <1>6, <1>7, <1>8 DEF Next

\* A mark is left only by a step that issues or executes the request.
LEMMA TraceStep == TypeOK /\ Holders /\ Traces /\ Next => Traces'
<1> SUFFICES ASSUME TypeOK, Holders, Traces, Next PROVE Traces'
    OBVIOUS
<1>0. /\ ran \subseteq ran'
      /\ \A r \in Reqs : Issued(r) => Issued(r)'
      /\ SocketsOK /\ box \subseteq Reqs
      /\ \A s \in Sessions : up[s] \in Seq(UpFrames)
      /\ up \in [Sessions -> Seq(UpFrames)] /\ send \in [Sessions -> Seq(Frames)]
      /\ \A r \in Reqs : <<"cmd", r>> \in Frames
  BY IssuedStays DEF TypeOK, SocketsOK, RequestsOK, Frames
<1>1. ASSUME NEW s \in Sessions, Register(s) \/ ReadFrame(s) PROVE Traces'
  <2>1. up' = [up EXCEPT ![s] = Tail(@)] /\ up[s] # <<>>
    BY <1>1 DEF Register, ReadFrame
  <2>2. \A f : \A t \in Sessions : In(f, up'[t]) => In(f, up[t])
    BY <1>0, <2>1, TailFrames
  <2> QED
    BY <1>0, <1>1, <2>2 DEF Register, ReadFrame, Traces, requests, agent
<1>2. ASSUME NEW s \in Sessions, CommandResult(s) PROVE Traces'
  <2>1. \A f : \A t \in Sessions : In(f, up'[t]) => In(f, up[t])
    BY <1>0, <1>2, TailFrames DEF CommandResult
  <2>2. PICK q \in Reqs : /\ Head(up[s]) = <<"result", q>>
                          /\ box' \subseteq box \cup {q}
    BY <1>2 DEF CommandResult, Answers
  <2>3. In(<<"result", q>>, up[s])
    <3>1. up[s] \in Seq(UpFrames) /\ up[s] # <<>>
      BY <1>0, <1>2 DEF CommandResult
    <3> QED
      BY <2>2, <3>1, TailFrames
  <2>4. \A r \in box' : Issued(r) /\ r \in ran
    BY <2>2, <2>3 DEF Traces
  <2> QED
    BY <1>0, <1>2, <2>1, <2>4 DEF CommandResult, Traces, agent, RequestsOK, TypeOK
<1>3. ASSUME NEW s \in Sessions, Greet(s) PROVE Traces'
  <2> DEFINE fs == <<<<"ack", greet[s]>>, <<"mode", greet[s]>>>>
  <2>1. fs \in Seq(Frames) /\ \A r \in Reqs : ~In(<<"cmd", r>>, fs)
    BY <1>0 DEF SocketsOK, Frames, In
  <2>2. SendTo({s}, fs)
    BY <1>3 DEF Greet
  <2> HIDE DEF fs
  <2>3. \A t \in Sessions, r \in Reqs : In(<<"cmd", r>>, send'[t]) => In(<<"cmd", r>>, send[t])
    BY <1>0, <2>1, <2>2, SendEffect
  <2> QED
    BY <1>0, <1>3, <2>3 DEF Greet, Traces, requests, agent
<1>4. ASSUME NEW k \in 1..MaxCalls, CastMode(k) PROVE Traces'
  <2> DEFINE fs == <<<<"mode", casts[k]>>>>
  <2>1. fs \in Seq(Frames) /\ \A r \in Reqs : ~In(<<"cmd", r>>, fs)
    <3>1. casts[k] \in Modes
      BY <1>4 DEF CastMode, TypeOK, PowerOK
    <3> QED
      BY <3>1 DEF Frames, In
  <2>2. SendTo({agents[v] : v \in VPS} \ {NoSess}, fs)
    BY <1>4 DEF CastMode
  <2> HIDE DEF fs
  <2>3. \A t \in Sessions, r \in Reqs : In(<<"cmd", r>>, send'[t]) => In(<<"cmd", r>>, send[t])
    BY <1>0, <2>1, <2>2, SendEffect
  <2> QED
    BY <1>0, <1>4, <2>3 DEF CastMode, Traces, requests, agent
<1>5. ASSUME NEW s \in Sessions, Disconnect(s) PROVE Traces'
  <2>1. \A f : \A t \in Sessions : /\ In(f, up'[t]) => In(f, up[t])
                                   /\ In(f, send'[t]) => In(f, send[t])
    BY <1>0, <1>5, EmptyFrames DEF Disconnect
  <2> QED
    BY <1>0, <1>5, <2>1 DEF Disconnect, Traces, requests, agent
<1>6. ASSUME NEW v \in VPS, NEW n \in 1..MaxSess, Dial(v, n) PROVE Traces'
  <2>1. \A f : \A t \in Sessions : In(f, send'[t]) => In(f, send[t])
    BY <1>0, <1>6, EmptyFrames DEF Dial
  <2>2. \A r \in Reqs : ~In(<<"result", r>>, <<<<"register">>>>)
    BY DEF In
  <2>3. \A t \in Sessions, r \in Reqs : In(<<"result", r>>, up'[t]) => In(<<"result", r>>, up[t])
    BY <1>0, <1>6, <2>2 DEF Dial
  <2> QED
    BY <1>0, <1>6, <2>1, <2>3 DEF Dial, Traces, requests
<1>7. ASSUME NEW v \in VPS, Handshake(v) \/ AgentMode(v) PROVE Traces'
  <2>1. \E f : Reads(v, f)
    BY <1>7 DEF Handshake, AgentMode
  <2>2. \A t \in Sessions, r \in Reqs : In(<<"cmd", r>>, send'[t]) => In(<<"cmd", r>>, send[t])
    BY <1>0, <2>1, ReadsEffect
  <2> QED
    BY <1>0, <1>7, <2>2 DEF Handshake, AgentMode, Traces, requests
<1>8. ASSUME NEW v \in VPS, AgentCommand(v) PROVE Traces'
  <2>1. PICK q \in Reqs : Reads(v, <<"cmd", q>>) /\ jobs' = jobs \cup {<<q, Cur(v)>>}
    BY <1>8 DEF AgentCommand
  <2>2. Cur(v) \in Sessions
    BY <1>8 DEF AgentCommand, Holders, Cur, Sessions
  <2>3. In(<<"cmd", q>>, send[Cur(v)])
    BY <1>0, <2>1, <2>2, ReadsEffect
  <2>4. Issued(q)
    BY <2>2, <2>3 DEF Traces
  <2>5. \A t \in Sessions, r \in Reqs : In(<<"cmd", r>>, send'[t]) => In(<<"cmd", r>>, send[t])
    BY <1>0, <2>1, ReadsEffect
  <2> QED
    BY <1>0, <1>8, <2>1, <2>4, <2>5 DEF AgentCommand, Traces, requests
<1>9. ASSUME NEW q \in Reqs, NEW s \in Sessions, CommandDone(q, s) PROVE Traces'
  <2>1. <<"result", q>> \in UpFrames
    BY DEF UpFrames
  <2>2. \A f : \A t \in Sessions : In(f, up'[t]) => In(f, up[t]) \/ f = <<"result", q>>
    BY <1>0, <1>9, <2>1, AppendFrames DEF CommandDone
  <2>3. Issued(q) /\ q \in ran'
    BY <1>9 DEF CommandDone, Traces
  <2>4. \A t \in Sessions, r \in Reqs : In(<<"result", r>>, up'[t]) => Issued(r) /\ r \in ran'
    BY <1>0, <2>2, <2>3 DEF Traces
  <2> QED
    BY <1>0, <1>9, <2>4 DEF CommandDone, Traces, requests
<1>10. ASSUME NEW v \in VPS, Push(v) PROVE Traces'
  <2>1. <<"metrics">> \in UpFrames /\ \A r \in Reqs : <<"metrics">> # <<"result", r>>
    BY DEF UpFrames
  <2>2. \A f : \A t \in Sessions : In(f, up'[t]) => In(f, up[t]) \/ f = <<"metrics">>
    BY <1>0, <1>10, <2>1, AppendFrames DEF Push
  <2>3. \A t \in Sessions, r \in Reqs : In(<<"result", r>>, up'[t]) => In(<<"result", r>>, up[t])
    BY <2>1, <2>2
  <2> QED
    BY <1>0, <1>10, <2>3 DEF Push, Traces, requests, agent
<1>11. ASSUME NEW q \in Reqs, RequestQueued(q) PROVE Traces'
  <2>1. \A f : \A t \in Sessions : In(f, send'[t]) => In(f, send[t]) \/ f = <<"cmd", q>>
    BY <1>0, <1>11, AppendFrames DEF RequestQueued
  <2>2. Issued(q)'
    BY <1>11 DEF RequestQueued, Issued, TypeOK, RequestsOK
  <2>3. \A t \in Sessions, r \in Reqs : In(<<"cmd", r>>, send'[t]) => Issued(r)'
    BY <1>0, <2>1, <2>2 DEF Traces
  <2> QED
    BY <1>0, <1>11, <2>3 DEF RequestQueued, Traces, agent
<1>12. CASE PanelRestart
  BY <1>0, <1>12, EmptyFrames DEF PanelRestart, Traces, agent
<1>13. CASE send' = send /\ up' = up /\ jobs' = jobs /\ box' \subseteq box
  BY <1>0, <1>13 DEF Traces
<1>14. ASSUME NEW s \in Sessions, \/ Attach(s) \/ ReadMode(s) \/ MergeSnapshot(s)
                                  \/ MarkOffline(s) \/ LinkFail(s) \/ WriteFail(s)
       PROVE  send' = send /\ up' = up /\ jobs' = jobs /\ box' \subseteq box
  BY <1>14 DEF Attach, ReadMode, MergeSnapshot, MarkOffline, LinkFail, WriteFail, requests, agent
<1>15. ASSUME NEW v \in VPS, SessionEnds(v) \/ MarkerExpires(v) \/ Approve(v)
       PROVE  send' = send /\ up' = up /\ jobs' = jobs /\ box' \subseteq box
  BY <1>15 DEF SessionEnds, MarkerExpires, Approve, sockets, requests, agent
<1>16. ASSUME NEW r \in Reqs, \/ \E v \in VPS : RequestStart(r, v)
                              \/ RequestRefused(r) \/ RequestAnswered(r)
                              \/ RequestTimeout(r) \/ MarkRestart(r)
       PROVE  send' = send /\ up' = up /\ jobs' = jobs /\ box' \subseteq box
  BY <1>16 DEF RequestStart, RequestRefused, RequestAnswered, RequestTimeout, MarkRestart,
               sockets, agent
<1>17. ASSUME NEW m \in Modes, SetMode(m)
       PROVE  send' = send /\ up' = up /\ jobs' = jobs /\ box' \subseteq box
  BY <1>17 DEF SetMode, sockets, requests, agent
<1> QED
  BY <1>1, <1>2, <1>3, <1>4, <1>5, <1>6, <1>7, <1>8, <1>9, <1>10, <1>11, <1>12, <1>13,
     <1>14, <1>15, <1>16, <1>17 DEF Next, HubStep, AgentStep, CallerStep

\* RequestAccounting and AnsweredRan, with the fact that a request that is
\* about to queue its command is in pending.
Accounting ==
    /\ RequestAccounting
    /\ AnsweredRan
    /\ \A r \in Reqs : req[r].pc = "enqueue" => r \in pending

\* Entries of pending come and go with their callers.
LEMMA AccountStep == TypeOK /\ Traces /\ Accounting /\ Next => Accounting'
<1> SUFFICES ASSUME TypeOK, Traces, Accounting, Next PROVE Accounting'
    OBVIOUS
<1> USE DEF Accounting, RequestAccounting, AnsweredRan
<1>0. /\ pending \subseteq Reqs /\ box \subseteq Reqs
      /\ req \in [Reqs -> [pc : ReqPcs, sess : Sessions \cup {NoSess}]]
      /\ \A r \in box : Issued(r) /\ r \in ran
  BY DEF TypeOK, RequestsOK, Traces
<1>1. ASSUME NEW s \in Sessions, CommandResult(s) PROVE Accounting'
  <2>1. PICK q \in Reqs : /\ Head(up[s]) = <<"result", q>>
                          /\ pending' = pending \ {q}
                          /\ box' = IF q \in pending THEN box \cup {q} ELSE box
    BY <1>1 DEF CommandResult, Answers
  <2>2. In(<<"result", q>>, up[s])
    <3>1. up[s] \in Seq(UpFrames) /\ up[s] # <<>>
      BY <1>1 DEF CommandResult, TypeOK, SocketsOK
    <3> QED
      BY <2>1, <3>1, TailFrames
  <2>3. Issued(q)
    BY <2>2 DEF Traces
  <2> QED
    BY <1>0, <1>1, <2>1, <2>3 DEF CommandResult, Issued, agent
<1>2. ASSUME NEW r \in Reqs, NEW v \in VPS, RequestStart(r, v) PROVE Accounting'
  BY <1>0, <1>2 DEF RequestStart, Issued, agent
<1>3. ASSUME NEW r \in Reqs, RequestQueued(r) PROVE Accounting'
  BY <1>0, <1>3 DEF RequestQueued, agent
<1>4. ASSUME NEW r \in Reqs, RequestRefused(r) PROVE Accounting'
  BY <1>0, <1>4 DEF RequestRefused, Forget, agent
<1>5. ASSUME NEW r \in Reqs, RequestAnswered(r) PROVE Accounting'
  BY <1>0, <1>5 DEF RequestAnswered, agent
<1>6. ASSUME NEW r \in Reqs, RequestTimeout(r) PROVE Accounting'
  BY <1>0, <1>6 DEF RequestTimeout, TimerFires, Forget, agent
<1>7. ASSUME NEW r \in Reqs, MarkRestart(r) PROVE Accounting'
  BY <1>0, <1>7 DEF MarkRestart, agent
<1>8. CASE PanelRestart
  BY <1>0, <1>8 DEF PanelRestart, agent
<1>9. ASSUME NEW r \in Reqs, NEW s \in Sessions, CommandDone(r, s) PROVE Accounting'
  BY <1>0, <1>9 DEF CommandDone, requests
<1>10. CASE UNCHANGED <<req, pending, box, ran>>
  BY <1>10
<1>11. ASSUME NEW s \in Sessions, \/ Register(s) \/ Attach(s) \/ ReadMode(s) \/ Greet(s)
                                  \/ ReadFrame(s) \/ MergeSnapshot(s) \/ Disconnect(s)
                                  \/ MarkOffline(s) \/ LinkFail(s) \/ WriteFail(s)
       PROVE  UNCHANGED <<req, pending, box, ran>>
  BY <1>11 DEF Register, Attach, ReadMode, Greet, ReadFrame, MergeSnapshot, Disconnect,
               MarkOffline, LinkFail, WriteFail, requests, agent
<1>12. ASSUME NEW v \in VPS, AgentStep(v) \/ Push(v) \/ MarkerExpires(v) \/ Approve(v)
       PROVE  UNCHANGED <<req, pending, box, ran>>
  BY <1>12 DEF AgentStep, Dial, Handshake, AgentMode, AgentCommand, SessionEnds, Push,
               MarkerExpires, Approve, requests, agent
<1>13. ASSUME NEW m \in Modes, SetMode(m) PROVE UNCHANGED <<req, pending, box, ran>>
  BY <1>13 DEF SetMode, requests, agent
<1>14. ASSUME NEW k \in 1..MaxCalls, CastMode(k) PROVE UNCHANGED <<req, pending, box, ran>>
  BY <1>14 DEF CastMode, requests, agent
<1> QED
  BY <1>1, <1>2, <1>3, <1>4, <1>5, <1>6, <1>7, <1>8, <1>9, <1>10, <1>11, <1>12, <1>13,
     <1>14 DEF Next, HubStep, CallerStep

-----------------------------------------------------------------------------
(* Once.                                                                   *)

\* The command of r has been put into a send buffer.
Sent(r) == req[r].pc \in {"wait", "ok", "timeout", "gone"}

\* The command of r has neither begun nor run.
Unbegun(r) == r \notin ran /\ \A s \in Sessions : <<r, s>> \notin jobs

\* A command is in one place: once in the buffer of its socket, then a
\* goroutine on that socket, then done.
Once ==
    /\ \A s \in Sessions, r \in Reqs :
          In(<<"cmd", r>>, send[s]) => /\ req[r].pc \in {"wait", "timeout"}
                                       /\ req[r].sess = s
                                       /\ Unbegun(r)
    /\ \A s \in Sessions, r \in Reqs : Single(<<"cmd", r>>, send[s])
    /\ \A r \in Reqs, s \in Sessions :
          <<r, s>> \in jobs => r \notin ran /\ req[r].sess = s /\ Sent(r)
    /\ \A r \in ran : Sent(r)

\* Steps that put no command into a buffer and leave callers and agents alone.
LEMMA OnceKept ==
    ASSUME TypeOK, Once, UNCHANGED <<req, jobs, ran>>,
           \A s \in Sessions, r \in Reqs :
               /\ In(<<"cmd", r>>, send'[s]) => In(<<"cmd", r>>, send[s])
               /\ Single(<<"cmd", r>>, send[s]) => Single(<<"cmd", r>>, send'[s])
    PROVE  Once'
BY DEF Once, Sent, Unbegun

\* A step of the caller of q: the command of q is still in one place, and the
\* other commands are where they were.
LEMMA OnceMoved ==
    ASSUME TypeOK, Once, NEW q \in Reqs, UNCHANGED <<jobs, ran>>,
           \A r \in Reqs : r # q => req'[r] = req[r],
           \A t \in Sessions, r \in Reqs :
               /\ r # q /\ In(<<"cmd", r>>, send'[t]) => In(<<"cmd", r>>, send[t])
               /\ Single(<<"cmd", r>>, send'[t]),
           \A t \in Sessions :
               In(<<"cmd", q>>, send'[t]) => /\ req'[q].pc \in {"wait", "timeout"}
                                             /\ req'[q].sess = t
                                             /\ Unbegun(q),
           ~Unbegun(q) => Sent(q)' /\ req'[q].sess = req[q].sess
    PROVE  Once'
<1>1. ASSUME NEW t \in Sessions, NEW r \in Reqs, In(<<"cmd", r>>, send'[t])
      PROVE  /\ req'[r].pc \in {"wait", "timeout"} /\ req'[r].sess = t
             /\ Unbegun(r)
  <2>1. CASE r = q
    BY <1>1, <2>1
  <2>2. CASE r # q
    BY <1>1, <2>2 DEF Once
  <2> QED
    BY <2>1, <2>2
<1>2. ASSUME NEW t \in Sessions, NEW r \in Reqs, <<r, t>> \in jobs
      PROVE  r \notin ran /\ req'[r].sess = t /\ Sent(r)'
  <2>1. r \notin ran /\ req[r].sess = t /\ Sent(r)
    BY <1>2 DEF Once
  <2>2. CASE r = q
    BY <1>2, <2>1, <2>2 DEF Unbegun
  <2>3. CASE r # q
    BY <2>1, <2>3 DEF Sent
  <2> QED
    BY <2>2, <2>3
<1>3. ASSUME NEW r \in ran PROVE Sent(r)'
  <2>1. r \in Reqs /\ Sent(r)
    BY DEF Once, TypeOK, AgentOK
  <2>2. CASE r = q
    BY <2>2 DEF Unbegun
  <2>3. CASE r # q
    BY <2>1, <2>3 DEF Sent
  <2> QED
    BY <2>2, <2>3
<1>4. \A r \in Reqs : Unbegun(r) => Unbegun(r)'
  BY DEF Unbegun
<1>5. \A t \in Sessions, r \in Reqs : Single(<<"cmd", r>>, send'[t])
  OBVIOUS
<1> QED
  BY <1>1, <1>2, <1>3, <1>4, <1>5 DEF Once

\* Every step keeps a command in one place.
LEMMA OnceStep == TypeOK /\ Holders /\ Traces /\ Once /\ Next => Once'
<1> SUFFICES ASSUME TypeOK, Holders, Traces, Once, Next PROVE Once'
    OBVIOUS
<1>0. /\ SocketsOK /\ ran \subseteq Reqs /\ jobs \subseteq Reqs \X Sessions
      /\ \A s \in Sessions : send[s] \in Seq(Frames)
      /\ send \in [Sessions -> Seq(Frames)]
      /\ req \in [Reqs -> [pc : ReqPcs, sess : Sessions \cup {NoSess}]]
      /\ \A r \in Reqs : <<"cmd", r>> \in Frames
  BY DEF TypeOK, SocketsOK, RequestsOK, AgentOK, Frames
<1>1. ASSUME NEW s \in Sessions, Greet(s) PROVE Once'
  <2> DEFINE fs == <<<<"ack", greet[s]>>, <<"mode", greet[s]>>>>
  <2>1. fs \in Seq(Frames) /\ \A r \in Reqs : ~In(<<"cmd", r>>, fs)
    BY <1>0 DEF SocketsOK, Frames, In
  <2>2. SendTo({s}, fs) /\ UNCHANGED <<req, jobs, ran>>
    BY <1>1 DEF Greet, requests, agent
  <2> HIDE DEF fs
  <2> QED
    BY <1>0, <2>1, <2>2, SendEffect, OnceKept
<1>2. ASSUME NEW k \in 1..MaxCalls, CastMode(k) PROVE Once'
  <2> DEFINE fs == <<<<"mode", casts[k]>>>>
  <2>1. fs \in Seq(Frames) /\ \A r \in Reqs : ~In(<<"cmd", r>>, fs)
    <3>1. casts[k] \in Modes
      BY <1>2 DEF CastMode, TypeOK, PowerOK
    <3> QED
      BY <3>1 DEF Frames, In
  <2>2. SendTo({agents[v] : v \in VPS} \ {NoSess}, fs) /\ UNCHANGED <<req, jobs, ran>>
    BY <1>2 DEF CastMode, requests, agent
  <2> HIDE DEF fs
  <2> QED
    BY <1>0, <2>1, <2>2, SendEffect, OnceKept
<1>3. ASSUME NEW s \in Sessions, Disconnect(s) PROVE Once'
  <2>1. \A f : \A t \in Sessions : /\ In(f, send'[t]) => In(f, send[t])
                                   /\ Single(f, send[t]) => Single(f, send'[t])
    BY <1>0, <1>3, EmptyFrames DEF Disconnect
  <2> QED
    BY <1>3, <2>1, OnceKept DEF Disconnect, requests, agent
<1>4. ASSUME NEW v \in VPS, NEW n \in 1..MaxSess, Dial(v, n) PROVE Once'
  <2>1. \A f : \A t \in Sessions : /\ In(f, send'[t]) => In(f, send[t])
                                   /\ Single(f, send[t]) => Single(f, send'[t])
    BY <1>0, <1>4, EmptyFrames DEF Dial
  <2> QED
    BY <1>4, <2>1, OnceKept DEF Dial, requests
<1>5. ASSUME NEW v \in VPS, Handshake(v) \/ AgentMode(v) PROVE Once'
  <2>1. \E f : Reads(v, f)
    BY <1>5 DEF Handshake, AgentMode
  <2>2. \A t \in Sessions, r \in Reqs :
          /\ In(<<"cmd", r>>, send'[t]) => In(<<"cmd", r>>, send[t])
          /\ Single(<<"cmd", r>>, send[t]) => Single(<<"cmd", r>>, send'[t])
    BY <1>0, <2>1, ReadsEffect
  <2> QED
    BY <1>5, <2>2, OnceKept DEF Handshake, AgentMode, requests
<1>6. ASSUME NEW v \in VPS, AgentCommand(v) PROVE Once'
  <2>1. PICK q \in Reqs : Reads(v, <<"cmd", q>>) /\ jobs' = jobs \cup {<<q, Cur(v)>>}
    BY <1>6 DEF AgentCommand
  <2>2. Cur(v) \in Sessions /\ UNCHANGED <<req, ran>>
    BY <1>6 DEF AgentCommand, Holders, Cur, Sessions, requests
  <2>3. /\ In(<<"cmd", q>>, send[Cur(v)])
        /\ ~In(<<"cmd", q>>, send'[Cur(v)])
        /\ \A t \in Sessions, r \in Reqs :
              /\ In(<<"cmd", r>>, send'[t]) => In(<<"cmd", r>>, send[t])
              /\ Single(<<"cmd", r>>, send[t]) => Single(<<"cmd", r>>, send'[t])
    BY <1>0, <2>1, <2>2, ReadsEffect DEF Once
  <2>4. req[q].pc \in {"wait", "timeout"} /\ req[q].sess = Cur(v) /\ q \notin ran
    BY <2>2, <2>3 DEF Once, Unbegun
  <2>5. \A t \in Sessions : ~In(<<"cmd", q>>, send'[t])
    BY <2>3, <2>4 DEF Once
  <2> QED
    BY <2>1, <2>2, <2>3, <2>4, <2>5 DEF Once, Unbegun, Sent
<1>7. ASSUME NEW q \in Reqs, NEW s \in Sessions, CommandDone(q, s) PROVE Once'
  <2>1. /\ <<q, s>> \in jobs /\ jobs' = jobs \ {<<q, s>>} /\ ran' = ran \cup {q}
        /\ UNCHANGED <<req, send>>
    BY <1>7 DEF CommandDone, requests
  <2>2. \A t \in Sessions : ~In(<<"cmd", q>>, send[t]) /\ (<<q, t>> \in jobs => t = s)
    BY <2>1 DEF Once, Unbegun
  <2> QED
    BY <2>1, <2>2 DEF Once, Unbegun, Sent
<1>8. ASSUME NEW q \in Reqs, NEW v \in VPS, RequestStart(q, v) PROVE Once'
  <2>1. req[q].pc = "new" /\ UNCHANGED <<jobs, ran, send>>
    BY <1>8 DEF RequestStart, sockets, agent
  <2>2. \A r \in Reqs : r # q => req'[r] = req[r]
    BY <1>0, <1>8 DEF RequestStart
  <2>3. (\A t \in Sessions : ~In(<<"cmd", q>>, send[t])) /\ Unbegun(q)
    BY <2>1 DEF Once, Unbegun, Sent
  <2>4. \A t \in Sessions, r \in Reqs : Single(<<"cmd", r>>, send[t])
    BY DEF Once
  <2> QED
    BY <2>1, <2>2, <2>3, <2>4, OnceMoved
<1>9. ASSUME NEW q \in Reqs, RequestQueued(q) PROVE Once'
  <2>1. /\ req[q].pc = "enqueue" /\ UNCHANGED <<jobs, ran>>
        /\ send' = [send EXCEPT ![req[q].sess] = Append(@, <<"cmd", q>>)]
        /\ req' = [req EXCEPT ![q].pc = "wait"]
    BY <1>9 DEF RequestQueued, agent
  <2>2. req[q].sess \in Sessions
    BY <2>1 DEF Holders
  <2>3. (\A t \in Sessions : ~In(<<"cmd", q>>, send[t])) /\ Unbegun(q)
    BY <2>1 DEF Once, Unbegun, Sent
  <2>4. /\ req'[q].pc = "wait" /\ req'[q].sess = req[q].sess
        /\ \A r \in Reqs : r # q => req'[r] = req[r]
    BY <1>0, <2>1
  <2>5. ASSUME NEW t \in Sessions, NEW r \in Reqs
        PROVE  /\ In(<<"cmd", r>>, send'[t]) =>
                     IF r = q THEN t = req[q].sess ELSE In(<<"cmd", r>>, send[t])
               /\ Single(<<"cmd", r>>, send'[t])
    <3>1. Single(<<"cmd", r>>, send[t]) /\ (r = q => ~In(<<"cmd", r>>, send[t]))
      BY <2>3 DEF Once
    <3>2. r # q => <<"cmd", r>> # <<"cmd", q>>
      OBVIOUS
    <3>3. CASE t # req[q].sess
      <4>1. send'[t] = send[t]
        BY <1>0, <2>1, <3>3
      <4> QED
        BY <3>1, <3>3, <4>1
    <3>4. CASE t = req[q].sess
      <4>1. send'[t] = Append(send[t], <<"cmd", q>>)
        BY <1>0, <2>1, <3>4
      <4>2. /\ In(<<"cmd", r>>, send'[t]) => In(<<"cmd", r>>, send[t]) \/ r = q
            /\ Single(<<"cmd", r>>, send'[t])
        BY <1>0, <3>1, <3>2, <4>1, AppendFrames
      <4> QED
        BY <3>4, <4>2
    <3> QED
      BY <3>3, <3>4
  <2> QED
    BY <2>1, <2>3, <2>4, <2>5, OnceMoved
<1>10. ASSUME NEW q \in Reqs, RequestRefused(q) PROVE Once'
  <2>1. req[q].pc = "enqueue" /\ UNCHANGED <<jobs, ran, send>>
    BY <1>10 DEF RequestRefused, sockets, agent
  <2>2. \A r \in Reqs : r # q => req'[r] = req[r]
    BY <1>0, <1>10 DEF RequestRefused
  <2>3. (\A t \in Sessions : ~In(<<"cmd", q>>, send[t])) /\ Unbegun(q)
    BY <2>1 DEF Once, Unbegun, Sent
  <2>4. \A t \in Sessions, r \in Reqs : Single(<<"cmd", r>>, send[t])
    BY DEF Once
  <2> QED
    BY <2>1, <2>2, <2>3, <2>4, OnceMoved
<1>11. ASSUME NEW q \in Reqs, RequestAnswered(q) \/ MarkRestart(q) PROVE Once'
  <2>1. /\ req[q].pc = "ok" \/ q \in box
        /\ UNCHANGED <<jobs, ran, send>>
    BY <1>11 DEF RequestAnswered, MarkRestart, sockets, agent
  <2>2. \A t \in Sessions : ~In(<<"cmd", q>>, send[t])
    BY <2>1 DEF Once, Unbegun, Traces
  <2>3. /\ Sent(q)' /\ req'[q].sess = req[q].sess
        /\ \A r \in Reqs : r # q => req'[r] = req[r]
    BY <1>0, <1>11 DEF RequestAnswered, MarkRestart, Sent
  <2>4. \A t \in Sessions, r \in Reqs : Single(<<"cmd", r>>, send[t])
    BY DEF Once
  <2> QED
    BY <2>1, <2>2, <2>3, <2>4, OnceMoved
<1>12. ASSUME NEW q \in Reqs, RequestTimeout(q) PROVE Once'
  <2>1. req[q].pc = "wait" /\ UNCHANGED <<jobs, ran, send>>
    BY <1>12 DEF RequestTimeout, TimerFires, sockets, agent
  <2>2. /\ req'[q].pc = "timeout" /\ req'[q].sess = req[q].sess
        /\ \A r \in Reqs : r # q => req'[r] = req[r]
    BY <1>0, <1>12 DEF RequestTimeout
  <2>3. /\ \A t \in Sessions, r \in Reqs : Single(<<"cmd", r>>, send[t])
        /\ \A t \in Sessions :
              In(<<"cmd", q>>, send[t]) => req[q].sess = t /\ Unbegun(q)
    BY DEF Once
  <2>4. Sent(q)'
    BY <2>2 DEF Sent
  <2> QED
    BY <2>1, <2>2, <2>3, <2>4, OnceMoved
<1>13. CASE PanelRestart
  <2>1. UNCHANGED <<jobs, ran>> /\ send' = [s \in Sessions |-> <<>>]
    BY <1>13 DEF PanelRestart, agent
  <2>2. \A r \in Reqs : req'[r].sess = req[r].sess /\ (Sent(r) => Sent(r)')
    BY <1>0, <1>13 DEF PanelRestart, Sent
  <2>3. \A s \in Sessions : \A f : ~In(f, send'[s]) /\ Single(f, send'[s])
    BY <2>1, EmptyFrames
  <2> QED
    BY <1>0, <2>1, <2>2, <2>3 DEF Once
<1>14. CASE UNCHANGED <<req, jobs, ran, send>>
  BY <1>14, OnceKept
<1>15. ASSUME NEW s \in Sessions, \/ Register(s) \/ Attach(s) \/ ReadMode(s) \/ ReadFrame(s)
                                  \/ MergeSnapshot(s) \/ CommandResult(s)
                                  \/ MarkOffline(s) \/ LinkFail(s) \/ WriteFail(s)
       PROVE  UNCHANGED <<req, jobs, ran, send>>
  BY <1>15 DEF Register, Attach, ReadMode, ReadFrame, MergeSnapshot, CommandResult,
               MarkOffline, LinkFail, WriteFail, requests, agent
<1>16. ASSUME NEW v \in VPS, SessionEnds(v) \/ Push(v) \/ MarkerExpires(v) \/ Approve(v)
       PROVE  UNCHANGED <<req, jobs, ran, send>>
  BY <1>16 DEF SessionEnds, Push, MarkerExpires, Approve, sockets, requests, agent
<1>17. ASSUME NEW m \in Modes, SetMode(m) PROVE UNCHANGED <<req, jobs, ran, send>>
  BY <1>17 DEF SetMode, sockets, requests, agent
<1> QED
  BY <1>1, <1>2, <1>3, <1>4, <1>5, <1>6, <1>7, <1>8, <1>9, <1>10, <1>11, <1>12, <1>13,
     <1>14, <1>15, <1>16, <1>17 DEF Next, HubStep, AgentStep, CallerStep

-----------------------------------------------------------------------------
(* The handshake.                                                          *)

Greeted == {"reading", "merging", "closing", "ended"}

\* A register_ack is on its way only on a socket the panel has greeted.
Handshakes ==
    /\ UpMeansGreeted
    /\ \A s \in Sessions, m \in Modes : In(<<"ack", m>>, send[s]) => rd[s] \in Greeted

\* The read loop of a greeted socket stays greeted unless the agent dials
\* again on its number, which empties the buffer.
LEMMA HandshakeStep == TypeOK /\ Holders /\ Handshakes /\ Next => Handshakes'
<1> SUFFICES ASSUME TypeOK, Holders, Handshakes, Next PROVE Handshakes'
    OBVIOUS
<1> USE DEF Handshakes, UpMeansGreeted, Greeted
<1>0. /\ SocketsOK
      /\ rd \in [Sessions -> Readers] /\ send \in [Sessions -> Seq(Frames)]
      /\ \A m \in Modes : <<"ack", m>> \in Frames
      /\ \A v \in VPS : aPc[v] # "idle" => Cur(v) \in Sessions
      /\ aPc \in [VPS -> {"idle", "handshake", "up"}]
  BY DEF TypeOK, SocketsOK, AgentOK, Frames, Holders, Cur, Sessions
<1>1. ASSUME NEW s \in Sessions, \/ Register(s) \/ Attach(s) \/ ReadMode(s) \/ ReadFrame(s)
                                 \/ MergeSnapshot(s) \/ MarkOffline(s)
      PROVE  Handshakes'
  <2>1. /\ send' = send /\ UNCHANGED <<aPc, aSess>>
        /\ \A t \in Sessions : rd[t] \in Greeted => rd'[t] \in Greeted
    BY <1>0, <1>1 DEF Register, Attach, ReadMode, ReadFrame, MergeSnapshot, MarkOffline, agent
  <2> QED
    BY <1>0, <2>1 DEF Cur
<1>2. ASSUME NEW s \in Sessions, Greet(s) PROVE Handshakes'
  <2> DEFINE fs == <<<<"ack", greet[s]>>, <<"mode", greet[s]>>>>
  <2>1. fs \in Seq(Frames)
    BY <1>0 DEF SocketsOK, Frames
  <2>2. SendTo({s}, fs)
    BY <1>2 DEF Greet
  <2> HIDE DEF fs
  <2>3. \A t \in Sessions, m \in Modes :
           In(<<"ack", m>>, send'[t]) => In(<<"ack", m>>, send[t]) \/ t = s
    BY <1>0, <2>1, <2>2, SendEffect
  <2> QED
    BY <1>0, <1>2, <2>3 DEF Greet, agent, Cur
<1>3. ASSUME NEW s \in Sessions, Disconnect(s) PROVE Handshakes'
  <2>1. \A f : \A t \in Sessions : In(f, send'[t]) => In(f, send[t])
    BY <1>0, <1>3, EmptyFrames DEF Disconnect
  <2>2. \A t \in Sessions : rd[t] \in Greeted => rd'[t] \in Greeted
    BY <1>0, <1>3 DEF Disconnect
  <2> QED
    BY <1>0, <1>3, <2>1, <2>2 DEF Disconnect, agent, Cur
<1>4. ASSUME NEW v \in VPS, NEW n \in 1..MaxSess, Dial(v, n) PROVE Handshakes'
  <2>1. /\ send' = [send EXCEPT ![<<v, n>>] = <<>>]
        /\ rd' = [rd EXCEPT ![<<v, n>>] = "open"]
        /\ aPc' = [aPc EXCEPT ![v] = "handshake"]
        /\ aSess' = [aSess EXCEPT ![v] = n]
    BY <1>4 DEF Dial
  <2>2. ASSUME NEW t \in Sessions, NEW m \in Modes, In(<<"ack", m>>, send'[t])
        PROVE  rd'[t] \in Greeted
    BY <1>0, <2>1, <2>2, EmptyFrames
  <2>3. ASSUME NEW w \in VPS, aPc'[w] = "up" PROVE rd'[Cur(w)'] \in Greeted
    <3>1. w # v /\ aPc[w] = "up"
      BY <1>0, <2>1, <2>3
    <3>2. Cur(w)' = Cur(w) /\ Cur(w) # <<v, n>>
      BY <2>1, <3>1 DEF Cur, TypeOK, AgentOK
    <3> QED
      BY <1>0, <2>1, <3>1, <3>2
  <2> QED
    BY <2>2, <2>3
<1>5. ASSUME NEW v \in VPS, Handshake(v) PROVE Handshakes'
  <2>1. PICK f \in Frames : /\ Reads(v, f)
                            /\ \/ f[1] = "ack" /\ aPc' = [aPc EXCEPT ![v] = "up"]
                               \/ UNCHANGED aPc
    BY <1>5 DEF Handshake, EndsHandshake
  <2>2. \A t \in Sessions, m \in Modes : In(<<"ack", m>>, send'[t]) => In(<<"ack", m>>, send[t])
    BY <1>0, <2>1, ReadsEffect
  <2>3. Cur(v) \in Sessions /\ In(f, send[Cur(v)])
    BY <1>0, <1>5, <2>1, ReadsEffect DEF Handshake
  <2>4. f[1] = "ack" => \E m \in Modes : f = <<"ack", m>>
    BY DEF Frames
  <2>5. f[1] = "ack" => rd[Cur(v)] \in Greeted
    BY <2>3, <2>4
  <2> QED
    BY <1>0, <1>5, <2>1, <2>2, <2>5 DEF Handshake, Cur
<1>6. ASSUME NEW v \in VPS, AgentMode(v) \/ AgentCommand(v) PROVE Handshakes'
  <2>1. \E f : Reads(v, f)
    BY <1>6 DEF AgentMode, AgentCommand
  <2>2. \A t \in Sessions, m \in Modes : In(<<"ack", m>>, send'[t]) => In(<<"ack", m>>, send[t])
    BY <1>0, <2>1, ReadsEffect
  <2> QED
    BY <1>6, <2>2 DEF AgentMode, AgentCommand, Cur
<1>7. ASSUME NEW v \in VPS, SessionEnds(v) PROVE Handshakes'
  BY <1>0, <1>7 DEF SessionEnds, sockets, Cur
<1>8. ASSUME NEW r \in Reqs, RequestQueued(r) PROVE Handshakes'
  <2>1. <<"cmd", r>> \in Frames /\ \A m \in Modes : <<"cmd", r>> # <<"ack", m>>
    BY DEF Frames
  <2>2. \A f : \A t \in Sessions : In(f, send'[t]) => In(f, send[t]) \/ f = <<"cmd", r>>
    BY <1>0, <1>8, <2>1, AppendFrames DEF RequestQueued
  <2> QED
    BY <1>8, <2>1, <2>2 DEF RequestQueued, agent, Cur
<1>9. ASSUME NEW k \in 1..MaxCalls, CastMode(k) PROVE Handshakes'
  <2> DEFINE fs == <<<<"mode", casts[k]>>>>
  <2>1. fs \in Seq(Frames) /\ \A m \in Modes : ~In(<<"ack", m>>, fs)
    <3>1. casts[k] \in Modes
      BY <1>9 DEF CastMode, TypeOK, PowerOK
    <3> QED
      BY <3>1 DEF Frames, In
  <2>2. SendTo({agents[v] : v \in VPS} \ {NoSess}, fs)
    BY <1>9 DEF CastMode
  <2> HIDE DEF fs
  <2>3. \A t \in Sessions, m \in Modes : In(<<"ack", m>>, send'[t]) => In(<<"ack", m>>, send[t])
    BY <1>0, <2>1, <2>2, SendEffect
  <2> QED
    BY <1>9, <2>3 DEF CastMode, agent, Cur
<1>10. CASE PanelRestart
  <2>1. \A f : \A t \in Sessions : ~In(f, send'[t])
    BY <1>10, EmptyFrames DEF PanelRestart
  <2>2. \A t \in Sessions : rd[t] \in Greeted => rd'[t] \in Greeted
    BY <1>0, <1>10 DEF PanelRestart
  <2> QED
    BY <1>0, <1>10, <2>1, <2>2 DEF PanelRestart, agent, Cur
<1>11. CASE UNCHANGED <<rd, send, aPc, aSess>>
  BY <1>11 DEF Cur
<1>12. ASSUME NEW s \in Sessions, CommandResult(s) \/ LinkFail(s) \/ WriteFail(s)
       PROVE  UNCHANGED <<rd, send, aPc, aSess>>
  BY <1>12 DEF CommandResult, LinkFail, WriteFail, agent
<1>13. ASSUME NEW v \in VPS, Push(v) \/ MarkerExpires(v) \/ Approve(v)
       PROVE  UNCHANGED <<rd, send, aPc, aSess>>
  BY <1>13 DEF Push, MarkerExpires, Approve, sockets, agent
<1>14. ASSUME NEW r \in Reqs, \/ \E s \in Sessions : CommandDone(r, s)
                              \/ \E v \in VPS : RequestStart(r, v)
                              \/ RequestRefused(r) \/ RequestAnswered(r)
                              \/ RequestTimeout(r) \/ MarkRestart(r)
       PROVE  UNCHANGED <<rd, send, aPc, aSess>>
  BY <1>14 DEF CommandDone, RequestStart, RequestRefused, RequestAnswered, RequestTimeout,
               MarkRestart, sockets, agent
<1>15. ASSUME NEW m \in Modes, SetMode(m) PROVE UNCHANGED <<rd, send, aPc, aSess>>
  BY <1>15 DEF SetMode, sockets, agent
<1> QED
  BY <1>1, <1>2, <1>3, <1>4, <1>5, <1>6, <1>7, <1>8, <1>9, <1>10, <1>11, <1>12, <1>13,
     <1>14, <1>15 DEF Next, HubStep, AgentStep, CallerStep

-----------------------------------------------------------------------------
(* The theorems.                                                           *)

\* The inductive invariant.
HubInv == TypeOK /\ Holders /\ Routes /\ Traces /\ Once /\ Accounting /\ Handshakes

\* The invariant holds when the panel and the agents start.
LEMMA HubInit == Init => HubInv
<1> SUFFICES ASSUME Init PROVE HubInv
    OBVIOUS
<1>1. SocketsOK
  BY HubAssumption, EmptyFrames DEF Init, SocketsOK, Readers
<1>2. RegistryOK
  BY DEF Init, RegistryOK, Statuses
<1>3. PowerOK /\ AgentOK /\ EnvOK
  BY HubAssumption DEF Init, PowerOK, AgentOK, EnvOK
<1>4. RequestsOK
  BY DEF Init, RequestsOK, ReqPcs
<1>5. Holders /\ Routes
  BY DEF Init, Holders, Routes, OneLiveSession, NoDeadEntry, Attached
<1>6. Traces /\ Accounting
  BY EmptyFrames DEF Init, Traces, Accounting, RequestAccounting, AnsweredRan
<1>7. Handshakes
  BY EmptyFrames DEF Init, Handshakes, UpMeansGreeted
<1>8. Once
  BY EmptyFrames DEF Init, Once
<1> QED
  BY <1>1, <1>2, <1>3, <1>4, <1>5, <1>6, <1>7, <1>8 DEF HubInv, TypeOK

\* A step that changes nothing keeps the invariant.
LEMMA HubStutter == HubInv /\ UNCHANGED vars => HubInv'
<1> SUFFICES ASSUME HubInv, UNCHANGED vars PROVE HubInv'
    OBVIOUS
<1> USE DEF HubInv, vars, sockets, registry, power, requests, agent, env
<1>1. TypeOK'
  BY DEF TypeOK, SocketsOK, RegistryOK, PowerOK, RequestsOK, AgentOK, EnvOK
<1>2. (Holders /\ Routes)'
  BY DEF Holders, Routes, OneLiveSession, NoDeadEntry
<1>3. (Traces /\ Accounting)'
  BY DEF Traces, Issued, Accounting, RequestAccounting, AnsweredRan
<1>4. Handshakes'
  BY DEF Handshakes, UpMeansGreeted, Cur
<1>5. Once'
  BY OnceKept
<1> QED
  BY <1>1, <1>2, <1>3, <1>4, <1>5

\* The inductive invariant holds in every reachable state.
THEOREM HubInvariant == Spec => []HubInv
<1>1. HubInv /\ Next => HubInv'
  BY TypeStep, RouteStep, TraceStep, OnceStep, AccountStep, HandshakeStep DEF HubInv
<1> QED
  BY HubInit, <1>1, HubStutter, PTL DEF Spec

\* Every variable keeps its type, and no send buffer outgrows its capacity.
THEOREM HubTypes == Spec => []TypeOK
BY HubInvariant, PTL DEF HubInv

\* attachSession and disconnect: the socket the hub routes to is the only
\* registered socket of its server that is not shut down.
THEOREM HubOneLiveSession == Spec => []OneLiveSession
BY HubInvariant, PTL DEF HubInv, Routes

\* disconnect: the hub never routes to a socket whose read loop has ended.
THEOREM HubNoDeadEntry == Spec => []NoDeadEntry
BY HubInvariant, PTL DEF HubInv, Routes

\* Request and handleMessage(command_result): pending entries do not leak,
\* and answers are not lost on their way to the caller.
THEOREM HubRequestAccounting == Spec => []RequestAccounting
BY HubInvariant, PTL DEF HubInv, Accounting

\* Request reports success only for a command the agent has executed.
THEOREM HubAnsweredRan == Spec => []AnsweredRan
BY HubInvariant, PTL DEF HubInv, Accounting

\* handshake: an agent is up only on a socket the panel has greeted.
THEOREM HubUpMeansGreeted == Spec => []UpMeansGreeted
BY HubInvariant, PTL DEF HubInv, Handshakes

\* attachSession, disconnect and the handshake: the hub routes a server to its
\* one live socket, and the agent is up only on a socket that was greeted.
THEOREM HubRouting == Spec => []RoutingSound
BY HubOneLiveSession, HubNoDeadEntry, HubUpMeansGreeted, PTL DEF RoutingSound

-----------------------------------------------------------------------------
(* The hub implements RequestService.                                      *)

\* Where a caller stands decides its verdict, and where the command is decides
\* its work.
LEMMA Verdicts ==
    ASSUME NEW r \in Reqs, TypeOK
    PROVE  /\ req[r].pc = "new" => Verdict(r) = "new"
           /\ req[r].pc \in {"enqueue", "wait"} => Verdict(r) = "asked"
           /\ req[r].pc = "ok" => Verdict(r) = "answered"
           /\ req[r].pc \in {"offline", "full"} => Verdict(r) = "refused"
           /\ req[r].pc = "timeout" => Verdict(r) = "gaveup"
           /\ req[r].pc = "gone" => Verdict(r) = "gone"
BY DEF Verdict

\* A command that has not begun has done no work.
LEMMA NoWork == ASSUME NEW r \in Reqs, Unbegun(r) PROVE Work(r) = "none"
BY DEF Work, Unbegun

\* A step that leaves callers and agents alone is no step of the service.
LEMMA ServiceKept ==
    ASSUME UNCHANGED <<req, jobs, ran>>
    PROVE  UNCHANGED Service!serviceVars
<1>1. \A r \in Reqs : Verdict(r)' = Verdict(r) /\ Work(r)' = Work(r)
  BY DEF Verdict, Work
<1> QED
  BY <1>1 DEF Service!serviceVars

\* A step of the caller of q changes the verdict of q only.
LEMMA CallerMoved ==
    ASSUME NEW q \in Reqs, UNCHANGED <<jobs, ran>>,
           \A r \in Reqs : r # q => req'[r] = req[r]
    PROVE  /\ [r \in Reqs |-> Verdict(r)]' = [[r \in Reqs |-> Verdict(r)] EXCEPT ![q] = Verdict(q)']
           /\ [r \in Reqs |-> Work(r)]' = [r \in Reqs |-> Work(r)]
<1>1. \A r \in Reqs : r # q => Verdict(r)' = Verdict(r)
  BY DEF Verdict
<1>2. \A r \in Reqs : Work(r)' = Work(r)
  BY DEF Work
<1> QED
  BY <1>1, <1>2

\* A step of the agent with the command of q changes the work of q only.
LEMMA WorkMoved ==
    ASSUME NEW q \in Reqs, UNCHANGED req,
           \A r \in Reqs : r # q => Work(r)' = Work(r)
    PROVE  /\ [r \in Reqs |-> Verdict(r)]' = [r \in Reqs |-> Verdict(r)]
           /\ [r \in Reqs |-> Work(r)]' = [[r \in Reqs |-> Work(r)] EXCEPT ![q] = Work(q)']
<1>1. \A r \in Reqs : Verdict(r)' = Verdict(r)
  BY DEF Verdict
<1> QED
  BY <1>1

\* At the start every request is new and no command has run.
LEMMA ServiceInit == Init => Service!Init
<1> SUFFICES ASSUME Init PROVE Service!Init
    OBVIOUS
<1>1. \A r \in Reqs : Verdict(r) = "new" /\ Work(r) = "none"
  BY DEF Init, Verdict, Work
<1> QED
  BY <1>1 DEF Service!Init

\* Every step of the hub and its agents is a step of the service or hidden
\* from it.
LEMMA ServiceStep == HubInv /\ Next => Service!Next \/ UNCHANGED Service!serviceVars
<1> SUFFICES ASSUME HubInv, Next
             PROVE  Service!Next \/ UNCHANGED Service!serviceVars
    OBVIOUS
<1>0. /\ TypeOK /\ TypeOK' /\ Holders /\ Traces /\ Once
      /\ req \in [Reqs -> [pc : ReqPcs, sess : Sessions \cup {NoSess}]]
  BY TypeStep DEF HubInv, TypeOK, RequestsOK
<1>00. \A r \in Reqs : \/ Service!Ask(r) \/ Service!Refuse(r) \/ Service!Answer(r)
                       \/ Service!GiveUp(r) \/ Service!Begin(r) \/ Service!End(r)
                       \/ Service!Leave({r})
                       => Service!Next
  BY DEF Service!Next
<1>1. ASSUME NEW q \in Reqs, NEW v \in VPS, RequestStart(q, v) PROVE Service!Next
  <2>1. /\ req[q].pc = "new" /\ UNCHANGED <<jobs, ran>>
        /\ \A r \in Reqs : r # q => req'[r] = req[r]
        /\ req'[q].pc \in {"offline", "enqueue"}
    BY <1>0, <1>1 DEF RequestStart, agent
  <2>2. Unbegun(q)
    BY <1>0, <2>1 DEF Once, Unbegun, Sent
  <2>3. Verdict(q) = "new" /\ Work(q) = "none" /\ Verdict(q)' \in {"refused", "asked"}
    BY <1>0, <2>1, <2>2, NoWork DEF Verdict
  <2>4. CASE Verdict(q)' = "refused"
    BY <1>00, <2>1, <2>3, <2>4, CallerMoved DEF Service!Refuse
  <2>5. CASE Verdict(q)' = "asked"
    BY <1>00, <2>1, <2>3, <2>5, CallerMoved DEF Service!Ask
  <2> QED
    BY <2>3, <2>4, <2>5
<1>2. ASSUME NEW q \in Reqs, RequestQueued(q) PROVE UNCHANGED Service!serviceVars
  <2>1. /\ req[q].pc = "enqueue" /\ UNCHANGED <<jobs, ran>>
        /\ \A r \in Reqs : r # q => req'[r] = req[r]
        /\ req'[q].pc = "wait"
    BY <1>0, <1>2 DEF RequestQueued, agent
  <2>2. \A r \in Reqs : Verdict(r)' = Verdict(r) /\ Work(r)' = Work(r)
    BY <2>1 DEF Verdict, Work
  <2> QED
    BY <2>2 DEF Service!serviceVars
<1>3. ASSUME NEW q \in Reqs, RequestRefused(q) PROVE Service!Refuse(q)
  <2>1. /\ req[q].pc = "enqueue" /\ UNCHANGED <<jobs, ran>>
        /\ \A r \in Reqs : r # q => req'[r] = req[r]
        /\ req'[q].pc \in {"offline", "full"}
    BY <1>0, <1>3 DEF RequestRefused, agent
  <2>2. Unbegun(q)
    BY <1>0, <2>1 DEF Once, Unbegun, Sent
  <2>3. Verdict(q) = "asked" /\ Work(q) = "none" /\ Verdict(q)' = "refused"
    BY <2>1, <2>2, NoWork DEF Verdict
  <2> QED
    BY <2>1, <2>3, CallerMoved DEF Service!Refuse
<1>4. ASSUME NEW q \in Reqs, RequestAnswered(q) PROVE Service!Answer(q)
  <2>1. /\ req[q].pc = "wait" /\ q \in box /\ UNCHANGED <<jobs, ran>>
        /\ \A r \in Reqs : r # q => req'[r] = req[r]
        /\ req'[q].pc = "ok"
    BY <1>0, <1>4 DEF RequestAnswered, agent
  <2>2. q \in ran /\ \A s \in Sessions : <<q, s>> \notin jobs
    BY <1>0, <2>1 DEF Traces, Once
  <2>3. Verdict(q) = "asked" /\ Work(q) = "ran" /\ Verdict(q)' = "answered"
    BY <2>1, <2>2 DEF Verdict, Work
  <2> QED
    BY <2>1, <2>3, CallerMoved DEF Service!Answer
<1>5. ASSUME NEW q \in Reqs, RequestTimeout(q) PROVE Service!GiveUp(q)
  <2>1. /\ req[q].pc = "wait" /\ UNCHANGED <<jobs, ran>>
        /\ \A r \in Reqs : r # q => req'[r] = req[r]
        /\ req'[q].pc = "timeout"
    BY <1>0, <1>5 DEF RequestTimeout, TimerFires, agent
  <2>2. Verdict(q) = "asked" /\ Verdict(q)' = "gaveup"
    BY <2>1 DEF Verdict
  <2> QED
    BY <2>1, <2>2, CallerMoved DEF Service!GiveUp
<1>6. ASSUME NEW q \in Reqs, MarkRestart(q) PROVE Service!Leave({q})
  <2>1. /\ req[q].pc = "ok" /\ UNCHANGED <<jobs, ran>>
        /\ \A r \in Reqs : r # q => req'[r] = req[r]
        /\ req'[q].pc = "gone"
    BY <1>0, <1>6 DEF MarkRestart, agent
  <2>2. Verdict(q) = "answered" /\ Verdict(q)' = "gone"
    BY <2>1 DEF Verdict
  <2> QED
    BY <2>1, <2>2, CallerMoved DEF Service!Leave
<1>7. CASE PanelRestart
  <2> DEFINE S == {r \in Reqs : req[r].pc \in {"enqueue", "wait", "ok"}}
  <2>1. UNCHANGED <<jobs, ran>>
        /\ \A r \in Reqs : IF r \in S THEN req'[r].pc = "gone" ELSE req'[r] = req[r]
    BY <1>0, <1>7 DEF PanelRestart, agent
  <2>2. \A r \in S : Verdict(r) \in {"asked", "answered"}
    BY DEF Verdict
  <2>3. ASSUME NEW r \in Reqs
        PROVE  Verdict(r)' = IF r \in S THEN "gone" ELSE Verdict(r)
    <3>1. CASE r \in S
      BY <2>1, <3>1 DEF Verdict
    <3>2. CASE r \notin S
      <4>1. req'[r] = req[r]
        BY <2>1, <3>2
      <4>2. Verdict(r)' = Verdict(r)
        BY <4>1 DEF Verdict
      <4> HIDE DEF S
      <4> QED
        BY <3>2, <4>2
    <3> QED
      BY <3>1, <3>2
  <2>4. \A r \in Reqs : Work(r)' = Work(r)
    BY <2>1 DEF Work
  <2>6. S \subseteq Reqs
    OBVIOUS
  <2> HIDE DEF S
  <2>5. Service!Leave(S)
    BY <2>2, <2>3, <2>4, <2>6 DEF Service!Leave
  <2> QED
    BY <2>5, <2>6 DEF Service!Next
<1>8. ASSUME NEW v \in VPS, AgentCommand(v) PROVE Service!Next
  <2>1. PICK q \in Reqs : Reads(v, <<"cmd", q>>) /\ jobs' = jobs \cup {<<q, Cur(v)>>}
    BY <1>8 DEF AgentCommand
  <2>2. Cur(v) \in Sessions /\ UNCHANGED <<req, ran>>
    BY <1>0, <1>8 DEF AgentCommand, Holders, Cur, Sessions, requests
  <2>3. In(<<"cmd", q>>, send[Cur(v)])
    BY <1>0, <2>1, <2>2, ReadsEffect DEF TypeOK
  <2>4. req[q].pc \in {"wait", "timeout"} /\ Unbegun(q)
    BY <1>0, <2>2, <2>3 DEF Once
  <2>5. Work(q) = "none" /\ Work(q)' = "running" /\ Verdict(q) \in {"asked", "gaveup"}
    BY <2>1, <2>2, <2>4, NoWork DEF Work, Verdict
  <2>6. \A r \in Reqs : r # q => Work(r)' = Work(r)
    BY <2>1, <2>2 DEF Work
  <2>7. Service!Begin(q)
    BY <2>2, <2>5, <2>6, WorkMoved DEF Service!Begin
  <2> QED
    BY <1>00, <2>7
<1>9. ASSUME NEW q \in Reqs, NEW s \in Sessions, CommandDone(q, s) PROVE Service!End(q)
  <2>1. /\ <<q, s>> \in jobs /\ jobs' = jobs \ {<<q, s>>} /\ ran' = ran \cup {q}
        /\ UNCHANGED req
    BY <1>9 DEF CommandDone, requests
  <2>2. \A t \in Sessions : <<q, t>> \in jobs => t = s
    BY <1>0, <2>1 DEF Once
  <2>3. Work(q) = "running" /\ Work(q)' = "ran"
    BY <2>1, <2>2 DEF Work
  <2>4. \A r \in Reqs : r # q => Work(r)' = Work(r)
    BY <2>1 DEF Work
  <2> QED
    BY <2>1, <2>3, <2>4, WorkMoved DEF Service!End
<1>10. CASE UNCHANGED <<req, jobs, ran>>
  BY <1>10, ServiceKept
<1>11. ASSUME NEW s \in Sessions, HubStep(s) \/ LinkFail(s) \/ WriteFail(s)
       PROVE  UNCHANGED <<req, jobs, ran>>
  BY <1>11 DEF HubStep, Register, Attach, ReadMode, Greet, ReadFrame, MergeSnapshot,
               CommandResult, Disconnect, MarkOffline, LinkFail, WriteFail, requests, agent
<1>12. ASSUME NEW v \in VPS, ~AgentCommand(v),
              AgentStep(v) \/ Push(v) \/ MarkerExpires(v) \/ Approve(v)
       PROVE  UNCHANGED <<req, jobs, ran>>
  BY <1>12 DEF AgentStep, Dial, Handshake, AgentMode, SessionEnds, Push, MarkerExpires, Approve,
               requests, agent
<1>13. ASSUME NEW m \in Modes, SetMode(m) PROVE UNCHANGED <<req, jobs, ran>>
  BY <1>13 DEF SetMode, requests, agent
<1>14. ASSUME NEW k \in 1..MaxCalls, CastMode(k) PROVE UNCHANGED <<req, jobs, ran>>
  BY <1>14 DEF CastMode, requests, agent
<1>15. ASSUME NEW r \in Reqs, CallerStep(r) \/ MarkRestart(r)
       PROVE  Service!Next \/ UNCHANGED Service!serviceVars
  BY <1>00, <1>2, <1>3, <1>4, <1>5, <1>6, <1>15 DEF CallerStep
<1>16. ASSUME NEW v \in VPS, AgentStep(v) \/ Push(v) \/ MarkerExpires(v) \/ Approve(v)
       PROVE  Service!Next \/ UNCHANGED Service!serviceVars
  <2>1. CASE AgentCommand(v)
    BY <1>8, <2>1
  <2>2. CASE ~AgentCommand(v)
    <3>1. UNCHANGED <<req, jobs, ran>>
      BY <1>12, <1>16, <2>2
    <3> QED
      BY <1>10, <3>1
  <2> QED
    BY <2>1, <2>2
<1>17. ASSUME NEW r \in Reqs, NEW s \in Sessions, CommandDone(r, s) PROVE Service!Next
  BY <1>00, <1>9, <1>17
<1> QED
  BY <1>1, <1>7, <1>10, <1>11, <1>13, <1>14, <1>15, <1>16, <1>17 DEF Next

\* Request, the read loops on both ends and runCommand implement the service:
\* a command runs at most once, a refused one never, and an answer is given only
\* for one that has run.
THEOREM HubServes == Spec => Service!Spec
<1>1. HubInv /\ UNCHANGED vars => UNCHANGED Service!serviceVars
  BY ServiceKept DEF vars, requests, agent
<1>2. HubInv /\ [Next]_vars => [Service!Next]_(Service!serviceVars)
  BY <1>1, ServiceStep
<1> QED
  BY ServiceInit, <1>2, HubInvariant, PTL DEF Spec, Service!Spec

\* Request: no entry leaks, no answer is lost, and what the callers are told of
\* their commands is what RequestService promises.
THEOREM HubRequests == Spec => RequestsSound
BY HubRequestAccounting, HubServes, PTL DEF RequestsSound
=============================================================================
