---------------------------- MODULE MembersProofs ----------------------------
(***************************************************************************)
(* For any machines, any number of servers, tokens, keys, user actions and *)
(* faults: the registry gives no tunnel address twice and keeps deleted    *)
(* servers deleted, also over crashes between its two files; and of an     *)
(* agent's change of transport, the panel keeps no key that was used and   *)
(* the agent keeps no tunnel that was not heard.                           *)
(***************************************************************************)
EXTENDS MCMembers, TLAPS

IsBool(x) == x = TRUE \/ x = FALSE

-----------------------------------------------------------------------------
(* The change of transport.                                                *)

\* Whatever holds a key holds one the panel has issued (n of them), and 0 is
\* no key.  One predicate per piece of state, so that a step is looked at for
\* the pieces it changes.
GoodConfig(c, n) ==
    /\ c \in Path!Config /\ c.key <= n
    /\ c.key = 0 => c = Path!Tailscale
    /\ c.until # "none" => c.fb = TRUE
GoodSession(s, n) == s \in Path!Session /\ s.key <= n
GoodEntry(e, n) == e \in [tr: {"ts", "wg"}, key: Path!Keys, held: BOOLEAN] /\ e.key <= n
Commands == [op: {"none", "sent", "run", "ok"}, key: Path!Keys]
GoodCommands(c, n) ==
    /\ c \in [{"migrate", "back"} -> Commands]
    /\ c["migrate"].key <= n /\ c["back"].key <= n
    /\ c["migrate"].op # "none" => c["migrate"].key # 0
GoodPanel ==
    /\ keysIssued \in Path!Keys /\ old \in Path!Keys
    /\ wgPeers \subseteq Path!Keys \ {0}
    /\ heard \subseteq Path!Keys /\ \A k \in heard : k <= keysIssued
    /\ migrate \in {"idle", "rekeyed", "installing", "push", "wait"}
    /\ migrate # "idle" => keysIssued # 0
    /\ back \in {"idle", "wait", "forget", "remove"}
GoodWorld ==
    /\ att \in {"none", "live", "stale"}
    /\ paths \in [{"ts", "wg", "panel"} -> BOOLEAN]
    /\ trOps \in 0..MaxOps /\ trFaults \in 0..MaxFaults
Typed ==
    /\ GoodConfig(cfg, keysIssued) /\ GoodConfig(disk, keysIssued) /\ GoodSession(ses, keysIssued)
    /\ GoodEntry(entry, keysIssued) /\ GoodCommands(cmd, keysIssued)
    /\ GoodPanel /\ GoodWorld

\* A key still to be pushed, or pushed and not yet switched to.
Unswitched(k) ==
    \/ migrate \in {"rekeyed", "push"} /\ k = keysIssued
    \/ cmd["migrate"].op \in {"sent", "run"} /\ k = cmd["migrate"].key

\* A switch with a fallback happens once per key: one that is still to come
\* finds no configuration on that key.
OnTrial(c, k) == c.fb = TRUE /\ c.key = k
SwitchedOnce == \A k \in Path!Keys : Unswitched(k) => ~OnTrial(cfg, k) /\ ~OnTrial(disk, k)
PushedOnce ==
    migrate \in {"rekeyed", "push"} /\ cmd["migrate"].op \in {"sent", "run"} => cmd["migrate"].key # keysIssued

\* So a trial that is over on disk is not one that still runs in memory.
NotResumed ==
    disk.fb = TRUE /\ disk.until = "none" => ~(OnTrial(cfg, disk.key) /\ cfg.until = "running")

\* And an ack that comes through a tunnel comes on a key the panel has heard.
AckHeard == ses.st \in {"ack", "up"} /\ ses.via = "wg" => ses.key \in heard

Trial == SwitchedOnce /\ PushedOnce /\ NotResumed /\ AckHeard

PathInv == Typed /\ Path!SingleUse /\ Trial

-----------------------------------------------------------------------------
(* The registry.                                                           *)

\* The type invariant in pieces.
GoodRegistry(r) == DOMAIN r \subseteq Ids /\ \A i \in DOMAIN r : r[i] \in Entry
StoreTyped ==
    /\ GoodRegistry(reg) /\ GoodRegistry(file)
    /\ peers \subseteq PeerRecord /\ \A p \in peers : HasWireGuardPeer(p.entry)
    /\ dirty \in BOOLEAN /\ writing \in BOOLEAN /\ up \in BOOLEAN
Credentials == [id: 0..MaxId, tok: 0..MaxToken, tip: 0..MaxId]
AgentsTyped == cred \in [Agents -> Credentials] /\ sess \in [Agents -> Session]
HubTyped == hub \in [Ids -> Agents \cup {NoAgent}]
Adding == [st: {"idle", "store"}, tip: 0..MaxId, id: 0..MaxId]
AddingTyped == adding \in [{"create", "migrate"} -> Adding]
QueueTyped == waiting \subseteq Agents /\ refused \subseteq Agents
IssuedTyped == ids \in 0..MaxId /\ tokens \in 0..MaxToken
HistoryTyped == owed \subseteq Agents /\ tunnelled \subseteq Agents /\ deleted \subseteq Ids
BoundsTyped == ops \in 0..MaxOps /\ faults \in 0..MaxFaults
RegTyped == StoreTyped /\ AgentsTyped /\ HubTyped /\ AddingTyped /\ QueueTyped /\ IssuedTyped
            /\ HistoryTyped /\ BoundsTyped

\* IDs in use were issued, and the one being created is not in use yet.
Present(i) == i \in DOMAIN reg \/ i \in DOMAIN file \/ \E p \in peers : p.id = i
Borne(i) == \E a \in Agents : cred[a].id = i \/ sess[a].id = i
Used(i) == Present(i) \/ i \in deleted \/ Borne(i)
Creating(i) == adding["create"].st = "store" /\ adding["create"].id = i
IdsIssued ==
    /\ \A i \in Ids : Used(i) => i <= ids /\ ~Creating(i)
    /\ adding["create"].st = "store" => adding["create"].id \in 1..ids

\* The handlers that allocate a tunnel address do so one at a time, and the
\* address they hold is free until they store it.
Allocated ==
    /\ ~(adding["create"].st = "store" /\ adding["migrate"].st = "store")
    /\ \A h \in {"create", "migrate"} :
          adding[h].st = "store" => adding[h].tip # 0 /\ FreeTip(adding[h].tip)
    /\ adding["migrate"].st = "store" => \A i \in DOMAIN reg : i = adding["migrate"].id => reg[i].tip = 0
    /\ up = FALSE => \A h \in {"create", "migrate"} : adding[h].st = "idle"

\* The peers file against the registry r it will be laid over: a record of a
\* server r has agrees with it, one of a server r has not shares no address.
Agrees(r) ==
    \A p \in peers : /\ p.id \in DOMAIN r => r[p.id].tip = p.entry.tip
                     /\ p.id \notin DOMAIN r => \A j \in DOMAIN r : r[j].tip # p.entry.tip
NoDoubles(r) == \A i, j \in DOMAIN r : r[i].tip # 0 /\ r[i].tip = r[j].tip => i = j
Within(r) == \A i \in DOMAIN r : i \in DOMAIN reg /\ reg[i].tip = r[i].tip

\* What is in the two files, at any instant, adds up to a registry without
\* doubles: the peers file is never ahead of the registry, and lags behind it
\* by one write at most.
FilesAgree ==
    /\ \A p, q \in peers : p.id = q.id \/ p.entry.tip = q.entry.tip => p = q
    /\ NoDoubles(file) /\ Agrees(file)
    /\ up = TRUE => Within(file)
    /\ up = TRUE /\ writing = FALSE =>
          \A p \in peers : p.id \in DOMAIN reg /\ reg[p.id].tip = p.entry.tip
    /\ up = TRUE /\ writing = TRUE => DOMAIN file = DOMAIN reg
    /\ up = FALSE => reg = <<>> /\ writing = FALSE

\* What was deleted without tunnel keys is in neither file.
Gone == \A i \in deleted : ~Present(i)

RegInv == RegTyped /\ IdsIssued /\ Allocated /\ TunnelUnique /\ FilesAgree /\ Gone

MembersInv == RegInv /\ PathInv


-----------------------------------------------------------------------------
(* The change of transport, proved.                                        *)

\* The pieces make up the type invariant.
LEMMA TypedGives == Typed => Path!TypeOK
BY DEF Typed, GoodConfig, GoodSession, GoodEntry, GoodCommands, Commands, GoodPanel, GoodWorld, Path!TypeOK

\* The constants of the model are of their types.
LEMMA PathConstants ==
    ASSUME NEW n \in Nat
    PROVE  /\ GoodConfig(Path!Tailscale, n) /\ GoodSession(Path!Idle, n)
           /\ Path!NoCmd \in Commands /\ Path!NoCmd.key = 0 /\ Path!NoCmd.op = "none"
           /\ 0 \in Path!Keys
BY MembersAssumption DEF GoodConfig, GoodSession, Commands, Path!Tailscale, Path!Idle, Path!NoCmd,
   Path!Config, Path!Session, Path!Keys

\* A key that is issued does not make the others wrong.
LEMMA PathGrows ==
    ASSUME NEW n \in Path!Keys, NEW m \in Path!Keys, n <= m
    PROVE  /\ \A c : GoodConfig(c, n) => GoodConfig(c, m)
           /\ \A s : GoodSession(s, n) => GoodSession(s, m)
           /\ \A c : GoodCommands(c, n) => GoodCommands(c, m)
<1> USE MembersAssumption DEF Path!Keys
<1>1. \A c : GoodConfig(c, n) => GoodConfig(c, m)
  BY DEF GoodConfig, Path!Config
<1>2. \A s : GoodSession(s, n) => GoodSession(s, m)
  BY DEF GoodSession, Path!Session
<1>3. ASSUME NEW c, GoodCommands(c, n) PROVE GoodCommands(c, m)
  <2>1. c["migrate"] \in Commands /\ c["back"] \in Commands
    BY <1>3 DEF GoodCommands
  <2>2. c["migrate"].key <= m /\ c["back"].key <= m
    BY <1>3, <2>1 DEF GoodCommands, Commands
  <2> QED
    BY <1>3, <2>2 DEF GoodCommands
<1> QED
  BY <1>1, <1>2, <1>3

\* At the start the agent is on Tailscale and no key was issued.
LEMMA PathStart == Path!Init => PathInv
<1> SUFFICES ASSUME Path!Init PROVE PathInv
    OBVIOUS
<1>1. keysIssued = 0 /\ GoodConfig(cfg, 0) /\ GoodConfig(disk, 0) /\ GoodSession(ses, 0)
  BY PathConstants DEF Path!Init
<1>2. GoodCommands(cmd, 0)
  BY PathConstants DEF Path!Init, GoodCommands
<1>3. GoodEntry(entry, 0)
  BY PathConstants DEF Path!Init, GoodEntry
<1>4. GoodPanel
  BY PathConstants DEF Path!Init, GoodPanel
<1>5. GoodWorld
  BY RegistryAssumption DEF Path!Init, GoodWorld
<1>6. Trial
  BY DEF Path!Init, Trial, SwitchedOnce, PushedOnce, NotResumed, AckHeard, OnTrial, Unswitched, Path!NoCmd,
     Path!Tailscale, Path!Idle
<1>7. Path!SingleUse
  BY DEF Path!Init, Path!SingleUse
<1>8. Typed
  BY <1>1, <1>2, <1>3, <1>4, <1>5 DEF Typed
<1> QED
  BY <1>6, <1>7, <1>8 DEF PathInv

\* agentTransport.update with a good configuration leaves good ones.
LEMMA UpdateGood ==
    ASSUME Typed, NEW c, GoodConfig(c, keysIssued), Path!Update(c)
    PROVE  GoodConfig(cfg', keysIssued) /\ GoodConfig(disk', keysIssued) /\ trFaults' \in 0..MaxFaults
BY RegistryAssumption DEF Typed, GoodWorld, Path!Update, Path!Saves, Path!SaveFails, Path!Fault

\* What is left of a session that failed.
LEMMA AfterFailureGood ==
    ASSUME Typed PROVE GoodSession(Path!AfterFailure, keysIssued)
<1>1. ses.cut \in BOOLEAN
  BY DEF Typed, GoodSession, Path!Session
<1>2. keysIssued \in Nat
  BY MembersAssumption DEF Typed, GoodPanel, Path!Keys
<1>3. GoodSession(Path!Idle, keysIssued)
  BY <1>2, PathConstants
<1>4. GoodSession([Path!Idle EXCEPT !.st = "dial", !.fb = TRUE, !.cut = ses.cut], keysIssued)
  BY <1>1, <1>3 DEF GoodSession, Path!Session
<1> QED
  BY <1>3, <1>4 DEF Path!AfterFailure

\* Lost and dropped commands.
LEMMA CommandsGood ==
    ASSUME Typed
    PROVE  /\ GoodCommands(Path!Unread, keysIssued)
           /\ GoodCommands([h \in DOMAIN cmd |-> Path!NoCmd], keysIssued)
           /\ \A h \in {"migrate", "back"} : GoodCommands([cmd EXCEPT ![h] = Path!NoCmd], keysIssued)
           /\ \A h \in {"migrate", "back"}, o \in {"run", "ok"} :
                cmd[h].op # "none" => GoodCommands([cmd EXCEPT ![h].op = o], keysIssued)
<1>1. keysIssued \in Nat
  BY MembersAssumption DEF Typed, GoodPanel, Path!Keys
<1>2. Path!NoCmd \in Commands /\ Path!NoCmd.key = 0 /\ Path!NoCmd.op = "none"
  BY <1>1, PathConstants
<1>3. DOMAIN cmd = {"migrate", "back"} /\ cmd["migrate"] \in Commands /\ cmd["back"] \in Commands
  BY DEF Typed, GoodCommands
<1>4. GoodCommands(Path!Unread, keysIssued)
  BY <1>1, <1>2, <1>3 DEF Typed, GoodCommands, Path!Unread
<1>5. GoodCommands([h \in DOMAIN cmd |-> Path!NoCmd], keysIssued)
  BY <1>1, <1>2, <1>3 DEF GoodCommands
<1>6. ASSUME NEW h \in {"migrate", "back"} PROVE GoodCommands([cmd EXCEPT ![h] = Path!NoCmd], keysIssued)
  BY <1>1, <1>2, <1>3 DEF Typed, GoodCommands
<1>7. ASSUME NEW h \in {"migrate", "back"}, NEW o \in {"run", "ok"}, cmd[h].op # "none"
      PROVE GoodCommands([cmd EXCEPT ![h].op = o], keysIssued)
  <2>1. cmd[h] \in Commands
    BY <1>3
  <2>2. [cmd[h] EXCEPT !.op = o] \in Commands /\ [cmd[h] EXCEPT !.op = o].key = cmd[h].key
    BY <2>1 DEF Commands
  <2>3. [cmd EXCEPT ![h].op = o] = [cmd EXCEPT ![h] = [cmd[h] EXCEPT !.op = o]]
    BY <1>3
  <2>4. GoodCommands([cmd EXCEPT ![h] = [cmd[h] EXCEPT !.op = o]], keysIssued)
    BY <1>7, <2>2 DEF Typed, GoodCommands
  <2> QED
    BY <2>3, <2>4
<1> QED
  BY <1>4, <1>5, <1>6, <1>7

\* Every step keeps the pieces.
LEMMA PathTyped == Typed /\ Path!Next => Typed'
<1> SUFFICES ASSUME Typed, Path!Next PROVE Typed'
    OBVIOUS
<1> DEFINE K == keysIssued
<1>a. /\ GoodConfig(cfg, K) /\ GoodConfig(disk, K) /\ GoodSession(ses, K)
      /\ GoodEntry(entry, K) /\ GoodCommands(cmd, K) /\ GoodPanel /\ GoodWorld
  BY DEF Typed
<1>k. K \in Path!Keys /\ K \in Nat /\ K <= MaxKeys /\ MaxKeys \in Nat
  BY <1>a, MembersAssumption DEF GoodPanel, Path!Keys
<1>c. GoodConfig(Path!Tailscale, K) /\ GoodSession(Path!Idle, K) /\ Path!NoCmd \in Commands /\ 0 \in Path!Keys
  BY <1>k, PathConstants
\* A step of the agent: the panel's state and the commands stay.
<1>p. ASSUME GoodConfig(cfg', K), GoodConfig(disk', K), GoodSession(ses', K), GoodCommands(cmd', K),
             GoodWorld', UNCHANGED <<entry, wgPeers, keysIssued, heard, migrate, back, old>>
      PROVE  Typed'
  <2>1. GoodPanel'
    BY <1>a, <1>p DEF GoodPanel
  <2> QED
    BY <1>a, <1>p, <2>1 DEF Typed
\* A step of the panel: the agent stays.
<1>q. ASSUME UNCHANGED <<cfg, disk, keysIssued>>, GoodSession(ses', K), GoodEntry(entry', K), GoodCommands(cmd', K),
             GoodPanel', GoodWorld'
      PROVE  Typed'
  BY <1>a, <1>q DEF Typed
<1> HIDE DEF K
<1>w. ASSUME att' \in {"none", "live", "stale"}, trFaults' \in 0..MaxFaults, UNCHANGED <<paths, trOps>>
      PROVE GoodWorld'
  BY <1>a, <1>w DEF GoodWorld
<1>u. ASSUME UNCHANGED <<att, paths, trOps, trFaults>> PROVE GoodWorld'
  BY <1>a, <1>u DEF GoodWorld
<1>o. ASSUME Path!UserActs PROVE trOps' \in 0..MaxOps
  BY <1>a, <1>o, RegistryAssumption DEF GoodWorld, Path!UserActs
<1>f. ASSUME Path!Fault PROVE trFaults' \in 0..MaxFaults
  BY <1>a, <1>f, RegistryAssumption DEF GoodWorld, Path!Fault
<1>s. att \in {"none", "live", "stale"} /\ trFaults \in 0..MaxFaults /\ trOps \in 0..MaxOps
  BY <1>a DEF GoodWorld
<1> USE DEF Path!agent, Path!panel, Path!handlers, Path!world
<1>1. CASE Path!Begin
  <2>1. GoodConfig(cfg', K) /\ GoodConfig(disk', K) /\ trFaults' \in 0..MaxFaults
    BY <1>1, <1>a, <1>c, <1>s, UpdateGood DEF Path!Begin, K
  <2>2. GoodSession(ses', K)
    <3>1. GoodSession([Path!Idle EXCEPT !.st = "dial"], K)
      BY <1>c DEF GoodSession, Path!Session
    <3> QED
      BY <1>1, <3>1 DEF Path!Begin
  <2>3. GoodWorld'
    BY <1>1, <2>1, <1>w, <1>s DEF Path!Begin
  <2> QED
    BY <1>1, <1>a, <1>p, <2>1, <2>2, <2>3 DEF Path!Begin
<1>2. CASE Path!Dial
  <2>1. GoodSession(ses', K)
    <3>1. \A via \in {"ts", "wg"}, k \in Path!Keys : k <= K =>
             GoodSession([ses EXCEPT !.st = "hello", !.via = via, !.key = k], K)
      BY <1>a DEF GoodSession, Path!Session
    <3>2. Path!Endpoint(ses.fb).via \in {"ts", "wg"} /\ Path!Endpoint(ses.fb).key \in Path!Keys
          /\ Path!Endpoint(ses.fb).key <= K
      BY <1>a, <1>c, <1>k DEF Path!Endpoint, GoodConfig, Path!Config
    <3> QED
      BY <1>2, <3>1, <3>2 DEF Path!Dial
  <2> QED
    BY <1>2, <2>1, <1>a, <1>p, <1>u DEF Path!Dial
<1>3. CASE Path!DialFails
  BY <1>3, AfterFailureGood, <1>a, <1>p, <1>u DEF Path!DialFails, K
<1>4. CASE Path!Ack
  <2>1. GoodConfig(cfg', K) /\ GoodConfig(disk', K) /\ trFaults' \in 0..MaxFaults
    <3>1. CASE Path!Confirms(ses.via = "wg" /\ ~ses.fb)
      <4>1. cfg.key # 0
        BY <3>1 DEF Path!Confirms
      <4>2. GoodConfig([cfg EXCEPT !.until = "none"], K)
        BY <1>a, <4>1 DEF GoodConfig, Path!Config
      <4>3. Path!Update([cfg EXCEPT !.until = "none"])
        BY <1>4, <3>1 DEF Path!Ack
      <4> QED
        BY <4>2, <4>3, UpdateGood DEF K
    <3>2. CASE ~Path!Confirms(ses.via = "wg" /\ ~ses.fb)
      BY <1>4, <3>2, <1>a, <1>s DEF Path!Ack
    <3> QED
      BY <3>1, <3>2
  <2>2. GoodSession(ses', K)
    <3>1. GoodSession([ses EXCEPT !.st = "up"], K)
      BY <1>a DEF GoodSession, Path!Session
    <3> QED
      BY <1>4, <3>1 DEF Path!Ack
  <2>3. GoodWorld'
    BY <1>4, <2>1, <1>w, <1>s DEF Path!Ack
  <2> QED
    BY <1>4, <1>a, <1>p, <2>1, <2>2, <2>3 DEF Path!Ack
<1>5. CASE Path!SessionEnds
  <2>1. GoodWorld'
    BY <1>5, <1>w, <1>s DEF Path!SessionEnds
  <2> QED
    BY <1>5, <2>1, AfterFailureGood, CommandsGood, <1>a, <1>p DEF Path!SessionEnds, K
<1>6. CASE Path!Register
  <2>1. GoodSession(ses', K)
    <3>1. GoodSession([ses EXCEPT !.st = "ack"], K)
      BY <1>a DEF GoodSession, Path!Session
    <3> QED
      BY <1>6, <3>1 DEF Path!Register
  <2>2. GoodEntry(entry', K)
    <3>1. GoodEntry([entry EXCEPT !.tr = "wg", !.held = FALSE], K)
      BY <1>a DEF GoodEntry
    <3> QED
      BY <1>6, <3>1, <1>a DEF Path!Register, Path!RegisterPinned
  <2>3. ses.key \in Path!Keys /\ ses.key <= K
    BY <1>a DEF GoodSession, Path!Session
  <2>4. GoodPanel'
    BY <1>6, <2>3, <1>a DEF Path!Register, GoodPanel, K
  <2>5. GoodWorld'
    BY <1>6, <1>w, <1>s DEF Path!Register
  <2> QED
    BY <1>6, <2>1, <2>2, <2>4, <2>5, <1>a, <1>q DEF Path!Register
<1>7. CASE Path!PanelDrops
  <2>1. GoodWorld'
    BY <1>7, <1>w, <1>s DEF Path!PanelDrops
  <2> QED
    BY <1>7, <2>1, <1>a, <1>p DEF Path!PanelDrops
<1>8. CASE Path!TrialTimeout
  <2>2. ASSUME NEW c, GoodConfig(c, K), c.until = "running" PROVE GoodConfig([c EXCEPT !.until = "past"], K)
    <3>1. c.key # 0 /\ c.fb = TRUE /\ c \in Path!Config
      BY <2>2 DEF GoodConfig, Path!Tailscale
    <3>2. PICK d : d = [c EXCEPT !.until = "past"]
      OBVIOUS
    <3>3. d \in Path!Config /\ d.key = c.key /\ d.fb = TRUE
      BY <3>1, <3>2 DEF Path!Config
    <3> QED
      BY <2>2, <3>1, <3>2, <3>3 DEF GoodConfig
  <2>3. GoodConfig([cfg EXCEPT !.until = "past"], K)
    BY <1>8, <1>a, <2>2 DEF Path!TrialTimeout
  <2>4. disk.until = "running" => GoodConfig([disk EXCEPT !.until = "past"], K)
    BY <1>a, <2>2
  <2> QED
    BY <1>8, <2>3, <2>4, <1>a, <1>p, <1>u DEF Path!TrialTimeout
<1>9. ASSUME NEW h \in {"migrate", "back"}, Path!Receive(h) PROVE Typed'
  BY <1>9, CommandsGood, <1>a, <1>p, <1>u DEF Path!Receive, K
<1>10. ASSUME NEW h \in {"migrate", "back"}, Path!AgentSwitch(h) PROVE Typed'
  <2> DEFINE c == IF h = "migrate" THEN Path!SwitchTo(cmd[h].key) ELSE Path!Tailscale
  <2>1. GoodConfig(c, K)
    <3>1. ASSUME h = "migrate" PROVE GoodConfig(Path!SwitchTo(cmd[h].key), K)
      <4>1. cmd["migrate"] \in Commands /\ cmd["migrate"].op = "run"
        BY <1>10, <3>1, <1>a DEF Path!AgentSwitch, GoodCommands
      <4>2. PICK k : k = cmd["migrate"].key
        OBVIOUS
      <4>3. k \in Path!Keys /\ k # 0 /\ k <= K
        BY <4>1, <4>2, <1>a DEF GoodCommands, Commands
      <4>4. GoodConfig([cfg EXCEPT !.key = k], K)
        BY <4>3, <1>a DEF GoodConfig, Path!Config
      <4>5. GoodConfig(Path!ToWireGuard(k), K)
        BY <4>3, <1>a DEF GoodConfig, Path!Config, Path!ToWireGuard
      <4> QED
        BY <3>1, <4>2, <4>4, <4>5 DEF Path!SwitchTo
    <3> QED
      BY <3>1, <1>c
  <2>2. Path!Update(c)
    BY <1>10 DEF Path!AgentSwitch, Path!Update
  <2>3. GoodConfig(cfg', K) /\ GoodConfig(disk', K) /\ trFaults' \in 0..MaxFaults
    BY <2>1, <2>2, UpdateGood DEF K
  <2>4. GoodSession(ses', K)
    <3>1. (ses.st # "idle") \in BOOLEAN
      OBVIOUS
    <3>2. GoodSession([ses EXCEPT !.cut = ses.st # "idle"], K)
      BY <3>1, <1>a DEF GoodSession, Path!Session
    <3> QED
      BY <1>10, <3>2, <1>a DEF Path!AgentSwitch, Path!Kick
  <2>5. GoodCommands(cmd', K)
    BY <1>10, CommandsGood DEF Path!AgentSwitch, K
  <2>6. GoodWorld'
    BY <1>10, <2>3, <1>w, <1>s DEF Path!AgentSwitch
  <2> QED
    BY <1>10, <2>3, <2>4, <2>5, <2>6, <1>p DEF Path!AgentSwitch
<1>11. CASE Path!Migrate \/ Path!Regenerate
  <2>1. Path!Rekey /\ Path!UserActs /\ migrate' \in {"rekeyed", "installing"}
        /\ UNCHANGED <<cfg, disk, ses, att, wgPeers, heard, back, cmd, paths, trFaults>>
    BY <1>11 DEF Path!Migrate, Path!Regenerate
  <2>2. keysIssued' = K + 1 /\ K + 1 \in Path!Keys /\ old' = entry.key
    BY <2>1, <1>k DEF Path!Rekey, Path!Keys, K
  <2>3. GoodEntry(entry', K + 1)
    <3>0. K + 1 \in Path!Keys /\ K + 1 <= K + 1
      BY <2>2, <1>k
    <3>1. ASSUME NEW m \in Path!Keys, m <= m PROVE GoodEntry([entry EXCEPT !.key = m, !.held = TRUE], m)
      BY <3>1, <1>a DEF GoodEntry
    <3>2. GoodEntry([entry EXCEPT !.key = K + 1, !.held = TRUE], K + 1)
      BY <3>0, <3>1
    <3> QED
      BY <2>1, <3>2 DEF Path!Rekey, K
  <2>4. GoodConfig(cfg', K + 1) /\ GoodConfig(disk', K + 1) /\ GoodSession(ses', K + 1)
        /\ GoodCommands(cmd', K + 1)
    BY <2>1, <2>2, <1>a, <1>k, PathGrows
  <2>5. GoodPanel'
    BY <2>1, <2>2, <1>a, <1>k DEF GoodPanel, GoodEntry, Path!Keys, K
  <2>6. GoodWorld'
    BY <2>1, <1>a, <1>o DEF GoodWorld
  <2> QED
    BY <2>2, <2>3, <2>4, <2>5, <2>6 DEF Typed
<1>12. CASE Path!SyncPeer
  <2>1. K # 0
    BY <1>12, <1>a DEF Path!SyncPeer, GoodPanel, K
  <2>2. GoodPanel'
    BY <1>12, <2>1, <1>a, <1>k DEF Path!SyncPeer, Path!SetPeer, GoodPanel, K
  <2> QED
    BY <1>12, <2>2, <1>a, <1>q, <1>u DEF Path!SyncPeer
<1>13. CASE Path!PushSwitch
  <2>1. K # 0
    BY <1>13, <1>a DEF Path!PushSwitch, GoodPanel, K
  <2>2. GoodCommands(cmd', K)
    <3>1. Path!WGJoin(K) \in Commands /\ Path!WGJoin(K).key = K
      BY <1>k DEF Path!WGJoin, Commands
    <3>2. GoodCommands([cmd EXCEPT !["migrate"] = Path!WGJoin(K)], K)
      BY <3>1, <2>1, <1>a, <1>k DEF GoodCommands
    <3> QED
      BY <1>13, <3>2, <1>a DEF Path!PushSwitch, K
  <2>3. GoodPanel'
    BY <1>13, <2>1, <1>a DEF Path!PushSwitch, GoodPanel, K
  <2> QED
    BY <1>13, <2>2, <2>3, <1>a, <1>q, <1>u DEF Path!PushSwitch
<1>14. CASE Path!PushEnds
  <2>1. GoodPanel'
    BY <1>14, <1>a DEF Path!PushEnds, GoodPanel
  <2>2. GoodCommands(cmd', K)
    BY <1>14, <1>a, CommandsGood DEF Path!PushEnds, K
  <2> QED
    BY <1>14, <2>1, <2>2, <1>a, <1>q, <1>u DEF Path!PushEnds
<1>15. CASE Path!SwitchBack
  <2>1. GoodPanel'
    BY <1>15, <1>a DEF Path!SwitchBack, GoodPanel
  <2>2. GoodCommands(cmd', K)
    <3>1. [op |-> "sent", key |-> 0] \in Commands
      BY <1>c DEF Commands
    <3>2. GoodCommands([cmd EXCEPT !["back"] = [op |-> "sent", key |-> 0]], K)
      BY <3>1, <1>a, <1>k DEF GoodCommands
    <3> QED
      BY <1>15, <3>2, <1>a DEF Path!SwitchBack
  <2>3. GoodWorld'
    BY <1>15, <1>a, <1>o DEF GoodWorld, Path!SwitchBack
  <2> QED
    BY <1>15, <2>1, <2>2, <2>3, <1>a, <1>q DEF Path!SwitchBack
<1>16. CASE Path!BackAnswered
  <2>1. GoodPanel'
    BY <1>16, <1>a DEF Path!BackAnswered, GoodPanel
  <2> QED
    BY <1>16, <2>1, CommandsGood, <1>a, <1>q, <1>u DEF Path!BackAnswered, K
<1>17. CASE Path!BackTimeout
  <2>1. GoodPanel'
    BY <1>17, <1>a DEF Path!BackTimeout, GoodPanel
  <2> QED
    BY <1>17, <2>1, <1>a, <1>q, <1>u DEF Path!BackTimeout
<1>18. CASE Path!RemovePeer
  <2>1. GoodPanel'
    BY <1>18, <1>a DEF Path!RemovePeer, GoodPanel
  <2> QED
    BY <1>18, <2>1, <1>a, <1>q, <1>u DEF Path!RemovePeer
<1>19. CASE Path!Forget
  <2>1. GoodPanel'
    BY <1>19, <1>a DEF Path!Forget, GoodPanel
  <2>2. GoodEntry(entry', K)
    BY <1>19, <1>c, <1>k DEF Path!Forget, GoodEntry
  <2> QED
    BY <1>19, <2>1, <2>2, <1>a, <1>q, <1>u DEF Path!Forget
<1>20. ASSUME NEW c, GoodConfig(c, K), Path!RunInstaller(c) PROVE Typed'
  <2>1. GoodWorld'
    BY <1>20, <1>a, <1>o DEF Path!RunInstaller, GoodWorld
  <2> QED
    BY <1>20, <2>1, CommandsGood, <1>c, <1>p DEF Path!RunInstaller, K
<1>21. CASE Path!Install
  <2>1. GoodConfig([key |-> entry.key, fb |-> FALSE, until |-> "none"], K)
    BY <1>21, <1>a DEF Path!Install, Path!JoinFor, GoodConfig, Path!Config, GoodEntry
  <2> QED
    BY <1>21, <2>1, <1>20 DEF Path!Install
<1>22. CASE Path!Reinstall
  BY <1>22, <1>20, <1>c DEF Path!Reinstall
<1>23. ASSUME NEW p \in {"ts", "wg"}, Path!PathFails(p) \/ Path!PathReturns(p) PROVE Typed'
  <2>1. paths' = [paths EXCEPT ![p] = FALSE] \/ paths' = [paths EXCEPT ![p] = TRUE]
    BY <1>23 DEF Path!PathFails, Path!PathReturns
  <2>2. trFaults' \in 0..MaxFaults /\ trOps' = trOps /\ att' = att
    BY <1>23, <1>f, <1>s DEF Path!PathFails, Path!PathReturns
  <2>3. GoodWorld'
    BY <2>1, <2>2, <1>a DEF GoodWorld
  <2> QED
    BY <1>23, <2>3, <1>a, <1>p DEF Path!PathFails, Path!PathReturns
<1>24. CASE Path!AgentRestarts
  <2>1. GoodWorld'
    BY <1>24, <1>w, <1>s, <1>f DEF Path!AgentRestarts
  <2> QED
    BY <1>24, <2>1, CommandsGood, <1>a, <1>c, <1>p DEF Path!AgentRestarts, K
<1>25. CASE Path!PanelCloses
  <2>1. GoodPanel'
    BY <1>25, <1>a DEF Path!PanelCloses, GoodPanel
  <2>2. GoodWorld'
    <3>1. [paths EXCEPT !.panel = FALSE] \in [{"ts", "wg", "panel"} -> BOOLEAN]
      BY <1>a DEF GoodWorld
    <3> QED
      BY <1>25, <3>1, <1>a, <1>f DEF Path!PanelCloses, GoodWorld
  <2>3. GoodSession(ses', K)
    <3>1. (ses.st \in {"hello", "ack", "up"}) \in BOOLEAN
      OBVIOUS
    <3>2. GoodSession([ses EXCEPT !.gone = ses.st \in {"hello", "ack", "up"}], K)
      BY <3>1, <1>a DEF GoodSession, Path!Session
    <3> QED
      BY <1>25, <3>2 DEF Path!PanelCloses
  <2> QED
    BY <1>25, <2>1, <2>2, <2>3, CommandsGood, <1>a, <1>q DEF Path!PanelCloses, K
<1>26. CASE Path!PanelOpens
  <2>1. GoodPanel'
    <3>1. entry.key \in Path!Keys
      BY <1>a DEF GoodEntry
    <3> QED
      BY <1>26, <3>1, <1>a DEF Path!PanelOpens, GoodPanel
  <2>2. GoodWorld'
    <3>1. [paths EXCEPT !.panel = TRUE] \in [{"ts", "wg", "panel"} -> BOOLEAN]
      BY <1>a DEF GoodWorld
    <3> QED
      BY <1>26, <3>1, <1>a DEF Path!PanelOpens, GoodWorld
  <2> QED
    BY <1>26, <2>1, <2>2, <1>a, <1>q DEF Path!PanelOpens
<1> QED
  BY <1>1, <1>2, <1>3, <1>4, <1>5, <1>6, <1>7, <1>8, <1>9, <1>10, <1>11, <1>12, <1>13, <1>14, <1>15, <1>16,
     <1>17, <1>18, <1>19, <1>21, <1>22, <1>23, <1>24, <1>25, <1>26, Zenon
     DEF Path!Next, Path!AgentStep, Path!PanelStep, Path!User, Path!World

\* A key that was used is not held: the only step that holds one issues it.
LEMMA PathSingleUse == PathInv /\ Path!Next => Path!SingleUse'
<1> SUFFICES ASSUME PathInv, Path!Next PROVE Path!SingleUse'
    OBVIOUS
<1>a. Typed /\ Path!SingleUse
  BY DEF PathInv
<1>1. CASE UNCHANGED <<entry, heard>>
  BY <1>1, <1>a DEF Path!SingleUse
<1>2. CASE Path!Rekey /\ UNCHANGED heard
  <2>1. entry \in [tr: {"ts", "wg"}, key: Path!Keys, held: BOOLEAN]
    BY <1>a DEF Typed, GoodEntry
  <2>2. entry'.key = keysIssued + 1
    BY <1>2, <2>1 DEF Path!Rekey
  <2>3. keysIssued \in Nat /\ \A k \in heard : k <= keysIssued
    BY <1>a, MembersAssumption DEF Typed, GoodPanel, Path!Keys
  <2>4. keysIssued + 1 \notin heard
    BY <2>3
  <2> QED
    BY <1>2, <2>2, <2>4 DEF Path!SingleUse
<1>3. CASE Path!Register
  <2>1. CASE ses.via = "wg"
    <3>1. entry' = [entry EXCEPT !.tr = "wg", !.held = FALSE]
      BY <1>3, <2>1 DEF Path!Register, Path!RegisterPinned
    <3>2. entry'.held = FALSE
      BY <3>1, <1>a DEF Typed, GoodEntry
    <3> QED
      BY <3>2 DEF Path!SingleUse
  <2>2. CASE ses.via # "wg"
    BY <1>1, <1>3, <2>2 DEF Path!Register
  <2> QED
    BY <2>1, <2>2
<1>4. CASE Path!Forget
  <2>1. entry'.held = FALSE
    BY <1>4 DEF Path!Forget
  <2> QED
    BY <2>1 DEF Path!SingleUse
<1>5. UNCHANGED <<entry, heard>> \/ (Path!Rekey /\ UNCHANGED heard) \/ Path!Register \/ Path!Forget
  BY DEF Path!Next, Path!AgentStep, Path!PanelStep, Path!User, Path!World, Path!panel, Path!Begin, Path!Dial,
     Path!DialFails, Path!Ack, Path!SessionEnds, Path!PanelDrops, Path!SyncPeer, Path!PushSwitch, Path!PushEnds,
     Path!BackAnswered, Path!BackTimeout, Path!RemovePeer, Path!Migrate, Path!Regenerate, Path!SwitchBack,
     Path!Install, Path!Reinstall, Path!RunInstaller, Path!PathFails, Path!PathReturns, Path!AgentRestarts,
     Path!PanelCloses, Path!PanelOpens, Path!TrialTimeout, Path!Receive, Path!AgentSwitch
<1> QED
  BY <1>1, <1>2, <1>3, <1>4, <1>5

\* By which steps the agent's configuration changes, in memory and on disk.
LEMMA ConfigMoves ==
    ASSUME Path!Next
    PROVE  \/ UNCHANGED <<cfg, disk>>
           \/ Path!Update(Path!Tailscale)
           \/ Path!Ack /\ Path!Confirms(ses.via = "wg" /\ ~ses.fb)
           \/ Path!AgentSwitch("migrate")
           \/ Path!TrialTimeout
           \/ cfg' = disk' /\ cfg'.fb = FALSE
           \/ Path!AgentRestarts
<1>1. ASSUME NEW h \in {"migrate", "back"}, Path!AgentSwitch(h)
      PROVE Path!AgentSwitch("migrate") \/ Path!Update(Path!Tailscale)
  <2>1. CASE h = "migrate"
    BY <1>1, <2>1
  <2>2. CASE h = "back"
    BY <1>1, <2>2 DEF Path!AgentSwitch, Path!Update
  <2> QED
    BY <2>1, <2>2
<1>2. CASE Path!Install \/ Path!Reinstall
  <2>1. CASE Path!Install
    <3>1. cfg' = disk' /\ cfg' = [key |-> entry.key, fb |-> FALSE, until |-> "none"]
      BY <2>1 DEF Path!Install, Path!RunInstaller
    <3>2. cfg'.fb = FALSE
      BY <3>1
    <3> QED
      BY <3>1, <3>2
  <2>2. CASE Path!Reinstall
    <3>1. cfg' = disk' /\ cfg' = Path!Tailscale
      BY <2>2 DEF Path!Reinstall, Path!RunInstaller
    <3>2. cfg'.fb = FALSE
      BY <3>1 DEF Path!Tailscale
    <3> QED
      BY <3>1, <3>2
  <2> QED
    BY <1>2, <2>1, <2>2
<1>3. CASE Path!Begin
  BY <1>3 DEF Path!Begin
<1>4. CASE Path!Ack
  BY <1>4 DEF Path!Ack
<1>5. UNCHANGED <<cfg, disk>> \/ Path!Begin \/ Path!Ack \/ Path!TrialTimeout \/ Path!Install \/ Path!Reinstall
      \/ Path!AgentRestarts \/ \E h \in {"migrate", "back"} : Path!AgentSwitch(h)
  BY DEF Path!Next, Path!AgentStep, Path!PanelStep, Path!User, Path!World, Path!agent, Path!Dial,
     Path!DialFails, Path!SessionEnds, Path!PanelDrops, Path!Register, Path!SyncPeer, Path!PushSwitch,
     Path!PushEnds, Path!BackAnswered, Path!BackTimeout, Path!RemovePeer, Path!Forget, Path!Migrate,
     Path!Regenerate, Path!SwitchBack, Path!PathFails, Path!PathReturns, Path!PanelCloses, Path!PanelOpens,
     Path!Receive
<1> QED
  BY <1>1, <1>2, <1>3, <1>4, <1>5

\* What a switch to the tunnel leaves in memory: the key that was pushed, on
\* trial or not.
LEMMA SwitchLeaves ==
    ASSUME Typed, Path!AgentSwitch("migrate")
    PROVE  /\ cfg'.key = cmd["migrate"].key /\ cfg'.fb \in BOOLEAN
           /\ cmd["migrate"].op = "run" /\ cmd'["migrate"].op \notin {"sent", "run"}
           /\ UNCHANGED <<migrate, keysIssued>>
           /\ disk' = cfg' \/ disk' = disk
           /\ cfg'.fb = TRUE => cfg.key = 0 \/ cfg.fb = TRUE
           /\ cfg.until = "running" => cfg'.until = "running"
<1>0. cfg \in Path!Config /\ GoodCommands(cmd, keysIssued) /\ (cfg.key = 0 => cfg = Path!Tailscale)
  BY DEF Typed, GoodConfig
<1>1. cfg' = Path!SwitchTo(cmd["migrate"].key) /\ (disk' = cfg' \/ disk' = disk)
  BY DEF Path!AgentSwitch, Path!Saves, Path!SaveFails
<1>2. cmd["migrate"].op = "run" /\ UNCHANGED <<migrate, keysIssued>>
  BY DEF Path!AgentSwitch, Path!panel
<1>3. cmd'["migrate"].op \notin {"sent", "run"}
  <2>1. DOMAIN cmd = {"migrate", "back"} /\ cmd["migrate"] \in Commands
    BY <1>0 DEF GoodCommands
  <2>2. CASE cmd' = [cmd EXCEPT !["migrate"].op = "ok"]
    BY <2>1, <2>2 DEF Commands
  <2>3. CASE cmd' = [cmd EXCEPT !["migrate"] = Path!NoCmd]
    BY <2>1, <2>3 DEF Path!NoCmd
  <2> QED
    BY <2>2, <2>3 DEF Path!AgentSwitch
<1>4. PICK k : k = cmd["migrate"].key
  OBVIOUS
<1>5. CASE cfg.key # 0 /\ ~cfg.fb
  <2>1. cfg' = [cfg EXCEPT !.key = k]
    BY <1>1, <1>4, <1>5 DEF Path!SwitchTo
  <2>2. cfg'.key = k /\ cfg'.fb = cfg.fb /\ cfg'.until = cfg.until
    BY <2>1, <1>0 DEF Path!Config
  <2>3. cfg'.fb = FALSE
    BY <2>2, <1>5, <1>0 DEF Path!Config
  <2> QED
    BY <1>1, <1>2, <1>3, <1>4, <2>2, <2>3
<1>6. CASE ~(cfg.key # 0 /\ ~cfg.fb)
  <2>1. cfg' = Path!ToWireGuard(k)
    BY <1>1, <1>4, <1>6 DEF Path!SwitchTo
  <2>2. cfg.key = 0 \/ cfg.fb = TRUE
    BY <1>6, <1>0 DEF Path!Config
  <2>3. cfg'.key = k /\ cfg'.fb = TRUE
    BY <2>1 DEF Path!ToWireGuard
  <2>4. cfg.until = "running" => cfg'.until = "running"
    BY <2>1 DEF Path!ToWireGuard
  <2> QED
    BY <1>1, <1>2, <1>3, <1>4, <2>2, <2>3, <2>4
<1> QED
  BY <1>5, <1>6

\* No step but a fresh key adds to what is still to be switched to.
LEMMA UnswitchedMoves ==
    ASSUME Typed, PushedOnce, Path!Next
    PROVE  /\ \A k \in Path!Keys :
                Unswitched(k)' => Unswitched(k) \/ (k = keysIssued + 1 /\ UNCHANGED <<cfg, disk>>)
           /\ PushedOnce'
<1> DEFINE Pushing == migrate \in {"rekeyed", "push"}
           Coming == cmd["migrate"].op \in {"sent", "run"}
           Goal == /\ \A k \in Path!Keys :
                        Unswitched(k)' => Unswitched(k) \/ (k = keysIssued + 1 /\ UNCHANGED <<cfg, disk>>)
                   /\ PushedOnce'
<1> SUFFICES Goal
    OBVIOUS
<1>0. /\ DOMAIN cmd = {"migrate", "back"} /\ cmd["migrate"] \in Commands
      /\ cmd["migrate"].key <= keysIssued /\ keysIssued \in Nat /\ cmd["migrate"].key \in Nat
  BY MembersAssumption DEF Typed, GoodCommands, Commands, GoodPanel, Path!Keys
\* The handler stays or ends, and the command stays, is read or goes.
<1>f. ASSUME keysIssued' = keysIssued, Pushing' => Pushing,
             Coming' => Coming /\ cmd'["migrate"].key = cmd["migrate"].key
      PROVE Goal
  <2>1. ASSUME NEW k \in Path!Keys, Unswitched(k)' PROVE Unswitched(k)
    BY <1>f, <2>1 DEF Unswitched
  <2>2. PushedOnce'
    BY <1>f DEF PushedOnce
  <2> QED
    BY <2>1, <2>2
<1>c. ASSUME UNCHANGED cmd \/ cmd' = Path!Unread \/ cmd' = [h \in DOMAIN cmd |-> Path!NoCmd]
             \/ (\E h \in {"migrate", "back"} : cmd' = [cmd EXCEPT ![h] = Path!NoCmd])
             \/ (\E e : cmd' = [cmd EXCEPT !["back"] = e])
      PROVE Coming' => Coming /\ cmd'["migrate"].key = cmd["migrate"].key
  BY <1>0, <1>c DEF Path!Unread, Path!NoCmd
<1>1. CASE Path!Migrate \/ Path!Regenerate
  <2>1. keysIssued' = keysIssued + 1 /\ UNCHANGED <<cfg, disk, cmd>>
    BY <1>1 DEF Path!Migrate, Path!Regenerate, Path!Rekey, Path!agent
  <2>2. ASSUME NEW k \in Path!Keys, Unswitched(k)'
        PROVE Unswitched(k) \/ (k = keysIssued + 1 /\ UNCHANGED <<cfg, disk>>)
    BY <2>1, <2>2 DEF Unswitched
  <2>3. PushedOnce'
    BY <2>1, <1>0 DEF PushedOnce
  <2> QED
    BY <2>2, <2>3
<1>2. CASE Path!SyncPeer
  <2>1. Pushing' => Pushing
    BY <1>2 DEF Path!SyncPeer
  <2> QED
    BY <1>2, <2>1, <1>f DEF Path!SyncPeer
<1>3. CASE Path!PushSwitch
  <2>1. keysIssued' = keysIssued /\ ~Pushing' /\ Pushing
    BY <1>3 DEF Path!PushSwitch, Path!panel
  <2>2. UNCHANGED cmd \/ cmd' = [cmd EXCEPT !["migrate"] = Path!WGJoin(keysIssued)]
    BY <1>3 DEF Path!PushSwitch
  <2>3. CASE UNCHANGED cmd
    BY <2>1, <2>3, <1>f
  <2>4. CASE cmd' = [cmd EXCEPT !["migrate"] = Path!WGJoin(keysIssued)]
    <3>1. cmd'["migrate"].key = keysIssued
      BY <2>4, <1>0 DEF Path!WGJoin
    <3>2. ASSUME NEW k \in Path!Keys, Unswitched(k)' PROVE Unswitched(k)
      BY <3>1, <3>2, <2>1 DEF Unswitched
    <3>3. PushedOnce'
      BY <2>1 DEF PushedOnce
    <3> QED
      BY <3>2, <3>3
  <2> QED
    BY <2>2, <2>3, <2>4
<1>4. ASSUME NEW h \in {"migrate", "back"}, Path!Receive(h) PROVE Goal
  <2>1. UNCHANGED <<keysIssued, migrate>> /\ cmd' = [cmd EXCEPT ![h].op = "run"] /\ cmd[h].op = "sent"
    BY <1>4 DEF Path!Receive, Path!panel
  <2>2. Coming' => Coming /\ cmd'["migrate"].key = cmd["migrate"].key
    <3>1. CASE h = "migrate"
      BY <2>1, <3>1, <1>0 DEF Commands
    <3>2. CASE h = "back"
      BY <2>1, <3>2, <1>0
    <3> QED
      BY <3>1, <3>2
  <2> QED
    BY <2>1, <2>2, <1>f
<1>5. ASSUME NEW h \in {"migrate", "back"}, Path!AgentSwitch(h) PROVE Goal
  <2>1. CASE h = "migrate"
    BY <1>5, <2>1, SwitchLeaves, <1>f
  <2>2. CASE h = "back"
    <3>1. UNCHANGED <<keysIssued, migrate>>
      BY <1>5 DEF Path!AgentSwitch, Path!panel
    <3>2. CASE cmd' = [cmd EXCEPT ![h].op = "ok"]
      BY <3>1, <3>2, <2>2, <1>0, <1>f
    <3>3. CASE cmd' = [cmd EXCEPT ![h] = Path!NoCmd]
      BY <3>1, <3>3, <2>2, <1>0, <1>f
    <3> QED
      BY <1>5, <3>2, <3>3 DEF Path!AgentSwitch
  <2> QED
    BY <2>1, <2>2
<1>6. CASE Path!PushEnds
  BY <1>6, <1>c, <1>f DEF Path!PushEnds, Path!panel
<1>7. CASE Path!SwitchBack
  BY <1>7, <1>c, <1>f DEF Path!SwitchBack, Path!panel
<1>8. CASE Path!BackAnswered
  BY <1>8, <1>c, <1>f DEF Path!BackAnswered, Path!panel
<1>9. CASE Path!PanelCloses
  BY <1>9, <1>c, <1>f DEF Path!PanelCloses
<1>10. CASE Path!SessionEnds \/ Path!AgentRestarts
  BY <1>10, <1>c, <1>f DEF Path!SessionEnds, Path!AgentRestarts, Path!panel
<1>11. CASE Path!Install \/ Path!Reinstall
  BY <1>11, <1>c, <1>f DEF Path!Install, Path!Reinstall, Path!RunInstaller, Path!panel
<1>12. CASE UNCHANGED <<cmd, migrate, keysIssued>>
  BY <1>12, <1>f
<1>13. CASE Path!Begin \/ Path!Dial \/ Path!DialFails \/ Path!Ack \/ Path!Register \/ Path!PanelDrops
            \/ Path!BackTimeout \/ Path!RemovePeer \/ Path!Forget \/ Path!TrialTimeout
            \/ Path!PanelOpens \/ \E p \in {"ts", "wg"} : Path!PathFails(p) \/ Path!PathReturns(p)
  <2>1. UNCHANGED <<cmd, migrate, keysIssued>>
    BY <1>13 DEF Path!Begin, Path!Dial, Path!DialFails, Path!Ack, Path!Register, Path!PanelDrops,
       Path!BackTimeout, Path!RemovePeer, Path!Forget, Path!TrialTimeout,
       Path!PanelOpens, Path!PathFails, Path!PathReturns, Path!panel, Path!handlers
  <2> QED
    BY <2>1, <1>12
<1> HIDE DEF Goal
<1> QED
  BY <1>1, <1>2, <1>3, <1>4, <1>5, <1>6, <1>7, <1>8, <1>9, <1>10, <1>11, <1>13, Zenon
     DEF Path!Next, Path!AgentStep, Path!PanelStep, Path!User, Path!World

\* A trial is switched to once, also through failed saves and restarts.
LEMMA PathSwitchedOnce == PathInv /\ Path!Next => SwitchedOnce' /\ NotResumed'
<1> SUFFICES ASSUME PathInv, Path!Next PROVE SwitchedOnce' /\ NotResumed'
    OBVIOUS
<1>a. Typed /\ SwitchedOnce /\ PushedOnce /\ NotResumed
  BY DEF PathInv, Trial
<1>b. cfg \in Path!Config /\ disk \in Path!Config /\ cfg.key <= keysIssued /\ disk.key <= keysIssued
  BY <1>a DEF Typed, GoodConfig
<1>k. keysIssued \in Nat /\ cfg.key \in Nat /\ disk.key \in Nat /\ keysIssued \in Path!Keys
  BY <1>a, <1>b, MembersAssumption DEF Typed, GoodPanel, Path!Keys, Path!Config
\* A configuration with a fallback is one of those there were before.
<1>f. ASSUME \A k \in Path!Keys : OnTrial(cfg, k)' \/ OnTrial(disk, k)' => OnTrial(cfg, k) \/ OnTrial(disk, k)
      PROVE SwitchedOnce'
  <2>1. ASSUME NEW k \in Path!Keys, Unswitched(k)', OnTrial(cfg, k)' \/ OnTrial(disk, k)' PROVE FALSE
    <3>1. OnTrial(cfg, k) \/ OnTrial(disk, k)
      BY <2>1, <1>f
    <3>2. k <= keysIssued
      BY <3>1, <1>b DEF OnTrial
    <3>3. k # keysIssued + 1
      BY <3>2, <1>k
    <3>4. Unswitched(k)
      BY <2>1, <3>3, <1>a, UnswitchedMoves
    <3> QED
      BY <3>1, <3>4, <1>a DEF SwitchedOnce
  <2> QED
    BY <2>1 DEF SwitchedOnce
<1>1. CASE UNCHANGED <<cfg, disk>>
  <2>1. \A k \in Path!Keys : OnTrial(cfg, k)' \/ OnTrial(disk, k)' => OnTrial(cfg, k) \/ OnTrial(disk, k)
    BY <1>1 DEF OnTrial
  <2>2. NotResumed'
    BY <1>1, <1>a DEF NotResumed, OnTrial
  <2> QED
    BY <2>1, <2>2, <1>f
<1>2. CASE Path!Update(Path!Tailscale)
  <2>1. cfg'.fb = FALSE /\ (disk' = cfg' \/ disk' = disk)
    <3>1. cfg' = Path!Tailscale /\ (disk' = cfg' \/ disk' = disk)
      BY <1>2 DEF Path!Update, Path!Saves, Path!SaveFails
    <3> QED
      BY <3>1 DEF Path!Tailscale
  <2>2. \A k \in Path!Keys : OnTrial(cfg, k)' \/ OnTrial(disk, k)' => OnTrial(cfg, k) \/ OnTrial(disk, k)
    BY <2>1 DEF OnTrial
  <2>3. NotResumed'
    BY <2>1 DEF NotResumed, OnTrial
  <2> QED
    BY <2>2, <2>3, <1>f
<1>3. CASE Path!Ack /\ Path!Confirms(ses.via = "wg" /\ ~ses.fb)
  <2>1. cfg' = [cfg EXCEPT !.until = "none"] /\ (disk' = cfg' \/ disk' = disk)
    BY <1>3 DEF Path!Ack, Path!Update, Path!Saves, Path!SaveFails
  <2>2. cfg'.key = cfg.key /\ cfg'.fb = cfg.fb /\ cfg'.until = "none"
    BY <2>1, <1>b DEF Path!Config
  <2>3. \A k \in Path!Keys : OnTrial(cfg, k)' \/ OnTrial(disk, k)' => OnTrial(cfg, k) \/ OnTrial(disk, k)
    BY <2>1, <2>2 DEF OnTrial
  <2>4. NotResumed'
    BY <2>2 DEF NotResumed
  <2> QED
    BY <2>3, <2>4, <1>f
<1>4. CASE Path!AgentSwitch("migrate")
  <2>1. /\ cfg'.key = cmd["migrate"].key /\ cmd["migrate"].op = "run"
        /\ cmd'["migrate"].op \notin {"sent", "run"}
        /\ UNCHANGED <<migrate, keysIssued>> /\ (disk' = cfg' \/ disk' = disk)
    BY <1>4, <1>a, SwitchLeaves
  <2>2. cmd["migrate"].key \in Path!Keys /\ Unswitched(cmd["migrate"].key)
    BY <2>1, <1>a DEF Typed, GoodCommands, Commands, Unswitched
  <2>3. SwitchedOnce'
    <3>1. ASSUME NEW k \in Path!Keys, Unswitched(k)' PROVE ~OnTrial(cfg, k)' /\ ~OnTrial(disk, k)'
      <4>1. migrate \in {"rekeyed", "push"} /\ k = keysIssued
        BY <3>1, <2>1 DEF Unswitched
      <4>2. cmd["migrate"].key # k
        BY <4>1, <2>1, <1>a DEF PushedOnce
      <4>3. ~OnTrial(disk, k)
        BY <4>1, <1>a DEF SwitchedOnce, Unswitched
      <4> QED
        BY <4>2, <4>3, <2>1 DEF OnTrial
    <3> QED
      BY <3>1 DEF SwitchedOnce
  <2>4. NotResumed'
    <3>1. CASE disk' = cfg'
      BY <3>1 DEF NotResumed
    <3>2. CASE disk' = disk
      <4>1. ~OnTrial(disk, cmd["migrate"].key)
        BY <2>2, <1>a DEF SwitchedOnce
      <4> QED
        BY <4>1, <3>2, <2>1 DEF NotResumed, OnTrial
    <3> QED
      BY <3>1, <3>2, <2>1
  <2> QED
    BY <2>3, <2>4
<1>5. CASE Path!TrialTimeout
  <2>1. cfg' = [cfg EXCEPT !.until = "past"] /\ (disk' = disk \/ disk' = [disk EXCEPT !.until = "past"])
    BY <1>5 DEF Path!TrialTimeout
  <2>2. /\ cfg'.key = cfg.key /\ cfg'.fb = cfg.fb /\ cfg'.until = "past"
        /\ disk'.key = disk.key /\ disk'.fb = disk.fb
    BY <2>1, <1>b DEF Path!Config
  <2>3. \A k \in Path!Keys : OnTrial(cfg, k)' \/ OnTrial(disk, k)' => OnTrial(cfg, k) \/ OnTrial(disk, k)
    BY <2>2 DEF OnTrial
  <2>4. NotResumed'
    BY <2>2 DEF NotResumed
  <2> QED
    BY <2>3, <2>4, <1>f
<1>6. CASE cfg' = disk' /\ cfg'.fb = FALSE
  <2>1. \A k \in Path!Keys : OnTrial(cfg, k)' \/ OnTrial(disk, k)' => OnTrial(cfg, k) \/ OnTrial(disk, k)
    BY <1>6 DEF OnTrial
  <2>2. NotResumed'
    BY <1>6 DEF NotResumed, OnTrial
  <2> QED
    BY <2>1, <2>2, <1>f
<1>7. CASE Path!AgentRestarts
  <2>0. cfg' = disk /\ disk' = disk
    BY <1>7 DEF Path!AgentRestarts
  <2>1. \A k \in Path!Keys : OnTrial(cfg, k)' \/ OnTrial(disk, k)' => OnTrial(cfg, k) \/ OnTrial(disk, k)
    BY <2>0 DEF OnTrial
  <2>2. NotResumed'
    <3>1. disk'.until = cfg'.until
      BY <2>0
    <3> QED
      BY <3>1 DEF NotResumed
  <2> QED
    BY <2>1, <2>2, <1>f
<1> QED
  BY <1>1, <1>2, <1>3, <1>4, <1>5, <1>6, <1>7, ConfigMoves

\* A session waits for its ack only when the panel has registered it.
LEMMA PathAckHeard == PathInv /\ Path!Next => AckHeard'
<1> SUFFICES ASSUME PathInv, Path!Next PROVE AckHeard'
    OBVIOUS
<1>a. AckHeard /\ ses \in Path!Session
  BY DEF PathInv, Trial, Typed, GoodSession
<1>i. Path!Idle.st = "idle" /\ [Path!Idle EXCEPT !.st = "dial"].st = "dial"
      /\ \A b : [Path!Idle EXCEPT !.st = "dial", !.fb = TRUE, !.cut = b].st = "dial"
  BY DEF Path!Idle
\* A session that has not got so far.
<1>n. ASSUME ses'.st \notin {"ack", "up"} PROVE AckHeard'
  BY <1>n DEF AckHeard
\* A session that is where it was.
<1>s. ASSUME ses'.st = ses.st, ses'.via = ses.via, ses'.key = ses.key, heard \subseteq heard' PROVE AckHeard'
  BY <1>s, <1>a DEF AckHeard
<1>f. Path!AfterFailure.st \notin {"ack", "up"}
  BY <1>i DEF Path!AfterFailure
<1>1. CASE UNCHANGED <<ses, heard>>
  BY <1>1, <1>s
<1>2. CASE Path!Begin
  BY <1>2, <1>i, <1>n DEF Path!Begin
<1>3. CASE Path!Dial
  <2>1. \A v, k : [ses EXCEPT !.st = "hello", !.via = v, !.key = k].st = "hello"
    BY <1>a DEF Path!Session
  <2>2. ses'.st = "hello"
    BY <1>3, <2>1 DEF Path!Dial
  <2> QED
    BY <2>2, <1>n
<1>4. CASE Path!DialFails \/ Path!SessionEnds
  BY <1>4, <1>f, <1>n DEF Path!DialFails, Path!SessionEnds
<1>5. CASE Path!Ack
  <2>1. ses' = [ses EXCEPT !.st = "up"] /\ ses.st = "ack" /\ UNCHANGED heard
    BY <1>5 DEF Path!Ack, Path!panel
  <2>2. ses'.via = ses.via /\ ses'.key = ses.key
    BY <2>1, <1>a DEF Path!Session
  <2> QED
    BY <2>1, <2>2, <1>a DEF AckHeard
<1>6. CASE Path!Register
  <2>1. ses' = [ses EXCEPT !.st = "ack"] /\ (ses.via = "wg" => heard' = heard \cup {ses.key})
    BY <1>6 DEF Path!Register
  <2>2. ses'.via = ses.via /\ ses'.key = ses.key
    BY <2>1, <1>a DEF Path!Session
  <2> QED
    BY <2>1, <2>2 DEF AckHeard
<1>7. ASSUME NEW h \in {"migrate", "back"}, Path!AgentSwitch(h) PROVE AckHeard'
  <2>1. UNCHANGED heard /\ (UNCHANGED ses \/ ses' = [ses EXCEPT !.cut = ses.st # "idle"])
    BY <1>7 DEF Path!AgentSwitch, Path!Kick, Path!panel
  <2>2. CASE ses' = [ses EXCEPT !.cut = ses.st # "idle"]
    <3>1. ses'.st = ses.st /\ ses'.via = ses.via /\ ses'.key = ses.key
      BY <2>2, <1>a DEF Path!Session
    <3> QED
      BY <3>1, <2>1, <1>s
  <2> QED
    BY <2>1, <2>2, <1>1
<1>8. CASE Path!Install \/ Path!Reinstall \/ Path!AgentRestarts
  <2>1. ses' = Path!Idle
    BY <1>8 DEF Path!Install, Path!Reinstall, Path!RunInstaller, Path!AgentRestarts
  <2> QED
    BY <2>1, <1>i, <1>n
<1>9. CASE Path!PanelCloses
  <2>1. ses' = [ses EXCEPT !.gone = ses.st \in {"hello", "ack", "up"}] /\ UNCHANGED heard
    BY <1>9 DEF Path!PanelCloses
  <2>2. ses'.st = ses.st /\ ses'.via = ses.via /\ ses'.key = ses.key
    BY <2>1, <1>a DEF Path!Session
  <2> QED
    BY <2>1, <2>2, <1>s
<1>10. UNCHANGED <<ses, heard>> \/ Path!Begin \/ Path!Dial \/ Path!DialFails \/ Path!SessionEnds \/ Path!Ack
       \/ Path!Register \/ Path!Install \/ Path!Reinstall \/ Path!AgentRestarts \/ Path!PanelCloses
       \/ \E h \in {"migrate", "back"} : Path!AgentSwitch(h)
  BY DEF Path!Next, Path!AgentStep, Path!PanelStep, Path!User, Path!World, Path!agent, Path!panel,
     Path!PanelDrops, Path!SyncPeer, Path!PushSwitch,
     Path!PushEnds, Path!BackAnswered, Path!BackTimeout, Path!RemovePeer, Path!Forget, Path!Migrate,
     Path!Regenerate, Path!SwitchBack, Path!PathFails, Path!PathReturns, Path!PanelOpens, Path!TrialTimeout,
     Path!Receive
<1> QED
  BY <1>1, <1>2, <1>3, <1>4, <1>5, <1>6, <1>7, <1>8, <1>9, <1>10

\* What a step of the transport leaves is again good.
LEMMA PathStep == PathInv /\ Path!Next => PathInv'
<1> SUFFICES ASSUME PathInv, Path!Next PROVE PathInv'
    OBVIOUS
<1>1. Typed /\ PushedOnce
  BY DEF PathInv, Trial
<1>2. Typed' /\ PushedOnce'
  BY <1>1, PathTyped, UnswitchedMoves
<1> QED
  BY <1>2, PathSingleUse, PathSwitchedOnce, PathAckHeard DEF PathInv, Trial

\* The one step that ends a running trial with the tunnel kept is an ack on a
\* session through the tunnel.
LEMMA PathTrialEnds ==
    ASSUME PathInv, Path!Next,
           cfg.until = "running", cfg'.until = "none", cfg'.key = cfg.key, cfg'.fb
    PROVE  ses.via = "wg" /\ ses.key \in heard
<1>a. Typed /\ NotResumed /\ AckHeard
  BY DEF PathInv, Trial
<1>b. cfg \in Path!Config /\ disk \in Path!Config /\ cfg.fb = TRUE
  BY <1>a DEF Typed, GoodConfig
<1>1. CASE Path!Ack /\ Path!Confirms(ses.via = "wg" /\ ~ses.fb)
  BY <1>1, <1>a DEF Path!Ack, Path!Confirms, AckHeard
<1>2. CASE Path!Update(Path!Tailscale)
  <2>1. cfg' = Path!Tailscale
    BY <1>2 DEF Path!Update, Path!Saves, Path!SaveFails
  <2>2. cfg'.fb = FALSE
    BY <2>1 DEF Path!Tailscale
  <2> QED
    BY <2>2
<1>3. CASE Path!AgentSwitch("migrate")
  <2>1. cfg'.until = "running"
    BY <1>3, <1>a, SwitchLeaves
  <2> QED
    BY <2>1
<1>4. CASE Path!TrialTimeout
  <2>1. cfg' = [cfg EXCEPT !.until = "past"]
    BY <1>4 DEF Path!TrialTimeout
  <2>2. cfg'.until = "past"
    BY <2>1, <1>b DEF Path!Config
  <2> QED
    BY <2>2
<1>5. CASE Path!AgentRestarts
  <2>1. cfg' = disk
    BY <1>5 DEF Path!AgentRestarts
  <2>2. disk.fb \in BOOLEAN /\ cfg.fb \in BOOLEAN
    BY <1>b DEF Path!Config
  <2>3. disk.fb = TRUE /\ disk.until = "none" /\ disk.key = cfg.key
    BY <2>1, <2>2
  <2> QED
    BY <2>3, <1>a, <1>b DEF NotResumed, OnTrial
<1> QED
  BY <1>1, <1>2, <1>3, <1>4, <1>5, ConfigMoves

-----------------------------------------------------------------------------
(* The registry, proved.                                                   *)

\* The pieces make up the type invariant, and what was deleted is not there.
LEMMA RegGives == RegInv => TypeOK /\ TunnelUnique /\ DeletedStaysGone
BY DEF RegInv, RegTyped, StoreTyped, GoodRegistry, AgentsTyped, Credentials, HubTyped, AddingTyped, Adding,
   QueueTyped, IssuedTyped, HistoryTyped, BoundsTyped, TypeOK, Gone, Present, DeletedStaysGone

\* An empty registry is good.
LEMMA EmptyGood == GoodRegistry(<<>>) /\ NoDoubles(<<>>) /\ DOMAIN <<>> = {}
BY DEF GoodRegistry, NoDoubles

\* At the start there is nothing.
LEMMA RegStart == Init => RegInv
<1> SUFFICES ASSUME Init PROVE RegInv
    OBVIOUS
<1>0. MaxId \in Nat /\ MaxToken \in Nat /\ MaxOps \in Nat /\ MaxFaults \in Nat
  BY RegistryAssumption
<1>1. StoreTyped
  BY EmptyGood DEF Init, StoreTyped
<1>2. AgentsTyped
  BY <1>0 DEF Init, AgentsTyped, Credentials, Session, NoCred, NoSession
<1>3. HubTyped
  BY DEF Init, HubTyped
<1>4. AddingTyped
  BY <1>0 DEF Init, AddingTyped, Adding, NotAdding
<1>5. QueueTyped /\ IssuedTyped /\ HistoryTyped /\ BoundsTyped
  BY <1>0 DEF Init, QueueTyped, IssuedTyped, HistoryTyped, BoundsTyped
<1>6. IdsIssued
  BY EmptyGood, <1>0 DEF Init, IdsIssued, Used, Present, Borne, Creating, NotAdding, NoCred, NoSession, Ids
<1>7. Allocated
  BY EmptyGood DEF Init, Allocated, NotAdding
<1>8. TunnelUnique
  BY EmptyGood DEF Init, TunnelUnique
<1>9. FilesAgree
  BY EmptyGood DEF Init, FilesAgree, Agrees, Within
<1>10. Gone
  BY DEF Init, Gone
<1> QED
  BY <1>1, <1>2, <1>3, <1>4, <1>5, <1>6, <1>7, <1>8, <1>9, <1>10 DEF RegInv, RegTyped

\* What Put makes.
LEMMA PutMakes ==
    ASSUME GoodRegistry(reg), NEW i \in Ids, NEW e \in Entry
    PROVE  /\ GoodRegistry(Put(i, e)) /\ DOMAIN Put(i, e) = DOMAIN reg \cup {i}
           /\ Put(i, e)[i] = e /\ \A j \in DOMAIN reg \ {i} : Put(i, e)[j] = reg[j]
BY DEF Put, GoodRegistry

\* What a deletion leaves.
LEMMA RestrictMakes ==
    ASSUME GoodRegistry(reg), NEW i
    PROVE  LET r == Restrict(reg, DOMAIN reg \ {i})
           IN  GoodRegistry(r) /\ DOMAIN r = DOMAIN reg \ {i} /\ \A j \in DOMAIN r : r[j] = reg[j]
BY DEF GoodRegistry, Restrict

\* A write of a registry without doubles that the peers file agrees with.
LEMMA PersistKeeps ==
    ASSUME RegInv, Ready, NEW r, Persist(r), UNCHANGED up, GoodRegistry(r), NoDoubles(r), Agrees(r)
    PROVE  StoreTyped' /\ TunnelUnique' /\ FilesAgree'
<1>a. StoreTyped /\ FilesAgree
  BY DEF RegInv, RegTyped
<1>b. reg' = r /\ file' = r /\ dirty' = FALSE /\ writing' = TRUE /\ peers' = peers /\ up' = up
  BY DEF Persist
<1>c. up = TRUE
  BY <1>a DEF StoreTyped, Ready
<1>1. StoreTyped'
  BY <1>a, <1>b DEF StoreTyped
<1>2. TunnelUnique'
  BY <1>b DEF TunnelUnique, NoDoubles
<1>3. FilesAgree'
  <2>1. NoDoubles(file)' /\ Agrees(file)' /\ Within(file)'
    BY <1>b DEF NoDoubles, Agrees, Within
  <2> QED
    BY <1>a, <1>b, <1>c, <2>1 DEF FilesAgree
<1> QED
  BY <1>1, <1>2, <1>3

\* The addresses of a registry r are those of the one in memory.
SameTips(r) == DOMAIN r = DOMAIN reg /\ \A i \in DOMAIN reg : r[i].tip = reg[i].tip

\* By what kinds of writes the store moves.
Rewrites(r) == Ready /\ UNCHANGED up /\ GoodRegistry(r) /\ SameTips(r)
Adds(i, e) == /\ Ready /\ UNCHANGED up /\ i \in Ids /\ e \in Entry /\ i \notin DOMAIN reg
              /\ e.tip = 0 \/ FreeTip(e.tip)
              /\ Persist(Put(i, e))
Addresses(i, t) == /\ Ready /\ UNCHANGED up /\ i \in DOMAIN reg /\ reg[i].tip = 0
                   /\ t \in Ids /\ FreeTip(t)
                   /\ Persist([reg EXCEPT ![i].tip = t])
Removes(i) == /\ Ready /\ UNCHANGED up /\ i \in DOMAIN reg
              /\ Persist(Restrict(reg, DOMAIN reg \ {i}))

\* While the panel runs and writes nothing, the peers file is part of it.
LEMMA PeersKnown ==
    ASSUME RegInv, Ready, NEW p \in peers
    PROVE  p.id \in DOMAIN reg /\ reg[p.id].tip = p.entry.tip /\ p.entry.tip # 0
<1>1. up = TRUE /\ writing = FALSE
  BY DEF RegInv, RegTyped, StoreTyped, Ready
<1>2. p.id \in DOMAIN reg /\ reg[p.id].tip = p.entry.tip
  BY <1>1 DEF RegInv, FilesAgree
<1>3. p.entry.tip # 0
  BY DEF RegInv, RegTyped, StoreTyped, HasWireGuardPeer
<1> QED
  BY <1>2, <1>3

\* Each kind of write leaves two files that agree.
LEMMA RewriteKeeps ==
    ASSUME RegInv, NEW r, Rewrites(r), Persist(r) \/ Touch(r)
    PROVE  StoreTyped' /\ TunnelUnique' /\ FilesAgree'
<1>a. StoreTyped /\ FilesAgree /\ TunnelUnique /\ up = TRUE /\ writing = FALSE
  BY DEF RegInv, RegTyped, StoreTyped, Rewrites, Ready
<1>b. Ready /\ UNCHANGED up /\ GoodRegistry(r) /\ SameTips(r)
  BY DEF Rewrites
<1>1. NoDoubles(r)
  BY <1>a, <1>b DEF NoDoubles, SameTips, TunnelUnique
<1>2. CASE Persist(r)
  <2>1. Agrees(r)
    BY <1>b, PeersKnown DEF Agrees, SameTips
  <2> QED
    BY <1>1, <1>2, <1>b, <2>1, PersistKeeps
<1>3. CASE Touch(r)
  <2>1. reg' = r /\ dirty' = TRUE /\ UNCHANGED <<file, peers, writing, up>>
    BY <1>3, <1>b DEF Touch
  <2>2. StoreTyped'
    BY <1>a, <1>b, <2>1 DEF StoreTyped
  <2>3. TunnelUnique'
    BY <1>1, <2>1 DEF TunnelUnique, NoDoubles
  <2>4. FilesAgree'
    <3>1. NoDoubles(file)' /\ Agrees(file)'
      BY <1>a, <2>1 DEF FilesAgree, NoDoubles, Agrees
    <3>2. Within(file)'
      BY <1>a, <1>b, <2>1 DEF FilesAgree, Within, SameTips
    <3>3. \A p \in peers : p.id \in DOMAIN r /\ r[p.id].tip = p.entry.tip
      BY <1>b, PeersKnown DEF SameTips
    <3> QED
      BY <1>a, <2>1, <3>1, <3>2, <3>3 DEF FilesAgree
  <2> QED
    BY <2>2, <2>3, <2>4
<1> QED
  BY <1>2, <1>3

\* A new server has no address yet, or a free one.
LEMMA AddKeeps ==
    ASSUME RegInv, NEW i, NEW e, Adds(i, e)
    PROVE  StoreTyped' /\ TunnelUnique' /\ FilesAgree'
<1>a. /\ Ready /\ UNCHANGED up /\ i \in Ids /\ e \in Entry /\ i \notin DOMAIN reg
      /\ e.tip = 0 \/ FreeTip(e.tip)
      /\ Persist(Put(i, e)) /\ GoodRegistry(reg) /\ TunnelUnique
  BY DEF Adds, RegInv, RegTyped, StoreTyped
<1>1. PICK r : r = Put(i, e)
  OBVIOUS
<1>2. GoodRegistry(r) /\ DOMAIN r = DOMAIN reg \cup {i} /\ r[i] = e /\ \A j \in DOMAIN reg : r[j] = reg[j]
  BY <1>a, <1>1, PutMakes
<1>3. NoDoubles(r)
  BY <1>a, <1>2 DEF NoDoubles, TunnelUnique, FreeTip
<1>4. Agrees(r)
  BY <1>a, <1>2, PeersKnown DEF Agrees
<1> QED
  BY <1>a, <1>1, <1>2, <1>3, <1>4, PersistKeeps

\* A server without an address, and so without a record, gets a free one.
LEMMA AddressKeeps ==
    ASSUME RegInv, NEW i, NEW t, Addresses(i, t)
    PROVE  StoreTyped' /\ TunnelUnique' /\ FilesAgree'
<1>a. /\ Ready /\ UNCHANGED up /\ i \in DOMAIN reg /\ reg[i].tip = 0 /\ t \in Ids /\ FreeTip(t)
      /\ Persist([reg EXCEPT ![i].tip = t]) /\ GoodRegistry(reg) /\ TunnelUnique
  BY DEF Addresses, RegInv, RegTyped, StoreTyped
<1>0. t \in 0..MaxId /\ reg[i] \in Entry
  BY <1>a, RegistryAssumption DEF Ids, GoodRegistry
<1>1. PICK r : r = [reg EXCEPT ![i].tip = t]
  OBVIOUS
<1>2. PICK e : e = [reg[i] EXCEPT !.tip = t]
  OBVIOUS
<1>3. e \in Entry /\ e.tip = t
  BY <1>0, <1>2 DEF Entry
<1>4. r = [reg EXCEPT ![i] = e]
  BY <1>1, <1>2
<1>5. GoodRegistry(r) /\ DOMAIN r = DOMAIN reg /\ r[i].tip = t /\ \A j \in DOMAIN reg : j # i => r[j] = reg[j]
  BY <1>a, <1>3, <1>4 DEF GoodRegistry
<1>6. NoDoubles(r)
  BY <1>a, <1>5 DEF NoDoubles, TunnelUnique, FreeTip
<1>7. Agrees(r)
  BY <1>a, <1>5, PeersKnown DEF Agrees
<1> QED
  BY <1>a, <1>1, <1>5, <1>6, <1>7, PersistKeeps

\* The record of a server that goes shares its address with no other.
LEMMA RemoveKeeps ==
    ASSUME RegInv, NEW i, Removes(i)
    PROVE  StoreTyped' /\ TunnelUnique' /\ FilesAgree'
<1>a. /\ Ready /\ UNCHANGED up /\ i \in DOMAIN reg
      /\ Persist(Restrict(reg, DOMAIN reg \ {i})) /\ GoodRegistry(reg) /\ TunnelUnique
  BY DEF Removes, RegInv, RegTyped, StoreTyped
<1>1. PICK r : r = Restrict(reg, DOMAIN reg \ {i})
  OBVIOUS
<1>2. GoodRegistry(r) /\ DOMAIN r = DOMAIN reg \ {i} /\ \A j \in DOMAIN r : r[j] = reg[j]
  BY <1>a, <1>1, RestrictMakes
<1>3. NoDoubles(r)
  BY <1>a, <1>2 DEF NoDoubles, TunnelUnique
<1>4. Agrees(r)
  BY <1>a, <1>2, PeersKnown DEF Agrees, TunnelUnique
<1> QED
  BY <1>a, <1>1, <1>2, <1>3, <1>4, PersistKeeps

\* writePeersLocked: the second file catches up.
LEMMA WritePeersKeeps ==
    ASSUME RegInv, WritePeers
    PROVE  StoreTyped' /\ TunnelUnique' /\ FilesAgree'
<1>a. /\ StoreTyped /\ FilesAgree /\ TunnelUnique /\ up = TRUE /\ writing = TRUE
      /\ peers' = PeersOf(reg) /\ writing' = FALSE /\ UNCHANGED <<reg, file, dirty, up>>
  BY DEF RegInv, RegTyped, StoreTyped, WritePeers, world
<1>b. GoodRegistry(reg) /\ Within(file) /\ DOMAIN file = DOMAIN reg
  BY <1>a DEF StoreTyped, FilesAgree
<1>1. ASSUME NEW p \in PeersOf(reg)
      PROVE  p.id \in DOMAIN reg /\ p.entry = reg[p.id] /\ p.entry.tip # 0 /\ p = [id |-> p.id, entry |-> p.entry]
  BY DEF PeersOf, HasWireGuardPeer
<1>2. StoreTyped'
  <2>1. ASSUME NEW p \in PeersOf(reg) PROVE p \in PeerRecord /\ HasWireGuardPeer(p.entry)
    <3>1. p.id \in Ids /\ p.entry \in Entry
      BY <1>1, <1>b DEF GoodRegistry
    <3> QED
      BY <1>1, <3>1 DEF PeerRecord, HasWireGuardPeer
  <2> QED
    BY <1>a, <2>1 DEF StoreTyped
<1>3. TunnelUnique'
  BY <1>a DEF TunnelUnique
<1>4. FilesAgree'
  <2>1. ASSUME NEW p \in PeersOf(reg), NEW q \in PeersOf(reg), p.id = q.id \/ p.entry.tip = q.entry.tip
        PROVE p = q
    <3>1. p.id = q.id
      BY <2>1, <1>1, <1>a DEF TunnelUnique
    <3> QED
      BY <3>1, <1>1
  <2>2. NoDoubles(file)' /\ Within(file)'
    BY <1>a DEF FilesAgree, NoDoubles, Within
  <2>3. Agrees(file)'
    BY <1>a, <1>b, <1>1 DEF Agrees, Within
  <2> QED
    BY <1>a, <1>1, <2>1, <2>2, <2>3 DEF FilesAgree
<1> QED
  BY <1>2, <1>3, <1>4

\* What a restart loads: both files together have no address twice.
LEMMA StartKeeps ==
    ASSUME RegInv, Start
    PROVE  StoreTyped' /\ TunnelUnique' /\ FilesAgree'
<1>a. /\ StoreTyped /\ FilesAgree /\ up = FALSE /\ up' = TRUE
      /\ reg' = RestoreWGPeers(file, peers) /\ UNCHANGED <<file, peers, writing, dirty>>
  BY DEF RegInv, RegTyped, StoreTyped, Start
<1>b. /\ writing = FALSE /\ GoodRegistry(file) /\ NoDoubles(file) /\ Agrees(file)
      /\ \A p, q \in peers : p.id = q.id \/ p.entry.tip = q.entry.tip => p = q
      /\ \A p \in peers : p.id \in Ids /\ p.entry \in Entry
  BY <1>a DEF StoreTyped, FilesAgree, PeerRecord
<1>1. DOMAIN reg' = DOMAIN file \cup {p.id : p \in peers}
  BY <1>a DEF RestoreWGPeers
<1>2. ASSUME NEW i \in DOMAIN file PROVE reg'[i] = file[i]
  BY <1>a, <1>2 DEF RestoreWGPeers
<1>3. ASSUME NEW p \in peers, p.id \notin DOMAIN file PROVE reg'[p.id] = p.entry
  <2>1. reg'[p.id] = (CHOOSE q \in peers : q.id = p.id).entry
    BY <1>a, <1>3 DEF RestoreWGPeers
  <2>2. (CHOOSE q \in peers : q.id = p.id) = p
    BY <1>b
  <2> QED
    BY <2>1, <2>2
<1>4. GoodRegistry(reg')
  BY <1>b, <1>1, <1>2, <1>3 DEF GoodRegistry
<1>5. NoDoubles(reg')
  <2>1. ASSUME NEW i \in DOMAIN reg', NEW j \in DOMAIN reg', reg'[i].tip # 0, reg'[i].tip = reg'[j].tip
        PROVE i = j
    <3>1. CASE i \in DOMAIN file /\ j \in DOMAIN file
      BY <2>1, <3>1, <1>2, <1>b DEF NoDoubles
    <3>2. ASSUME NEW k \in DOMAIN file, NEW l \in DOMAIN reg', l \notin DOMAIN file, reg'[k].tip = reg'[l].tip
          PROVE FALSE
      <4>1. PICK p \in peers : p.id = l
        BY <3>2, <1>1
      <4>2. reg'[l] = p.entry /\ reg'[k] = file[k]
        BY <3>2, <4>1, <1>2, <1>3
      <4> QED
        BY <3>2, <4>1, <4>2, <1>b DEF Agrees
    <3>3. CASE i \notin DOMAIN file /\ j \notin DOMAIN file
      <4>1. PICK p \in peers : p.id = i
        BY <2>1, <3>3, <1>1
      <4>2. PICK q \in peers : q.id = j
        BY <2>1, <3>3, <1>1
      <4>3. reg'[i] = p.entry /\ reg'[j] = q.entry
        BY <3>3, <4>1, <4>2, <1>3
      <4> QED
        BY <2>1, <4>1, <4>2, <4>3, <1>b
    <3> QED
      BY <2>1, <3>1, <3>2, <3>3
  <2> QED
    BY <2>1 DEF NoDoubles
<1>6. StoreTyped'
  BY <1>a, <1>4 DEF StoreTyped
<1>7. TunnelUnique'
  BY <1>5 DEF TunnelUnique, NoDoubles
<1>8. FilesAgree'
  <2>1. Within(file)'
    BY <1>a, <1>1, <1>2 DEF Within
  <2>2. NoDoubles(file)' /\ Agrees(file)'
    BY <1>a, <1>b DEF NoDoubles, Agrees
  <2>3. ASSUME NEW p \in peers PROVE p.id \in DOMAIN reg' /\ reg'[p.id].tip = p.entry.tip
    BY <1>b, <1>1, <1>2, <1>3 DEF Agrees
  <2> QED
    BY <1>a, <1>b, <2>1, <2>2, <2>3 DEF FilesAgree
<1> QED
  BY <1>6, <1>7, <1>8

\* A crash, and the loss of the first file.
LEMMA LossKeeps ==
    ASSUME RegInv, Crash \/ StateLost
    PROVE  StoreTyped' /\ TunnelUnique' /\ FilesAgree'
<1>a. StoreTyped /\ FilesAgree /\ TunnelUnique
  BY DEF RegInv, RegTyped
<1>1. CASE Crash
  <2>1. reg' = <<>> /\ up' = FALSE /\ writing' = FALSE /\ dirty' = FALSE /\ UNCHANGED <<file, peers>>
    BY <1>1 DEF Crash
  <2>2. StoreTyped'
    BY <1>a, <2>1, EmptyGood DEF StoreTyped
  <2>3. TunnelUnique'
    BY <2>1, EmptyGood DEF TunnelUnique
  <2>4. FilesAgree'
    <3>1. NoDoubles(file)' /\ Agrees(file)'
      BY <1>a, <2>1 DEF FilesAgree, NoDoubles, Agrees
    <3> QED
      BY <1>a, <2>1, <3>1 DEF FilesAgree
  <2> QED
    BY <2>2, <2>3, <2>4
<1>2. CASE StateLost
  <2>0. up = FALSE
    BY <1>2, <1>a DEF StateLost, StoreTyped
  <2>1. file' = <<>> /\ UNCHANGED <<reg, peers, writing, dirty, up>>
    BY <1>2 DEF StateLost
  <2>2. StoreTyped'
    BY <1>a, <2>1, EmptyGood DEF StoreTyped
  <2>3. TunnelUnique'
    BY <1>a, <2>1 DEF TunnelUnique
  <2>4. FilesAgree'
    <3>1. NoDoubles(file)' /\ Agrees(file)'
      BY <2>1, EmptyGood DEF NoDoubles, Agrees
    <3> QED
      BY <1>a, <2>0, <2>1, <3>1 DEF FilesAgree
  <2> QED
    BY <2>2, <2>3, <2>4
<1> QED
  BY <1>1, <1>2

\* Whatever an agent or its socket carries comes from the registry, or was
\* issued just now.
LEMMA AgentsStep ==
    ASSUME RegInv, Next
    PROVE  /\ AgentsTyped'
           /\ \A i \in Ids : Borne(i)' => Used(i) \/ (i = ids + 1 /\ ids' = i)
<1> DEFINE Goal == /\ AgentsTyped'
                   /\ \A i \in Ids : Borne(i)' => Used(i) \/ (i = ids + 1 /\ ids' = i)
           Known0(n) == n = 0 \/ n \in DOMAIN reg \/ (\E b \in Agents : cred[b].id = n \/ sess[b].id = n)
                        \/ (n = ids + 1 /\ ids' = n)
<1> SUFFICES Goal
    OBVIOUS
<1>a. /\ cred \in [Agents -> Credentials] /\ sess \in [Agents -> Session]
      /\ GoodRegistry(reg) /\ ids \in 0..MaxId /\ tokens \in 0..MaxToken
  BY DEF RegInv, RegTyped, AgentsTyped, StoreTyped, IssuedTyped
<1>m. /\ MaxId \in Nat /\ MaxToken \in Nat /\ 0 \in 0..MaxId /\ 0 \in 0..MaxToken
      /\ Ids \subseteq 0..MaxId /\ 0 \notin Ids
  BY RegistryAssumption DEF Ids
<1>r. ASSUME NEW i \in DOMAIN reg PROVE i \in Ids /\ reg[i] \in Entry /\ reg[i].tok \in 0..MaxToken /\ reg[i].tip \in 0..MaxId
  BY <1>a DEF GoodRegistry, Entry
<1>s. NoSession \in Session /\ NoSession.id = 0 /\ NoCred \in Credentials /\ NoCred.id = 0
  BY <1>m DEF NoSession, Session, NoCred, Credentials
<1>u. CASE UNCHANGED <<cred, sess>>
  BY <1>u, <1>a DEF AgentsTyped, Used, Borne
\* Neither the credentials nor the sockets carry anything new.
<1>f. ASSUME cred' \in [Agents -> Credentials], sess' \in [Agents -> Session],
             \A a \in Agents : Known0(cred'[a].id) /\ Known0(sess'[a].id)
      PROVE Goal
  <2>1. ASSUME NEW i \in Ids, Borne(i)' PROVE Used(i) \/ (i = ids + 1 /\ ids' = i)
    <3>1. PICK a \in Agents : cred'[a].id = i \/ sess'[a].id = i
      BY <2>1 DEF Borne
    <3>2. Known0(i) /\ i # 0
      BY <3>1, <1>f, <1>m
    <3> QED
      BY <3>2 DEF Used, Present, Borne
  <2> QED
    BY <1>f, <2>1 DEF AgentsTyped
<1>k. \A a \in Agents : Known0(cred[a].id) /\ Known0(sess[a].id)
  OBVIOUS
<1>0. Known0(0) /\ \A i \in DOMAIN reg : Known0(i)
  OBVIOUS
<1> HIDE DEF Known0
<1>g. ASSUME NEW a \in Agents, NEW s \in Session, Goto(a, s), UNCHANGED cred, Known0(s.id)
      PROVE Goal
  <2>1. sess' = [sess EXCEPT ![a] = s] /\ cred' = cred
    BY <1>g DEF Goto
  <2>2. sess' \in [Agents -> Session] /\ cred' \in [Agents -> Credentials]
    BY <2>1, <1>a
  <2>3. ASSUME NEW b \in Agents PROVE Known0(cred'[b].id) /\ Known0(sess'[b].id)
    <3>1. sess'[b] = s \/ sess'[b] = sess[b]
      BY <2>1, <1>a
    <3> QED
      BY <2>1, <3>1, <1>k, <1>g
  <2> QED
    BY <2>2, <2>3, <1>f
<1>d. ASSUME NEW a \in Agents, Drop(a), UNCHANGED cred PROVE Goal
  BY <1>d, <1>g, <1>s, <1>0 DEF Drop
<1>h. ASSUME NEW a \in Agents, NEW at \in {"none", "open", "update", "adopt", "online", "log", "attach", "ack", "up"}
      PROVE  /\ [sess[a] EXCEPT !.at = at] \in Session /\ [sess[a] EXCEPT !.at = at].id = sess[a].id
             /\ \A t \in 0..MaxToken : /\ [sess[a] EXCEPT !.at = at, !.tok = t] \in Session
                                       /\ [sess[a] EXCEPT !.at = at, !.tok = t].id = sess[a].id
             /\ \A i \in 0..MaxId : /\ [sess[a] EXCEPT !.at = at, !.id = i] \in Session
                                    /\ [sess[a] EXCEPT !.at = at, !.id = i].id = i
  BY <1>a DEF Session
<1>e. ASSUME NEW h \in {"none", "token", "pending", "reclaim", "adopt", "pinned"}, NEW i \in DOMAIN reg,
             NEW at \in {"open", "update"}
      PROVE  /\ [at |-> at, how |-> h, id |-> i, tok |-> 0] \in Session
             /\ [at |-> at, how |-> h, id |-> i, tok |-> 0].id = i
  BY <1>m, <1>r DEF Session
<1>1. ASSUME NEW a \in Agents, Dial(a) PROVE Goal
  <2>0. UNCHANGED cred
    BY <1>1 DEF Dial
  <2>1. ASSUME NEW i \in DOMAIN reg, NEW h \in {"pinned", "token"},
               Goto(a, [at |-> "open", how |-> h, id |-> i, tok |-> 0])
        PROVE Goal
    BY <2>0, <2>1, <1>e, <1>g, <1>0
  <2>2. CASE Goto(a, [NoSession EXCEPT !.at = "open"])
    <3>1. [NoSession EXCEPT !.at = "open"] \in Session /\ [NoSession EXCEPT !.at = "open"].id = 0
      BY <1>s DEF Session
    <3> QED
      BY <2>0, <2>2, <3>1, <1>g, <1>0
  <2> QED
    BY <1>1, <2>1, <2>2 DEF Dial, FindByTunnelIP, FindByToken
<1>2. ASSUME NEW a \in Agents, RegisterToken(a) PROVE Goal
  BY <1>2, <1>h, <1>g, <1>k DEF RegisterToken
<1>3. ASSUME NEW a \in Agents, RegisterMatch(a) PROVE Goal
  <2>1. ASSUME NEW i \in DOMAIN reg, NEW h \in {"pending", "reclaim"},
               Goto(a, [at |-> "update", how |-> h, id |-> i, tok |-> 0])
        PROVE Goal
    BY <1>3, <2>1, <1>e, <1>g, <1>0, ZenonT(40) DEF RegisterMatch
  <2> QED
    BY <1>3, <2>1 DEF RegisterMatch, Pending, AtAddress
<1>4. ASSUME NEW a \in Agents, RegisterNoMatch(a) PROVE Goal
  <2>1. UNCHANGED cred /\ (Drop(a) \/ Goto(a, [sess[a] EXCEPT !.at = "adopt", !.how = "adopt"]))
    BY <1>4 DEF RegisterNoMatch
  <2>2. CASE Goto(a, [sess[a] EXCEPT !.at = "adopt", !.how = "adopt"])
    <3>1. /\ [sess[a] EXCEPT !.at = "adopt", !.how = "adopt"] \in Session
          /\ [sess[a] EXCEPT !.at = "adopt", !.how = "adopt"].id = sess[a].id
      BY <1>a DEF Session
    <3> QED
      BY <2>1, <2>2, <3>1, <1>g, <1>k
  <2> QED
    BY <2>1, <2>2, <1>d
<1>5. ASSUME NEW a \in Agents, Adopt(a) PROVE Goal
  <2>1. PICK i : i = IF cred[a].id = 0 THEN NewId ELSE cred[a].id
    OBVIOUS
  <2>2. /\ UNCHANGED cred /\ Goto(a, [sess[a] EXCEPT !.at = "online", !.id = i])
        /\ i \notin DOMAIN reg /\ cred[a].id = 0 => CanIssueId
    BY <1>5, <2>1 DEF Adopt
  <2>3. cred[a].id = 0 => NewId \notin DOMAIN reg
    <3>1. \A j \in DOMAIN reg : j \in Ids /\ j <= ids
      BY <1>r DEF RegInv, IdsIssued, Used, Present
    <3> QED
      BY <3>1, <1>a, <1>m DEF NewId, Ids
  <2>4. i \in 0..MaxId /\ Known0(i)
    <3>1. CASE cred[a].id = 0
      <4>1. CanIssueId /\ i = ids + 1
        BY <2>1, <2>2, <2>3, <3>1 DEF NewId
      <4> QED
        BY <4>1, <1>a, <1>m DEF CanIssueId, NewId, Known0
    <3>2. CASE cred[a].id # 0
      BY <2>1, <3>2, <1>a, <1>k DEF Credentials
    <3> QED
      BY <3>1, <3>2
  <2> QED
    BY <2>2, <2>4, <1>h, <1>g
<1>6. ASSUME NEW a \in Agents, UpdateVPS(a) PROVE Goal
  <2>1. CASE sess[a].id \notin DOMAIN reg
    BY <1>6, <2>1, <1>d DEF UpdateVPS
  <2>2. CASE sess[a].id \in DOMAIN reg
    <3> DEFINE fresh == sess[a].how = "reclaim" \/ (sess[a].how = "pending" /\ reg[sess[a].id].tok = 0)
    <3>0. PICK t : t = IF fresh THEN NewToken ELSE reg[sess[a].id].tok
      OBVIOUS
    <3>4. PICK at : at = IF sess[a].how = "token" THEN "attach" ELSE "log"
      OBVIOUS
    <3>1. /\ at \in {"attach", "log"} /\ UNCHANGED cred /\ (fresh => CanIssueToken)
          /\ Goto(a, [sess[a] EXCEPT !.tok = t, !.at = at])
      BY <1>6, <2>2, <3>0, <3>4 DEF UpdateVPS
    <3>2. t \in 0..MaxToken
      BY <3>0, <3>1, <2>2, <1>a, <1>m, <1>r DEF CanIssueToken, NewToken
    <3>3. /\ [sess[a] EXCEPT !.tok = t, !.at = at] \in Session
          /\ [sess[a] EXCEPT !.tok = t, !.at = at].id = sess[a].id
      BY <3>1, <3>2, <1>a DEF Session
    <3> QED
      BY <3>1, <3>3, <1>g, <1>k
  <2> QED
    BY <2>1, <2>2
<1>7. ASSUME NEW a \in Agents, RegisterLog(a) PROVE Goal
  BY <1>7, <1>h, <1>g, <1>k DEF RegisterLog
<1>8. ASSUME NEW a \in Agents, RegisterPinned(a) PROVE Goal
  <2>1. CASE sess[a].id \notin DOMAIN reg
    BY <1>8, <2>1, <1>d DEF RegisterPinned
  <2>2. CASE sess[a].id \in DOMAIN reg
    <3>0. PICK t : t = IF reg[sess[a].id].tok = 0 THEN NewToken ELSE reg[sess[a].id].tok
      OBVIOUS
    <3>1. /\ UNCHANGED cred /\ (reg[sess[a].id].tok = 0 => CanIssueToken)
          /\ Goto(a, [sess[a] EXCEPT !.at = "attach", !.tok = t])
      BY <1>8, <2>2, <3>0 DEF RegisterPinned
    <3>2. t \in 0..MaxToken
      BY <3>0, <3>1, <2>2, <1>a, <1>m, <1>r DEF CanIssueToken, NewToken
    <3>3. /\ [sess[a] EXCEPT !.at = "attach", !.tok = t] \in Session
          /\ [sess[a] EXCEPT !.at = "attach", !.tok = t].id = sess[a].id
      BY <3>2, <1>a DEF Session
    <3> QED
      BY <3>1, <3>3, <1>g, <1>k
  <2> QED
    BY <2>1, <2>2
<1>9. ASSUME NEW a \in Agents, Attach(a) PROVE Goal
  <2>1. /\ sess' = [b \in Agents |->
                  IF b = a THEN [sess[a] EXCEPT !.at = "ack"]
                  ELSE IF hub[sess[a].id] = b /\ sess[b].id = sess[a].id THEN NoSession
                  ELSE sess[b]]
        /\ UNCHANGED cred
    BY <1>9 DEF Attach
  <2>2. ASSUME NEW b \in Agents
        PROVE  /\ sess'[b] \in Session
               /\ sess'[b].id = 0 \/ sess'[b].id = sess[b].id
    <3>1. PICK s : s = [sess[a] EXCEPT !.at = "ack"]
      OBVIOUS
    <3>2. s \in Session /\ s.id = sess[a].id
      BY <3>1, <1>h
    <3>3. CASE b = a
      <4>1. sess'[b] = s
        BY <2>1, <3>1, <3>3
      <4> QED
        BY <4>1, <3>2, <3>3
    <3>4. CASE b # a
      <4>1. sess'[b] = NoSession \/ sess'[b] = sess[b]
        BY <2>1, <3>4
      <4> QED
        BY <4>1, <1>s, <1>a
    <3> QED
      BY <3>3, <3>4
  <2>3. sess' \in [Agents -> Session]
    BY <2>1, <2>2
  <2>4. \A b \in Agents : Known0(cred'[b].id) /\ Known0(sess'[b].id)
    BY <2>1, <2>2, <1>0, <1>k
  <2> QED
    BY <2>1, <2>3, <2>4, <1>a, <1>f
<1>10. ASSUME NEW a \in Agents, Ack(a) PROVE Goal
  <2>1. PICK c : c = [cred[a] EXCEPT !.id = sess[a].id, !.tok = sess[a].tok]
    OBVIOUS
  <2>2. c \in Credentials /\ c.id = sess[a].id
    BY <2>1, <1>a DEF Credentials, Session
  <2>3. PICK s : s = [sess[a] EXCEPT !.at = "up"]
    OBVIOUS
  <2>4. s \in Session /\ s.id = sess[a].id
    BY <2>3, <1>h
  <2>5. cred' = [cred EXCEPT ![a] = c] /\ sess' = [sess EXCEPT ![a] = s]
    BY <1>10, <2>1, <2>3 DEF Ack, Goto
  <2>6. \A b \in Agents : (cred'[b] = c \/ cred'[b] = cred[b]) /\ (sess'[b] = s \/ sess'[b] = sess[b])
    BY <2>5, <1>a
  <2>7. \A b \in Agents : Known0(cred'[b].id) /\ Known0(sess'[b].id)
    BY <2>2, <2>4, <2>6, <1>k
  <2>8. cred' \in [Agents -> Credentials] /\ sess' \in [Agents -> Session]
    BY <2>2, <2>4, <2>5, <1>a
  <2> QED
    BY <2>7, <2>8, <1>f
<1>11. ASSUME NEW a \in Agents, SocketLost(a) PROVE Goal
  BY <1>11, <1>d DEF SocketLost
<1>12. ASSUME NEW a \in Agents, Wiped(a) PROVE Goal
  <2>1. cred' = [cred EXCEPT ![a] = NoCred] /\ sess' = [sess EXCEPT ![a] = NoSession]
    BY <1>12 DEF Wiped, Drop, Goto
  <2>2. \A b \in Agents : (cred'[b] = NoCred \/ cred'[b] = cred[b]) /\ (sess'[b] = NoSession \/ sess'[b] = sess[b])
    BY <2>1, <1>a
  <2>3. \A b \in Agents : Known0(cred'[b].id) /\ Known0(sess'[b].id)
    BY <2>2, <1>k, <1>s, <1>0
  <2>4. cred' \in [Agents -> Credentials] /\ sess' \in [Agents -> Session]
    BY <2>1, <1>a, <1>s
  <2> QED
    BY <2>3, <2>4, <1>f
<1>13. ASSUME NEW a \in Agents, NEW i \in Ids, Join(a, i) PROVE Goal
  <2>1. cred' = [cred EXCEPT ![a].tip = reg[i].tip] /\ sess' = sess /\ i \in DOMAIN reg
    BY <1>13 DEF Join
  <2>2. PICK c : c = [cred[a] EXCEPT !.tip = reg[i].tip]
    OBVIOUS
  <2>3. c \in Credentials /\ c.id = cred[a].id
    BY <2>1, <2>2, <1>a, <1>r DEF Credentials
  <2>4. cred' = [cred EXCEPT ![a] = c]
    BY <2>1, <2>2
  <2>5. \A b \in Agents : cred'[b] = c \/ cred'[b] = cred[b]
    BY <2>4, <1>a
  <2>6. \A b \in Agents : Known0(cred'[b].id) /\ Known0(sess'[b].id)
    BY <2>1, <2>3, <2>5, <1>k
  <2>7. cred' \in [Agents -> Credentials] /\ sess' \in [Agents -> Session]
    BY <2>1, <2>3, <2>4, <1>a
  <2> QED
    BY <2>6, <2>7, <1>f
<1>14. CASE Crash
  <2>1. sess' = [a \in Agents |-> NoSession] /\ cred' = cred
    BY <1>14 DEF Crash
  <2>2. \A b \in Agents : Known0(cred'[b].id) /\ Known0(sess'[b].id)
    BY <2>1, <1>k, <1>s, <1>0
  <2> QED
    BY <2>1, <2>2, <1>a, <1>s, <1>f
<1>15. CASE WritePeers \/ Flush \/ BeginCreate \/ StateLost \/ Start
            \/ (\E h \in {"create", "migrate"} : EndAdding(h))
            \/ (\E a \in Agents : CreateVPS(a) \/ Approve(a) \/ Refuse(a) \/ Expire(a))
            \/ (\E i \in Ids : BeginRekey(i) \/ Delete(i) \/ PanelDrops(i))
  <2>1. UNCHANGED <<cred, sess>>
    BY <1>15 DEF WritePeers, Flush, BeginCreate, StateLost, Start, EndAdding, CreateVPS, Approve, Refuse, Expire,
       BeginRekey, Delete, PanelDrops
  <2> QED
    BY <2>1, <1>u
<1> HIDE DEF Goal
<1> QED
  BY <1>1, <1>2, <1>3, <1>4, <1>5, <1>6, <1>7, <1>8, <1>9, <1>10, <1>11, <1>12, <1>13, <1>14, <1>15, Zenon
     DEF Next, User, Panel

\* The counters and histories stay within their bounds.
LEMMA CountsStep ==
    ASSUME RegInv, Next
    PROVE  QueueTyped' /\ IssuedTyped' /\ HistoryTyped' /\ BoundsTyped' /\ ids' \in {ids, ids + 1}
<1>a. QueueTyped /\ IssuedTyped /\ HistoryTyped /\ BoundsTyped /\ DOMAIN reg \subseteq Ids
  BY DEF RegInv, RegTyped, StoreTyped, GoodRegistry
<1> USE DEF Next, User, Panel, queue, issued, history, world
<1>1. UNCHANGED ids \/ CanIssueId
  BY ZenonT(40) DEF WritePeers, Flush, CreateVPS, BeginCreate, BeginRekey, EndAdding, Join, Delete, Approve, Refuse, Expire,
     Dial, RegisterToken, RegisterMatch, RegisterNoMatch, Adopt, UpdateVPS, RegisterLog, RegisterPinned, Attach,
     Ack, SocketLost, PanelDrops, Wiped, Crash, StateLost, Start
<1>2. UNCHANGED tokens \/ CanIssueToken
  BY DEF WritePeers, Flush, CreateVPS, BeginCreate, BeginRekey, EndAdding, Join, Delete, Approve, Refuse, Expire,
     Dial, RegisterToken, RegisterMatch, RegisterNoMatch, Adopt, UpdateVPS, RegisterLog, RegisterPinned, Attach,
     Ack, SocketLost, PanelDrops, Wiped, Crash, StateLost, Start
<1>3. UNCHANGED ops \/ UserActs
  BY DEF WritePeers, Flush, CreateVPS, BeginCreate, BeginRekey, EndAdding, Join, Delete, Approve, Refuse, Expire,
     Dial, RegisterToken, RegisterMatch, RegisterNoMatch, Adopt, UpdateVPS, RegisterLog, RegisterPinned, Attach,
     Ack, SocketLost, PanelDrops, Wiped, Crash, StateLost, Start
<1>4. UNCHANGED faults \/ Fault
  BY DEF WritePeers, Flush, CreateVPS, BeginCreate, BeginRekey, EndAdding, Join, Delete, Approve, Refuse, Expire,
     Dial, RegisterToken, RegisterMatch, RegisterNoMatch, Adopt, UpdateVPS, RegisterLog, RegisterPinned, Attach,
     Ack, SocketLost, PanelDrops, Wiped, Crash, StateLost, Start
<1>5. waiting' \subseteq waiting \cup Agents /\ refused' \subseteq refused \cup Agents
  BY ZenonT(40) DEF WritePeers, Flush, CreateVPS, BeginCreate, BeginRekey, EndAdding, Join, Delete, Approve, Refuse, Expire,
     Dial, RegisterToken, RegisterMatch, RegisterNoMatch, Adopt, UpdateVPS, RegisterLog, RegisterPinned, Attach,
     Ack, SocketLost, PanelDrops, Wiped, Crash, StateLost, Start
<1>6. owed' \subseteq owed \cup Agents /\ tunnelled' \subseteq tunnelled \cup Agents
  BY DEF WritePeers, Flush, CreateVPS, BeginCreate, BeginRekey, EndAdding, Join, Delete, Approve, Refuse, Expire,
     Dial, RegisterToken, RegisterMatch, RegisterNoMatch, Adopt, UpdateVPS, RegisterLog, RegisterPinned, Attach,
     Ack, SocketLost, PanelDrops, Wiped, Crash, StateLost, Start
<1>7. deleted' \subseteq deleted \cup DOMAIN reg
  BY DEF WritePeers, Flush, CreateVPS, BeginCreate, BeginRekey, EndAdding, Join, Delete, Approve, Refuse, Expire,
     Dial, RegisterToken, RegisterMatch, RegisterNoMatch, Adopt, UpdateVPS, RegisterLog, RegisterPinned, Attach,
     Ack, SocketLost, PanelDrops, Wiped, Crash, StateLost, Start
<1>8. IssuedTyped' /\ ids' \in {ids, ids + 1}
  BY <1>1, <1>2, <1>a, RegistryAssumption DEF IssuedTyped, CanIssueId, CanIssueToken, NewId, NewToken
<1>9. BoundsTyped'
  BY <1>3, <1>4, <1>a, RegistryAssumption DEF BoundsTyped, UserActs, Fault
<1>10. QueueTyped' /\ HistoryTyped'
  BY <1>5, <1>6, <1>7, <1>a DEF QueueTyped, HistoryTyped
<1> QED
  BY <1>8, <1>9, <1>10

\* The hub's sockets.
LEMMA HubStep == RegInv /\ Next => HubTyped'
<1> SUFFICES ASSUME RegInv, Next PROVE HubTyped'
    OBVIOUS
<1>a. hub \in [Ids -> Agents \cup {NoAgent}]
  BY DEF RegInv, RegTyped, HubTyped
<1>1. CASE UNCHANGED hub
  BY <1>1, <1>a DEF HubTyped
<1>2. ASSUME NEW a \in Agents, Attach(a) PROVE HubTyped'
  BY <1>2, <1>a DEF Attach, HubTyped
<1>3. ASSUME NEW a \in Agents, SocketLost(a) PROVE HubTyped'
  BY <1>3, <1>a DEF SocketLost, Disconnected, HubTyped
<1>4. ASSUME NEW i \in Ids, PanelDrops(i) PROVE HubTyped'
  BY <1>4, <1>a DEF PanelDrops, HubTyped
<1>5. CASE Crash
  BY <1>5 DEF Crash, HubTyped
<1>6. UNCHANGED hub \/ (\E a \in Agents : Attach(a) \/ SocketLost(a)) \/ (\E i \in Ids : PanelDrops(i)) \/ Crash
  BY DEF Next, User, Panel, WritePeers, Flush, CreateVPS, BeginCreate, BeginRekey, EndAdding, Join, Delete,
     Approve, Refuse, Expire, Dial, RegisterToken, RegisterMatch, RegisterNoMatch, Adopt, UpdateVPS, RegisterLog,
     RegisterPinned, Ack, Wiped, StateLost, Start
<1> QED
  BY <1>1, <1>2, <1>3, <1>4, <1>5, <1>6

\* By which steps an allocation moves: it begins when there is none, from an
\* address that is free.
Begins(h, i) ==
    /\ Ready /\ UNCHANGED <<store, up, deleted, cred, sess>> /\ h \in {"create", "migrate"}
    /\ CreateMuFree(h) /\ Allocate(h, i)
    /\ \/ h = "create" /\ CanIssueId /\ i = ids'
       \/ h = "migrate" /\ i \in DOMAIN reg /\ reg[i].tip = 0 /\ UNCHANGED ids

\* Nothing else moves one.
LEMMA AddingMoves ==
    ASSUME RegInv, Next
    PROVE  \/ UNCHANGED adding
           \/ \E h, i : Begins(h, i)
           \/ \E h \in {"create", "migrate"} : EndAdding(h)
           \/ Crash
<1>1. CASE BeginCreate
  <2>1. Begins("create", NewId)
    BY <1>1 DEF BeginCreate, Begins, CanIssueId, history
  <2> QED
    BY <2>1
<1>2. ASSUME NEW i \in Ids, BeginRekey(i) PROVE Begins("migrate", i)
  BY <1>2 DEF BeginRekey, Begins, issued, history
<1>3. \/ UNCHANGED adding \/ BeginCreate \/ (\E i \in Ids : BeginRekey(i))
      \/ (\E h \in {"create", "migrate"} : EndAdding(h)) \/ Crash
  BY DEF Next, User, Panel, WritePeers, Flush, CreateVPS, Join, Delete,
     Approve, Refuse, Expire, Dial, RegisterToken, RegisterMatch, RegisterNoMatch, Adopt, UpdateVPS, RegisterLog,
     RegisterPinned, Attach, Ack, SocketLost, PanelDrops, Wiped, StateLost, Start
<1> QED
  BY <1>1, <1>2, <1>3

\* By which steps the store moves.  A server the user adds, or lets back in,
\* has no address; it comes under an ID of its own or one that was issued
\* just now, and is no longer gone.
AddsServer(i) ==
    /\ \E e : Adds(i, e) /\ e.tip = 0
    /\ UNCHANGED adding
    /\ deleted' = deleted \ {i}
    /\ (UNCHANGED ids /\ Borne(i)) \/ (ids' = ids + 1 /\ i = ids')
Stores == /\ adding["create"].st = "store"
          /\ \E e : Adds(adding["create"].id, e)

\* Nothing else moves the store.
LEMMA StoreMoves ==
    ASSUME RegInv, Next
    PROVE  \/ UNCHANGED <<store, up, deleted>>
           \/ UNCHANGED <<adding, deleted>> /\ \E r : Rewrites(r) /\ (Persist(r) \/ Touch(r))
           \/ \E i : AddsServer(i)
           \/ EndAdding("create") /\ Stores
           \/ EndAdding("migrate") /\ Addresses(adding["migrate"].id, adding["migrate"].tip)
           \/ \E i \in Ids : Delete(i) /\ Removes(i)
           \/ WritePeers \/ Crash \/ StateLost \/ Start
<1> DEFINE Goal ==
           \/ UNCHANGED <<store, up, deleted>>
           \/ UNCHANGED <<adding, deleted>> /\ \E r : Rewrites(r) /\ (Persist(r) \/ Touch(r))
           \/ \E i : AddsServer(i)
           \/ EndAdding("create") /\ Stores
           \/ EndAdding("migrate") /\ Addresses(adding["migrate"].id, adding["migrate"].tip)
           \/ \E i \in Ids : Delete(i) /\ Removes(i)
           \/ WritePeers \/ Crash \/ StateLost \/ Start
<1> SUFFICES Goal
    OBVIOUS
<1>a. /\ GoodRegistry(reg) /\ cred \in [Agents -> Credentials] /\ sess \in [Agents -> Session]
      /\ ids \in 0..MaxId /\ tokens \in 0..MaxToken /\ adding \in [{"create", "migrate"} -> Adding]
      /\ deleted \subseteq Ids
  BY DEF RegInv, RegTyped, AgentsTyped, StoreTyped, IssuedTyped, AddingTyped, HistoryTyped
<1>b. IdsIssued /\ Allocated
  BY DEF RegInv
<1>m. MaxId \in Nat /\ MaxToken \in Nat /\ Local \subseteq Agents
  BY RegistryAssumption
<1>n. ASSUME CanIssueId PROVE NewId \in Ids /\ ~Used(NewId) /\ ids' = ids + 1 /\ NewId = ids'
  <2>1. NewId \in Ids /\ NewId > ids /\ NewId = ids + 1
    BY <1>n, <1>a, <1>m DEF CanIssueId, NewId, Ids
  <2> QED
    BY <1>n, <2>1, <1>b, <1>a DEF IdsIssued, CanIssueId
<1>s. SameTips(reg)
  BY DEF SameTips
\* A server without an address.
<1>e. ASSUME NEW t \in 0..MaxToken, NEW a \in Agents, NEW p \in BOOLEAN
      PROVE  LET e == [tok |-> t, host |-> a, wg |-> FALSE, tip |-> 0, pend |-> p]
             IN  e \in Entry /\ e.tip = 0
  BY <1>m DEF Entry
<1>x. ASSUME NEW i \in Ids, i \notin DOMAIN reg, NEW e \in Entry, e.tip = 0, Ready, UNCHANGED <<up, adding>>,
             Persist(Put(i, e)), deleted' = deleted \ {i},
             (UNCHANGED ids /\ Borne(i)) \/ (ids' = ids + 1 /\ i = ids')
      PROVE AddsServer(i)
  BY <1>x DEF AddsServer, Adds
<1>1. CASE Flush
  <2>1. Persist(reg) /\ Ready /\ UNCHANGED <<up, adding, deleted>>
    BY <1>1 DEF Flush, history, world
  <2> QED
    BY <2>1, <1>a, <1>s DEF Rewrites
<1>2. ASSUME NEW a \in Agents, RegisterLog(a) PROVE Goal
  <2>1. Persist(reg) /\ Ready /\ UNCHANGED <<up, adding, deleted>>
    BY <1>2 DEF RegisterLog, LogAction, history, world
  <2> QED
    BY <2>1, <1>a, <1>s DEF Rewrites
<1>3. ASSUME NEW a \in Agents, CreateVPS(a) PROVE Goal
  <2>1. NewId \in Ids /\ ~Used(NewId) /\ ids' = ids + 1 /\ NewId = ids'
    BY <1>3, <1>n DEF CreateVPS
  <2>2. Ready /\ UNCHANGED <<up, adding>> /\ deleted' = deleted /\ NewId \notin deleted /\ NewId \notin DOMAIN reg
    BY <1>3, <2>1 DEF CreateVPS, history, Used, Present
  <2>3. PICK e : e = [tok |-> 0, host |-> a, wg |-> FALSE, tip |-> 0, pend |-> TRUE]
    OBVIOUS
  <2>4. e \in Entry /\ e.tip = 0
    BY <2>3, <1>m DEF Entry
  <2>6. Persist(Put(NewId, e))
    BY <1>3, <2>3 DEF CreateVPS
  <2>5. AddsServer(NewId)
    BY <2>1, <2>2, <2>4, <2>6, <1>x
  <2> QED
    BY <2>5
\* AdoptVPS: under the ID the agent holds, or a new one.
<1>4. ASSUME NEW a \in Agents, Ready, UNCHANGED <<up, adding>>,
             NEW i, i = IF cred[a].id = 0 THEN NewId ELSE cred[a].id, i \notin DOMAIN reg,
             IF cred[a].id = 0 THEN CanIssueId ELSE UNCHANGED ids,
             NEW e \in Entry, e.tip = 0, Persist(Put(i, e)), deleted' = deleted \ {i}
      PROVE AddsServer(i)
  <2>1. CASE cred[a].id = 0
    BY <1>4, <2>1, <1>n, <1>x
  <2>2. CASE cred[a].id # 0
    <3>1. i \in Ids /\ Borne(i) /\ UNCHANGED ids
      BY <1>4, <2>2, <1>a, <1>m DEF Credentials, Ids, Borne
    <3> QED
      BY <1>4, <3>1, <1>x
  <2> QED
    BY <2>1, <2>2
<1>5. ASSUME NEW a \in Agents, Approve(a) PROVE Goal
  <2>1. PICK i : i = IF cred[a].id = 0 THEN NewId ELSE cred[a].id
    OBVIOUS
  <2>2. CASE i \in DOMAIN reg
    BY <1>5, <2>1, <2>2 DEF Approve
  <2>3. CASE i \notin DOMAIN reg
    <3>1. PICK e : e = [tok |-> cred[a].tok, host |-> a, wg |-> FALSE, tip |-> 0, pend |-> TRUE]
      OBVIOUS
    <3>2. e \in Entry /\ e.tip = 0
      BY <3>1, <1>a, <1>e DEF Credentials
    <3>3. /\ Ready /\ UNCHANGED <<up, adding>> /\ Persist(Put(i, e)) /\ deleted' = deleted \ {i}
          /\ IF cred[a].id = 0 THEN CanIssueId ELSE UNCHANGED ids
      BY <1>5, <2>1, <2>3, <3>1 DEF Approve
    <3>4. AddsServer(i)
      BY <1>4, <2>1, <2>3, <3>2, <3>3
    <3> QED
      BY <3>4
  <2> QED
    BY <2>2, <2>3
<1>6. ASSUME NEW a \in Agents, Adopt(a) PROVE Goal
  <2>1. PICK i : i = IF cred[a].id = 0 THEN NewId ELSE cred[a].id
    OBVIOUS
  <2>2. CASE i \in DOMAIN reg
    BY <1>6, <2>1, <2>2 DEF Adopt, world
  <2>3. CASE i \notin DOMAIN reg
    <3>0. PICK t : t = IF cred[a].tok = 0 THEN NewToken ELSE cred[a].tok
      OBVIOUS
    <3>1. PICK e : e = [tok |-> t, host |-> a, wg |-> FALSE, tip |-> 0, pend |-> FALSE]
      OBVIOUS
    <3>3. /\ Ready /\ UNCHANGED <<up, adding>> /\ Persist(Put(i, e)) /\ deleted' = deleted \ {i}
          /\ IF cred[a].id = 0 THEN CanIssueId ELSE UNCHANGED ids
          /\ cred[a].tok = 0 => CanIssueToken
      BY <1>6, <2>1, <2>3, <3>0, <3>1 DEF Adopt, world
    <3>4. t \in 0..MaxToken
      BY <3>0, <3>3, <1>a, <1>m DEF Credentials, CanIssueToken, NewToken
    <3>2. e \in Entry /\ e.tip = 0
      BY <3>1, <3>4, <1>e
    <3>5. AddsServer(i)
      BY <1>4, <2>1, <2>3, <3>2, <3>3
    <3> QED
      BY <3>5
  <2> QED
    BY <2>2, <2>3
\* An entry takes on its agent's state, and keeps its address.
<1>7. ASSUME NEW i \in DOMAIN reg, NEW e \in Entry, e.tip = reg[i].tip, Ready, UNCHANGED <<up, adding, deleted>>,
             NEW r, r = [reg EXCEPT ![i] = e], Persist(r) \/ Touch(r)
      PROVE Goal
  <2>1. GoodRegistry(r) /\ SameTips(r)
    BY <1>7, <1>a DEF GoodRegistry, SameTips
  <2> QED
    BY <1>7, <2>1 DEF Rewrites
<1>8. ASSUME NEW a \in Agents, UpdateVPS(a) PROVE Goal
  <2>1. PICK i : i = sess[a].id
    OBVIOUS
  <2>2. CASE i \notin DOMAIN reg
    BY <1>8, <2>1, <2>2 DEF UpdateVPS, history
  <2>3. CASE i \in DOMAIN reg
    <3> DEFINE fresh == sess[a].how = "reclaim" \/ (sess[a].how = "pending" /\ reg[i].tok = 0)
    <3>1. PICK t : t = IF fresh THEN NewToken ELSE reg[i].tok
      OBVIOUS
    <3>2. PICK e : e = [Online(reg[i], a) EXCEPT !.tok = t]
      OBVIOUS
    <3>3. /\ Ready /\ UNCHANGED <<up, adding, deleted>> /\ Touch([reg EXCEPT ![i] = e]) /\ (fresh => CanIssueToken)
      BY <1>8, <2>1, <2>3, <3>1, <3>2 DEF UpdateVPS, history
    <3>4. t \in 0..MaxToken /\ reg[i] \in Entry
      BY <3>1, <3>3, <2>3, <1>a, <1>m DEF GoodRegistry, Entry, CanIssueToken, NewToken
    <3>5. Online(reg[i], a) \in Entry /\ Online(reg[i], a).tip = reg[i].tip
      BY <3>4 DEF Online, Entry
    <3>6. e \in Entry /\ e.tip = reg[i].tip
      BY <3>2, <3>4, <3>5 DEF Entry
    <3> QED
      BY <1>7, <2>3, <3>3, <3>6
  <2> QED
    BY <2>2, <2>3
<1>9. ASSUME NEW a \in Agents, RegisterPinned(a) PROVE Goal
  <2>1. PICK i : i = sess[a].id
    OBVIOUS
  <2>2. CASE i \notin DOMAIN reg
    BY <1>9, <2>1, <2>2 DEF RegisterPinned, history
  <2>3. CASE i \in DOMAIN reg
    <3>1. PICK t : t = IF reg[i].tok = 0 THEN NewToken ELSE reg[i].tok
      OBVIOUS
    <3>2. PICK e : e = [reg[i] EXCEPT !.tok = t, !.wg = TRUE, !.pend = FALSE]
      OBVIOUS
    <3>3. /\ Ready /\ UNCHANGED <<up, adding, deleted>> /\ Persist([reg EXCEPT ![i] = e])
          /\ reg[i].tok = 0 => CanIssueToken
      BY <1>9, <2>1, <2>3, <3>1, <3>2 DEF RegisterPinned, history
    <3>4. t \in 0..MaxToken /\ reg[i] \in Entry
      BY <3>1, <3>3, <2>3, <1>a, <1>m DEF GoodRegistry, Entry, CanIssueToken, NewToken
    <3>6. e \in Entry /\ e.tip = reg[i].tip
      BY <3>2, <3>4 DEF Entry
    <3> QED
      BY <1>7, <2>3, <3>3, <3>6
  <2> QED
    BY <2>2, <2>3
<1>10. CASE EndAdding("create")
  <2>1. PICK i, t : i = adding["create"].id /\ t = adding["create"].tip
    OBVIOUS
  <2>2. PICK e : e = [tok |-> 0, host |-> NoAgent, wg |-> TRUE, tip |-> t, pend |-> TRUE]
    OBVIOUS
  <2>3. Ready /\ adding["create"].st = "store" /\ Persist(Put(i, e)) /\ UNCHANGED up
    BY <1>10, <2>1, <2>2 DEF EndAdding, world
  <2>4. t \in 0..MaxId /\ FreeTip(t) /\ i \in 1..ids
    BY <2>1, <2>3, <1>a, <1>b DEF Adding, Allocated, IdsIssued
  <2>5. i \in Ids /\ i \notin DOMAIN reg
    BY <2>1, <2>3, <2>4, <1>a, <1>b, <1>m DEF Ids, IdsIssued, Used, Present, Creating
  <2>6. e \in Entry /\ e.tip = t
    BY <2>2, <2>4, <1>m DEF Entry
  <2>7. Stores
    BY <2>1, <2>3, <2>4, <2>5, <2>6 DEF Stores, Adds
  <2> QED
    BY <1>10, <2>7
<1>11. CASE EndAdding("migrate")
  <2>1. PICK i, t : i = adding["migrate"].id /\ t = adding["migrate"].tip
    OBVIOUS
  <2>2. Ready /\ adding["migrate"].st = "store" /\ UNCHANGED <<up, deleted>>
    BY <1>11 DEF EndAdding, world, history
  <2>3. CASE i \in DOMAIN reg
    <3>1. Persist([reg EXCEPT ![i].tip = t])
      BY <1>11, <2>1, <2>3 DEF EndAdding
    <3>2. t \in Ids /\ FreeTip(t) /\ reg[i].tip = 0
      BY <2>1, <2>2, <2>3, <1>a, <1>b, <1>m DEF Adding, Allocated, Ids
    <3> QED
      BY <1>11, <2>1, <2>2, <2>3, <3>1, <3>2 DEF Addresses
  <2>4. CASE i \notin DOMAIN reg
    <3>1. UNCHANGED store
      BY <1>11, <2>1, <2>4 DEF EndAdding
    <3> QED
      BY <2>2, <3>1
  <2> QED
    BY <2>3, <2>4
<1>12. ASSUME NEW i \in Ids, Delete(i) PROVE Goal
  BY <1>12 DEF Delete, DeleteVPS, Removes
<1>13. CASE BeginCreate \/ (\E i \in Ids : BeginRekey(i) \/ PanelDrops(i) \/ \E a \in Agents : Join(a, i))
            \/ \E a \in Agents : \/ Refuse(a) \/ Expire(a) \/ Dial(a) \/ RegisterToken(a) \/ RegisterMatch(a)
                                 \/ RegisterNoMatch(a) \/ Attach(a) \/ Ack(a) \/ SocketLost(a) \/ Wiped(a)
  <2>1. UNCHANGED <<store, up, deleted>>
    BY <1>13 DEF BeginCreate, BeginRekey, PanelDrops, Join, Refuse, Expire, Dial, RegisterToken, RegisterMatch,
       RegisterNoMatch, Attach, Ack, SocketLost, Wiped, history, world
  <2> QED
    BY <2>1
<1>14. CASE WritePeers \/ Crash \/ StateLost \/ Start
  BY <1>14
<1>15. ASSUME NEW h \in {"create", "migrate"}, EndAdding(h) PROVE Goal
  BY <1>10, <1>11, <1>15
<1> HIDE DEF Goal
<1> QED
  BY <1>1, <1>2, <1>3, <1>5, <1>6, <1>8, <1>9, <1>12, <1>13, <1>14, <1>15, Zenon DEF Next, User, Panel

\* Whatever moves the store leaves two files that agree.
LEMMA StoreStep == RegInv /\ Next => StoreTyped' /\ TunnelUnique' /\ FilesAgree'
<1> SUFFICES ASSUME RegInv, Next PROVE StoreTyped' /\ TunnelUnique' /\ FilesAgree'
    OBVIOUS
<1>1. CASE UNCHANGED <<store, up, deleted>>
  <2>1. StoreTyped /\ TunnelUnique /\ FilesAgree /\ UNCHANGED <<reg, file, peers, writing, dirty, up>>
    BY <1>1 DEF RegInv, RegTyped, store
  <2>2. StoreTyped' /\ TunnelUnique'
    BY <2>1 DEF StoreTyped, TunnelUnique
  <2>3. FilesAgree'
    BY <2>1 DEF FilesAgree, NoDoubles, Agrees, Within
  <2> QED
    BY <2>2, <2>3
<1>2. ASSUME NEW i, AddsServer(i) PROVE StoreTyped' /\ TunnelUnique' /\ FilesAgree'
  BY <1>2, AddKeeps DEF AddsServer
<1>3. CASE Stores
  BY <1>3, AddKeeps DEF Stores
<1> QED
  BY <1>1, <1>2, <1>3, StoreMoves, RewriteKeeps, AddressKeeps, RemoveKeeps, WritePeersKeeps, LossKeeps, StartKeeps

\* What an added or an addressed entry makes of the registry, for the
\* arguments below.
LEMMA AddsMakes ==
    ASSUME RegInv, NEW i, NEW e, Adds(i, e)
    PROVE  /\ DOMAIN reg' = DOMAIN reg \cup {i} /\ file' = reg' /\ peers' = peers
           /\ reg'[i] = e /\ (\A j \in DOMAIN reg : j # i => reg'[j] = reg[j])
           /\ up' = up /\ i \in Ids /\ i \notin DOMAIN reg
<1>1. /\ i \in Ids /\ e \in Entry /\ i \notin DOMAIN reg /\ UNCHANGED up /\ GoodRegistry(reg)
      /\ Persist(Put(i, e))
  BY DEF Adds, RegInv, RegTyped, StoreTyped
<1>2. /\ DOMAIN Put(i, e) = DOMAIN reg \cup {i} /\ Put(i, e)[i] = e
      /\ \A j \in DOMAIN reg \ {i} : Put(i, e)[j] = reg[j]
  BY <1>1, PutMakes
<1>3. reg' = Put(i, e) /\ file' = reg' /\ peers' = peers
  BY <1>1 DEF Persist
<1> QED
  BY <1>1, <1>2, <1>3

\* A step brings in no server but the one it adds.
LEMMA PresentStep ==
    ASSUME RegInv, Next, NEW j, Present(j)'
    PROVE  Present(j) \/ AddsServer(j) \/ (EndAdding("create") /\ Creating(j))
<1>1. CASE UNCHANGED <<store, up, deleted>>
  BY <1>1 DEF store, Present
<1>2. ASSUME NEW r, Rewrites(r), Persist(r) \/ Touch(r) PROVE Present(j)
  BY <1>2 DEF Rewrites, SameTips, Persist, Touch, Present
<1>3. ASSUME NEW i, AddsServer(i) PROVE Present(j) \/ AddsServer(j)
  <2>1. PICK e : Adds(i, e)
    BY <1>3 DEF AddsServer
  <2>2. DOMAIN reg' = DOMAIN reg \cup {i} /\ file' = reg' /\ peers' = peers
    BY <2>1, AddsMakes
  <2> QED
    BY <1>3, <2>2 DEF Present
<1>4. CASE EndAdding("create") /\ Stores
  <2>1. PICK e : Adds(adding["create"].id, e) /\ adding["create"].st = "store"
    BY <1>4 DEF Stores
  <2>2. DOMAIN reg' = DOMAIN reg \cup {adding["create"].id} /\ file' = reg' /\ peers' = peers
    BY <2>1, AddsMakes
  <2> QED
    BY <1>4, <2>1, <2>2 DEF Present, Creating
<1>5. ASSUME NEW i, NEW t, Addresses(i, t) PROVE Present(j)
  BY <1>5 DEF Addresses, Persist, Present
<1>6. ASSUME NEW i, Removes(i) PROVE Present(j)
  <2>1. GoodRegistry(reg)
    BY DEF RegInv, RegTyped, StoreTyped
  <2>2. reg' = Restrict(reg, DOMAIN reg \ {i}) /\ file' = reg' /\ peers' = peers
    BY <1>6 DEF Removes, Persist
  <2>3. DOMAIN reg' = DOMAIN reg \ {i}
    BY <2>1, <2>2, RestrictMakes
  <2> QED
    BY <2>2, <2>3 DEF Present
<1>7. CASE WritePeers
  BY <1>7 DEF WritePeers, PeersOf, Present
<1>8. CASE Crash \/ StateLost
  BY <1>8, EmptyGood DEF Crash, StateLost, Present
<1>9. CASE Start
  BY <1>9 DEF Start, RestoreWGPeers, Present
<1> QED
  BY <1>1, <1>2, <1>3, <1>4, <1>5, <1>6, <1>7, <1>8, <1>9, StoreMoves

\* What was deleted stays gone.
LEMMA GoneStep == RegInv /\ Next => Gone'
<1> SUFFICES ASSUME RegInv, Next, NEW j \in deleted', Present(j)' PROVE FALSE
    BY DEF Gone
<1>a. Gone /\ IdsIssued /\ deleted \subseteq Ids /\ deleted' \subseteq Ids
  BY CountsStep DEF RegInv, RegTyped, HistoryTyped
<1>1. ASSUME NEW i \in Ids, Delete(i), Removes(i) PROVE FALSE
  <2>0. GoodRegistry(reg) /\ Ready
    BY <1>1 DEF RegInv, RegTyped, StoreTyped, Removes
  <2>1. reg' = Restrict(reg, DOMAIN reg \ {i}) /\ file' = reg' /\ peers' = peers
    BY <1>1 DEF Removes, Persist
  <2>2. DOMAIN reg' = DOMAIN reg \ {i}
    BY <2>0, <2>1, RestrictMakes
  <2>3. CASE j \in deleted
    BY <2>1, <2>2, <2>3, <1>a DEF Gone, Present
  <2>4. CASE j \notin deleted
    <3>1. j = i /\ reg[i].tip = 0
      BY <1>1, <2>4 DEF Delete, HasWireGuardPeer
    <3>2. \A p \in peers : p.id # i
      BY <3>1, <2>0, PeersKnown
    <3> QED
      BY <2>1, <2>2, <3>1, <3>2 DEF Present
  <2> QED
    BY <2>3, <2>4
<1>2. ASSUME deleted' \subseteq deleted, ~AddsServer(j) PROVE FALSE
  <2>1. j \in deleted /\ ~Present(j)
    BY <1>2, <1>a DEF Gone
  <2>2. Creating(j)
    BY <1>2, <2>1, PresentStep
  <2> QED
    BY <2>1, <2>2, <1>a DEF IdsIssued, Used
<1>3. CASE AddsServer(j)
  BY <1>3 DEF AddsServer
<1>4. ASSUME NEW i, AddsServer(i), ~AddsServer(j) PROVE FALSE
  BY <1>2, <1>4 DEF AddsServer
<1>5. ASSUME UNCHANGED deleted, ~AddsServer(j) PROVE FALSE
  BY <1>2, <1>5
<1>6. \/ UNCHANGED deleted \/ (\E i : AddsServer(i)) \/ (\E i \in Ids : Delete(i) /\ Removes(i))
  BY StoreMoves DEF EndAdding, WritePeers, Crash, StateLost, Start, history
<1> QED
  BY <1>1, <1>3, <1>4, <1>5, <1>6

\* An allocation holds a free address, and there is one at a time.
LEMMA AllocatedStep == RegInv /\ Next => AddingTyped' /\ Allocated'
<1> SUFFICES ASSUME RegInv, Next PROVE AddingTyped' /\ Allocated'
    OBVIOUS
<1>a. /\ adding \in [{"create", "migrate"} -> Adding] /\ Allocated /\ up \in BOOLEAN
      /\ ids \in 0..MaxId /\ DOMAIN reg \subseteq Ids
  BY DEF RegInv, RegTyped, AddingTyped, StoreTyped, IssuedTyped, GoodRegistry
<1>m. MaxId \in Nat /\ 0 \in 0..MaxId /\ Ids \subseteq 0..MaxId /\ 0 \notin Ids
  BY RegistryAssumption DEF Ids
<1>n. NotAdding \in Adding /\ NotAdding.st = "idle"
  BY <1>m DEF NotAdding, Adding
\* No allocation is under way.
<1>i. ASSUME \A h \in {"create", "migrate"} : adding'[h].st = "idle" PROVE Allocated'
  BY <1>i DEF Allocated
\* The same allocations, and no address that was not there.
<1>f. ASSUME UNCHANGED adding, up' = FALSE => up = FALSE,
             \A j \in DOMAIN reg' : reg'[j].tip = 0 \/ (j \in DOMAIN reg /\ reg'[j].tip = reg[j].tip)
      PROVE AddingTyped' /\ Allocated'
  <2>1. AddingTyped'
    BY <1>f, <1>a DEF AddingTyped
  <2>2. Allocated'
    BY <1>f, <1>a DEF Allocated, FreeTip
  <2> QED
    BY <2>1, <2>2
<1>1. ASSUME NEW h, NEW i, Begins(h, i) PROVE AddingTyped' /\ Allocated'
  <2>1. PICK t \in Ids : /\ FreeTip(t)
                         /\ adding' = [adding EXCEPT ![h] = [st |-> "store", tip |-> t, id |-> i]]
    BY <1>1 DEF Begins, Allocate
  <2>2. /\ h \in {"create", "migrate"} /\ UNCHANGED <<reg, up>>
        /\ \A g \in {"create", "migrate"} : adding[g].st = "idle"
        /\ up = TRUE
    BY <1>1, <1>a DEF Begins, CreateMuFree, Ready, store
  <2>3. i \in 0..MaxId /\ (h = "migrate" => i \in DOMAIN reg /\ reg[i].tip = 0)
    <3>1. CASE CanIssueId /\ i = ids' /\ h = "create"
      <4>1. ids < MaxId /\ ids' = ids + 1
        BY <3>1 DEF CanIssueId, NewId
      <4>2. ids + 1 \in 0..MaxId
        BY <4>1, <1>a, <1>m
      <4> QED
        BY <3>1, <4>1, <4>2
    <3>2. CASE i \in DOMAIN reg /\ reg[i].tip = 0
      BY <3>2, <1>a, <1>m
    <3> QED
      BY <1>1, <3>1, <3>2 DEF Begins
  <2>4. PICK e : e = [st |-> "store", tip |-> t, id |-> i]
    OBVIOUS
  <2>5. e \in Adding /\ e.st = "store" /\ e.tip = t /\ e.id = i
    BY <2>1, <2>3, <2>4, <1>m DEF Adding
  <2>6. adding' = [adding EXCEPT ![h] = e]
    BY <2>1, <2>4
  <2>7. adding'[h] = e /\ \A g \in {"create", "migrate"} : g # h => adding'[g] = adding[g]
    BY <2>2, <2>6, <1>a
  <2>8. AddingTyped'
    BY <2>5, <2>6, <1>a DEF AddingTyped
  <2>9. Allocated'
    <3>1. \A g \in {"create", "migrate"} : adding'[g].st = "store" => g = h /\ adding'[g].tip = t /\ adding'[g].id = i
      BY <2>2, <2>5, <2>7
    <3>2. ~(adding'["create"].st = "store" /\ adding'["migrate"].st = "store")
      BY <3>1
    <3>3. t # 0 /\ \A j \in DOMAIN reg' : reg'[j].tip # t
      BY <2>1, <2>2, <1>m DEF FreeTip
    <3>4. adding'["migrate"].st = "store" => \A j \in DOMAIN reg' : j = adding'["migrate"].id => reg'[j].tip = 0
      BY <3>1, <2>2, <2>3
    <3> QED
      BY <2>2, <3>1, <3>2, <3>3, <3>4 DEF Allocated, FreeTip
  <2> QED
    BY <2>8, <2>9
<1>2. ASSUME NEW h \in {"create", "migrate"}, EndAdding(h) PROVE AddingTyped' /\ Allocated'
  <2>1. adding' = [adding EXCEPT ![h] = NotAdding] /\ adding[h].st = "store"
    BY <1>2 DEF EndAdding
  <2>2. \A g \in {"create", "migrate"} : g # h => adding[g].st = "idle"
    BY <2>1, <1>a DEF Allocated, Adding
  <2>3. AddingTyped'
    BY <2>1, <1>a, <1>n DEF AddingTyped
  <2>4. \A g \in {"create", "migrate"} : adding'[g].st = "idle"
    BY <2>1, <2>2, <1>a, <1>n
  <2> QED
    BY <2>3, <2>4, <1>i
<1>3. CASE Crash
  <2>1. adding' = [h \in {"create", "migrate"} |-> NotAdding]
    BY <1>3, <1>a DEF Crash
  <2> QED
    BY <2>1, <1>n, <1>i DEF AddingTyped
<1>4. CASE UNCHANGED adding /\ ~Crash /\ ~(\E h \in {"create", "migrate"} : EndAdding(h))
  <2>1. CASE UNCHANGED <<store, up, deleted>>
    BY <1>4, <2>1, <1>f DEF store
  <2>2. ASSUME NEW r, Rewrites(r), Persist(r) \/ Touch(r) PROVE AddingTyped' /\ Allocated'
    BY <1>4, <2>2, <1>f DEF Rewrites, SameTips, Persist, Touch
  <2>3. ASSUME NEW i, AddsServer(i) PROVE AddingTyped' /\ Allocated'
    <3>1. PICK e : Adds(i, e) /\ e.tip = 0
      BY <2>3 DEF AddsServer
    <3>2. DOMAIN reg' = DOMAIN reg \cup {i} /\ reg'[i] = e /\ up' = up
          /\ (\A j \in DOMAIN reg : j # i => reg'[j] = reg[j])
      BY <3>1, AddsMakes
    <3> QED
      BY <1>4, <1>f, <3>1, <3>2
  <2>4. ASSUME NEW i, Removes(i) PROVE AddingTyped' /\ Allocated'
    <3>1. GoodRegistry(reg)
      BY DEF RegInv, RegTyped, StoreTyped
    <3>2. reg' = Restrict(reg, DOMAIN reg \ {i}) /\ up' = up
      BY <2>4 DEF Removes, Persist
    <3>3. DOMAIN reg' = DOMAIN reg \ {i} /\ \A j \in DOMAIN reg' : reg'[j] = reg[j]
      BY <3>1, <3>2, RestrictMakes
    <3> QED
      BY <1>4, <1>f, <3>2, <3>3
  <2>5. CASE WritePeers \/ StateLost
    BY <1>4, <2>5, <1>f DEF WritePeers, StateLost, world
  <2>6. CASE Start
    <3>1. up = FALSE
      BY <2>6, <1>a DEF Start
    <3>2. \A h \in {"create", "migrate"} : adding'[h].st = "idle"
      BY <1>4, <3>1, <1>a DEF Allocated
    <3> QED
      BY <1>4, <3>2, <1>i, <1>a DEF AddingTyped
  <2> QED
    BY <1>4, <2>1, <2>2, <2>3, <2>4, <2>5, <2>6, StoreMoves
<1> QED
  BY <1>1, <1>2, <1>3, <1>4, AddingMoves

\* No ID is issued twice.
LEMMA IdsStep == RegInv /\ Next => IdsIssued'
<1> SUFFICES ASSUME RegInv, Next PROVE IdsIssued'
    OBVIOUS
<1>a. /\ adding \in [{"create", "migrate"} -> Adding] /\ IdsIssued /\ ids \in Nat
      /\ ids' \in {ids, ids + 1} /\ ids' \in Nat /\ Ids \subseteq Nat
  BY CountsStep, RegistryAssumption DEF RegInv, RegTyped, AddingTyped, IssuedTyped, Ids
<1>b. adding["create"].st = "store" => adding["create"].id \in 1..ids
  BY <1>a DEF IdsIssued
\* Where a used ID comes from.
<1>1. ASSUME NEW i \in Ids, Used(i)'
      PROVE  Used(i) \/ (i = ids + 1 /\ ids' = i) \/ (EndAdding("create") /\ Creating(i))
  <2>1. CASE Present(i)'
    <3>1. CASE AddsServer(i)
      BY <3>1 DEF AddsServer, Used
    <3> QED
      BY <2>1, <3>1, PresentStep DEF Used
  <2>2. CASE i \in deleted'
    <3>1. i \in deleted \/ i \in DOMAIN reg
      BY <2>2, StoreMoves
         DEF EndAdding, WritePeers, Crash, StateLost, Start, AddsServer, Delete, history
    <3> QED
      BY <3>1 DEF Used, Present
  <2>3. CASE Borne(i)'
    BY <2>3, AgentsStep
  <2> QED
    BY <1>1, <2>1, <2>2, <2>3 DEF Used
<1>2. ASSUME NEW i \in Ids, Used(i)' PROVE i <= ids'
  <2>1. CASE Used(i)
    <3>1. i <= ids
      BY <2>1, <1>a DEF IdsIssued
    <3> QED
      BY <3>1, <1>a
  <2>2. CASE Creating(i)
    BY <2>2, <1>a, <1>b DEF Creating
  <2> QED
    BY <1>1, <1>2, <2>1, <2>2, <1>a
<1>3. ASSUME NEW i \in Ids, Used(i)', Creating(i)' PROVE FALSE
  <2>1. CASE UNCHANGED adding /\ ~EndAdding("create")
    <3>1. Creating(i)
      BY <1>3, <2>1 DEF Creating
    <3>2. i <= ids
      BY <3>1, <1>b, <1>a DEF Creating
    <3>3. Used(i)
      BY <1>1, <1>3, <2>1, <3>2, <1>a
    <3> QED
      BY <3>1, <3>3, <1>a DEF IdsIssued
  <2>2. ASSUME NEW h, NEW k, Begins(h, k) PROVE FALSE
    <3>1. h \in {"create", "migrate"} /\ \A g \in {"create", "migrate"} : adding[g].st = "idle"
      BY <2>2, <1>a DEF Begins, CreateMuFree
    <3>2. PICK t : adding' = [adding EXCEPT ![h] = [st |-> "store", tip |-> t, id |-> k]]
      BY <2>2 DEF Begins, Allocate
    <3>3. h = "create"
      BY <1>3, <3>1, <3>2, <1>a DEF Creating
    <3>4. adding'["create"].id = k /\ k = ids' /\ ids' = ids + 1
      BY <2>2, <3>1, <3>2, <3>3, <1>a DEF Begins, CanIssueId, NewId
    <3>5. i = ids + 1
      BY <1>3, <3>4 DEF Creating
    <3>6. ~Creating(i)
      BY <3>1 DEF Creating
    <3>7. UNCHANGED <<reg, file, peers, deleted, cred, sess>>
      BY <2>2 DEF Begins, store
    <3>8. Used(i)
      BY <1>3, <3>7 DEF Used, Present, Borne
    <3> QED
      BY <3>5, <3>8, <1>a DEF IdsIssued
  <2>3. ASSUME NEW h \in {"create", "migrate"}, EndAdding(h) PROVE FALSE
    <3>1. adding' = [adding EXCEPT ![h] = NotAdding] /\ adding[h].st = "store"
      BY <2>3 DEF EndAdding
    <3>2. CASE h = "create"
      BY <1>3, <3>1, <3>2, <1>a DEF Creating, NotAdding
    <3>3. CASE h = "migrate"
      <4>1. adding["create"].st # "store"
        BY <3>1, <3>3 DEF RegInv, Allocated
      <4> QED
        BY <1>3, <3>1, <3>3, <4>1, <1>a DEF Creating
    <3> QED
      BY <3>2, <3>3
  <2>4. CASE Crash
    BY <1>3, <2>4, <1>a DEF Crash, Creating, NotAdding
  <2> QED
    BY <2>1, <2>2, <2>3, <2>4, AddingMoves
<1>4. ASSUME adding'["create"].st = "store" PROVE adding'["create"].id \in 1..ids'
  <2>1. CASE UNCHANGED adding
    <3>1. adding["create"].id \in 1..ids /\ adding'["create"].id = adding["create"].id
      BY <1>4, <2>1, <1>b
    <3> QED
      BY <3>1, <1>a
  <2>2. ASSUME NEW h, NEW k, Begins(h, k) PROVE adding'["create"].id \in 1..ids'
    <3>1. h \in {"create", "migrate"} /\ \A g \in {"create", "migrate"} : adding[g].st = "idle"
      BY <2>2, <1>a DEF Begins, CreateMuFree
    <3>2. PICK t : adding' = [adding EXCEPT ![h] = [st |-> "store", tip |-> t, id |-> k]]
      BY <2>2 DEF Begins, Allocate
    <3>3. h = "create"
      BY <1>4, <3>1, <3>2, <1>a
    <3>4. adding'["create"].id = k /\ k = ids' /\ ids' = ids + 1
      BY <2>2, <3>1, <3>2, <3>3, <1>a DEF Begins, CanIssueId, NewId
    <3> QED
      BY <3>4, <1>a
  <2>3. ASSUME NEW h \in {"create", "migrate"}, EndAdding(h) PROVE adding'["create"].id \in 1..ids'
    <3>1. adding' = [adding EXCEPT ![h] = NotAdding] /\ adding[h].st = "store"
      BY <2>3 DEF EndAdding
    <3>2. CASE h = "create"
      BY <1>4, <3>1, <3>2, <1>a DEF NotAdding
    <3>3. CASE h = "migrate"
      <4>1. adding["create"].st # "store"
        BY <3>1, <3>3 DEF RegInv, Allocated
      <4> QED
        BY <1>4, <3>1, <3>3, <4>1, <1>a
    <3> QED
      BY <3>2, <3>3
  <2>4. CASE Crash
    BY <1>4, <2>4, <1>a DEF Crash, NotAdding
  <2> QED
    BY <2>1, <2>2, <2>3, <2>4, AddingMoves
<1> QED
  BY <1>2, <1>3, <1>4 DEF IdsIssued

\* What a step of the registry leaves is again good.
LEMMA RegStep == RegInv /\ Next => RegInv'
BY AgentsStep, CountsStep, HubStep, StoreStep, GoneStep, AllocatedStep, IdsStep DEF RegInv, RegTyped

-----------------------------------------------------------------------------
(* Both parts together.                                                    *)

\* A part that does not move stays as it is.
LEMMA RegStays == RegInv /\ UNCHANGED vars => RegInv'
<1> SUFFICES ASSUME RegInv, UNCHANGED vars PROVE RegInv'
    OBVIOUS
<1>1. UNCHANGED <<reg, dirty, file, peers, writing, cred, sess, hub, adding, waiting, refused, ids, tokens,
                  owed, tunnelled, deleted, up, ops, faults>>
  BY DEF vars, store, queue, issued, history, world
<1>2. RegTyped'
  BY <1>1 DEF RegInv, RegTyped, StoreTyped, GoodRegistry, AgentsTyped, HubTyped, AddingTyped, QueueTyped, IssuedTyped,
     HistoryTyped, BoundsTyped
<1>3. IdsIssued'
  BY <1>1 DEF RegInv, IdsIssued, Used, Present, Borne, Creating
<1>4. Allocated' /\ TunnelUnique'
  BY <1>1 DEF RegInv, Allocated, FreeTip, TunnelUnique
<1>5. FilesAgree'
  BY <1>1 DEF RegInv, FilesAgree, NoDoubles, Agrees, Within
<1>6. Gone'
  BY <1>1 DEF RegInv, Gone, Present
<1> QED
  BY <1>2, <1>3, <1>4, <1>5, <1>6 DEF RegInv

\* The same of the transport.
LEMMA PathStays == PathInv /\ UNCHANGED pathVars => PathInv'
<1> SUFFICES ASSUME PathInv, UNCHANGED pathVars PROVE PathInv'
    OBVIOUS
<1>1. UNCHANGED <<cfg, disk, ses, att, entry, wgPeers, migrate, back, old, cmd, paths, heard, keysIssued,
                  trOps, trFaults>>
  BY DEF pathVars
<1>2. Typed'
  <2>1. GoodPanel' /\ GoodWorld'
    BY <1>1 DEF PathInv, Typed, GoodPanel, GoodWorld
  <2> QED
    BY <1>1, <2>1 DEF PathInv, Typed
<1>3. Path!SingleUse' /\ Trial'
  BY <1>1 DEF PathInv, Path!SingleUse, Trial, SwitchedOnce, PushedOnce, NotResumed, AckHeard, Unswitched, OnTrial
<1> QED
  BY <1>2, <1>3 DEF PathInv

\* The invariant of both parts, whichever moves.
THEOREM MembersInvariant == MembersSpec => []MembersInv
<1>1. MembersInit => MembersInv
  BY RegStart, PathStart DEF MembersInit, MembersInv
<1>2. MembersInv /\ [MembersNext]_<<focus, vars, pathVars>> => MembersInv'
  <2> SUFFICES ASSUME MembersInv, [MembersNext]_<<focus, vars, pathVars>> PROVE MembersInv'
      OBVIOUS
  <2>1. RegInv /\ PathInv
    BY DEF MembersInv
  <2>2. CASE Next /\ UNCHANGED pathVars
    BY <2>1, <2>2, RegStep, PathStays DEF MembersInv
  <2>3. CASE Path!Next /\ UNCHANGED vars
    BY <2>1, <2>3, RegStays, PathStep DEF MembersInv
  <2>4. CASE UNCHANGED <<vars, pathVars>>
    BY <2>1, <2>4, RegStays, PathStays DEF MembersInv
  <2> QED
    BY <2>2, <2>3, <2>4 DEF MembersNext
<1> QED
  BY <1>1, <1>2, PTL DEF MembersSpec

\* Whatever creations, migrations, deletions, registrations, flushes, crashes
\* and restores lie between: no two servers share a tunnel address, what was
\* deleted stays gone (allocateTunnelIP, writeLocked, restoreWGPeers,
\* DeleteVPS), and the panel holds no private key that was used
\* (registerPinnedAgent).
THEOREM MembersAreSound == MembersSpec => []MembersSound
<1>1. MembersInv => MembersSound
  BY RegGives, TypedGives DEF MembersInv, PathInv, MembersSound
<1> QED
  BY <1>1, MembersInvariant, PTL

\* The agent gives up its fallback only on a session the panel has heard
\* through the tunnel, over failed saves, restarts and switches that come late
\* (ApplyRegisterAck, applySwitchToWireGuard).
THEOREM MembersTrial == MembersSpec => TrialEndsHeard
<1> DEFINE Ends == cfg.until = "running" /\ cfg'.until = "none" /\ cfg'.key = cfg.key /\ cfg'.fb
           Step == [Ends => ses.via = "wg" /\ ses.key \in heard]_Path!vars
<1>1. MembersInv /\ [MembersNext]_<<focus, vars, pathVars>> => Step
  <2> SUFFICES ASSUME MembersInv, [MembersNext]_<<focus, vars, pathVars>> PROVE Step
      OBVIOUS
  <2>1. CASE Path!Next
    <3>1. Ends => ses.via = "wg" /\ ses.key \in heard
      BY <2>1, PathTrialEnds DEF MembersInv
    <3> QED
      BY <3>1
  <2>2. CASE UNCHANGED pathVars
    <3>1. UNCHANGED Path!vars
      BY <2>2 DEF pathVars, Path!vars, Path!agent, Path!panel, Path!handlers, Path!world
    <3> QED
      BY <3>1
  <2> QED
    BY <2>1, <2>2 DEF MembersNext
<1> HIDE DEF Step
<1>2. MembersSpec => [][Step]_Path!vars
  BY <1>1, MembersInvariant, PTL DEF MembersSpec
<1> QED
  BY <1>2, PTL DEF TrialEndsHeard, Path!TrialEndsHeard, Step
=============================================================================
