------------------------------ MODULE Registry ------------------------------
(***************************************************************************)
(* The panel's registry of servers and how an agent gets into it           *)
(* (backend/store.go, wg_peers.go, agent_register.go, rejoin.go and the    *)
(* handlers of backend/api.go and wireguard_api.go that create, delete and *)
(* let back in).                                                           *)
(*                                                                         *)
(* IDs, tokens and tunnel addresses are numbers, 0 is "none".  A machine   *)
(* is known by its address, which stands for its tailnet name as well.     *)
(* The registry is written to two files one after the other; a crash may   *)
(* come between any two steps.                                             *)
(***************************************************************************)
EXTENDS Naturals, FiniteSets, Functions

CONSTANTS Agents,     \* machines, which are their addresses
          Local,      \* the machine the panel runs on
          MaxId,      \* bound: server IDs, and tunnel addresses
          MaxToken,   \* bound: tokens issued
          MaxOps,     \* bound: things the user does
          MaxFaults   \* bound: crashes, lost sockets, wiped machines

ASSUME RegistryAssumption ==
    /\ Local \subseteq Agents
    /\ MaxId \in Nat /\ MaxToken \in Nat /\ MaxOps \in Nat /\ MaxFaults \in Nat

VARIABLES reg,       \* Store.state.VPS
          dirty,     \* Store.dirty
          file,      \* state.json
          peers,     \* wg-peers.json
          writing,   \* state.json is written and wg-peers.json is not
          up,        \* the panel runs
          cred,      \* what each agent has saved
          sess,      \* each agent's socket, as the panel's goroutine sees it
          hub,       \* AgentHub.agents: the machine whose socket an ID has
          adding,    \* the handlers that allocate a tunnel address
          waiting,   \* rejoinQueue.pending
          refused,   \* rejoinQueue.refused
          ids, tokens,  \* issued so far
          owed,      \* history: agents with an ack nothing has voided since
          tunnelled, \* history: agents acked through the tunnel they have
          deleted,   \* history: servers without tunnel keys that were deleted
          ops, faults

store == <<reg, dirty, file, peers, writing>>
queue == <<waiting, refused>>
issued == <<ids, tokens>>
history == <<owed, tunnelled, deleted>>
world == <<up, ops, faults>>
vars == <<store, cred, sess, hub, adding, queue, issued, history, world>>

Ids == 1..MaxId
NoAgent == "none"
Entry == [tok: 0..MaxToken, host: Agents \cup {NoAgent}, wg: BOOLEAN, tip: 0..MaxId, pend: BOOLEAN]
Registries == UNION {[D -> Entry] : D \in SUBSET Ids}
HasWireGuardPeer(e) == e.tip # 0
PeerRecord == [id: Ids, entry: Entry]
NoCred == [id |-> 0, tok |-> 0, tip |-> 0]

\* at: where the panel's goroutine for this socket stands; id: the entry the
\* token, the tunnel or the match gave; how: by which of them; tok: the token
\* it is going to hand out.
Session == [at: {"none", "open", "update", "adopt", "online", "log", "attach", "ack", "up"},
            how: {"none", "token", "pending", "reclaim", "adopt", "pinned"},
            id: 0..MaxId, tok: 0..MaxToken]
NoSession == [at |-> "none", how |-> "none", id |-> 0, tok |-> 0]

TypeOK ==
    /\ DOMAIN reg \subseteq Ids /\ \A i \in DOMAIN reg : reg[i] \in Entry
    /\ DOMAIN file \subseteq Ids /\ \A i \in DOMAIN file : file[i] \in Entry
    /\ peers \subseteq PeerRecord /\ \A p \in peers : HasWireGuardPeer(p.entry)
    /\ dirty \in BOOLEAN /\ writing \in BOOLEAN /\ up \in BOOLEAN
    /\ cred \in [Agents -> [id: 0..MaxId, tok: 0..MaxToken, tip: 0..MaxId]]
    /\ sess \in [Agents -> Session]
    /\ hub \in [Ids -> Agents \cup {NoAgent}]
    /\ adding \in [{"create", "migrate"} -> [st: {"idle", "store"}, tip: 0..MaxId, id: 0..MaxId]]
    /\ waiting \subseteq Agents /\ refused \subseteq Agents
    /\ ids \in 0..MaxId /\ tokens \in 0..MaxToken
    /\ owed \subseteq Agents /\ tunnelled \subseteq Agents /\ deleted \subseteq Ids
    /\ ops \in 0..MaxOps /\ faults \in 0..MaxFaults

NotAdding == [st |-> "idle", tip |-> 0, id |-> 0]

Init ==
    /\ reg = <<>> /\ file = <<>> /\ peers = {}
    /\ dirty = FALSE /\ writing = FALSE /\ up = TRUE
    /\ cred = [a \in Agents |-> NoCred]
    /\ sess = [a \in Agents |-> NoSession]
    /\ hub = [i \in Ids |-> NoAgent]
    /\ adding = [h \in {"create", "migrate"} |-> NotAdding]
    /\ waiting = {} /\ refused = {}
    /\ ids = 0 /\ tokens = 0
    /\ owed = {} /\ tunnelled = {} /\ deleted = {}
    /\ ops = 0 /\ faults = 0

-----------------------------------------------------------------------------
(* The store.  All of it runs under one lock, the write of both files      *)
(* included: nothing else of the store happens between the two.            *)

Ready == up /\ ~writing
UserActs == ops < MaxOps /\ ops' = ops + 1
Fault == faults < MaxFaults /\ faults' = faults + 1

\* persistLocked, writeLocked: the registry r goes to state.json at once.
Persist(r) == reg' = r /\ file' = r /\ dirty' = FALSE /\ writing' = TRUE /\ UNCHANGED peers

\* touchLocked: the write is left to FlushLoop.
Touch(r) == reg' = r /\ dirty' = TRUE /\ UNCHANGED <<file, peers, writing>>

\* Mutant: every server goes to the peers file.
AllOf(r) == {[id |-> i, entry |-> r[i]] : i \in DOMAIN r}

\* writePeersLocked
PeersOf(r) ==
    {[id |-> i, entry |-> r[i]] : i \in {j \in DOMAIN r : HasWireGuardPeer(r[j])}}

WritePeers ==
    /\ up /\ writing
    /\ peers' = PeersOf(reg) /\ writing' = FALSE
    /\ UNCHANGED <<reg, dirty, file, cred, sess, hub, adding, queue, issued, history, world>>

\* FlushLoop
Flush ==
    /\ Ready /\ dirty
    /\ Persist(reg)
    /\ UNCHANGED <<cred, sess, hub, adding, queue, issued, history, world>>

Put(i, e) == [j \in DOMAIN reg \cup {i} |-> IF j = i THEN e ELSE reg[j]]
NewId == ids + 1
NewToken == tokens + 1
CanIssueId == ids < MaxId /\ ids' = NewId
CanIssueToken == tokens < MaxToken /\ tokens' = NewToken

-----------------------------------------------------------------------------
(* What the user does.                                                     *)

\* handleCreateVPS, Store.CreateVPS: one entry per address.
CreateVPS(a) ==
    /\ Ready /\ UserActs
    /\ \A i \in DOMAIN reg : reg[i].host # a
    /\ CanIssueId
    /\ Persist(Put(NewId, [tok |-> 0, host |-> a, wg |-> FALSE, tip |-> 0, pend |-> TRUE]))
    /\ UNCHANGED <<cred, sess, hub, adding, queue, tokens, history, up, faults>>

\* Mutant: CreateServer and Rekey allocate without createMu.
FreeForAll(h) == adding[h].st = "idle"

\* createMu: CreateServer and Rekey allocate one after the other.
CreateMuFree(h) == \A g \in DOMAIN adding : adding[g].st = "idle"

\* allocateTunnelIP
FreeTip(t) == \A i \in DOMAIN reg : reg[i].tip # t

Allocate(h, i) ==
    \E t \in Ids : /\ FreeTip(t) /\ \A u \in 1..(t - 1) : ~FreeTip(u)
                   /\ adding' = [adding EXCEPT ![h] = [st |-> "store", tip |-> t, id |-> i]]

\* createWireGuardVPS, CreateServer
BeginCreate ==
    /\ Ready /\ UserActs
    /\ CreateMuFree("create")
    /\ CanIssueId
    /\ Allocate("create", NewId)
    /\ UNCHANGED <<store, cred, sess, hub, queue, tokens, history, up, faults>>

\* handleWireGuardMigrate, Rekey of a server that has no tunnel address yet.
BeginRekey(i) ==
    /\ Ready /\ UserActs
    /\ CreateMuFree("migrate")
    /\ i \in DOMAIN reg /\ ~reg[i].wg /\ reg[i].tip = 0
    /\ Allocate("migrate", i)
    /\ UNCHANGED <<store, cred, sess, hub, queue, issued, history, up, faults>>

\* CreateWireGuardVPS, the UpdateVPSNow of Rekey: a server deleted meanwhile
\* is not stored.  Its owner installs the agent with the key that was issued.
EndAdding(h) ==
    /\ Ready /\ adding[h].st = "store"
    /\ LET i == adding[h].id
           t == adding[h].tip
       IN  IF h = "create"
           THEN Persist(Put(i, [tok |-> 0, host |-> NoAgent, wg |-> TRUE, tip |-> t, pend |-> TRUE]))
           ELSE IF i \in DOMAIN reg
                THEN Persist([reg EXCEPT ![i].tip = t])
                ELSE UNCHANGED store
    /\ adding' = [adding EXCEPT ![h] = NotAdding]
    /\ UNCHANGED <<cred, sess, hub, queue, issued, history, world>>

\* The user runs the install command of a tunnel, or the agent is switched.
Join(a, i) ==
    /\ Ready /\ UserActs
    /\ a \notin Local /\ i \in DOMAIN reg /\ HasWireGuardPeer(reg[i])
    /\ \A b \in Agents : cred[b].tip # reg[i].tip
    /\ reg[i].host \in {a, NoAgent}
    /\ cred' = [cred EXCEPT ![a].tip = reg[i].tip]
    /\ tunnelled' = tunnelled \ {a}
    /\ UNCHANGED <<store, sess, hub, adding, queue, issued, owed, deleted, up, faults>>

\* Mutant: the deletion is left to the next flush.
DeletesLater(r) == Touch(r)

DeleteVPS(r) == Persist(r)

\* handleVPSByID, DELETE.  The socket of the agent is left alone; its tunnel
\* peer is removed, so nothing is owed to an agent with its key either.
Delete(i) ==
    /\ Ready /\ UserActs
    /\ i \in DOMAIN reg
    /\ DeleteVPS(Restrict(reg, DOMAIN reg \ {i}))
    /\ owed' = {a \in owed : cred[a].id # i /\ (cred[a].tip = 0 \/ cred[a].tip # reg[i].tip)}
    /\ deleted' = IF HasWireGuardPeer(reg[i]) THEN deleted ELSE deleted \cup {i}
    /\ UNCHANGED <<cred, sess, hub, adding, queue, issued, tunnelled, up, faults>>

\* handleApproveRejoin: AdoptVPS under the ID and the token the agent holds,
\* then pending until it comes.
Approve(a) ==
    /\ Ready /\ UserActs /\ a \in waiting
    /\ waiting' = waiting \ {a}
    /\ LET i == IF cred[a].id = 0 THEN NewId ELSE cred[a].id
       IN  IF i \in DOMAIN reg
           THEN UNCHANGED <<store, ids, deleted>>
           ELSE /\ IF cred[a].id = 0 THEN CanIssueId ELSE UNCHANGED ids
                /\ Persist(Put(i, [tok |-> cred[a].tok, host |-> a, wg |-> FALSE, tip |-> 0, pend |-> TRUE]))
                /\ deleted' = deleted \ {i}
    /\ UNCHANGED <<cred, sess, hub, adding, refused, tokens, owed, tunnelled, up, faults>>

\* handleRefuseRejoin
Refuse(a) ==
    /\ up /\ UserActs /\ a \in waiting
    /\ waiting' = waiting \ {a} /\ refused' = refused \cup {a}
    /\ UNCHANGED <<store, cred, sess, hub, adding, issued, history, up, faults>>

\* expireLocked: an agent that stopped knocking.
Expire(a) ==
    /\ up /\ a \in waiting /\ sess[a].at = "up"
    /\ waiting' = waiting \ {a}
    /\ UNCHANGED <<store, cred, sess, hub, adding, refused, issued, history, world>>

-----------------------------------------------------------------------------
(* An agent's socket.                                                      *)

Goto(a, s) == sess' = [sess EXCEPT ![a] = s]
Drop(a) == Goto(a, NoSession)

FindByToken(t) == {i \in DOMAIN reg : t # 0 /\ reg[i].tok = t}
FindByTunnelIP(t) == {i \in DOMAIN reg : t # 0 /\ reg[i].tip = t}

\* serveAgentWS: the entry of the token, or of the tunnel, is looked up when
\* the socket opens, and a copy is kept.  A key no entry has gets no tunnel.
Dial(a) ==
    /\ Ready /\ sess[a].at = "none"
    /\ IF cred[a].tip # 0
       THEN \E i \in FindByTunnelIP(cred[a].tip) :
              Goto(a, [at |-> "open", how |-> "pinned", id |-> i, tok |-> 0])
       ELSE IF FindByToken(cred[a].tok) = {}
            THEN Goto(a, [NoSession EXCEPT !.at = "open"])
            ELSE \E i \in FindByToken(cred[a].tok) :
                   Goto(a, [at |-> "open", how |-> "token", id |-> i, tok |-> 0])
    /\ UNCHANGED <<store, cred, hub, adding, queue, issued, history, world>>

\* registerAgent, a token that was known.
RegisterToken(a) ==
    /\ Ready /\ sess[a].at = "open" /\ sess[a].how = "token"
    /\ Goto(a, [sess[a] EXCEPT !.at = "update"])
    /\ UNCHANGED <<store, cred, hub, adding, queue, issued, history, world>>

\* FindPendingByTailscale, FindByTailscale
Pending(a) == {i \in DOMAIN reg : reg[i].tok = 0 /\ ~reg[i].wg /\ reg[i].host = a}
AtAddress(a) == {i \in DOMAIN reg : ~reg[i].wg /\ reg[i].host = a}

\* Mutant: the status of the entry is read in place of the hub.
StatusConnected(i) == ~reg[i].pend

Connected(i) == hub[i] # NoAgent
Known(a) == cred[a].id \in DOMAIN reg
Holds(a) == cred[a].tok # 0 \/ cred[a].id # 0

\* registerAgent without a token the registry knows: a server added and
\* waiting, or one at this address that is not connected, or the rejoin queue.
RegisterMatch(a) ==
    /\ Ready /\ sess[a].at = "open" /\ sess[a].how = "none"
    /\ ~(Known(a) /\ reg[cred[a].id].wg)
    /\ \/ \E i \in Pending(a) :
            Goto(a, [at |-> "update", how |-> "pending", id |-> i, tok |-> 0])
       \/ /\ Pending(a) = {}
          /\ \E i \in AtAddress(a) :
               /\ ~Connected(i)
               /\ Goto(a, [at |-> "update", how |-> "reclaim", id |-> i, tok |-> 0])
    /\ UNCHANGED <<store, cred, hub, adding, queue, issued, history, world>>

NoMatch(a) ==
    \/ Known(a) /\ reg[cred[a].id].wg
    \/ Pending(a) = {} /\ \E i \in AtAddress(a) : Connected(i)
    \/ Pending(a) = {} /\ AtAddress(a) = {}

RegisterNoMatch(a) ==
    /\ Ready /\ sess[a].at = "open" /\ sess[a].how = "none"
    /\ NoMatch(a)
    /\ IF ~Known(a) /\ Holds(a)
       THEN IF a \in Local
            THEN Goto(a, [sess[a] EXCEPT !.at = "adopt", !.how = "adopt"]) /\ UNCHANGED waiting
            ELSE Drop(a) /\ waiting' = IF a \in refused THEN waiting ELSE waiting \cup {a}
       ELSE Drop(a) /\ UNCHANGED waiting
    /\ UNCHANGED <<store, cred, hub, adding, refused, issued, history, world>>

\* AdoptVPS for an agent on this computer, under its own ID and token.
Adopt(a) ==
    /\ Ready /\ sess[a].at = "adopt"
    /\ LET i == IF cred[a].id = 0 THEN NewId ELSE cred[a].id
       IN  /\ Goto(a, [sess[a] EXCEPT !.at = "online", !.id = i])
           /\ IF i \in DOMAIN reg
              THEN UNCHANGED <<store, issued, deleted>>
              ELSE /\ IF cred[a].id = 0 THEN CanIssueId ELSE UNCHANGED ids
                   /\ IF cred[a].tok = 0 THEN CanIssueToken ELSE UNCHANGED tokens
                   /\ Persist(Put(i, [tok |-> IF cred[a].tok = 0 THEN NewToken ELSE cred[a].tok,
                                      host |-> a, wg |-> FALSE, tip |-> 0, pend |-> FALSE]))
                   /\ deleted' = deleted \ {i}
    /\ UNCHANGED <<cred, hub, adding, queue, owed, tunnelled, world>>

\* applyAgentOnline
Online(e, a) == [e EXCEPT !.pend = FALSE, !.host = IF e.wg THEN @ ELSE a]

\* UpdateVPS with the entry's new state.  A server deleted since the match is
\* not there: the handler dies on the nil it gets and the socket goes.
UpdateVPS(a) ==
    /\ Ready /\ sess[a].at \in {"update", "online"}
    /\ LET i == sess[a].id
           fresh == sess[a].how = "reclaim" \/ (sess[a].how = "pending" /\ reg[i].tok = 0)
       IN  IF i \notin DOMAIN reg
           THEN Drop(a) /\ UNCHANGED <<store, tokens>>
           ELSE /\ IF fresh THEN CanIssueToken ELSE UNCHANGED tokens
                /\ LET t == IF fresh THEN NewToken ELSE reg[i].tok
                   IN  /\ Touch([reg EXCEPT ![i] = [Online(@, a) EXCEPT !.tok = t]])
                       /\ Goto(a, [sess[a] EXCEPT !.tok = t,
                                     !.at = IF sess[a].how = "token" THEN "attach" ELSE "log"])
    /\ UNCHANGED <<cred, hub, adding, queue, ids, history, up, ops, faults>>

\* Mutant: the log entry is left to the next flush.
LogsLater == Touch(reg)

\* logAction, AddAction: the line is saved at once, and the registry with it.
LogAction == Persist(reg)

RegisterLog(a) ==
    /\ Ready /\ sess[a].at = "log"
    /\ LogAction
    /\ Goto(a, [sess[a] EXCEPT !.at = "attach"])
    /\ UNCHANGED <<cred, hub, adding, queue, issued, history, world>>

\* registerPinnedAgent, with UpdateVPSNow.
RegisterPinned(a) ==
    /\ Ready /\ sess[a].at = "open" /\ sess[a].how = "pinned"
    /\ LET i == sess[a].id
       IN  IF i \notin DOMAIN reg
           THEN Drop(a) /\ UNCHANGED <<store, tokens>>
           ELSE /\ IF reg[i].tok = 0 THEN CanIssueToken ELSE UNCHANGED tokens
                /\ LET t == IF reg[i].tok = 0 THEN NewToken ELSE reg[i].tok
                   IN  /\ Persist([reg EXCEPT ![i] = [@ EXCEPT !.tok = t, !.wg = TRUE, !.pend = FALSE]])
                       /\ Goto(a, [sess[a] EXCEPT !.at = "attach", !.tok = t])
    /\ UNCHANGED <<cred, hub, adding, queue, ids, history, up, ops, faults>>

\* attachSession, by the goroutine whose own write of the files is over: a
\* socket that has the ID already is shut down.
Attach(a) ==
    /\ Ready /\ sess[a].at = "attach"
    /\ hub' = [hub EXCEPT ![sess[a].id] = a]
    /\ sess' = [b \in Agents |->
                  IF b = a THEN [sess[a] EXCEPT !.at = "ack"]
                  ELSE IF hub[sess[a].id] = b /\ sess[b].id = sess[a].id THEN NoSession
                  ELSE sess[b]]
    /\ UNCHANGED <<store, cred, adding, queue, issued, history, world>>

\* The ack arrives: ApplyRegisterAck and Config.Save.  What the agent has from
\* then on the panel owes it, unless the server was deleted under way.
Ack(a) ==
    /\ up /\ sess[a].at = "ack"
    /\ cred' = [cred EXCEPT ![a] = [@ EXCEPT !.id = sess[a].id, !.tok = sess[a].tok]]
    /\ owed' = IF sess[a].id \in DOMAIN reg THEN owed \cup {a} ELSE owed
    /\ tunnelled' = IF sess[a].how = "pinned" THEN tunnelled \cup {a} ELSE tunnelled \ {a}
    /\ Goto(a, [sess[a] EXCEPT !.at = "up"])
    /\ UNCHANGED <<store, hub, adding, queue, issued, deleted, world>>

\* disconnect
Disconnected(a) == [i \in Ids |-> IF hub[i] = a /\ sess[a].id = i THEN NoAgent ELSE hub[i]]

\* The socket is lost on both sides, at once or on the agent's first.
SocketLost(a) ==
    /\ up /\ sess[a].at # "none" /\ Fault
    /\ Drop(a)
    /\ hub' = Disconnected(a) \/ UNCHANGED hub
    /\ UNCHANGED <<store, cred, adding, queue, issued, history, up, ops>>

\* The panel finds a dead socket out by its read deadline.
PanelDrops(i) ==
    /\ up /\ hub[i] # NoAgent
    /\ ~(sess[hub[i]].id = i /\ sess[hub[i]].at \in {"ack", "up"})
    /\ hub' = [hub EXCEPT ![i] = NoAgent]
    /\ UNCHANGED <<store, cred, sess, adding, queue, issued, history, world>>

-----------------------------------------------------------------------------
(* Faults.                                                                 *)

\* A machine is reinstalled without its config.json.
Wiped(a) ==
    /\ Fault /\ cred[a] # NoCred
    /\ cred' = [cred EXCEPT ![a] = NoCred]
    /\ Drop(a)
    /\ owed' = owed \ {a} /\ tunnelled' = tunnelled \ {a}
    /\ UNCHANGED <<store, hub, adding, queue, issued, deleted, up, ops>>

\* The panel dies, at any instant.
Crash ==
    /\ up /\ Fault
    /\ up' = FALSE /\ writing' = FALSE /\ dirty' = FALSE
    /\ sess' = [a \in Agents |-> NoSession]
    /\ hub' = [i \in Ids |-> NoAgent]
    /\ adding' = [h \in DOMAIN adding |-> NotAdding]
    /\ waiting' = {} /\ refused' = {}
    /\ reg' = <<>>
    /\ UNCHANGED <<file, peers, cred, issued, history, ops>>

\* state.json is reset, or restored from before the servers were added.  What
\* the peers file keeps is the servers whose agents came in by their tunnel.
StateLost ==
    /\ ~up /\ Fault
    /\ file' = <<>>
    /\ owed' = owed \cap tunnelled
    /\ UNCHANGED <<reg, dirty, peers, writing, cred, sess, hub, adding, queue, issued,
                   tunnelled, deleted, up, ops>>

\* restoreWGPeers: what state.json lost and the peers file still has.
RestoreWGPeers(f, ps) ==
    [i \in DOMAIN f \cup {p.id : p \in ps} |->
        IF i \in DOMAIN f THEN f[i] ELSE (CHOOSE p \in ps : p.id = i).entry]

\* NewStore
Start ==
    /\ ~up /\ up' = TRUE
    /\ reg' = RestoreWGPeers(file, peers)
    /\ UNCHANGED <<dirty, file, peers, writing, cred, sess, hub, adding, queue, issued, history, ops, faults>>

-----------------------------------------------------------------------------
Panel(a) == \/ RegisterToken(a) \/ RegisterMatch(a) \/ RegisterNoMatch(a) \/ Adopt(a)
            \/ UpdateVPS(a) \/ RegisterLog(a) \/ RegisterPinned(a) \/ Attach(a)
User == \/ BeginCreate
        \/ \E a \in Agents : CreateVPS(a) \/ Approve(a) \/ Refuse(a)
        \/ \E i \in Ids : BeginRekey(i) \/ Delete(i) \/ \E a \in Agents : Join(a, i)
Next == \/ WritePeers \/ Flush \/ User \/ Crash \/ StateLost \/ Start
        \/ \E h \in {"create", "migrate"} : EndAdding(h)
        \/ \E a \in Agents : \/ Dial(a) \/ Panel(a) \/ Ack(a) \/ Expire(a)
                             \/ SocketLost(a) \/ Wiped(a)
        \/ \E i \in Ids : PanelDrops(i)

Spec == Init /\ [][Next]_vars

\* The panel is opened again, its goroutines run and agents keep dialling.
FairSpec ==
    /\ Spec
    /\ WF_vars(WritePeers) /\ WF_vars(Start)
    /\ \A a \in Agents : WF_vars(Dial(a)) /\ WF_vars(Panel(a)) /\ WF_vars(Ack(a))
    /\ \A i \in Ids : WF_vars(PanelDrops(i))

-----------------------------------------------------------------------------
(* Properties.                                                             *)

\* What a restart would load now.
OnDisk == RestoreWGPeers(file, peers)

\* The token of an ack is on disk before the agent has it, though UpdateVPS
\* leaves its write to FlushLoop: the line logAction saves carries it.  So a
\* panel that dies at any instant knows every agent it has acked again, by
\* its token or by its tunnel, until the user deletes the server.
AckedIsKnown ==
    \A a \in owed :
        \/ cred[a].id \in DOMAIN OnDisk /\ OnDisk[cred[a].id].tok = cred[a].tok
        \/ cred[a].tip # 0 /\ \E i \in DOMAIN OnDisk : OnDisk[i].tip = cred[a].tip

\* No two servers have one tunnel address, which is all FindByTunnelIP and
\* the peers' allowed addresses go by, whatever creations, migrations and
\* restores from the peers file lie between.
TunnelUnique ==
    \A i, j \in DOMAIN reg : reg[i].tip # 0 /\ reg[i].tip = reg[j].tip => i = j

\* A server that was deleted stays deleted, across a registration under way,
\* a flush and a restart, until its own agent is let back in (DeleteVPS).
\* Only a server with tunnel keys may return, when the crash comes between
\* the two files.
DeletedStaysGone == \A i \in deleted : i \notin DOMAIN reg

\* An agent the registry has a place for ends up connected under it: its
\* token's entry, or one at its address when it lost the token, in spite of
\* crashes, dead sockets the panel still counts as connected and a wiped
\* configuration (registerAgent, Connected).
Attached(a) == \E i \in DOMAIN reg : hub[i] = a /\ sess[a].at = "up" /\ sess[a].id = i
Welcome(a) ==
    /\ up /\ cred[a].tip = 0 /\ tokens < MaxToken
    /\ \/ FindByToken(cred[a].tok) # {}
       \/ AtAddress(a) # {} /\ ~(Known(a) /\ reg[cred[a].id].wg)
    /\ sess[a].at = "up" => sess[a].id \in DOMAIN reg
Readmitted == \A a \in Agents : <>[]Welcome(a) => <>[]Attached(a)
=============================================================================
