---------------------------- MODULE SessionProofs ----------------------------
(***************************************************************************)
(* What runs over an agent's socket, and what the panel makes of a server  *)
(* that has none: the command lanes, the terminals, the temporary logins   *)
(* and the offline sweep, for every value of their constants.  They share  *)
(* no variable.                                                            *)
(***************************************************************************)
EXTENDS CommandLanes, MCShells, Reachability, FiniteSetTheorems, TLAPS

-----------------------------------------------------------------------------
(* Command lanes: changes to one lane never overlap and no slot is leaked. *)

\* The commands that hold a slot.
Holders == {c \in Cmds : Holds(c)}

\* A change that executes owns its lane's mutex.
LanesOwned == \A c \in Mutating : Busy(c) => lock[Lane(c)] = c

\* The inductive invariant.
LanesInv == TypeOK /\ LanesOwned /\ SlotsAccounted

\* A command that neither takes nor gives back a slot keeps the count.
LEMMA HoldersFinite == IsFiniteSet(Holders) /\ Cardinality(Holders) \in Nat
BY LanesAssumption, FS_Subset, FS_CardinalityType DEF Holders

\* The invariant holds when the agent starts.
LEMMA LanesInit == Init => LanesInv
<1> SUFFICES ASSUME Init PROVE LanesInv
    OBVIOUS
<1>1. TypeOK
  <2>1. pushQueued \in BOOLEAN
    BY DEF Init
  <2> QED
    BY <2>1, LanesAssumption DEF Init, TypeOK, PCs
<1>2. LanesOwned
  BY LanesAssumption DEF Init, LanesOwned, Busy
<1>3. Holders = {}
  BY DEF Init, Holders, Holds
<1>4. SlotsAccounted
  BY <1>3, FS_EmptySet DEF Init, SlotsAccounted, Holders
<1> QED
  BY <1>1, <1>2, <1>4 DEF LanesInv

\* Taking a slot: one more holder.
LEMMA Takes ==
    ASSUME LanesInv, NEW c \in Cmds, ~Holds(c), Holds(c)', slots' = slots + 1,
           \A d \in Cmds \ {c} : pc'[d] = pc[d]
    PROVE  SlotsAccounted'
<1>1. Holders' = Holders \cup {c}
  BY DEF Holders, Holds
<1>2. c \notin Holders
  BY DEF Holders
<1>3. Cardinality(Holders') = Cardinality(Holders) + 1
  BY <1>1, <1>2, HoldersFinite, FS_AddElement
<1> QED
  BY <1>3 DEF LanesInv, SlotsAccounted, Holders

\* Giving a slot back: one holder less, and the count was positive.
LEMMA Returns ==
    ASSUME LanesInv, NEW c \in Cmds, Holds(c), ~Holds(c)', slots' = slots - 1,
           \A d \in Cmds \ {c} : pc'[d] = pc[d]
    PROVE  SlotsAccounted' /\ slots > 0
<1>1. Holders' = Holders \ {c}
  BY DEF Holders, Holds
<1>2. c \in Holders
  BY DEF Holders
<1>3. Cardinality(Holders') = Cardinality(Holders) - 1
  BY <1>1, <1>2, HoldersFinite, FS_RemoveElement
<1>4. IsFiniteSet(Holders') /\ Cardinality(Holders') \in Nat
  BY <1>1, HoldersFinite, FS_RemoveElement, FS_CardinalityType
<1>5. slots = Cardinality(Holders)
  BY DEF LanesInv, SlotsAccounted, Holders
<1>6. SlotsAccounted'
  BY <1>3, <1>5 DEF SlotsAccounted, Holders
<1>7. slots > 0
  BY <1>3, <1>4, <1>5, HoldersFinite
<1> QED
  BY <1>6, <1>7

\* A step that moves commands only within or outside the holders.
LEMMA Keeps ==
    ASSUME LanesInv, \A d \in Cmds : Holds(d)' <=> Holds(d), slots' = slots
    PROVE  SlotsAccounted'
<1>1. Holders' = Holders
  BY DEF Holders
<1> QED
  BY <1>1 DEF LanesInv, SlotsAccounted, Holders

\* One case per action.
LEMMA LanesStep == LanesInv /\ [Next]_vars => LanesInv'
<1> SUFFICES ASSUME LanesInv, [Next]_vars PROVE LanesInv'
    OBVIOUS
<1>0. TypeOK /\ LanesOwned /\ \A c \in Cmds : Lane(c) \in Lanes
  BY DEF LanesInv, Lanes
<1> USE LanesAssumption
<1>1. ASSUME NEW c \in Cmds, Arrive(c) PROVE LanesInv'
  <2>1. TypeOK'
    BY <1>0, <1>1 DEF Arrive, TypeOK, PCs
  <2>2. LanesOwned'
    BY <1>0, <1>1 DEF Arrive, LanesOwned, Busy, Lane, TypeOK
  <2>3. SlotsAccounted'
    BY <1>0, <1>1, Keeps DEF Arrive, Holds, TypeOK
  <2> QED
    BY <2>1, <2>2, <2>3 DEF LanesInv
<1>2. ASSUME NEW c \in Cmds, TakeSlot(c) PROVE LanesInv'
  <2>1. TypeOK'
    BY <1>0, <1>2 DEF TakeSlot, TypeOK, PCs
  <2>2. LanesOwned'
    BY <1>0, <1>2 DEF TakeSlot, LanesOwned, Busy, Lane, TypeOK
  <2>3. SlotsAccounted'
    BY <1>0, <1>2, Takes DEF TakeSlot, Holds, TypeOK
  <2> QED
    BY <2>1, <2>2, <2>3 DEF LanesInv
<1>3. ASSUME NEW c \in Cmds, Abandon(c) \/ StartRead(c) \/ Finish(c) PROVE LanesInv'
  <2>1. TypeOK'
    BY <1>0, <1>3 DEF Abandon, StartRead, Finish, TypeOK, PCs
  <2>2. LanesOwned'
    BY <1>0, <1>3 DEF Abandon, StartRead, Finish, LanesOwned, Busy, Lane, TypeOK
  <2>3. SlotsAccounted'
    BY <1>0, <1>3, Keeps DEF Abandon, StartRead, Finish, Holds, TypeOK
  <2> QED
    BY <2>1, <2>2, <2>3 DEF LanesInv
<1>4. ASSUME NEW c \in Cmds, StartWrite(c) PROVE LanesInv'
  <2>1. TypeOK'
    BY <1>0, <1>4 DEF StartWrite, TypeOK, PCs
  <2>2. LanesOwned'
    <3>1. \A d \in Mutating : Busy(d) => Lane(d) # Lane(c)
      BY <1>0, <1>4 DEF StartWrite, LanesOwned
    <3> QED
      BY <1>0, <1>4, <3>1 DEF StartWrite, LanesOwned, Busy, Lane, TypeOK
  <2>3. SlotsAccounted'
    BY <1>0, <1>4, Keeps DEF StartWrite, Holds, TypeOK
  <2> QED
    BY <2>1, <2>2, <2>3 DEF LanesInv
<1>5. ASSUME NEW c \in Cmds, NEW ok \in BOOLEAN, QueueResult(c, ok) \/ DropResult(c)
      PROVE  LanesInv'
  <2>1. SlotsAccounted' /\ slots > 0
    BY <1>0, <1>5, Returns DEF QueueResult, DropResult, Release, Holds, TypeOK
  <2>2. TypeOK'
    <3>1. pushQueued' \in BOOLEAN
      BY <1>0, <1>5 DEF QueueResult, DropResult, TypeOK
    <3>2. slots' \in 0..Slots
      BY <1>0, <1>5, <2>1 DEF QueueResult, DropResult, Release, TypeOK
    <3>3. lock' \in [Lanes -> Cmds \cup {Free}]
      BY <1>0, <1>5 DEF QueueResult, DropResult, Release, TypeOK
    <3> QED
      BY <1>0, <1>5, <3>1, <3>2, <3>3 DEF QueueResult, DropResult, TypeOK, PCs
  <2>3. LanesOwned'
    <3>1. \A d \in Mutating : Busy(d)' => Busy(d) /\ d # c
      BY <1>0, <1>5 DEF QueueResult, DropResult, Busy, TypeOK
    <3>2. c \in Mutating => lock[Lane(c)] = c
      BY <1>0, <1>5 DEF QueueResult, DropResult, LanesOwned, Busy
    <3>3. \A d \in Mutating : Busy(d)' /\ c \in Mutating => Lane(d) # Lane(c)
      BY <1>0, <3>1, <3>2 DEF LanesOwned
    <3>4. \A d \in Mutating : Busy(d)' => lock'[Lane(d)] = lock[Lane(d)]
      BY <1>0, <1>5, <3>3 DEF QueueResult, DropResult, Release, TypeOK
    <3> QED
      BY <1>0, <3>1, <3>4 DEF LanesOwned, Lane
  <2> QED
    BY <2>1, <2>2, <2>3 DEF LanesInv
<1>6. CASE \/ \E c \in Cmds : Write(c)
           \/ StartPush \/ SessionEnds \/ SessionOpens \/ UNCHANGED vars
  <2>1. TypeOK'
    <3>1. pushQueued' \in BOOLEAN
      BY <1>0, <1>6 DEF Write, StartPush, SessionEnds, SessionOpens, vars, TypeOK
    <3>2. live' \in 0..MaxSess /\ opened' \in 0..MaxSess
      BY <1>0, <1>6 DEF Write, StartPush, SessionEnds, SessionOpens, vars, TypeOK
    <3>3. queued' \subseteq Cmds /\ UNCHANGED <<pc, of, slots, lock, ahead>>
      BY <1>0, <1>6 DEF Write, StartPush, SessionEnds, SessionOpens, vars, TypeOK
    <3> QED
      BY <1>0, <3>1, <3>2, <3>3 DEF TypeOK
  <2>2. UNCHANGED <<pc, slots, lock>>
    BY <1>6 DEF Write, StartPush, SessionEnds, SessionOpens, vars
  <2>3. SlotsAccounted'
    BY <1>0, <2>2, Keeps DEF Holds
  <2> QED
    BY <1>0, <2>1, <2>2, <2>3 DEF LanesInv, LanesOwned, Busy, Lane
<1> QED
  BY <1>1, <1>2, <1>3, <1>4, <1>5, <1>6 DEF Next, RunCommand

\* The inductive invariant holds in every reachable state.
THEOREM LanesInvariant == Spec => []LanesInv
BY LanesInit, LanesStep, PTL DEF Spec

\* laneLock: two changes to one feature never run at the same time.
THEOREM LanesExclude == Spec => []LaneExclusive
<1>1. LanesInv => LaneExclusive
  BY DEF LanesInv, LanesOwned, LaneExclusive
<1> QED
  BY <1>1, LanesInvariant, PTL

\* runCommand: the tokens in cmdSlots are the commands that hold one.
THEOREM LanesSlots == Spec => []SlotsAccounted
BY LanesInvariant, PTL DEF LanesInv

\* cmdSlots, cmdLanes and the goroutines stay within their types: in particular
\* never more tokens than slots.
THEOREM LanesTypes == Spec => []TypeOK
BY LanesInvariant, PTL DEF LanesInv

\* What the panel sees of a goroutine that moves from one position to another.
LEMMA Sight ==
    ASSUME TypeOK, NEW c \in Cmds, NEW at \in PCs, pc' = [pc EXCEPT ![c] = at]
    PROVE  /\ InSight[c] = Seen(pc[c])
           /\ InSight' = [InSight EXCEPT ![c] = Seen(at)]
           /\ Seen(at) = Seen(pc[c]) => InSight' = InSight
BY DEF InSight, TypeOK

\* The commands that run for the panel are busy on the agent.
LEMMA RunningBusy ==
    ASSUME TypeOK, NEW d \in Service!Running PROVE d \in Cmds /\ Busy(d)
<1>1. d \in Cmds /\ Seen(pc[d]) = "running" /\ pc[d] \in PCs
  BY DEF Service!Running, InSight, TypeOK
<1> QED
  BY <1>1 DEF Seen, Busy, PCs

\* A command that runs holds a slot, and so does one that is about to: the
\* slots bound what runs.
LEMMA RoomToRun ==
    ASSUME LanesInv, NEW c \in Cmds, pc[c] = "slotted"
    PROVE  Fits(Service!Running \cup {c})
<1>0. TypeOK
  BY DEF LanesInv
<1>1. Service!Running \cup {c} \subseteq Holders
  BY <1>0, RunningBusy DEF Busy, Holders, Holds
<1>2. /\ Cardinality(Service!Running \cup {c}) <= Cardinality(Holders)
      /\ IsFiniteSet(Service!Running \cup {c})
  BY <1>1, HoldersFinite, FS_Subset
<1>3. Cardinality(Service!Running \cup {c}) \in Nat
  BY <1>2, FS_CardinalityType
<1>4. Cardinality(Holders) <= Slots
  BY <1>0 DEF LanesInv, SlotsAccounted, TypeOK, Holders
<1> QED
  BY <1>2, <1>3, <1>4, HoldersFinite, LanesAssumption DEF Fits

\* A command's start maps to Begin: there is room, and no change to the same
\* feature runs.
LEMMA BeginsAlone ==
    ASSUME LanesInv, NEW c \in Cmds, StartRead(c) \/ StartWrite(c)
    PROVE  Service!Begin(c)
<1>0. TypeOK
  BY DEF LanesInv
<1>1. pc[c] = "slotted" /\ pc' = [pc EXCEPT ![c] = "running"]
      /\ UNCHANGED <<live, opened, of>>
  BY DEF StartRead, StartWrite
<1>2. Fits(Service!Running \cup {c})
  BY <1>1, RoomToRun
<1>3. c \in Mutating => \A d \in Service!Running \cap Mutating : Lane(d) # Lane(c)
  <2>1. c \in Mutating => lock[Lane(c)] = Free
    BY DEF StartRead, StartWrite
  <2> QED
    BY <1>0, <2>1, RunningBusy, LanesAssumption DEF LanesInv, LanesOwned
<1>4. Seen("slotted") = "asked" /\ Seen("running") = "running" /\ "running" \in PCs
  BY DEF Seen, PCs
<1>5. InSight[c] = "asked" /\ InSight' = [InSight EXCEPT ![c] = "running"]
  BY <1>0, <1>1, <1>4, Sight
<1> QED
  BY <1>1, <1>2, <1>3, <1>5 DEF Service!Begin

\* Every step of the agent is a step of the service or a stutter.
LEMMA LanesServeStep == LanesInv /\ [Next]_vars => [Service!Next]_(Service!serviceVars)
<1> SUFFICES ASSUME LanesInv, [Next]_vars PROVE [Service!Next]_(Service!serviceVars)
    OBVIOUS
<1>0. TypeOK
  BY DEF LanesInv
<1> PCs = {"new", "spawned", "slotted", "running", "result", "done", "dropped"}
  BY DEF PCs
<1>s. /\ Seen("new") = "new" /\ Seen("spawned") = "asked" /\ Seen("slotted") = "asked"
      /\ Seen("running") = "running" /\ Seen("result") = "running"
      /\ Seen("done") = "answered" /\ Seen("dropped") = "lost"
  BY DEF Seen
<1>1. ASSUME NEW c \in Cmds, Arrive(c) PROVE Service!Ask(c)
  <2>1. InSight[c] = "new" /\ InSight' = [InSight EXCEPT ![c] = "asked"]
    BY <1>0, <1>s, <1>1, Sight DEF Arrive
  <2> QED
    BY <1>1, <2>1 DEF Arrive, Service!Ask
<1>2. ASSUME NEW c \in Cmds, StartRead(c) \/ StartWrite(c) PROVE Service!Begin(c)
  BY <1>2, BeginsAlone
<1>3. ASSUME NEW c \in Cmds, NEW ok \in BOOLEAN, QueueResult(c, ok) PROVE Service!Answer(c)
  <2>1. InSight[c] = "running" /\ InSight' = [InSight EXCEPT ![c] = "answered"]
    BY <1>0, <1>s, <1>3, Sight DEF QueueResult
  <2> QED
    BY <1>3, <2>1 DEF QueueResult, ToItsSession, Service!Answer
<1>4. ASSUME NEW c \in Cmds, Abandon(c) \/ DropResult(c) PROVE Service!Lose(c)
  <2>1. InSight[c] \in {"asked", "running"} /\ InSight' = [InSight EXCEPT ![c] = "lost"]
    BY <1>0, <1>s, <1>4, Sight DEF Abandon, DropResult
  <2> QED
    BY <1>4, <2>1 DEF Abandon, DropResult, Service!Lose
<1>5. ASSUME NEW c \in Cmds, TakeSlot(c) \/ Finish(c) PROVE UNCHANGED Service!serviceVars
  <2>1. InSight' = InSight
    BY <1>0, <1>s, <1>5, Sight DEF TakeSlot, Finish
  <2> QED
    BY <1>5, <2>1 DEF TakeSlot, Finish, Service!serviceVars
<1>6. UNCHANGED pc => UNCHANGED InSight
  BY DEF InSight
<1>7. SessionEnds => Service!Disconnect
  BY <1>6 DEF SessionEnds, Service!Disconnect
<1>8. SessionOpens => Service!Connect
  BY <1>6 DEF SessionOpens, Service!Connect
<1>9. ASSUME (\E c \in Cmds : Write(c)) \/ StartPush \/ UNCHANGED vars
      PROVE  UNCHANGED Service!serviceVars
  BY <1>6, <1>9 DEF Write, StartPush, vars, Service!serviceVars
<1> QED
  BY <1>1, <1>2, <1>3, <1>4, <1>5, <1>7, <1>8, <1>9 DEF Next, RunCommand, Service!Next

\* The agent of CommandLanes implements CommandService, for any commands,
\* paths, slots and sessions: runCommand answers a command on the connection
\* it came by or loses it with that connection, runs it once, and never runs
\* two changes to one feature or more commands than slots at a time.
THEOREM LanesServe == Spec => Serves
<1>1. Init => Service!Init
  <2>1. Seen("new") = "new"
    BY DEF Seen
  <2> QED
    BY <2>1 DEF Init, Service!Init, InSight
<1>2. LanesInv /\ [Next]_vars => [Service!Next]_(Service!serviceVars)
  BY LanesServeStep
<1> QED
  BY <1>1, <1>2, LanesInvariant, PTL DEF Spec, Serves, Service!Spec
-----------------------------------------------------------------------------
(* Temporary logins.                                                       *)

\* The operation in progress: the account it is about has been created, or is
\* named by the request.
JobOK ==
    /\ job \in [at : {"idle", "pass", "save", "sshd", "remove", "forget", "rule",
                      "expired", "orphans", "end"},
                user : Names \cup {"none"}, todo : SUBSET Names, keep : SUBSET Names,
                changed : BOOLEAN]
    /\ job.at \in {"pass", "save", "sshd", "remove"} => job.user \in Names
    /\ job.at = "pass" => passwd[job.user] = "ours"

LoginInv == Login!TypeOK /\ Login!NoSudoLeft /\ JobOK

\* Nothing is there when the agent starts for the first time.
LEMMA LoginStart == Login!Init => LoginInv
<1> SUFFICES ASSUME Login!Init PROVE LoginInv
    OBVIOUS
<1>1. Login!TypeOK /\ Login!NoSudoLeft
  BY DEF Login!Init, Login!Idle, Login!TypeOK, Login!NoSudoLeft
<1>2. JobOK
  <2>1. job = [at |-> "idle", user |-> "none", todo |-> {}, keep |-> {}, changed |-> FALSE]
    BY DEF Login!Init, Login!Idle
  <2> QED
    BY <2>1 DEF JobOK
<1> QED
  BY <1>1, <1>2 DEF LoginInv

\* removeTempAccount: the sudoers file goes, the account only if the agent made
\* it, and never without the file.
LEMMA RemoveEffect ==
    ASSUME LoginInv, NEW u \in Names, Login!RemoveTempAccount(u)
    PROVE  /\ passwd' \in [Names -> {"none", "ours", "foreign"}]
           /\ sudo' \subseteq Names
           /\ Login!NoSudoLeft'
           /\ \A n \in Names : passwd[n] = "foreign" => passwd'[n] = "foreign"
<1>1. /\ passwd \in [Names -> {"none", "ours", "foreign"}] /\ sudo \subseteq Names
      /\ \A n \in Names : n \in sudo => passwd[n] # "none"
  BY DEF LoginInv, Login!TypeOK, Login!NoSudoLeft
<1>2. sudo' = sudo \ {u}
  BY DEF Login!RemoveTempAccount, Login!SudoWithout
<1>3. \/ passwd' = [passwd EXCEPT ![u] = IF passwd[u] = "ours" THEN "none" ELSE @]
      \/ passwd' = passwd
  BY DEF Login!RemoveTempAccount, Login!Made
<1>4. /\ passwd' \in [Names -> {"none", "ours", "foreign"}]
      /\ \A n \in Names : n # u => passwd'[n] = passwd[n]
      /\ passwd[u] = "foreign" => passwd'[u] = "foreign"
  BY <1>1, <1>3
<1> QED
  BY <1>1, <1>2, <1>4 DEF Login!NoSudoLeft

\* configureSshd leaves the drop-in with accounts it was given, or none.
LEMMA RuleEffect ==
    ASSUME LoginInv, NEW users \in SUBSET Names,
           Login!Configured(users) \/ Login!Refused(users)
    PROVE  dropin' \subseteq Names /\ reloaded' \in BOOLEAN
BY DEF Login!Configured, Login!Refused, Login!Reload, LoginInv, Login!TypeOK

\* Every step of an operation, of the reaper and of the world keeps the
\* invariant, and no account of somebody else goes.
LEMMA LoginStep ==
    LoginInv /\ Login!Next =>
        /\ LoginInv'
        /\ \A u \in Names : passwd[u] = "foreign" => passwd'[u] = "foreign"
<1> SUFFICES ASSUME LoginInv, Login!Next
             PROVE  /\ LoginInv'
                    /\ \A u \in Names : passwd[u] = "foreign" => passwd'[u] = "foreign"
    OBVIOUS
<1> DEFINE Kept == \A u \in Names : passwd[u] = "foreign" => passwd'[u] = "foreign"
<1>0. Login!TypeOK /\ Login!NoSudoLeft /\ JobOK
  BY DEF LoginInv
<1> USE DEF LoginInv, Login!TypeOK, Login!NoSudoLeft, JobOK, Login!Step, Login!Idle
<1>1. ASSUME NEW u \in Names, Login!Create(u) PROVE LoginInv' /\ Kept
  BY <1>0, <1>1 DEF Login!Create
<1>2. CASE Login!SetPassword
  BY <1>0, <1>2 DEF Login!SetPassword
<1>3. CASE Login!SaveNew
  BY <1>0, <1>3 DEF Login!SaveNew
<1>4. CASE Login!LetIn
  <2>1. dropin' \subseteq Names /\ reloaded' \in BOOLEAN
    BY <1>0, <1>4, RuleEffect DEF Login!LetIn
  <2>2. job.at = "sshd" /\ UNCHANGED <<passwd, sudo, recs, old, sane>>
    BY <1>4 DEF Login!LetIn
  <2>3. job' = Login!Idle \/ job' = [job EXCEPT !.at = "remove"]
    BY <1>4 DEF Login!LetIn
  <2>4. Login!TypeOK' /\ Login!NoSudoLeft'
    BY <1>0, <2>1, <2>2, <2>3
  <2>5. JobOK'
    <3>1. CASE job' = Login!Idle
      BY <3>1
    <3>2. CASE job' = [job EXCEPT !.at = "remove"]
      BY <1>0, <2>2, <3>2
    <3> QED
      BY <2>3, <3>1, <3>2
  <2> QED
    BY <2>2, <2>4, <2>5
<1>5. ASSUME NEW u \in Names, Login!Delete(u) PROVE LoginInv' /\ Kept
  BY <1>0, <1>5 DEF Login!Delete
<1>6. CASE Login!Remove
  <2>1. job.user \in Names /\ Login!RemoveTempAccount(job.user)
    BY <1>0, <1>6 DEF Login!Remove
  <2>2. /\ passwd' \in [Names -> {"none", "ours", "foreign"}] /\ sudo' \subseteq Names
        /\ Login!NoSudoLeft' /\ Kept
    BY <1>0, <2>1, RemoveEffect
  <2>3. /\ job' = [job EXCEPT !.at = "forget", !.keep = recs \ {job.user}]
        /\ UNCHANGED <<recs, old, dropin, sane, reloaded>>
    BY <1>6 DEF Login!Remove
  <2> QED
    BY <1>0, <2>2, <2>3
<1>7. CASE Login!Forget
  BY <1>0, <1>7 DEF Login!Forget, Login!Save
<1>8. CASE Login!Rule
  <2>1. dropin' \subseteq Names /\ reloaded' \in BOOLEAN
    BY <1>0, <1>8, RuleEffect DEF Login!Rule, Login!ConfigureSshd
  <2> QED
    BY <1>0, <1>8, <2>1 DEF Login!Rule
<1>9. CASE Login!Reap
  BY <1>0, <1>9 DEF Login!Reap
<1>10. ASSUME NEW u \in Names, Login!ReapOne(u) PROVE LoginInv' /\ Kept
  <2>1. /\ passwd' \in [Names -> {"none", "ours", "foreign"}] /\ sudo' \subseteq Names
        /\ Login!NoSudoLeft' /\ Kept
    BY <1>0, <1>10, RemoveEffect DEF Login!ReapOne
  <2>2. /\ job.at \in {"expired", "orphans"} /\ job' = [job EXCEPT !.todo = @ \ {u}]
        /\ UNCHANGED <<recs, old, dropin, sane, reloaded>>
    BY <1>10 DEF Login!ReapOne
  <2> QED
    BY <1>0, <2>1, <2>2
<1>11. CASE Login!ReapOrphans
  <2>1. Login!Orphans(job.keep) \in SUBSET Names
    BY DEF Login!Orphans, Login!Ours
  <2>2. PICK b \in BOOLEAN :
          job' = [job EXCEPT !.at = "orphans", !.todo = Login!Orphans(job.keep), !.changed = b]
    BY <1>0, <1>11 DEF Login!ReapOrphans
  <2> QED
    BY <1>0, <1>11, <2>1, <2>2 DEF Login!ReapOrphans
<1>12. CASE Login!ReapEnds
  <2>1. dropin' \subseteq Names /\ reloaded' \in BOOLEAN
    BY <1>0, <1>12, RuleEffect DEF Login!ReapEnds
  <2>2. UNCHANGED <<passwd, sudo, recs, old, sane>>
    BY <1>12 DEF Login!ReapEnds
  <2>3. job' = Login!Idle \/ job' = [job EXCEPT !.at = "forget"]
    BY <1>12 DEF Login!ReapEnds
  <2>4. Login!TypeOK' /\ Login!NoSudoLeft'
    BY <1>0, <2>1, <2>2, <2>3
  <2>5. JobOK'
    <3>1. CASE job' = Login!Idle
      BY <3>1
    <3>2. CASE job' = [job EXCEPT !.at = "forget"]
      BY <1>0, <2>2, <3>2
    <3> QED
      BY <2>3, <3>1, <3>2
  <2> QED
    BY <2>2, <2>4, <2>5
<1>13. ASSUME NEW u \in Names, Login!Expires(u) PROVE LoginInv' /\ Kept
  BY <1>0, <1>13 DEF Login!Expires
<1>14. CASE Login!AgentDies
  BY <1>0, <1>14 DEF Login!AgentDies
<1>15. ASSUME NEW u \in Names, Login!SomebodyAdds(u) PROVE LoginInv' /\ Kept
  BY <1>0, <1>15 DEF Login!SomebodyAdds
<1>16. CASE Login!AdminEdits
  BY <1>0, <1>16 DEF Login!AdminEdits
<1> QED
  BY <1>1, <1>2, <1>3, <1>4, <1>5, <1>6, <1>7, <1>8, <1>9, <1>10, <1>11, <1>12, <1>13,
     <1>14, <1>15, <1>16 DEF Login!Next, Login!Work
-----------------------------------------------------------------------------
(* Terminals.                                                              *)

\* What the buffers hold, who is on which side of the socket, and that a frame
\* in hand is there only while no shell was opened after CloseAll.
WiresOK ==
    /\ tout \in [Terms -> Seq(Frames)]
    /\ down \in Seq(Frames) /\ up \in Seq(Frames) /\ hand \in Seq(Frames)
    /\ link = "up" <=> manager = "live"
    /\ hand # <<>> => link = "lost" /\ orphans = {}
    /\ orphans # {} => manager = "closed"
    /\ IsFiniteSet(listed)

TermInv == TermTypeOK /\ TabsTracked /\ TornDown /\ WiresOK

\* What a queue within its capacity is after it has taken or given a frame.
LEMMA QueueMoves ==
    ASSUME NEW q \in Seq(Frames), NEW cap \in Nat, Len(q) <= cap
    PROVE  /\ \A f \in Frames :
                 Len(q) < cap => Append(q, f) \in Seq(Frames) /\ Len(Append(q, f)) <= cap
           /\ q # <<>> => /\ Tail(q) \in Seq(Frames) /\ Len(Tail(q)) <= cap
                          /\ Len(Tail(q)) = Len(q) - 1 /\ Head(q) \in Frames
<1>1. Len(q) \in Nat
  OBVIOUS
<1>2. ASSUME q # <<>>
      PROVE  Tail(q) \in Seq(Frames) /\ Len(Tail(q)) = Len(q) - 1 /\ Head(q) \in Frames
  BY <1>2
<1>3. ASSUME NEW f \in Frames
      PROVE  Append(q, f) \in Seq(Frames) /\ Len(Append(q, f)) = Len(q) + 1
  OBVIOUS
<1> QED
  BY <1>1, <1>2, <1>3

\* Nothing is open before the first tab.
LEMMA TermStart == TermInit => TermInv
<1> SUFFICES ASSUME TermInit PROVE TermInv
    OBVIOUS
<1>1. <<>> \in Seq(Frames) /\ Len(<<>>) = 0
  OBVIOUS
<1>2. IsFiniteSet({}) /\ Cardinality({}) = 0
  BY FS_EmptySet
<1> QED
  BY <1>1, <1>2, TermsAssumption
     DEF TermInit, TermInv, TermTypeOK, TabsTracked, TornDown, WiresOK

\* SendDown and SendUp never overfill the wire.
LEMMA SendsEffect ==
    ASSUME TermInv, NEW f \in Frames
    PROVE  /\ SendDown(f) => down' \in Seq(Frames) /\ Len(down') <= WireCap
           /\ SendUp(f) => up' \in Seq(Frames) /\ Len(up') <= WireCap
<1>1. /\ down \in Seq(Frames) /\ Len(down) <= WireCap
      /\ up \in Seq(Frames) /\ Len(up) <= WireCap /\ WireCap \in Nat
  BY TermsAssumption DEF TermInv, TermTypeOK, WiresOK
<1> QED
  BY <1>1, QueueMoves DEF SendDown, SendUp

\* The panel's half of the state after a step that only a tab has taken.
LEMMA TabStep ==
    ASSUME TermInv,
           UNCHANGED <<agentSide, link, manager, hand>>,
           app' \in [Terms -> {"none", "open", "told", "gone"}],
           terms' \subseteq Terms, \A t \in terms' : app'[t] = "open",
           tout' \in [Terms -> Seq(Frames)], \A t \in Terms : Len(tout'[t]) <= OutBuffer,
           heard' \subseteq Terms, behind' \subseteq Terms,
           down' \in Seq(Frames), Len(down') <= WireCap,
           up' \in Seq(Frames), Len(up') <= WireCap
    PROVE  TermInv'
<1> USE DEF TermInv, agentSide
<1>1. TermTypeOK'
  BY DEF TermTypeOK
<1>2. (TabsTracked /\ TornDown)'
  BY DEF TabsTracked, TornDown
<1>3. WiresOK'
  BY DEF WiresOK
<1> QED
  BY <1>1, <1>2, <1>3

\* deliverTerminal keeps the table to open tabs and the buffer to its size.
LEMMA DeliverEffect ==
    ASSUME TermInv, NEW t \in Terms, NEW f \in Frames, Deliver(t, f)
    PROVE  /\ terms' \subseteq terms
           /\ tout' \in [Terms -> Seq(Frames)] /\ \A u \in Terms : Len(tout'[u]) <= OutBuffer
           /\ behind' \subseteq Terms
<1>1. /\ \A u \in Terms : tout[u] \in Seq(Frames) /\ Len(tout[u]) <= OutBuffer
      /\ tout \in [Terms -> Seq(Frames)] /\ OutBuffer \in Nat /\ behind \subseteq Terms
  BY TermsAssumption DEF TermInv, TermTypeOK, WiresOK
<1>2. CASE app[t] = "open" /\ Len(tout[t]) < OutBuffer
  <2>1. tout' = [tout EXCEPT ![t] = Append(tout[t], f)] /\ behind' = behind /\ terms' \subseteq terms
    BY <1>2 DEF Deliver
  <2>2. Append(tout[t], f) \in Seq(Frames) /\ Len(Append(tout[t], f)) <= OutBuffer
    BY <1>1, <1>2, QueueMoves
  <2> QED
    BY <1>1, <2>1, <2>2
<1>3. CASE ~(app[t] = "open" /\ Len(tout[t]) < OutBuffer)
  <2>1. tout' = tout /\ terms' \subseteq terms /\ behind' \subseteq behind \cup {t}
    BY <1>3 DEF Deliver
  <2> QED
    BY <1>1, <2>1
<1> QED
  BY <1>2, <1>3
\* CloseTerminal takes the tab out of the table as it closes.
LEMMA CloseEffect ==
    ASSUME TermInv, NEW t \in Terms, NEW verdict \in {"told", "gone"}, CloseTerminal(t, verdict)
    PROVE  /\ app' \in [Terms -> {"none", "open", "told", "gone"}]
           /\ terms' \subseteq Terms /\ \A u \in terms' : app'[u] = "open"
           /\ down' \in Seq(Frames) /\ Len(down') <= WireCap
<1>1. app' = [app EXCEPT ![t] = verdict] /\ terms' = terms \ {t}
      /\ (SendDown(Frame(t, "close")) \/ down' = down)
  BY DEF CloseTerminal
<1>2. Frame(t, "close") \in Frames
  BY DEF Frame, Frames, Ops
<1>3. down' \in Seq(Frames) /\ Len(down') <= WireCap
  BY <1>1, <1>2, SendsEffect DEF TermInv, TermTypeOK, WiresOK
<1> QED
  BY <1>1, <1>3 DEF TermInv, TermTypeOK, TabsTracked

\* The panel's steps.
LEMMA PanelSteps ==
    ASSUME TermInv, NEW t,
           \/ FromAgent
           \/ t \in Terms /\ (OpenTerminal(t) \/ TerminalInput(t) \/ AppCloses(t) \/ Panel(t))
    PROVE  TermInv'
<1>0. /\ app \in [Terms -> {"none", "open", "told", "gone"}]
      /\ terms \subseteq Terms /\ heard \subseteq Terms /\ behind \subseteq Terms
      /\ \A u \in terms : app[u] = "open"
      /\ tout \in [Terms -> Seq(Frames)] /\ \A u \in Terms : Len(tout[u]) <= OutBuffer
      /\ down \in Seq(Frames) /\ Len(down) <= WireCap
      /\ up \in Seq(Frames) /\ Len(up) <= WireCap
      /\ OutBuffer \in Nat /\ WireCap \in Nat
      /\ (t \in Terms => \A op \in Ops : Frame(t, op) \in Frames)
      /\ {"open", "data", "close", "error"} \subseteq Ops
  BY TermsAssumption DEF TermInv, TermTypeOK, TabsTracked, WiresOK, Frame, Frames, Ops
<1>1. CASE t \in Terms /\ OpenTerminal(t)
  <2>1. /\ app[t] = "none" /\ UNCHANGED <<tout, heard, behind, agentSide, up, link, manager, hand>>
        /\ \/ /\ app' = [app EXCEPT ![t] = "open"] /\ terms' = terms \cup {t}
              /\ SendDown(Frame(t, "open"))
           \/ app' = [app EXCEPT ![t] = "told"] /\ UNCHANGED <<terms, down>>
    BY <1>1 DEF OpenTerminal
  <2>2. down' \in Seq(Frames) /\ Len(down') <= WireCap
    BY <1>1, <1>0, <2>1, SendsEffect
  <2>3. /\ app' \in [Terms -> {"none", "open", "told", "gone"}]
        /\ terms' \subseteq Terms /\ \A u \in terms' : app'[u] = "open"
    BY <1>1, <1>0, <2>1
  <2> QED
    BY <1>1, <1>0, <2>1, <2>2, <2>3, TabStep
<1>2. CASE t \in Terms /\ TerminalInput(t)
  <2>1. SendDown(Frame(t, "data")) /\ UNCHANGED <<panelSide, agentSide, up, link, manager, hand>>
    BY <1>2 DEF TerminalInput
  <2>2. down' \in Seq(Frames) /\ Len(down') <= WireCap
    BY <1>2, <1>0, <2>1, SendsEffect
  <2> QED
    BY <1>2, <1>0, <2>1, <2>2, TabStep DEF panelSide
<1>3. CASE t \in Terms /\ AppCloses(t)
  <2>1. CloseTerminal(t, "gone") /\ UNCHANGED <<tout, heard, behind, agentSide, up, link, manager, hand>>
    BY <1>3 DEF AppCloses
  <2>2. /\ app' \in [Terms -> {"none", "open", "told", "gone"}]
        /\ terms' \subseteq Terms /\ \A u \in terms' : app'[u] = "open"
        /\ down' \in Seq(Frames) /\ Len(down') <= WireCap
    BY <1>3, <2>1, CloseEffect
  <2> QED
    BY <1>3, <1>0, <2>1, <2>2, TabStep
<1>4. CASE t \in Terms /\ NoAnswer(t)
  <2>1. CloseTerminal(t, "told") /\ UNCHANGED <<tout, heard, behind, agentSide, up, link, manager, hand>>
    BY <1>4 DEF NoAnswer
  <2>2. /\ app' \in [Terms -> {"none", "open", "told", "gone"}]
        /\ terms' \subseteq Terms /\ \A u \in terms' : app'[u] = "open"
        /\ down' \in Seq(Frames) /\ Len(down') <= WireCap
    BY <1>4, <2>1, CloseEffect
  <2> QED
    BY <1>4, <1>0, <2>1, <2>2, TabStep
<1>5. CASE t \in Terms /\ AgentGone(t)
  <2>1. Deliver(t, Frame(t, "error")) /\ UNCHANGED <<app, heard, agentSide, wire>>
    BY <1>5 DEF AgentGone
  <2>2. /\ terms' \subseteq terms /\ behind' \subseteq Terms
        /\ tout' \in [Terms -> Seq(Frames)] /\ \A u \in Terms : Len(tout'[u]) <= OutBuffer
    BY <1>5, <1>0, <2>1, DeliverEffect
  <2> QED
    BY <1>5, <1>0, <2>1, <2>2, TabStep DEF wire
<1>6. CASE t \in Terms /\ ToApp(t)
  <2>1. /\ tout[t] # <<>> /\ tout' = [tout EXCEPT ![t] = Tail(tout[t])]
        /\ heard' = heard \cup {t} /\ UNCHANGED <<behind, agentSide, up, link, manager, hand>>
        /\ CloseTerminal(t, "told") \/ UNCHANGED <<app, terms, down>>
    BY <1>6 DEF ToApp
  <2>2. Tail(tout[t]) \in Seq(Frames) /\ Len(Tail(tout[t])) <= OutBuffer
    BY <1>6, <1>0, <2>1, QueueMoves
  <2>3. tout' \in [Terms -> Seq(Frames)] /\ \A u \in Terms : Len(tout'[u]) <= OutBuffer
    BY <1>6, <1>0, <2>1, <2>2
  <2>4. /\ app' \in [Terms -> {"none", "open", "told", "gone"}]
        /\ terms' \subseteq Terms /\ \A u \in terms' : app'[u] = "open"
        /\ down' \in Seq(Frames) /\ Len(down') <= WireCap
    BY <1>6, <1>0, <2>1, CloseEffect
  <2> QED
    BY <1>6, <1>0, <2>1, <2>3, <2>4, TabStep
<1>7. CASE FromAgent
  <2>1. /\ up # <<>> /\ up' = Tail(up) /\ UNCHANGED <<app, heard, agentSide, down, link, manager, hand>>
        /\ \/ Head(up).term \in terms /\ Deliver(Head(up).term, Head(up))
           \/ UNCHANGED <<terms, tout, behind>>
    BY <1>7 DEF FromAgent
  <2>2. up' \in Seq(Frames) /\ Len(up') <= WireCap /\ Head(up) \in Frames
    BY <1>0, <2>1, QueueMoves
  <2>3. /\ terms' \subseteq terms /\ behind' \subseteq Terms
        /\ tout' \in [Terms -> Seq(Frames)] /\ \A u \in Terms : Len(tout'[u]) <= OutBuffer
    BY <1>0, <2>1, <2>2, DeliverEffect
  <2> QED
    BY <1>0, <2>1, <2>2, <2>3, TabStep
<1> QED
  BY <1>1, <1>2, <1>3, <1>4, <1>5, <1>6, <1>7 DEF Panel

\* The agent's half of the state after a step that no tab has taken.
LEMMA ShellStep ==
    ASSUME TermInv, UNCHANGED panelSide,
           shell' \in [Terms -> {"none", "run", "hup", "reaped", "ended"}],
           listed' \subseteq Terms, IsFiniteSet(listed'), Cardinality(listed') <= MaxSessions,
           orphans' \subseteq Terms, TornDown', prints' \in 0..MaxPrints,
           down' \in Seq(Frames), Len(down') <= WireCap,
           up' \in Seq(Frames), Len(up') <= WireCap,
           hand' \in Seq(Frames), Len(hand') <= 1,
           \/ link' = "up" /\ manager' = "live"
           \/ link' = "lost" /\ manager' \in {"ending", "closed"},
           hand' # <<>> => link' = "lost" /\ orphans' = {},
           orphans' # {} => manager' = "closed"
    PROVE  TermInv'
<1> USE DEF TermInv, panelSide
<1>1. TermTypeOK'
  BY DEF TermTypeOK
<1>2. TabsTracked'
  BY DEF TabsTracked
<1>3. WiresOK'
  BY DEF WiresOK
<1> QED
  BY <1>1, <1>2, <1>3

\* hangup leaves the list of shells as it is.
LEMMA HangupEffect ==
    ASSUME TermInv, NEW S, shell' = Hangup(S), UNCHANGED <<listed, orphans, manager>>
    PROVE  /\ shell' \in [Terms -> {"none", "run", "hup", "reaped", "ended"}]
           /\ TornDown'
<1>1. \A t \in Terms : shell'[t] = IF t \in S /\ shell[t] = "run" THEN "hup" ELSE shell[t]
  BY DEF Hangup
<1>2. shell' \in [Terms -> {"none", "run", "hup", "reaped", "ended"}]
  BY DEF Hangup, TermInv, TermTypeOK
<1>3. \A t \in Terms : shell'[t] \in {"run", "hup"} <=> shell[t] \in {"run", "hup"}
  BY <1>1
<1> QED
  BY <1>1, <1>2, <1>3 DEF TornDown, TermInv

\* A shell is opened below the limit only, and after CloseAll at most one.
LEMMA OpenEffect ==
    ASSUME TermInv, NEW t \in Terms, ~Full, StartPTY(t), UNCHANGED manager,
           manager = "closed" => orphans = {}
    PROVE  /\ shell' \in [Terms -> {"none", "run", "hup", "reaped", "ended"}]
           /\ listed' \subseteq Terms /\ IsFiniteSet(listed') /\ Cardinality(listed') <= MaxSessions
           /\ orphans' \subseteq Terms /\ TornDown' /\ (orphans' # {} => manager = "closed")
<1>1. /\ shell' = [shell EXCEPT ![t] = "run"] /\ listed' = listed \cup {t}
      /\ orphans' = IF manager = "closed" THEN orphans \cup {t} ELSE orphans
  BY DEF StartPTY
<1>2. /\ listed \subseteq Terms /\ IsFiniteSet(listed) /\ orphans \subseteq Terms
      /\ shell \in [Terms -> {"none", "run", "hup", "reaped", "ended"}]
      /\ Cardinality(listed) \in Nat /\ MaxSessions \in Nat
  BY TermsAssumption, FS_CardinalityType DEF TermInv, TermTypeOK, WiresOK
<1>3. IsFiniteSet(listed') /\ Cardinality(listed') <= MaxSessions
  BY <1>1, <1>2, FS_AddElement DEF Full
<1>4. /\ shell' \in [Terms -> {"none", "run", "hup", "reaped", "ended"}]
      /\ \A u \in Terms : u # t => shell'[u] = shell[u]
      /\ shell'[t] = "run"
  BY <1>1, <1>2
<1>5. TornDown'
  BY <1>1, <1>4 DEF TermInv, TornDown
<1> QED
  BY <1>1, <1>2, <1>3, <1>4, <1>5 DEF TermInv, WiresOK
\* TerminalManager.Handle: at most a shell that ends, or one that is opened.
LEMMA HandleEffect ==
    ASSUME TermInv, NEW f \in Frames, Handle(f)
    PROVE  /\ up' \in Seq(Frames) /\ Len(up') <= WireCap
           /\ \/ UNCHANGED <<shell, listed, orphans>>
              \/ (\E S : shell' = Hangup(S)) /\ UNCHANGED <<listed, orphans>>
              \/ ~Full /\ StartPTY(f.term)
<1>0. up \in Seq(Frames) /\ Len(up) <= WireCap /\ f.term \in Terms
  BY DEF TermInv, TermTypeOK, WiresOK, Frames
<1>1. CASE f.op = "open"
  <2>1. Opens(f.term)
    BY <1>1 DEF Handle
  <2>2. Frame(f.term, "error") \in Frames
    BY <1>0 DEF Frame, Frames, Ops
  <2>3. CASE SendUp(Frame(f.term, "error")) /\ UNCHANGED <<shell, listed, orphans>>
    BY <2>2, <2>3, SendsEffect
  <2>4. CASE ~Full /\ StartPTY(f.term) /\ UNCHANGED up
    BY <1>0, <2>4
  <2> QED
    BY <2>1, <2>3, <2>4 DEF Opens
<1>2. CASE f.op = "close"
  BY <1>0, <1>2 DEF Handle
<1>3. CASE f.op \notin {"open", "close"}
  BY <1>0, <1>3 DEF Handle
<1> QED
  BY <1>1, <1>2, <1>3

\* The frame that Handle works on leaves the shells as they should be.
LEMMA HandleShells ==
    ASSUME TermInv, NEW f \in Frames, Handle(f), UNCHANGED manager,
           manager = "closed" => orphans = {}
    PROVE  /\ shell' \in [Terms -> {"none", "run", "hup", "reaped", "ended"}]
           /\ listed' \subseteq Terms /\ IsFiniteSet(listed') /\ Cardinality(listed') <= MaxSessions
           /\ orphans' \subseteq Terms /\ TornDown' /\ (orphans' # {} => manager = "closed")
<1>0. /\ listed \subseteq Terms /\ IsFiniteSet(listed) /\ Cardinality(listed) <= MaxSessions
      /\ orphans \subseteq Terms /\ TornDown /\ (orphans # {} => manager = "closed")
      /\ shell \in [Terms -> {"none", "run", "hup", "reaped", "ended"}]
      /\ f.term \in Terms
  BY DEF TermInv, TermTypeOK, WiresOK, Frames
<1>1. CASE UNCHANGED <<shell, listed, orphans>>
  BY <1>0, <1>1 DEF TornDown
<1>2. CASE (\E S : shell' = Hangup(S)) /\ UNCHANGED <<listed, orphans>>
  BY <1>0, <1>2, HangupEffect
<1>3. CASE ~Full /\ StartPTY(f.term)
  BY <1>0, <1>3, OpenEffect
<1> QED
  BY <1>1, <1>2, <1>3, HandleEffect

\* The agent's steps and the socket's.
LEMMA AgentSteps ==
    ASSUME TermInv, NEW t,
           \/ Reads \/ ReadsLast \/ LinkLost \/ CloseAll
           \/ t \in Terms /\ (Prints(t) \/ Exits(t) \/ WatchIdle(t) \/ Agent(t))
    PROVE  TermInv'
<1>0. /\ listed \subseteq Terms /\ IsFiniteSet(listed) /\ Cardinality(listed) <= MaxSessions
      /\ Cardinality(listed) \in Nat /\ MaxSessions \in Nat
      /\ orphans \subseteq Terms /\ TornDown /\ (orphans # {} => manager = "closed")
      /\ shell \in [Terms -> {"none", "run", "hup", "reaped", "ended"}]
      /\ down \in Seq(Frames) /\ Len(down) <= WireCap
      /\ up \in Seq(Frames) /\ Len(up) <= WireCap /\ WireCap \in Nat
      /\ hand \in Seq(Frames) /\ Len(hand) <= 1
      /\ prints \in 0..MaxPrints /\ MaxPrints \in Nat
      /\ (hand # <<>> => link = "lost" /\ orphans = {})
      /\ link \in {"up", "lost"} /\ manager \in {"live", "ending", "closed"}
      /\ (link = "up" <=> manager = "live")
  BY TermsAssumption, FS_CardinalityType DEF TermInv, TermTypeOK, WiresOK
<1>00. /\ \/ link = "up" /\ manager = "live"
          \/ link = "lost" /\ manager \in {"ending", "closed"}
       /\ <<>> \in Seq(Frames) /\ Len(<<>>) = 0
       /\ t \in Terms => \A op \in {"data", "exit"} : Frame(t, op) \in Frames
  BY <1>0 DEF Frame, Frames, Ops
<1>1. CASE Reads
  <2>1. /\ down # <<>> /\ down' = Tail(down) /\ Handle(Head(down)) /\ link = "up"
        /\ UNCHANGED <<panelSide, prints, link, manager, hand>>
    BY <1>1 DEF Reads
  <2>2. down' \in Seq(Frames) /\ Len(down') <= WireCap /\ Head(down) \in Frames
    BY <1>0, <2>1, QueueMoves
  <2>3. up' \in Seq(Frames) /\ Len(up') <= WireCap
    BY <2>1, <2>2, HandleEffect
  <2>4. /\ shell' \in [Terms -> {"none", "run", "hup", "reaped", "ended"}]
        /\ listed' \subseteq Terms /\ IsFiniteSet(listed') /\ Cardinality(listed') <= MaxSessions
        /\ orphans' \subseteq Terms /\ TornDown' /\ (orphans' # {} => manager = "closed")
    BY <1>0, <2>1, <2>2, HandleShells
  <2> QED
    BY <1>0, <1>00, <2>1, <2>2, <2>3, <2>4, ShellStep
<1>2. CASE ReadsLast
  <2>1. /\ hand # <<>> /\ hand' = <<>> /\ Handle(Head(hand))
        /\ UNCHANGED <<panelSide, prints, down, link, manager>>
    BY <1>2 DEF ReadsLast
  <2>2. Head(hand) \in Frames
    BY <1>0, <2>1
  <2>3. up' \in Seq(Frames) /\ Len(up') <= WireCap
    BY <2>1, <2>2, HandleEffect
  <2>4. /\ shell' \in [Terms -> {"none", "run", "hup", "reaped", "ended"}]
        /\ listed' \subseteq Terms /\ IsFiniteSet(listed') /\ Cardinality(listed') <= MaxSessions
        /\ orphans' \subseteq Terms /\ TornDown' /\ (orphans' # {} => manager = "closed")
    BY <1>0, <2>1, <2>2, HandleShells
  <2> QED
    BY <1>0, <1>00, <2>1, <2>3, <2>4, ShellStep
<1>3. CASE LinkLost
  <2>1. /\ link = "up" /\ link' = "lost" /\ manager' = "ending"
        /\ hand' = <<>> \/ (down # <<>> /\ hand' = <<Head(down)>>)
        /\ down' = <<>> /\ up' = <<>> /\ UNCHANGED <<panelSide, agentSide>>
    BY <1>3 DEF LinkLost
  <2>2. hand' \in Seq(Frames) /\ Len(hand') <= 1
    <3>1. CASE hand' = <<>>
      BY <1>00, <3>1
    <3>2. CASE down # <<>> /\ hand' = <<Head(down)>>
      <4>1. Head(down) \in Frames
        BY <1>0, <3>2
      <4>2. <<Head(down)>> \in Seq(Frames) /\ Len(<<Head(down)>>) = 1
        BY <4>1
      <4> QED
        BY <3>2, <4>2
    <3> QED
      BY <2>1, <3>1, <3>2
  <2>3. orphans = {} /\ TornDown'
    BY <1>0, <2>1 DEF TornDown, agentSide
  <2> QED
    BY <1>0, <1>00, <2>1, <2>2, <2>3, ShellStep DEF agentSide
<1>4. CASE CloseAll
  <2>1. /\ manager = "ending" /\ manager' = "closed" /\ shell' = Hangup(listed)
        /\ UNCHANGED <<panelSide, listed, prints, orphans, down, up, link, hand>>
    BY <1>4 DEF CloseAll
  <2>2. /\ \A u \in Terms : shell'[u] = IF u \in listed /\ shell[u] = "run" THEN "hup" ELSE shell[u]
        /\ shell' \in [Terms -> {"none", "run", "hup", "reaped", "ended"}]
    BY <1>0, <2>1 DEF Hangup
  <2>3. \A u \in Terms : /\ shell'[u] # "run"
                         /\ shell'[u] \in {"run", "hup"} <=> shell[u] \in {"run", "hup"}
    BY <1>0, <2>2 DEF TornDown
  <2>4. TornDown'
    BY <1>0, <2>1, <2>3 DEF TornDown
  <2> QED
    BY <1>0, <1>00, <2>1, <2>2, <2>4, ShellStep
<1>5. CASE t \in Terms /\ Prints(t)
  <2>1. /\ prints < MaxPrints /\ prints' = prints + 1 /\ SendUp(Frame(t, "data"))
        /\ UNCHANGED shell \/ shell' = Hangup({t})
        /\ UNCHANGED <<panelSide, listed, orphans, down, link, manager, hand>>
    BY <1>5 DEF Prints
  <2>2. up' \in Seq(Frames) /\ Len(up') <= WireCap
    BY <1>5, <1>00, <2>1, SendsEffect
  <2>3. shell' \in [Terms -> {"none", "run", "hup", "reaped", "ended"}] /\ TornDown'
    <3>1. CASE UNCHANGED shell
      BY <1>5, <1>0, <2>1, <3>1 DEF TornDown
    <3>2. CASE shell' = Hangup({t})
      BY <1>5, <2>1, <3>2, HangupEffect
    <3> QED
      BY <1>5, <2>1, <3>1, <3>2
  <2>4. prints' \in 0..MaxPrints
    BY <1>5, <1>0, <2>1
  <2> QED
    BY <1>5, <1>0, <1>00, <2>1, <2>2, <2>3, <2>4, ShellStep
<1>6. CASE t \in Terms /\ Exits(t)
  <2>1. shell' = Hangup({t}) /\ UNCHANGED <<panelSide, listed, prints, orphans, wire>>
    BY <1>6 DEF Exits
  <2>2. shell' \in [Terms -> {"none", "run", "hup", "reaped", "ended"}] /\ TornDown'
    BY <1>6, <2>1, HangupEffect DEF wire
  <2> QED
    BY <1>6, <1>0, <1>00, <2>1, <2>2, ShellStep DEF wire
<1>7. CASE t \in Terms /\ WatchIdle(t)
  <2>1. /\ SendUp(Frame(t, "data")) /\ shell' = Hangup({t})
        /\ UNCHANGED <<panelSide, listed, prints, orphans, down, link, manager, hand>>
    BY <1>7 DEF WatchIdle
  <2>2. up' \in Seq(Frames) /\ Len(up') <= WireCap
    BY <1>7, <1>00, <2>1, SendsEffect
  <2>3. shell' \in [Terms -> {"none", "run", "hup", "reaped", "ended"}] /\ TornDown'
    BY <1>7, <2>1, HangupEffect
  <2> QED
    BY <1>7, <1>0, <1>00, <2>1, <2>2, <2>3, ShellStep
<1>8. CASE t \in Terms /\ Reap(t)
  <2>1. /\ shell[t] = "hup" /\ shell' = [shell EXCEPT ![t] = "reaped"] /\ listed' = listed \ {t}
        /\ UNCHANGED <<panelSide, prints, orphans, wire>>
    BY <1>8 DEF Reap
  <2>2. IsFiniteSet(listed') /\ Cardinality(listed') <= MaxSessions
    <3>1. CASE t \in listed
      <4>1. IsFiniteSet(listed \ {t}) /\ Cardinality(listed \ {t}) = Cardinality(listed) - 1
        BY <1>0, <3>1, FS_RemoveElement
      <4> QED
        BY <1>8, <1>0, <2>1, <4>1
    <3>2. CASE t \notin listed
      <4>1. listed' = listed
        BY <1>8, <2>1, <3>2
      <4> QED
        BY <1>0, <4>1
    <3> QED
      BY <3>1, <3>2
  <2>3. shell' \in [Terms -> {"none", "run", "hup", "reaped", "ended"}] /\ TornDown'
    BY <1>8, <1>0, <2>1 DEF TornDown, wire
  <2> QED
    BY <1>8, <1>0, <1>00, <2>1, <2>2, <2>3, ShellStep DEF wire
<1>9. CASE t \in Terms /\ Report(t)
  <2>1. /\ shell[t] = "reaped" /\ shell' = [shell EXCEPT ![t] = "ended"]
        /\ SendUp(Frame(t, "exit"))
        /\ UNCHANGED <<panelSide, listed, prints, orphans, down, link, manager, hand>>
    BY <1>9 DEF Report
  <2>2. up' \in Seq(Frames) /\ Len(up') <= WireCap
    BY <1>9, <1>00, <2>1, SendsEffect
  <2>3. shell' \in [Terms -> {"none", "run", "hup", "reaped", "ended"}] /\ TornDown'
    BY <1>9, <1>0, <2>1 DEF TornDown
  <2> QED
    BY <1>9, <1>0, <1>00, <2>1, <2>2, <2>3, ShellStep
<1> QED
  BY <1>1, <1>2, <1>3, <1>4, <1>5, <1>6, <1>7, <1>8, <1>9 DEF Agent
\* Terminals and logins keep their invariants, and no account of somebody else
\* goes, whichever of the two moves.
LEMMA ShellsStep ==
    TermInv /\ LoginInv /\ [ShellsNext]_<<focus, termVars, loginVars>> =>
        /\ (TermInv /\ LoginInv)'
        /\ \A u \in Names : passwd[u] = "foreign" => passwd'[u] = "foreign"
<1> SUFFICES ASSUME TermInv, LoginInv, [ShellsNext]_<<focus, termVars, loginVars>>
             PROVE  /\ (TermInv /\ LoginInv)'
                    /\ \A u \in Names : passwd[u] = "foreign" => passwd'[u] = "foreign"
    OBVIOUS
<1>1. ASSUME UNCHANGED termVars PROVE TermInv'
  BY <1>1 DEF termVars, panelSide, agentSide, wire, TermInv, TermTypeOK, TabsTracked,
              TornDown, WiresOK
<1>2. ASSUME UNCHANGED loginVars
      PROVE  LoginInv' /\ \A u \in Names : passwd[u] = "foreign" => passwd'[u] = "foreign"
  BY <1>2 DEF loginVars, LoginInv, Login!TypeOK, Login!NoSudoLeft, JobOK
<1>3. ASSUME TermNext PROVE TermInv'
  <2>1. ASSUME NEW t \in Terms,
               \/ OpenTerminal(t) \/ TerminalInput(t) \/ AppCloses(t) \/ Panel(t)
        PROVE  TermInv'
    BY <2>1, PanelSteps
  <2>2. ASSUME NEW t \in Terms, Prints(t) \/ Exits(t) \/ WatchIdle(t) \/ Agent(t)
        PROVE  TermInv'
    BY <2>2, AgentSteps
  <2>3. CASE FromAgent
    BY <2>3, PanelSteps
  <2>4. CASE Reads \/ ReadsLast \/ LinkLost \/ CloseAll
    BY <2>4, AgentSteps
  <2> QED
    BY <1>3, <2>1, <2>2, <2>3, <2>4 DEF TermNext
<1>4. CASE TermNext /\ UNCHANGED loginVars
  BY <1>2, <1>3, <1>4
<1>5. CASE Login!Next /\ UNCHANGED termVars
  BY <1>1, <1>5, LoginStep
<1>6. CASE UNCHANGED <<focus, termVars, loginVars>>
  <2>1. UNCHANGED termVars /\ UNCHANGED loginVars
    BY <1>6
  <2> QED
    BY <2>1, <1>1, <1>2
<1> QED
  BY <1>4, <1>5, <1>6 DEF ShellsNext

\* The inductive invariant of terminals and logins holds in every reachable
\* state.
THEOREM ShellsInvariant == ShellsSpec => [](TermInv /\ LoginInv)
<1>1. ShellsInit => TermInv /\ LoginInv
  BY TermStart, LoginStart DEF ShellsInit
<1>2. TermInv /\ LoginInv /\ [ShellsNext]_<<focus, termVars, loginVars>> => (TermInv /\ LoginInv)'
  BY ShellsStep
<1> QED
  BY <1>1, <1>2, PTL DEF ShellsSpec

\* deliverTerminal, CloseTerminal, TerminalManager.open, CloseAll, pump and
\* removeTempAccount: no more shells than termMaxSessions, none that CloseAll
\* would miss, no sudo right without its account, and no account of somebody
\* else is ever deleted.
THEOREM ShellsAreSound == ShellsSpec => ShellsSound
<1>1. TermInv /\ LoginInv =>
        TermTypeOK /\ TabsTracked /\ TornDown /\ Login!TypeOK /\ Login!NoSudoLeft
  BY DEF TermInv, LoginInv
<1>2. TermInv /\ LoginInv /\ [ShellsNext]_<<focus, termVars, loginVars>> =>
        [\A u \in Names : passwd[u] = "foreign" => passwd'[u] = "foreign"]_Login!loginVars
  BY ShellsStep
<1> QED
  BY <1>1, <1>2, ShellsInvariant, PTL DEF ShellsSpec, ShellsSound, Login!ForeignStays

-----------------------------------------------------------------------------
(* The offline sweep: nobody is paged for this computer's own outage.      *)

\* The sweep's locals: a rest of the list while it runs and none otherwise,
\* no hold while it runs, and while it may alert, the line and the tunnel it
\* found; it probes only for an alert, and for a server past the grace.
SweepOK ==
    /\ sweep \in [pc : {"idle", "each", "probe"}, left : Seq(Servers),
                  was : [Servers -> Statuses], age : [Servers -> 0..(Grace + 1)],
                  alertable : BOOLEAN]
    /\ sweep.pc = "idle" <=> sweep.left = <<>>
    /\ sweep.pc # "idle" => hold = 0
    /\ sweep.pc # "idle" /\ sweep.alertable = TRUE => online = TRUE /\ tailnetLost = FALSE
    /\ sweep.pc = "probe" => sweep.alertable = TRUE /\ sweep.age[Head(sweep.left)] > Grace

\* What is left is the end of the list.
Suffix == /\ Len(sweep.left) <= Len(Order)
          /\ \A n \in 1..Len(sweep.left) :
                sweep.left[n] = Order[Len(Order) - Len(sweep.left) + n]

\* The inductive invariant of the sweep.
ReachInv == ReachTypeOK /\ SweepOK

\* The list of servers is not empty.
LEMMA OrderNotEmpty == Order \in Seq(Servers) /\ Order # <<>> /\ Len(Order) \in Nat \ {0}
<1>1. Order \in Seq(Servers) /\ {Order[n] : n \in 1..Len(Order)} # {}
  BY ReachAssumption
<1>2. PICK n \in 1..Len(Order) : TRUE
  BY <1>1
<1> QED
  BY <1>1, <1>2

\* A store for one server keeps the type of the table.
LEMMA SetKept ==
    ASSUME NEW T, NEW f \in [Servers -> T], NEW v \in Servers, NEW x \in T
    PROVE  Set(f, v, x) \in [Servers -> T]
BY DEF Set

\* The invariant holds when the panel starts.
LEMMA ReachStart == ReachInit => ReachInv
<1> SUFFICES ASSUME ReachInit PROVE ReachInv
    OBVIOUS
<1>1. Expect \in Nat /\ Grace \in Nat /\ ProbeEvery \in Nat /\ Recheck \in Nat
      /\ Hold \in Nat /\ StartHold \in Nat /\ MaxFaults \in Nat
  BY ReachAssumption
<1>2. Idle \in [pc : {"idle", "each", "probe"}, left : Seq(Servers),
                was : [Servers -> Statuses], age : [Servers -> 0..(Grace + 1)],
                alertable : BOOLEAN]
      /\ Idle.pc = "idle" /\ Idle.left = <<>>
  BY <1>1 DEF Idle, Statuses
<1>3. NoReach \in [up : BOOLEAN, age : 0..ProbeEvery]
  BY <1>1 DEF NoReach
<1>4. ReachTypeOK
  <2>1. /\ Grace + 1 \in 0..(Grace + 1) /\ NoMark \in 0..NoMark
        /\ StartHold \in 0..(Hold + StartHold) /\ Recheck \in 0..Recheck /\ 0 \in 0..MaxFaults
    BY <1>1 DEF NoMark
  <2>2. Len(sweep.left) = 0 /\ Len(sweep.left) <= Len(Order) /\ 1..Len(sweep.left) = {}
    BY <1>2, OrderNotEmpty DEF ReachInit
  <2>3. /\ sweep.pc \in {"idle", "each", "probe"} /\ sweep.left \in Seq(Servers)
        /\ sweep.alertable \in BOOLEAN /\ sweep.was \in [Servers -> Statuses]
        /\ sweep.age \in [Servers -> 0..(Grace + 1)]
    BY <1>2 DEF ReachInit
  <2>4. /\ active \in [Servers -> SUBSET Alerts] /\ status \in [Servers -> Statuses]
        /\ seen \in [Servers -> 0..(Grace + 1)] /\ mark \in [Servers -> 0..NoMark]
        /\ srv \in [Servers -> {"up", "agent", "host"}] /\ conn \in [Servers -> BOOLEAN]
    BY <2>1 DEF ReachInit, Statuses
  <2>5. reach \in [Servers -> [up : BOOLEAN, age : 0..ProbeEvery]]
    BY <1>3 DEF ReachInit
  <2> QED
    BY <2>1, <2>2, <2>3, <2>4, <2>5 DEF ReachInit, ReachTypeOK
<1> QED
  BY <1>2, <1>4 DEF ReachInit, ReachInv, SweepOK

\* The sweep goes on to the next server, or ends.
LEMMA NextServerEffect ==
    ASSUME ReachInv, sweep.pc # "idle", NEW v, NextServer(v), hold' = hold,
           online' = online, tailnetLost' = tailnetLost
    PROVE  SweepOK' /\ Suffix'
<1> DEFINE R == [pc : {"idle", "each", "probe"}, left : Seq(Servers),
                 was : [Servers -> Statuses], age : [Servers -> 0..(Grace + 1)],
                 alertable : BOOLEAN]
<1>1. /\ sweep \in R /\ sweep.left \in Seq(Servers) /\ sweep.left # <<>>
      /\ Suffix /\ Grace \in Nat /\ Len(Order) \in Nat
  BY ReachAssumption, OrderNotEmpty DEF ReachInv, ReachTypeOK, SweepOK, Suffix
<1>2. CASE Len(sweep.left) = 1
  <2>1. sweep' = Idle
    BY <1>2 DEF NextServer
  <2> QED
    BY <2>1, <1>1 DEF Idle, SweepOK, Suffix, Statuses
<1>3. CASE Len(sweep.left) # 1
  <2>1. sweep' = [sweep EXCEPT !.left = Tail(sweep.left), !.pc = "each"]
    BY <1>3 DEF NextServer
  <2>2. PICK rest : rest = Tail(sweep.left)
    OBVIOUS
  <2>3. /\ rest \in Seq(Servers) /\ Len(rest) = Len(sweep.left) - 1 /\ rest # <<>>
        /\ \A n \in 1..Len(rest) : rest[n] = sweep.left[n + 1]
    <3>1. Len(sweep.left) \in Nat \ {0}
      BY <1>1
    <3>2. rest \in Seq(Servers) /\ Len(rest) = Len(sweep.left) - 1
      BY <1>1, <2>2
    <3>3. \A n \in 1..Len(rest) : rest[n] = sweep.left[n + 1]
      BY <1>1, <2>2
    <3>4. Len(rest) # 0
      BY <1>3, <3>1, <3>2
    <3>5. rest # <<>>
      <4>1. rest = <<>> => Len(rest) = 0
        OBVIOUS
      <4> QED
        BY <3>4, <4>1
    <3> QED
      BY <3>2, <3>3, <3>5
  <2>4. sweep' \in R /\ sweep'.left = rest /\ sweep'.pc = "each" /\ sweep'.alertable = sweep.alertable
    BY <2>1, <2>2, <2>3, <1>1
  <2>5. SweepOK'
    BY <2>3, <2>4 DEF ReachInv, SweepOK
  <2>6. ASSUME NEW n \in 1..Len(rest)
        PROVE  rest[n] = Order[Len(Order) - Len(rest) + n]
    <3>1. n + 1 \in 1..Len(sweep.left) /\ Len(Order) - Len(sweep.left) + (n + 1) = Len(Order) - Len(rest) + n
      BY <1>1, <2>3
    <3> QED
      BY <3>1, <2>3, <1>1 DEF Suffix
  <2>7. Len(rest) <= Len(Order)
    BY <1>1, <2>3 DEF Suffix
  <2> QED
    BY <2>4, <2>5, <2>6, <2>7 DEF Suffix
<1> QED
  BY <1>2, <1>3

\* The steps that leave the sweep and what it goes by alone keep its facts.
LEMMA SweepKept ==
    ASSUME ReachInv, UNCHANGED <<sweep, online, tailnetLost>>,
           hold' = hold \/ sweep.pc = "idle"
    PROVE  SweepOK' /\ Suffix'
BY DEF ReachInv, ReachTypeOK, SweepOK, Suffix

\* A new sweep.
LEMMA BeginEffect ==
    ASSUME ReachInv, SweepBegins PROVE ReachInv'
<1> USE DEF ReachInv
<1>1. /\ Recheck \in Nat /\ Grace \in Nat /\ Hold \in Nat /\ StartHold \in Nat
      /\ line \in BOOLEAN /\ online \in BOOLEAN /\ checked \in 0..Recheck
      /\ tailnetLost \in BOOLEAN /\ hold \in 0..(Hold + StartHold)
      /\ sweep.pc = "idle" /\ hold = 0
  BY ReachAssumption DEF ReachTypeOK, SweepBegins
<1>2. online' \in BOOLEAN /\ checked' \in 0..Recheck
  BY <1>1 DEF SweepBegins, CheckLine
<1>3. UNCHANGED <<srv, line, conn, status, seen, mark, active, reach, faults>>
  BY DEF SweepBegins, world, store
<1>4. CASE HoldFor(Hold) /\ UNCHANGED sweep /\ tailnetLost' \in BOOLEAN
  <2>1. hold' \in 0..(Hold + StartHold)
    BY <1>1, <1>4 DEF HoldFor
  <2>2. SweepOK'
    BY <1>1, <1>4 DEF SweepOK
  <2> QED
    BY <1>2, <1>3, <1>4, <2>1, <2>2 DEF ReachTypeOK
<1>5. CASE /\ ~(NetUp /\ ~online)
           /\ tailnetLost' = (tailnetLost \/ AllLost)
           /\ Begin(NetUp /\ ~tailnetLost') /\ UNCHANGED hold
  <2>1. PICK b \in BOOLEAN : b = (NetUp /\ ~tailnetLost')
    OBVIOUS
  <2>2. sweep' = [pc |-> "each", left |-> Order, was |-> status, age |-> seen, alertable |-> b]
    BY <1>5, <2>1 DEF Begin
  <2>3. /\ sweep'.pc = "each" /\ sweep'.left = Order /\ sweep'.was = status /\ sweep'.age = seen
        /\ sweep'.alertable = b
        /\ sweep' \in [pc : {"idle", "each", "probe"}, left : Seq(Servers),
                       was : [Servers -> Statuses], age : [Servers -> 0..(Grace + 1)],
                       alertable : BOOLEAN]
    BY <2>2, OrderNotEmpty DEF ReachTypeOK
  <2>4. tailnetLost' \in BOOLEAN
    BY <1>5
  <2>5. b = TRUE => tailnetLost' = FALSE /\ NetUp
    BY <2>1, <2>4
  <2>6. NetUp => online' = TRUE
    <3>1. CASE AskLine /\ ~Reused
      BY <3>1, <1>1 DEF NetUp, SweepBegins, CheckLine
    <3>2. CASE ~(AskLine /\ ~Reused)
      <4>1. online' = online
        BY <3>2 DEF SweepBegins, CheckLine
      <4> QED
        BY <3>2, <4>1, <1>1, <1>5 DEF NetUp
    <3> QED
      BY <3>1, <3>2
  <2>7. SweepOK'
    BY <2>3, <2>5, <2>6, <1>1, <1>5, OrderNotEmpty DEF SweepOK
  <2>8. Suffix'
    BY <2>3, OrderNotEmpty DEF Suffix
  <2> QED
    BY <1>2, <1>3, <1>5, <2>3, <2>4, <2>7, <2>8 DEF ReachTypeOK, Suffix
<1>6. \/ HoldFor(Hold) /\ UNCHANGED sweep /\ tailnetLost' \in BOOLEAN
      \/ /\ ~(NetUp /\ ~online)
         /\ tailnetLost' = (tailnetLost \/ AllLost)
         /\ Begin(NetUp /\ ~tailnetLost') /\ UNCHANGED hold
  BY <1>1 DEF SweepBegins
<1> QED
  BY <1>4, <1>5, <1>6

\* One server's turn of the loop.
LEMMA EachEffect ==
    ASSUME ReachInv, Each PROVE ReachInv' /\ active' \in [Servers -> SUBSET Alerts]
                                /\ \A v \in Servers : active'[v] \subseteq active[v]
<1> USE DEF ReachInv
<1> DEFINE v == Head(sweep.left)
<1>1. /\ sweep.pc = "each" /\ v \in Servers
      /\ EachLiveMarked(v) \/ EachLive(v) \/ EachAwaited(v) \/ EachGone(v)
      /\ UNCHANGED <<srv, line, conn, online, checked, hold, tailnetLost, faults>>
  <2>1. sweep.pc = "each" /\ sweep.left \in Seq(Servers) /\ sweep.left # <<>>
    BY DEF Each, SweepOK
  <2>2. v \in Servers
    BY <2>1
  <2> QED
    BY <2>1, <2>2 DEF Each, world
<1>2. /\ Grace \in Nat /\ Expect \in Nat /\ ProbeEvery \in Nat
      /\ 0 \in 0..(Grace + 1) /\ NoMark \in 0..NoMark
      /\ NoReach \in [up : BOOLEAN, age : 0..ProbeEvery]
      /\ "online" \in Statuses /\ "restarting" \in Statuses /\ "offline" \in Statuses
      /\ {} \in SUBSET Alerts
  <2>1. Grace \in Nat /\ Expect \in Nat /\ ProbeEvery \in Nat
    BY ReachAssumption
  <2>2. 0 \in 0..(Grace + 1) /\ NoMark \in 0..NoMark
    BY <2>1 DEF NoMark
  <2>3. NoReach \in [up : BOOLEAN, age : 0..ProbeEvery]
    BY <2>1 DEF NoReach
  <2> QED
    BY <2>1, <2>2, <2>3 DEF Statuses
<1>3. /\ status \in [Servers -> Statuses] /\ seen \in [Servers -> 0..(Grace + 1)]
      /\ mark \in [Servers -> 0..NoMark] /\ active \in [Servers -> SUBSET Alerts]
      /\ reach \in [Servers -> [up : BOOLEAN, age : 0..ProbeEvery]]
  BY DEF ReachTypeOK
<1>4. /\ Set(status, v, "online") \in [Servers -> Statuses]
      /\ Set(status, v, "restarting") \in [Servers -> Statuses]
      /\ Set(status, v, "offline") \in [Servers -> Statuses]
      /\ Set(seen, v, 0) \in [Servers -> 0..(Grace + 1)]
      /\ Set(mark, v, NoMark) \in [Servers -> 0..NoMark]
      /\ Set(active, v, {}) \in [Servers -> SUBSET Alerts]
      /\ Set(reach, v, NoReach) \in [Servers -> [up : BOOLEAN, age : 0..ProbeEvery]]
  BY <1>1, <1>2, <1>3 DEF Set
<1> HIDE DEF v
<1>5. /\ status' \in [Servers -> Statuses] /\ seen' \in [Servers -> 0..(Grace + 1)]
      /\ mark' \in [Servers -> 0..NoMark]
  <2>1. CASE EachLiveMarked(v)
    BY <2>1, <1>3, <1>4 DEF EachLiveMarked
  <2>2. CASE EachLive(v)
    BY <2>2, <1>3, <1>4 DEF EachLive
  <2>3. CASE EachAwaited(v)
    BY <2>3, <1>3, <1>4 DEF EachAwaited
  <2>4. CASE EachGone(v)
    BY <2>4, <1>3, <1>4 DEF EachGone
  <2> QED
    BY <1>1, <2>1, <2>2, <2>3, <2>4
<1>6. \/ ClearReachability(v)
      \/ UNCHANGED <<active, reach>>
  BY <1>1 DEF EachLiveMarked, EachLive, EachAwaited, EachGone
<1>7. /\ active' \in [Servers -> SUBSET Alerts]
      /\ reach' \in [Servers -> [up : BOOLEAN, age : 0..ProbeEvery]]
      /\ \A w \in Servers : active'[w] \subseteq active[w]
  <2>1. CASE ClearReachability(v)
    <3>1. active' = Set(active, v, {}) /\ reach' = Set(reach, v, NoReach)
      BY <2>1 DEF ClearReachability
    <3>2. \A w \in Servers : active'[w] = {} \/ active'[w] = active[w]
      BY <3>1, <1>3, <1>1 DEF Set
    <3> QED
      BY <3>1, <3>2, <1>4
  <2>2. CASE UNCHANGED <<active, reach>>
    BY <2>2, <1>3
  <2> QED
    BY <1>6, <2>1, <2>2
<1>8. SweepOK' /\ Suffix'
  <2>1. CASE NextServer(v)
    BY <2>1, <1>1, NextServerEffect
  <2>2. CASE sweep.alertable /\ Overdue(v) /\ sweep' = [sweep EXCEPT !.pc = "probe"]
    <3>1. sweep.alertable = TRUE /\ sweep.age[Head(sweep.left)] > Grace
      BY <2>2 DEF SweepOK, Overdue, v
    <3>2. /\ sweep'.pc = "probe" /\ sweep'.left = sweep.left /\ sweep'.age = sweep.age
          /\ sweep'.alertable = sweep.alertable
          /\ sweep' \in [pc : {"idle", "each", "probe"}, left : Seq(Servers),
                         was : [Servers -> Statuses], age : [Servers -> 0..(Grace + 1)],
                         alertable : BOOLEAN]
      BY <2>2 DEF SweepOK
    <3>3. SweepOK'
      BY <1>1, <3>1, <3>2 DEF SweepOK
    <3>4. Suffix
      BY DEF ReachTypeOK, Suffix
    <3> QED
      BY <3>2, <3>3, <3>4 DEF Suffix
  <2>3. NextServer(v) \/ (sweep.alertable /\ Overdue(v) /\ sweep' = [sweep EXCEPT !.pc = "probe"])
    BY <1>1 DEF EachLiveMarked, EachLive, EachAwaited, EachGone
  <2> QED
    BY <2>1, <2>2, <2>3
<1>9. ReachTypeOK'
  BY <1>1, <1>5, <1>7, <1>8 DEF ReachTypeOK, SweepOK, Suffix
<1> QED
  BY <1>7, <1>8, <1>9

\* The probe's answer: an alert opens, and it is earned.
LEMMA JudgeEffect ==
    ASSUME ReachInv, Judge
    PROVE  ReachInv' /\ hold = 0 /\ online = TRUE /\ tailnetLost = FALSE
           /\ \A v \in Servers : ~(active'[v] \subseteq active[v]) => sweep.age[v] > Grace
<1> USE DEF ReachInv
<1> DEFINE v == Head(sweep.left)
<1>1. /\ sweep.pc = "probe" /\ v \in Servers
      /\ UNCHANGED <<srv, line, conn, seen, mark, online, checked, hold, tailnetLost, faults>>
  <2>1. sweep.pc = "probe" /\ sweep.left \in Seq(Servers) /\ sweep.left # <<>>
    BY DEF Judge, SweepOK
  <2> QED
    BY <2>1 DEF Judge, world
<1>2. hold = 0 /\ online = TRUE /\ tailnetLost = FALSE /\ sweep.age[v] > Grace
  BY <1>1 DEF SweepOK
<1>3. PICK answers \in BOOLEAN : answers = HostUp(v)
  <2>1. reach[v].up \in BOOLEAN
    BY <1>1 DEF ReachTypeOK
  <2>2. HostUp(v) \in BOOLEAN
    BY <2>1 DEF HostUp, ReachTypeOK
  <2> QED
    BY <2>2
<1>4. PICK want : want = IF HostUp(v) THEN "agent_down" ELSE "offline"
  OBVIOUS
<1>5. PICK r : r = IF reach[v].age < ProbeEvery THEN reach[v] ELSE [up |-> HostUp(v), age |-> 0]
  OBVIOUS
<1>6. PICK a : a = IF HostUp(v) THEN "agent_down" ELSE "agent_offline"
  OBVIOUS
<1>7. want \in Statuses /\ a \in Alerts /\ r \in [up : BOOLEAN, age : 0..ProbeEvery]
  <2>1. ProbeEvery \in Nat /\ reach[v] \in [up : BOOLEAN, age : 0..ProbeEvery]
    BY ReachAssumption, <1>1 DEF ReachTypeOK
  <2>2. [up |-> answers, age |-> 0] \in [up : BOOLEAN, age : 0..ProbeEvery]
    BY <2>1, <1>3
  <2>3. r = reach[v] \/ r = [up |-> answers, age |-> 0]
    BY <1>3, <1>5
  <2>4. want \in Statuses /\ a \in Alerts
    BY <1>4, <1>6 DEF Statuses, Alerts
  <2> QED
    BY <2>1, <2>2, <2>3, <2>4
<1>8. /\ reach' = Set(reach, v, r)
      /\ status' = Set(status, v, want) \/ status' = status
      /\ active' = Set(active, v, {a})
      /\ NextServer(v)
  BY <1>4, <1>5, <1>6 DEF Judge
<1> HIDE DEF v
<1>9. /\ status' \in [Servers -> Statuses] /\ active' \in [Servers -> SUBSET Alerts]
      /\ reach' \in [Servers -> [up : BOOLEAN, age : 0..ProbeEvery]]
  <2>1. status \in [Servers -> Statuses] /\ active \in [Servers -> SUBSET Alerts]
        /\ reach \in [Servers -> [up : BOOLEAN, age : 0..ProbeEvery]]
    BY DEF ReachTypeOK
  <2>2. {a} \in SUBSET Alerts
    BY <1>7
  <2>3. Set(status, v, want) \in [Servers -> Statuses]
    BY <1>1, <1>7, <2>1 DEF Set
  <2>4. Set(active, v, {a}) \in [Servers -> SUBSET Alerts]
    BY <1>1, <2>1, <2>2 DEF Set
  <2>5. Set(reach, v, r) \in [Servers -> [up : BOOLEAN, age : 0..ProbeEvery]]
    BY <1>1, <1>7, <2>1 DEF Set
  <2> QED
    BY <1>8, <2>1, <2>3, <2>4, <2>5
<1>10. SweepOK' /\ Suffix'
  BY <1>1, <1>8, NextServerEffect
<1>11. ReachTypeOK'
  BY <1>1, <1>9, <1>10 DEF ReachTypeOK, SweepOK, Suffix
<1>12. \A w \in Servers : ~(active'[w] \subseteq active[w]) => sweep.age[w] > Grace
  <2>1. \A w \in Servers : w # v => active'[w] = active[w]
    BY <1>8 DEF ReachTypeOK, Set
  <2> QED
    BY <1>2, <2>1
<1> QED
  BY <1>2, <1>10, <1>11, <1>12

\* Time passes.
LEMMA TickEffect ==
    ASSUME ReachInv, Tick PROVE ReachInv'
<1> USE DEF ReachInv
<1>1. /\ Grace \in Nat /\ Expect \in Nat /\ ProbeEvery \in Nat /\ Recheck \in Nat
      /\ Hold \in Nat /\ StartHold \in Nat
  BY ReachAssumption
<1>2. \A n, m \in Nat : n \in 0..m => Older(n, m) \in 0..m /\ Older(n, m) >= n
  BY DEF Older
<1>3. UNCHANGED <<srv, line, conn, status, active, online, tailnetLost, faults>>
  BY DEF Tick, world
<1>4. seen' \in [Servers -> 0..(Grace + 1)]
  <2>0. seen \in [Servers -> 0..(Grace + 1)]
    BY DEF ReachTypeOK
  <2>1. \A v \in Servers : Older(seen[v], Grace + 1) \in 0..(Grace + 1)
    BY <1>1, <2>0 DEF Older
  <2> QED
    BY <2>1 DEF Tick, AllOlder
<1>5. mark' \in [Servers -> 0..NoMark]
  <2>0. mark \in [Servers -> 0..NoMark]
    BY DEF ReachTypeOK
  <2>1. \A v \in Servers : (IF mark[v] < Expect THEN mark[v] + 1 ELSE mark[v]) \in 0..NoMark
    BY <1>1, <2>0 DEF NoMark
  <2> QED
    BY <2>1 DEF Tick
<1>6. reach' \in [Servers -> [up : BOOLEAN, age : 0..ProbeEvery]]
  <2>1. ASSUME NEW v \in Servers
        PROVE  [reach[v] EXCEPT !.age = Older(@, ProbeEvery)] \in [up : BOOLEAN, age : 0..ProbeEvery]
    <3>1. reach[v] \in [up : BOOLEAN, age : 0..ProbeEvery]
      BY <2>1 DEF ReachTypeOK
    <3>2. Older(reach[v].age, ProbeEvery) \in 0..ProbeEvery
      BY <1>1, <1>2, <3>1
    <3> QED
      BY <3>1, <3>2
  <2> QED
    BY <2>1 DEF Tick
<1>7. checked' \in 0..Recheck
  BY <1>1, <1>2 DEF Tick, ReachTypeOK
<1>8. hold' \in 0..(Hold + StartHold) /\ (hold = 0 => hold' = 0)
  BY <1>1 DEF Tick, ReachTypeOK
<1>9. SweepOK' /\ Suffix'
  <2>1. CASE sweep.pc = "idle"
    <3>1. sweep' = sweep
      BY <2>1 DEF Tick
    <3> QED
      BY <1>3, <2>1, <3>1, SweepKept
  <2>2. CASE sweep.pc # "idle"
    <3>1. PICK a : a = AllOlder(sweep.age, Grace + 1)
      OBVIOUS
    <3>2. sweep' = [sweep EXCEPT !.age = a]
      BY <2>2, <3>1 DEF Tick
    <3>3. sweep.age \in [Servers -> 0..(Grace + 1)] /\ sweep.left \in Seq(Servers)
      BY DEF SweepOK
    <3>4. /\ a \in [Servers -> 0..(Grace + 1)]
          /\ \A v \in Servers : a[v] >= sweep.age[v]
      <4>1. \A v \in Servers : Older(sweep.age[v], Grace + 1) \in 0..(Grace + 1)
                               /\ Older(sweep.age[v], Grace + 1) >= sweep.age[v]
        BY <1>1, <3>3 DEF Older
      <4> QED
        BY <3>1, <4>1 DEF AllOlder
    <3>5. /\ sweep'.pc = sweep.pc /\ sweep'.left = sweep.left /\ sweep'.age = a
          /\ sweep'.alertable = sweep.alertable
          /\ sweep' \in [pc : {"idle", "each", "probe"}, left : Seq(Servers),
                         was : [Servers -> Statuses], age : [Servers -> 0..(Grace + 1)],
                         alertable : BOOLEAN]
      BY <3>2, <3>4 DEF SweepOK
    <3>6. sweep.pc = "probe" => a[Head(sweep.left)] > Grace
      <4>1. SUFFICES ASSUME sweep.pc = "probe" PROVE a[Head(sweep.left)] > Grace
        OBVIOUS
      <4>2. sweep.left # <<>> /\ sweep.age[Head(sweep.left)] > Grace
        BY <4>1 DEF SweepOK
      <4>3. Head(sweep.left) \in Servers
        BY <3>3, <4>2
      <4>4. a[Head(sweep.left)] \in Nat /\ sweep.age[Head(sweep.left)] \in Nat
            /\ a[Head(sweep.left)] >= sweep.age[Head(sweep.left)]
        BY <1>1, <3>3, <3>4, <4>3
      <4> QED
        BY <1>1, <4>2, <4>4
    <3>7. SweepOK'
      BY <1>3, <1>8, <2>2, <3>5, <3>6 DEF SweepOK
    <3>8. Suffix
      BY DEF ReachTypeOK, Suffix
    <3> QED
      BY <3>5, <3>7, <3>8 DEF Suffix
  <2> QED
    BY <2>1, <2>2
<1>10. ReachTypeOK'
  BY <1>3, <1>4, <1>5, <1>6, <1>7, <1>8, <1>9 DEF ReachTypeOK, SweepOK, Suffix
<1> QED
  BY <1>9, <1>10

\* The steps of one server and its socket.
LEMMA SocketEffect ==
    ASSUME ReachInv, NEW v \in Servers,
           \/ Connect(v) \/ SnapshotFrame(v) \/ Disconnect(v)
           \/ ServerDown(v, "agent") \/ ServerDown(v, "host")
           \/ ServerUp(v) \/ MarkRestart(v)
    PROVE  ReachInv' /\ active' = active
<1> USE DEF ReachInv
<1>1. UNCHANGED <<active, reach, online, checked, hold, tailnetLost, sweep>> /\ line' = line
  BY DEF Connect, SnapshotFrame, Disconnect, ServerDown, ServerUp, MarkRestart, engine, world
<1>2. /\ MaxFaults \in Nat /\ 0 \in 0..(Grace + 1)
      /\ NoMark \in 0..NoMark /\ 0 \in 0..NoMark
      /\ srv \in [Servers -> {"up", "agent", "host"}] /\ conn \in [Servers -> BOOLEAN]
      /\ status \in [Servers -> Statuses] /\ seen \in [Servers -> 0..(Grace + 1)]
      /\ mark \in [Servers -> 0..NoMark] /\ faults \in 0..MaxFaults
  <2>1. MaxFaults \in Nat /\ Expect \in Nat /\ Grace \in Nat
    BY ReachAssumption
  <2>2. 0 \in 0..(Grace + 1) /\ NoMark \in 0..NoMark /\ 0 \in 0..NoMark
    BY <2>1 DEF NoMark
  <2> QED
    BY <2>1, <2>2 DEF ReachTypeOK
<1>3. faults' \in 0..MaxFaults
  <2>1. UNCHANGED faults \/ (faults < MaxFaults /\ faults' = faults + 1)
    BY DEF Connect, SnapshotFrame, Disconnect, ServerDown, ServerUp, MarkRestart, Fault
  <2> QED
    BY <1>2, <2>1
<1>4. /\ \A how \in {"up", "agent", "host"} : Set(srv, v, how) \in [Servers -> {"up", "agent", "host"}]
      /\ \A b \in BOOLEAN : Set(conn, v, b) \in [Servers -> BOOLEAN]
      /\ \A x \in {"online", "restarting", "offline"} : Set(status, v, x) \in [Servers -> Statuses]
      /\ Set(seen, v, 0) \in [Servers -> 0..(Grace + 1)]
      /\ Set(mark, v, 0) \in [Servers -> 0..NoMark]
      /\ Set(mark, v, NoMark) \in [Servers -> 0..NoMark]
  BY <1>2 DEF Set, Statuses
<1>5. /\ srv' \in [Servers -> {"up", "agent", "host"}] /\ conn' \in [Servers -> BOOLEAN]
      /\ status' \in [Servers -> Statuses] /\ seen' \in [Servers -> 0..(Grace + 1)]
      /\ mark' \in [Servers -> 0..NoMark]
  <2>1. CASE Connect(v)
    BY <2>1, <1>2, <1>4 DEF Connect
  <2>2. CASE SnapshotFrame(v)
    <3>1. status' = Set(status, v, "restarting") \/ status' = Set(status, v, "online")
      BY <2>2 DEF SnapshotFrame
    <3> QED
      BY <2>2, <3>1, <1>2, <1>4 DEF SnapshotFrame, world
  <2>3. CASE Disconnect(v)
    BY <2>3, <1>2, <1>4 DEF Disconnect
  <2>4. CASE ServerDown(v, "agent") \/ ServerDown(v, "host") \/ ServerUp(v)
    BY <2>4, <1>2, <1>4 DEF ServerDown, ServerUp, store
  <2>5. CASE MarkRestart(v)
    BY <2>5, <1>2, <1>4 DEF MarkRestart, world
  <2> QED
    BY <2>1, <2>2, <2>3, <2>4, <2>5
<1>6. SweepOK' /\ Suffix'
  BY <1>1, SweepKept
<1>7. ReachTypeOK'
  BY <1>1, <1>3, <1>5, <1>6 DEF ReachTypeOK, SweepOK, Suffix
<1> QED
  BY <1>1, <1>6, <1>7

\* This computer's line, its naps, and a panel that is started again.
LEMMA PanelEffect ==
    ASSUME ReachInv, LineDown \/ LineUp \/ Nap \/ PanelRestart
    PROVE  ReachInv' /\ active' = active
<1> USE DEF ReachInv
<1>1. /\ MaxFaults \in Nat /\ Grace \in Nat /\ Expect \in Nat /\ ProbeEvery \in Nat /\ Recheck \in Nat
      /\ Hold \in Nat /\ StartHold \in Nat /\ Recheck \in 0..Recheck
      /\ Grace + 1 \in 0..(Grace + 1) /\ NoMark \in 0..NoMark /\ Expect \in 0..NoMark
      /\ StartHold \in 0..(Hold + StartHold)
  <2>1. /\ MaxFaults \in Nat /\ Grace \in Nat /\ Expect \in Nat /\ ProbeEvery \in Nat
        /\ Recheck \in Nat /\ Hold \in Nat /\ StartHold \in Nat
    BY ReachAssumption
  <2> QED
    BY <2>1 DEF NoMark
<1>2. faults' \in 0..MaxFaults
  <2>1. UNCHANGED faults \/ (faults < MaxFaults /\ faults' = faults + 1)
    BY DEF LineDown, LineUp, Nap, PanelRestart, Fault
  <2> QED
    BY <1>1, <2>1 DEF ReachTypeOK
<1>3. [v \in Servers |-> NoReach] \in [Servers -> [up : BOOLEAN, age : 0..ProbeEvery]]
  <2>1. NoReach \in [up : BOOLEAN, age : 0..ProbeEvery]
    BY <1>1 DEF NoReach
  <2> QED
    BY <2>1
<1>4. CASE LineDown \/ LineUp
  <2>1. UNCHANGED <<srv, conn, status, seen, mark, active, reach, online, checked, hold,
                    tailnetLost, sweep>> /\ line' \in BOOLEAN
    BY <1>4 DEF LineDown, LineUp, store, engine
  <2>2. SweepOK' /\ Suffix'
    BY <2>1, SweepKept
  <2>3. ReachTypeOK'
    BY <1>2, <2>1, <2>2 DEF ReachTypeOK, SweepOK, Suffix
  <2> QED
    BY <2>1, <2>2, <2>3
<1>5. CASE Nap
  <2>1. /\ UNCHANGED <<srv, line, active, online, tailnetLost, sweep>>
        /\ sweep.pc = "idle" /\ reach' = [v \in Servers |-> NoReach] /\ checked' = Recheck
    BY <1>5 DEF Nap
  <2>2. hold' \in 0..(Hold + StartHold)
    BY <1>1, <1>5 DEF Nap, HoldFor, ReachTypeOK
  <2>3. status' \in [Servers -> Statuses] /\ conn' \in [Servers -> BOOLEAN]
    BY <1>5 DEF Nap, ReachTypeOK, Statuses
  <2>4. mark' \in [Servers -> 0..NoMark] /\ seen' \in [Servers -> 0..(Grace + 1)]
    BY <1>1, <1>5 DEF Nap
  <2>5. SweepOK' /\ Suffix'
    BY <2>1, SweepKept
  <2>6. ReachTypeOK'
    BY <1>1, <1>2, <1>3, <2>1, <2>2, <2>3, <2>4, <2>5 DEF ReachTypeOK, SweepOK, Suffix
  <2> QED
    BY <2>1, <2>5, <2>6
<1>6. CASE PanelRestart
  <2>1. /\ UNCHANGED <<srv, line, seen, active>> /\ sweep' = Idle
        /\ reach' = [v \in Servers |-> NoReach] /\ checked' = Recheck
        /\ online' = TRUE /\ tailnetLost' = FALSE /\ hold' = StartHold
        /\ conn' = [v \in Servers |-> FALSE]
    BY <1>6 DEF PanelRestart
  <2>2. status' \in [Servers -> Statuses]
    BY <1>6 DEF PanelRestart, ReachTypeOK, Statuses
  <2>3. mark' \in [Servers -> 0..NoMark]
    <3>1. \A v \in Servers : (IF Fresh(mark[v]) THEN mark[v] ELSE NoMark) \in 0..NoMark
      BY <1>1 DEF ReachTypeOK
    <3> QED
      BY <1>6, <3>1 DEF PanelRestart
  <2>4. /\ Idle \in [pc : {"idle", "each", "probe"}, left : Seq(Servers),
                     was : [Servers -> Statuses], age : [Servers -> 0..(Grace + 1)],
                     alertable : BOOLEAN]
        /\ Idle.pc = "idle" /\ Idle.left = <<>>
    BY <1>1 DEF Idle, Statuses
  <2>5. SweepOK'
    BY <2>1, <2>4 DEF SweepOK
  <2>6. Suffix'
    BY <2>1, <2>4, OrderNotEmpty DEF Suffix
  <2>7. conn' \in [Servers -> BOOLEAN]
    BY <2>1
  <2>8. ReachTypeOK'
    BY <1>1, <1>2, <1>3, <2>1, <2>2, <2>3, <2>5, <2>6, <2>7 DEF ReachTypeOK, SweepOK, Suffix
  <2> QED
    BY <2>1, <2>5, <2>8
<1> QED
  BY <1>4, <1>5, <1>6

\* A step of the sweep, of the world or of a socket keeps the invariant, and
\* opens only alerts that were earned.
LEMMA ReachStep ==
    ASSUME ReachInv, [ReachNext]_reachVars
    PROVE  /\ ReachInv'
           /\ \A v \in Servers : ~(active'[v] \subseteq active[v]) =>
                 hold = 0 /\ online /\ ~tailnetLost /\ sweep.age[v] > Grace
<1>1. CASE SweepBegins
  <2>1. ReachInv' /\ active' = active
    BY <1>1, BeginEffect DEF SweepBegins
  <2> QED
    BY <2>1
<1>2. CASE Each
  BY <1>2, EachEffect
<1>3. CASE Judge
  BY <1>3, JudgeEffect
<1>4. CASE Tick
  <2>1. ReachInv' /\ active' = active
    BY <1>4, TickEffect DEF Tick
  <2> QED
    BY <2>1
<1>5. CASE LineDown \/ LineUp \/ Nap \/ PanelRestart
  BY <1>5, PanelEffect
<1>6. CASE \E v \in Servers : \/ Connect(v) \/ SnapshotFrame(v) \/ Disconnect(v)
                              \/ ServerDown(v, "agent") \/ ServerDown(v, "host")
                              \/ ServerUp(v) \/ MarkRestart(v)
  BY <1>6, SocketEffect
<1>7. CASE UNCHANGED reachVars
  <2>1. UNCHANGED <<srv, line, conn, status, seen, mark, active, reach, online, checked, hold,
                    tailnetLost, sweep, faults>>
    BY <1>7 DEF reachVars, world, store, engine
  <2>2. SweepOK' /\ Suffix'
    BY <2>1, SweepKept
  <2>3. ReachTypeOK'
    BY <2>1, <2>2 DEF ReachInv, ReachTypeOK, SweepOK, Suffix
  <2> QED
    BY <2>1, <2>2, <2>3 DEF ReachInv
<1> QED
  BY <1>1, <1>2, <1>3, <1>4, <1>5, <1>6, <1>7 DEF ReachNext, SweepStep

\* The inductive invariant of the sweep holds in every reachable state
\* (sweepOffline, WatchOffline, hostReachable and the restart marker).
THEOREM ReachInvariant == ReachSpec => []ReachInv
BY ReachStart, ReachStep, PTL DEF ReachSpec

\* For any fleet, graces, holds and probe intervals, over any outages, naps,
\* reboots and restarts of the panel: an alert opens only with no hold on, for
\* a server whose last frame is older than the grace, when this computer's
\* line and some server were in reach (sweepOffline).
THEOREM ReachIsSound == ReachSpec => ReachSound
<1>1. ReachInv => ReachTypeOK
  BY DEF ReachInv
<1>2. ReachInv /\ [ReachNext]_reachVars =>
        [\A v \in Servers : ~(active'[v] \subseteq active[v]) =>
            hold = 0 /\ online /\ ~tailnetLost /\ sweep.age[v] > Grace]_reachVars
  BY ReachStep
<1> QED
  BY <1>1, <1>2, ReachInvariant, PTL DEF ReachSpec, ReachSound, PagesEarned
=============================================================================
