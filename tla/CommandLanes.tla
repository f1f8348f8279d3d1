---------------------------- MODULE CommandLanes ----------------------------
(***************************************************************************)
(* How the agent runs the panel's commands (readLoop, runCommand,          *)
(* commandLane and laneLock of agent/ws_client.go).                        *)
(*                                                                         *)
(* The read loop starts a goroutine per command.  The goroutine takes one  *)
(* of the shared slots, then, for a mutating method, the mutex of the      *)
(* command's lane; it dispatches the command and queues the result on the  *)
(* write channel of the session the command came from.  Slots and lanes    *)
(* are global: they outlive the session, and a command that is running     *)
(* when its session ends runs to its end.                                  *)
(***************************************************************************)
EXTENDS Naturals, Sequences, FiniteSets

CONSTANTS Cmds,      \* commands the panel sends, each once
          Path,      \* Path[c]: the path's segments after /api
          Mutating,  \* the commands with a mutating method
          Slots,     \* capacity of cmdSlots
          WriteCap,  \* capacity of a session's writeCh
          MaxSess,   \* bound: sessions
          Free       \* "nobody holds this lane"

ASSUME LanesAssumption ==
    /\ IsFiniteSet(Cmds) /\ Mutating \subseteq Cmds
    /\ Free \notin Cmds
    /\ Slots \in Nat \ {0} /\ WriteCap \in Nat \ {0} /\ MaxSess \in Nat

VARIABLES live,       \* the session, 0 when there is none
          opened,     \* sessions opened so far
          pc,         \* where the goroutine of each command stands
          of,         \* the session each command came from
          slots,      \* tokens in cmdSlots
          lock,       \* cmdLanes.m: the holder of each lane's mutex
          queued,     \* commands whose result is in the session's writeCh
          pushQueued, \* a refresh is scheduled (SyncEngine.pushQueued)
          ahead       \* history: the changes to its lane that were read before
                      \* each command and had not started when it was read

vars == <<live, opened, pc, of, slots, lock, queued, pushQueued, ahead>>

\* commandLane: the first two segments name the feature.
commandLane(p) == SubSeq(p, 1, IF Len(p) > 2 THEN 2 ELSE Len(p))

Lane(c) == commandLane(Path[c])
Lanes == {Lane(c) : c \in Cmds}

PCs == {"new", "spawned", "slotted", "running", "result", "done", "dropped"}

TypeOK ==
    /\ live \in 0..MaxSess /\ opened \in 0..MaxSess
    /\ pc \in [Cmds -> PCs]
    /\ of \in [Cmds -> 0..MaxSess]
    /\ slots \in 0..Slots
    /\ lock \in [Lanes -> Cmds \cup {Free}]
    /\ queued \subseteq Cmds
    /\ pushQueued \in BOOLEAN
    /\ ahead \in [Cmds -> SUBSET Mutating]

Init ==
    /\ live = 0 /\ opened = 0
    /\ pc = [c \in Cmds |-> "new"]
    /\ of = [c \in Cmds |-> 0]
    /\ slots = 0
    /\ lock = [l \in Lanes |-> Free]
    /\ queued = {}
    /\ pushQueued = FALSE
    /\ ahead = [c \in Cmds |-> {}]

\* The goroutine of c has not begun to execute its command.
Waiting(c) == pc[c] \in {"spawned", "slotted"}

\* readLoop: go c.runCommand(...)
Arrive(c) ==
    /\ pc[c] = "new" /\ live # 0
    /\ pc' = [pc EXCEPT ![c] = "spawned"]
    /\ of' = [of EXCEPT ![c] = live]
    /\ ahead' = [ahead EXCEPT ![c] = {d \in Mutating : Waiting(d) /\ Lane(d) = Lane(c)}]
    /\ UNCHANGED <<live, opened, slots, lock, queued, pushQueued>>

\* Mutant of TakeSlot: the channel is unbuffered by mistake.
TakeSlotAnyway(c) ==
    /\ pc[c] = "spawned"
    /\ slots' = slots + 1
    /\ pc' = [pc EXCEPT ![c] = "slotted"]
    /\ UNCHANGED <<live, opened, of, lock, queued, pushQueued, ahead>>

\* cmdSlots <- struct{}{}
TakeSlot(c) ==
    /\ pc[c] = "spawned"
    /\ slots < Slots
    /\ slots' = slots + 1
    /\ pc' = [pc EXCEPT ![c] = "slotted"]
    /\ UNCHANGED <<live, opened, of, lock, queued, pushQueued, ahead>>

\* <-ctx.Done() while waiting for a slot.
Abandon(c) ==
    /\ pc[c] = "spawned" /\ of[c] # live
    /\ pc' = [pc EXCEPT ![c] = "dropped"]
    /\ UNCHANGED <<live, opened, of, slots, lock, queued, pushQueued, ahead>>

\* A read needs no lane.
StartRead(c) ==
    /\ pc[c] = "slotted" /\ c \notin Mutating
    /\ pc' = [pc EXCEPT ![c] = "running"]
    /\ UNCHANGED <<live, opened, of, slots, lock, queued, pushQueued, ahead>>

\* Mutant of StartWrite: every caller gets a mutex of its own.
StartWriteUnlocked(c) ==
    /\ pc[c] = "slotted" /\ c \in Mutating
    /\ lock' = [lock EXCEPT ![Lane(c)] = c]
    /\ pc' = [pc EXCEPT ![c] = "running"]
    /\ UNCHANGED <<live, opened, of, slots, queued, pushQueued, ahead>>

\* laneLock(...).Lock(): a change waits for its lane.
StartWrite(c) ==
    /\ pc[c] = "slotted" /\ c \in Mutating
    /\ lock[Lane(c)] = Free
    /\ lock' = [lock EXCEPT ![Lane(c)] = c]
    /\ pc' = [pc EXCEPT ![c] = "running"]
    /\ UNCHANGED <<live, opened, of, slots, queued, pushQueued, ahead>>

\* Dispatch returns.
Finish(c) ==
    /\ pc[c] = "running"
    /\ pc' = [pc EXCEPT ![c] = "result"]
    /\ UNCHANGED <<live, opened, of, slots, lock, queued, pushQueued, ahead>>

\* Mutants of Release: a slot, or a lane, is not given back.
ReleaseKeepsSlot(c) ==
    /\ slots' = slots
    /\ lock' = IF c \in Mutating THEN [lock EXCEPT ![Lane(c)] = Free] ELSE lock
ReleaseKeepsLane(c) ==
    /\ slots' = slots - 1
    /\ lock' = lock

\* The deferred unlock and the deferred slot.
Release(c) ==
    /\ slots' = slots - 1
    /\ lock' = IF c \in Mutating THEN [lock EXCEPT ![Lane(c)] = Free] ELSE lock

\* Mutant of ToItsSession: the result goes to whatever session there is.
ToAnySession(c) == live # 0
\* writeCh is the one of the session the command came from.
ToItsSession(c) == of[c] = live

\* writeCh <- out; a change that succeeded then asks for a refresh.
QueueResult(c, ok) ==
    /\ pc[c] = "result" /\ ToItsSession(c)
    /\ Cardinality(queued) < WriteCap
    /\ queued' = queued \cup {c}
    /\ pushQueued' = (pushQueued \/ (ok /\ c \in Mutating))
    /\ pc' = [pc EXCEPT ![c] = "done"]
    /\ Release(c)
    /\ UNCHANGED <<live, opened, of, ahead>>

\* <-ctx.Done(): the session is finished, nobody reads the result.
DropResult(c) ==
    /\ pc[c] = "result" /\ of[c] # live
    /\ pc' = [pc EXCEPT ![c] = "dropped"]
    /\ Release(c)
    /\ UNCHANGED <<live, opened, of, queued, pushQueued, ahead>>

\* writePump writes a queued result to the socket.
Write(c) ==
    /\ c \in queued
    /\ queued' = queued \ {c}
    /\ UNCHANGED <<live, opened, pc, of, slots, lock, pushQueued, ahead>>

\* The goroutine of schedulePushAll, 30 ms later.
StartPush ==
    /\ pushQueued
    /\ pushQueued' = FALSE
    /\ UNCHANGED <<live, opened, pc, of, slots, lock, queued, ahead>>

\* runSession returns: its context is cancelled, its channel is garbage.
SessionEnds ==
    /\ live # 0
    /\ live' = 0
    /\ queued' = {}
    /\ pushQueued' = FALSE
    /\ UNCHANGED <<opened, pc, of, slots, lock, ahead>>

\* Run dials again.
SessionOpens ==
    /\ live = 0 /\ opened < MaxSess
    /\ opened' = opened + 1
    /\ live' = opened + 1
    /\ UNCHANGED <<pc, of, slots, lock, queued, pushQueued, ahead>>

RunCommand(c) == \/ TakeSlot(c) \/ Abandon(c) \/ StartRead(c) \/ StartWrite(c)
                 \/ Finish(c) \/ DropResult(c)
                 \/ \E ok \in BOOLEAN : QueueResult(c, ok)

Next == \/ \E c \in Cmds : Arrive(c) \/ RunCommand(c) \/ Write(c)
        \/ StartPush \/ SessionEnds \/ SessionOpens

Spec == Init /\ [][Next]_vars

\* The scheduler runs every goroutine, Dispatch returns (its commands have
\* timeouts), and writePump either writes within wsWriteTimeout or the
\* session ends.
FairSpec == Spec /\ \A c \in Cmds : WF_vars(RunCommand(c)) /\ WF_vars(Write(c))

-----------------------------------------------------------------------------
Holds(c) == pc[c] \in {"slotted", "running", "result"}
Busy(c) == pc[c] \in {"running", "result"}

\* Two changes to one feature never run at the same time, also when the
\* first was left behind by a session that is over.
LaneExclusive ==
    \A c, d \in Mutating : Busy(c) /\ Busy(d) /\ Lane(c) = Lane(d) => c = d

\* Tokens in cmdSlots are exactly the commands that hold one: no path out of
\* runCommand leaks a slot, however often sessions drop.
SlotsAccounted == slots = Cardinality({c \in Cmds : Holds(c)})

\* Every command the agent has read is answered or its session is over:
\* commands waiting for a lane with a slot in hand never block each other
\* for good.
CommandsEnd == \A c \in Cmds : pc[c] = "spawned" ~> pc[c] \in {"done", "dropped"}

\* "mutating commands within one feature ... still run in arrival order"
\* (shared/PROTOCOL.md).
ArrivalOrder ==
    \A c \in Mutating : Busy(c) => \A d \in ahead[c] : ~Waiting(d)

\* A goroutine's position as the panel sees it.
Seen(at) == CASE at = "new" -> "new"
              [] at \in {"spawned", "slotted"} -> "asked"
              [] at \in {"running", "result"} -> "running"
              [] at = "done" -> "answered"
              [] at = "dropped" -> "lost"
InSight == [c \in Cmds |-> Seen(pc[c])]

\* As many commands as there are slots.
Fits(S) == Cardinality(S) <= Slots

Service == INSTANCE CommandService WITH
    Commands <- Cmds, Changes <- Mutating, Feature <- Lane, Room <- Fits,
    state <- InSight, conn <- live, last <- opened, via <- of

\* Slots, lanes and channels do what CommandService says: no command runs
\* twice, begins beside a change to the same feature, or is answered on a
\* connection it did not come by, and one is lost only with its connection.
Serves == Service!Spec
=============================================================================
