--------------------------- MODULE OfflineHistory ---------------------------
(***************************************************************************)
(* A server's metric history: the samples an agent takes while the panel   *)
(* is away (agent/offline_buffer.go), their handover when a session comes  *)
(* up (WSClient.flushOffline), the live samples, and the file the backend  *)
(* keeps them in (backend/history.go).                                     *)
(*                                                                         *)
(* A sample is the instant it was taken at, in half minutes from 1.  Both  *)
(* sides keep samples in a JSON-lines file written by appending: the file  *)
(* is the set of lines that still parse and the instant of a line that a   *)
(* power cut left without its newline (0: none).                           *)
(***************************************************************************)
EXTENDS Integers, Sequences, FiniteSetsExt

CONSTANTS Flushers,   \* bound: flushOffline goroutines at a time
          MaxTime,    \* bound: the last instant, in half minutes
          MaxSamples, \* OfflineBuffer.max
          ChunkSize,  \* offlineChunkSize
          QueueCap,   \* bound of writeCh, and of what is on the wire
          Retain,     \* historyRetain
          MaxFaults   \* bound: crashes, lost sessions, failed drops

ASSUME HistoryAssumption ==
    /\ MaxTime \in Nat \ {0} /\ MaxSamples \in Nat \ {0} /\ ChunkSize \in Nat \ {0}
    /\ QueueCap \in Nat /\ Retain \in Nat /\ MaxFaults \in Nat

Times == 1..MaxTime
Interval == 2         \* offlineSampleInterval and historyInterval: a minute
Minute(t) == t \div Interval

VARIABLES now,
          file,       \* the agent's offline-samples.jsonl
          sampled,    \* when the sampler last fired
          about,      \* the sample sampleOffline is about to append, or 0
          connected,  \* WSClient.connected
          queue,      \* the session's writeCh and wire, frames in order
          flush,      \* per flushOffline goroutine: its place and locals
          hist,       \* History.samples of the server
          lastAt,     \* History.lastAt, 0 for none
          hfile,      \* the server's file under history/
          merging,    \* the sample mergeSnapshot is about to record, or 0
          deleted,    \* the server was deleted from the panel
          taken,      \* history: samples the agent appended
          excused,    \* history: samples it may lose (see NoLoss)
          abandoned,  \* history: samples enqueued when their session ended
          cut,        \* history: the samples being written at a power cut
          faults

agent == <<file, sampled, about, connected, queue, flush>>
panel == <<hist, lastAt, hfile, merging, deleted>>
ghosts == <<taken, excused, abandoned, cut>>
vars == <<now, agent, panel, ghosts, faults>>

File == [lines : SUBSET Times, torn : 0..MaxTime]
Frames == [kind : {"live", "backfill"}, ats : SUBSET Times]
Idle == [pc |-> "idle", todo |-> {}, chunk |-> {}, alive |-> FALSE]

TypeOK ==
    /\ now \in Times /\ sampled \in 0..MaxTime /\ about \in 0..MaxTime
    /\ file \in File /\ hfile \in File
    /\ connected \in BOOLEAN /\ deleted \in BOOLEAN
    /\ queue \in Seq(Frames) /\ Len(queue) <= QueueCap
    /\ flush \in [Flushers -> [pc : {"idle", "load", "send", "drop"},
                               todo : SUBSET Times, chunk : SUBSET Times,
                               alive : BOOLEAN]]
    /\ hist \subseteq Times /\ lastAt \in 0..MaxTime /\ merging \in 0..MaxTime
    /\ taken \subseteq Times /\ excused \subseteq Times
    /\ abandoned \subseteq Times /\ cut \subseteq Times
    /\ faults \in 0..MaxFaults

-----------------------------------------------------------------------------
(* A JSON-lines file.                                                      *)

NoFile == [lines |-> {}, torn |-> 0]

\* The file rewritten to a temporary and renamed over the old one.
Rewrite(ats) == [lines |-> ats, torn |-> 0]

\* Append: O_APPEND writes behind whatever is there.  Behind a line that has
\* no newline the two become one, which does not parse.
AppendLine(f, t) ==
    IF f.torn = 0 THEN [f EXCEPT !.lines = @ \cup {t}]
                  ELSE Rewrite(f.lines \ {f.torn})

\* What a power cut during the append can leave: part of the line, or all of
\* it but the newline.
TornLines(f, t) ==
    IF f.torn = 0 THEN {[lines |-> f.lines, torn |-> t],
                        [lines |-> f.lines \cup {t}, torn |-> t]}
                  ELSE {[lines |-> f.lines \ {f.torn}, torn |-> t]}

\* The n newest of a set of samples.
Newest(ats, n) == {t \in ats : Cardinality({u \in ats : u >= t}) <= n}
\* The first n of them: one chunk of chunkSamples.
Oldest(ats, n) == {t \in ats : Cardinality({u \in ats : u <= t}) <= n}

\* Mutant of Trim: the newest go first.
TrimNewest(f) == IF Cardinality(f.lines) <= MaxSamples THEN f
                 ELSE Rewrite(Oldest(f.lines, MaxSamples))

\* trimLocked.
Trim(f) == IF Cardinality(f.lines) <= MaxSamples THEN f
           ELSE Rewrite(Newest(f.lines, MaxSamples))

\* DropUpTo: what is left, or no file at all.
DropUpTo(f, cutoff) == Rewrite({t \in f.lines : t > cutoff})

Init ==
    /\ now = 1 /\ sampled = 0 /\ about = 0 /\ connected = FALSE
    /\ file = NoFile /\ hfile = NoFile
    /\ queue = <<>> /\ flush = [f \in Flushers |-> Idle]
    /\ hist = {} /\ lastAt = 0 /\ merging = 0 /\ deleted = FALSE
    /\ taken = {} /\ excused = {} /\ abandoned = {} /\ cut = {}
    /\ faults = 0

-----------------------------------------------------------------------------
(* The agent.                                                              *)

Tick == /\ now < MaxTime
        /\ now' = now + 1
        /\ UNCHANGED <<agent, panel, ghosts, faults>>

\* sampleOffline up to its look at isConnected.
Sample ==
    /\ about = 0 /\ now >= sampled + Interval
    /\ sampled' = now
    /\ about' = IF connected THEN 0 ELSE now
    /\ UNCHANGED <<now, file, connected, queue, flush, panel, ghosts, faults>>

\* OfflineBuffer.Append and the trim that is part of it.
AppendSample ==
    /\ about # 0
    /\ LET written == AppendLine(file, about)
       IN /\ file' = Trim(written)
          /\ excused' = excused \cup (written.lines \ Trim(written).lines)
    /\ taken' = taken \cup {about}
    /\ about' = 0
    /\ UNCHANGED <<now, sampled, connected, queue, flush, panel, abandoned, cut, faults>>

\* The samples of the backfill frames under way.
InFlight == UNION {queue[i].ats : i \in {j \in DOMAIN queue : queue[j].kind = "backfill"}}

\* The session's frames and goroutines are over.  Frames that were neither
\* received nor kept are gone.
DropSession ==
    /\ connected' = FALSE
    /\ queue' = <<>>
    /\ abandoned' = abandoned \cup InFlight

\* runSession up to its goroutines: connected, and a flushOffline.
Connect(f) ==
    /\ ~connected /\ ~deleted /\ flush[f].pc = "idle"
    /\ connected' = TRUE
    /\ flush' = [flush EXCEPT ![f] = [Idle EXCEPT !.pc = "load", !.alive = TRUE]]
    /\ UNCHANGED <<now, file, sampled, about, queue, panel, ghosts, faults>>

\* The session is over: the context ends, the flusher finds out at its next
\* send.
SessionEnds ==
    /\ connected /\ faults < MaxFaults
    /\ faults' = faults + 1
    /\ DropSession
    /\ flush' = [f \in Flushers |-> [flush[f] EXCEPT !.alive = FALSE]]
    /\ UNCHANGED <<now, file, sampled, about, panel, taken, excused, cut>>

\* A power cut on the server, between two writes or during an append.
PowerCut ==
    /\ faults < MaxFaults
    /\ faults' = faults + 1
    /\ DropSession
    /\ flush' = [f \in Flushers |-> Idle]
    /\ about' = 0
    /\ \/ UNCHANGED <<file, taken, cut>>
       \/ /\ about # 0
          /\ file' \in TornLines(file, about)
          /\ taken' = taken \cup {about} /\ cut' = cut \cup {about}
       \/ \* the line is whole, the trim has not been done
          /\ about # 0
          /\ file' = AppendLine(file, about)
          /\ taken' = taken \cup {about} /\ UNCHANGED cut
    /\ UNCHANGED <<now, sampled, panel, excused>>

\* flushOffline: Load.
FlushLoad(f) ==
    /\ flush[f].pc = "load"
    /\ flush' = [flush EXCEPT ![f] =
                   IF file.lines = {} THEN Idle
                   ELSE [@ EXCEPT !.pc = "send", !.todo = file.lines]]
    /\ UNCHANGED <<now, file, sampled, about, connected, queue, panel, ghosts, faults>>

\* Mutant of CanSend: no limit on writeCh.
CanSendFull(f) == flush[f].alive

\* sendBackfill: false when the session is over or writeCh is full.
CanSend(f) == flush[f].alive /\ Len(queue) < QueueCap

\* Mutant of FlushSend: a chunk that could not be sent counts as sent.
FlushSendAnyway(f) ==
    /\ flush[f].pc = "send"
    /\ LET chunk == Oldest(flush[f].todo, ChunkSize)
       IN /\ queue' = IF CanSend(f) THEN Append(queue, [kind |-> "backfill", ats |-> chunk]) ELSE queue
          /\ flush' = [flush EXCEPT ![f].pc = "drop", ![f].chunk = chunk]
    /\ UNCHANGED <<now, file, sampled, about, connected, panel, ghosts, faults>>

\* One chunk is enqueued, or the loop is left.
FlushSend(f) ==
    /\ flush[f].pc = "send"
    /\ LET chunk == Oldest(flush[f].todo, ChunkSize)
       IN IF CanSend(f)
          THEN /\ queue' = Append(queue, [kind |-> "backfill", ats |-> chunk])
               /\ flush' = [flush EXCEPT ![f].pc = "drop", ![f].chunk = chunk]
          ELSE /\ flush' = [flush EXCEPT ![f] = Idle]
               /\ UNCHANGED queue
    /\ UNCHANGED <<now, file, sampled, about, connected, panel, ghosts, faults>>

\* DropUpTo of the chunk that was enqueued, then the next chunk.
FlushDrop(f) ==
    /\ flush[f].pc = "drop"
    /\ file' = DropUpTo(file, Max(flush[f].chunk))
    /\ LET rest == flush[f].todo \ flush[f].chunk
       IN flush' = [flush EXCEPT ![f] =
                      IF rest = {} THEN Idle
                      ELSE [@ EXCEPT !.pc = "send", !.todo = rest, !.chunk = {}]]
    /\ UNCHANGED <<now, sampled, about, connected, queue, panel, ghosts, faults>>

\* DropUpTo fails: the loop is left, the chunk stays on disk.
FlushDropFails(f) ==
    /\ flush[f].pc = "drop" /\ faults < MaxFaults
    /\ faults' = faults + 1
    /\ flush' = [flush EXCEPT ![f] = Idle]
    /\ UNCHANGED <<now, file, sampled, about, connected, queue, panel, ghosts>>

\* A metrics frame of the sync engine.
LivePush ==
    /\ connected /\ Len(queue) < QueueCap
    /\ queue' = Append(queue, [kind |-> "live", ats |-> {now}])
    /\ UNCHANGED <<now, file, sampled, about, connected, flush, panel, ghosts, faults>>

-----------------------------------------------------------------------------
(* The backend.                                                            *)

Cutoff == now - Retain

\* What load makes of a file.
Loaded(f) == {t \in f.lines : t >= Cutoff}

MaxOr0(ats) == IF ats = {} THEN 0 ELSE Max(ats)

\* handleMessage on a metrics frame, up to mergeSnapshot's look at the store:
\* "deleted while the frame was in flight".
ReceiveLive ==
    /\ merging = 0
    /\ queue # <<>> /\ Head(queue).kind = "live"
    /\ queue' = Tail(queue)
    /\ merging' = IF deleted THEN 0 ELSE Max(Head(queue).ats)
    /\ UNCHANGED <<now, file, sampled, about, connected, flush,
                   hist, lastAt, hfile, deleted, ghosts, faults>>

\* Record's early return.
TooSoon(t) == lastAt # 0 /\ t - lastAt < Interval

\* History.Record.
Record ==
    /\ merging # 0
    /\ merging' = 0
    /\ IF TooSoon(merging) THEN UNCHANGED <<hist, lastAt, hfile>>
       ELSE /\ lastAt' = merging
            /\ hist' = hist \cup {merging}
            /\ hfile' = AppendLine(hfile, merging)
    /\ UNCHANGED <<now, agent, deleted, ghosts, faults>>

\* Mutant of NewOf: a sample is a duplicate only of itself.
NewOfExact(ats) == {t \in ats : t >= Cutoff /\ t \notin hist}

\* The samples of a chunk Backfill takes: within retention, and the first of
\* their minute.  (Its test for samples an hour ahead does not bite here.)
NewOf(ats) ==
    {t \in ats : /\ t >= Cutoff
                 /\ \A u \in hist : Minute(u) # Minute(t)
                 /\ \A u \in ats : u < t /\ u >= Cutoff => Minute(u) # Minute(t)}

\* handleMessage on a backfill frame: History.Backfill.  The socket's reader
\* handles one frame at a time.
Backfill ==
    /\ merging = 0
    /\ queue # <<>> /\ Head(queue).kind = "backfill"
    /\ queue' = Tail(queue)
    /\ LET new == NewOf(Head(queue).ats)
       IN IF new = {} THEN UNCHANGED <<hist, lastAt, hfile>>
          ELSE /\ hist' = hist \cup new
               /\ lastAt' = MaxOr0(hist' \cup {lastAt})
               /\ hfile' = Rewrite(hist')
    /\ UNCHANGED <<now, file, sampled, about, connected, flush,
                   merging, deleted, ghosts, faults>>

\* The hourly Trim.
TrimHistory ==
    /\ \E t \in hist : t <= Cutoff
    /\ hist' = {t \in hist : t > Cutoff}
    /\ hfile' = Rewrite(hist')
    /\ UNCHANGED <<now, agent, lastAt, merging, deleted, ghosts, faults>>

\* The backend stops, between two writes or while Record appends, and starts
\* again: the history is what load finds.
PanelRestart ==
    /\ faults < MaxFaults
    /\ faults' = faults + 1
    /\ DropSession
    /\ flush' = [f \in Flushers |-> [flush[f] EXCEPT !.alive = FALSE]]
    /\ \/ UNCHANGED <<hfile, cut>>
       \/ /\ merging # 0 /\ ~TooSoon(merging)
          /\ hfile' \in TornLines(hfile, merging)
          /\ cut' = cut \cup {merging}
    /\ hist' = Loaded(hfile')
    /\ lastAt' = MaxOr0(hist')
    /\ merging' = 0
    /\ UNCHANGED <<now, file, sampled, about, deleted, taken, excused>>

\* DELETE /api/vps/{id}: DeleteVPS, then Forget.  The socket stays open.
Delete ==
    /\ ~deleted
    /\ deleted' = TRUE
    /\ hist' = {} /\ lastAt' = 0 /\ hfile' = NoFile
    /\ UNCHANGED <<now, agent, merging, ghosts, faults>>

Next == \/ Tick \/ Sample \/ AppendSample \/ SessionEnds \/ PowerCut \/ LivePush
        \/ ReceiveLive \/ Record \/ Backfill \/ TrimHistory \/ PanelRestart \/ Delete
        \/ \E f \in Flushers : \/ Connect(f) \/ FlushLoad(f) \/ FlushSend(f)
                               \/ FlushDrop(f) \/ FlushDropFails(f)

Spec == Init /\ [][Next]_vars

-----------------------------------------------------------------------------
Recorded(t) == \E u \in hist : Minute(u) = Minute(t)
Expired(t) == Minute(t) <= Minute(Cutoff)

\* History keeps one sample a minute, through live samples, chunks sent
\* twice, and restarts: Backfill's "One sample per minute, matching Record".
OnePerMinute == \A t, u \in hist : Minute(t) = Minute(u) => t = u

\* "Bounded ... past that the oldest go first" (OfflineBuffer.max): nothing
\* the buffer gave up for space is newer than anything it kept, and each
\* power cut before the trim costs one line at most.
BufferBounded ==
    /\ Cardinality(file.lines) <= MaxSamples + faults
    /\ \A t \in excused, u \in file.lines : t < u

\* Both files are sound: types, the history's one sample a minute (Record,
\* Backfill), and the buffer's bound and order (Append, Trim).
FilesSound == TypeOK /\ OnePerMinute /\ BufferBounded

\* Every sample that was written is on disk, on its way or in the history,
\* or it was lost for a reason there is a name for: the buffer was full, its
\* session ended with the chunk enqueued, a power cut tore it or the line
\* before it, it is past retention, or the server was deleted.
Accounted ==
    deleted \/ \A t \in taken :
        \/ t \in file.lines \cup InFlight \cup excused \cup abandoned
        \/ cut # {}
        \/ Recorded(t) \/ Expired(t)

\* "a drop mid-handover costs nothing: the samples are still on disk and go
\* again next time" (the comment on OfflineBuffer), "Only drop what actually
\* left ... losing one is not [harmless]" (flushOffline): as Accounted,
\* without the excuse for chunks that were enqueued when their session ended.
NoLoss ==
    deleted \/ \A t \in taken :
        \/ t \in file.lines \cup InFlight \cup excused
        \/ cut # {}
        \/ Recorded(t) \/ Expired(t)

\* "a power cut loses at most the line being written" (Append), "the rest of
\* the file is still good" (loadLocked): the next sample is not lost as well.
CutLosesOne ==
    deleted \/ \A t \in taken :
        \/ t \in file.lines \cup InFlight \cup excused \cup abandoned \cup cut
        \/ Recorded(t) \/ Expired(t)

\* "Forget removes a deleted server's history rather than leaving a file
\* nobody will ever look at again."
NoOrphanHistory == deleted => hfile = NoFile
=============================================================================
