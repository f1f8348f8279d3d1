------------------------ MODULE OfflineHistoryProofs ------------------------
(***************************************************************************)
(* Theorems about OfflineHistory, for every buffer size, chunk size,       *)
(* retention and queue, every number of flushers and every number of       *)
(* faults.                                                                 *)
(***************************************************************************)
EXTENDS OfflineHistory, FiniteSetTheorems, WellFoundedInduction, TLAPS

-----------------------------------------------------------------------------
(* Sets of instants.                                                       *)

\* A set of naturals has a least element.
LEMMA LeastExists ==
    ASSUME NEW S, S \subseteq Nat, S # {}
    PROVE  \E x \in S : \A y \in S : x <= y
<1> DEFINE R == OpToRel(<, Nat)
<1>1. IsWellFoundedOn(R, Nat)
  BY NatLessThanWellFounded
<1> HIDE DEF R
<1>2. PICK x \in S : \A y \in S : ~(<<y, x>> \in R)
  BY <1>1, WFMin
<1>3. \A u, v \in Nat : <<v, u>> \in R <=> v < u
  BY DEF R, OpToRel
<1>4. ASSUME NEW y \in S PROVE x <= y
  <2>1. x \in Nat /\ y \in Nat
    OBVIOUS
  <2>2. ~(y < x)
    BY <1>2, <1>3, <2>1
  <2> QED
    BY <2>1, <2>2
<1> QED
  BY <1>4

\* A set of instants has a last one.
LEMMA GreatestExists ==
    ASSUME NEW n \in Nat, NEW S, S \subseteq 0..n, S # {}
    PROVE  \E x \in S : \A y \in S : x >= y
<1> DEFINE D == {d \in Nat : \E y \in S : d = n - y}
<1>1. \A y \in S : n - y \in D
  <2> TAKE y \in S
  <2>1. y \in 0..n
    OBVIOUS
  <2> QED
    BY <2>1
<1>2. D \subseteq Nat /\ D # {}
  BY <1>1
<1> HIDE DEF D
<1>3. PICK d \in D : \A e \in D : d <= e
  BY <1>2, LeastExists
<1>4. PICK x \in S : d = n - x
  BY <1>3 DEF D
<1>5. ASSUME NEW y \in S PROVE x >= y
  <2>1. x \in 0..n /\ y \in 0..n
    OBVIOUS
  <2>2. n - x <= n - y
    BY <1>1, <1>3, <1>4
  <2> QED
    BY <2>1, <2>2
<1> QED
  BY <1>5

\* Max is the last of them.
LEMMA MaxIs ==
    ASSUME NEW n \in Nat, NEW S, S \subseteq 0..n, S # {}
    PROVE  Max(S) \in S /\ \A y \in S : Max(S) >= y
BY GreatestExists DEF Max

\* So is MaxOr0, which is 0 for none.
LEMMA MaxOr0Is ==
    ASSUME NEW n \in Nat, NEW S, S \subseteq 0..n
    PROVE  MaxOr0(S) \in 0..n /\ \A y \in S : MaxOr0(S) >= y
<1>1. CASE S = {}
  BY <1>1 DEF MaxOr0
<1>2. CASE S # {}
  <2>1. MaxOr0(S) = Max(S)
    BY <1>2 DEF MaxOr0
  <2>2. Max(S) \in S /\ \A y \in S : Max(S) >= y
    BY <1>2, MaxIs
  <2> QED
    BY <2>1, <2>2
<1> QED
  BY <1>1, <1>2

\* A set of instants is finite.
LEMMA TimesFinite ==
    ASSUME NEW S, S \subseteq Times
    PROVE  IsFiniteSet(S) /\ Cardinality(S) \in Nat
<1>1. IsFiniteSet(Times)
  BY FS_Interval, HistoryAssumption DEF Times
<1> QED
  BY <1>1, FS_Subset, FS_CardinalityType

\* A part of a set of instants has at most as many.
LEMMA TimesPart ==
    ASSUME NEW S, S \subseteq Times, NEW T, T \subseteq S
    PROVE  Cardinality(T) <= Cardinality(S) /\ Cardinality(T) \in Nat
BY TimesFinite, FS_Subset

\* Newest keeps at most n, and none older than one it gives up.
LEMMA NewestIs ==
    ASSUME NEW S, S \subseteq Times, NEW n \in Nat
    PROVE  /\ Newest(S, n) \subseteq S
           /\ Cardinality(Newest(S, n)) <= n
           /\ \A t \in S \ Newest(S, n), u \in Newest(S, n) : t < u
<1> DEFINE N == Newest(S, n)
           From(t) == {u \in S : u >= t}
<1>1. N \subseteq S
  BY DEF Newest
<1>2. \A t \in S : From(t) \subseteq S /\ Cardinality(From(t)) \in Nat
  BY TimesPart
<1>3. \A t \in S : t \in N <=> Cardinality(From(t)) <= n
  BY DEF Newest
<1> HIDE DEF N
<1>4. ASSUME NEW t \in S \ N, NEW u \in N PROVE t < u
  <2>1. t \in Int /\ u \in Int /\ u \in S
    BY <1>1 DEF Times
  <2>2. SUFFICES ASSUME u <= t PROVE FALSE
    BY <2>1
  <2>3. From(t) \subseteq From(u)
    <3>1. ASSUME NEW v \in S, v >= t PROVE v >= u
      <4>1. v \in Int
        BY DEF Times
      <4> QED
        BY <2>1, <2>2, <3>1, <4>1
    <3> QED
      BY <3>1
  <2>4. Cardinality(From(t)) <= Cardinality(From(u))
    BY <1>2, <2>1, <2>3, TimesPart
  <2> QED
    BY <1>2, <1>3, <2>1, <2>4
<1>5. Cardinality(N) <= n
  <2>1. CASE N = {}
    BY <2>1, FS_EmptySet
  <2>2. CASE N # {}
    <3>0. N \subseteq Nat
      BY <1>1 DEF Times
    <3>1. PICK x \in N : \A y \in N : x <= y
      BY <2>2, <3>0, LeastExists
    <3>2. N \subseteq From(x)
      <4>1. \A y \in N : y \in Int
        BY <1>1 DEF Times
      <4> QED
        BY <1>1, <3>1, <4>1
    <3>3. Cardinality(N) <= Cardinality(From(x)) /\ Cardinality(N) \in Nat
      BY <1>1, <1>2, <3>2, TimesPart
    <3> QED
      BY <1>1, <1>2, <1>3, <3>1, <3>3
  <2> QED
    BY <2>1, <2>2
<1> QED
  BY <1>1, <1>4, <1>5 DEF N

\* Oldest takes one at least, and every earlier one with it.
LEMMA OldestIs ==
    ASSUME NEW S, S \subseteq Times, S # {}, NEW n \in Nat \ {0}
    PROVE  /\ Oldest(S, n) \subseteq S /\ Oldest(S, n) # {}
           /\ \A t \in S, u \in Oldest(S, n) : t <= u => t \in Oldest(S, n)
<1> DEFINE N == Oldest(S, n)
           UpTo(t) == {u \in S : u <= t}
<1>1. N \subseteq S
  BY DEF Oldest
<1>2. \A t \in S : UpTo(t) \subseteq S /\ Cardinality(UpTo(t)) \in Nat
  BY TimesPart
<1>3. \A t \in S : t \in N <=> Cardinality(UpTo(t)) <= n
  BY DEF Oldest
<1>4. ASSUME NEW t \in S, NEW u \in N, t <= u PROVE t \in N
  <2>1. \A v \in S : v \in Int
    BY DEF Times
  <2>3. UpTo(t) \subseteq UpTo(u)
    <3>1. ASSUME NEW v \in S, v <= t PROVE v <= u
      BY <1>1, <1>4, <2>1, <3>1
    <3> QED
      BY <3>1
  <2>4. Cardinality(UpTo(t)) <= Cardinality(UpTo(u))
    BY <1>1, <1>2, <2>3, TimesPart
  <2> QED
    BY <1>1, <1>2, <1>3, <2>4
<1>5. N # {}
  <2>0. S \subseteq Nat
    BY DEF Times
  <2>1. PICK x \in S : \A y \in S : x <= y
    BY <2>0, LeastExists
  <2>2. UpTo(x) = {x}
    <3>1. ASSUME NEW v \in S, v <= x PROVE v = x
      <4>1. v \in Nat /\ x \in Nat /\ x <= v
        BY <2>0, <2>1
      <4> QED
        BY <3>1, <4>1
    <3>2. x <= x
      BY <2>0
    <3> QED
      BY <3>1, <3>2
  <2>3. Cardinality(UpTo(x)) = 1
    BY <2>2, FS_Singleton
  <2> QED
    BY <1>3, <2>3
<1> QED
  BY <1>1, <1>4, <1>5

-----------------------------------------------------------------------------
(* The inductive invariant.                                                *)

\* A sample that has left the buffer for good, or may: it is on its way or
\* in the history, or there is a name for its loss.
Safe(t) == t \in InFlight \cup excused \cup abandoned \/ Recorded(t) \/ Expired(t)

\* No reason to give up on the accounts.
Whole == cut = {} /\ ~deleted

\* A metrics frame carries one sample.
LiveOne == \A i \in 1..Len(queue) :
              queue[i].kind = "live" => \E t \in Times : queue[i].ats = {t}

\* Samples are appended in the order of their instants: the next one is
\* later than all that are in the buffer, were trimmed, or are being sent.
Ordered ==
    /\ sampled <= now
    /\ about # 0 => about = sampled
    /\ \A t \in file.lines \cup excused : t <= sampled /\ (about # 0 => t < about)
    /\ \A f \in Flushers : \A t \in flush[f].todo :
          t <= sampled /\ (about # 0 => t < about)

\* What a flushOffline holds while it works: a beginning of the buffer as it
\* is now, and in it a beginning of that for the chunk enqueued.
FlushSound ==
    \A f \in Flushers :
       /\ flush[f].pc \in {"send", "drop"} => flush[f].todo # {}
       /\ \A t \in file.lines, m \in flush[f].todo : t <= m => t \in flush[f].todo
       /\ flush[f].pc = "drop" =>
             /\ flush[f].chunk \subseteq flush[f].todo /\ flush[f].chunk # {}
             /\ \A t \in flush[f].todo, m \in flush[f].chunk : t <= m => t \in flush[f].chunk
             /\ Whole => \A t \in flush[f].chunk : Safe(t)

\* lastAt is behind no sample of the history, nor behind one a restart would
\* load, and those are one a minute.
LoadSound ==
    /\ \A u \in hist \cup Loaded(hfile) : u <= lastAt
    /\ \A t, u \in Loaded(hfile) : Minute(t) = Minute(u) => t = u

\* Until a power cut no line is torn and the file holds the history.
NotTorn == cut = {} => file.torn = 0 /\ hfile.torn = 0 /\ hist \subseteq hfile.lines

HistoryInv == /\ TypeOK /\ LiveOne /\ Ordered /\ BufferBounded /\ FlushSound
              /\ LoadSound /\ OnePerMinute /\ NotTorn /\ Accounted

-----------------------------------------------------------------------------
(* What the helpers return.                                                *)

\* The samples of the backfill frames of a queue.
Flight(q) == UNION {q[i].ats : i \in {j \in 1..Len(q) : q[j].kind = "backfill"}}

\* A frame that is appended adds its samples when it is a backfill.
LEMMA AppendFlight ==
    ASSUME NEW q \in Seq(Frames), NEW x \in Frames
    PROVE  /\ Append(q, x) \in Seq(Frames) /\ Len(Append(q, x)) = Len(q) + 1
           /\ Flight(q) \subseteq Flight(Append(q, x))
           /\ x.kind = "backfill" => x.ats \subseteq Flight(Append(q, x))
<1>1. Append(q, x) \in Seq(Frames) /\ Len(Append(q, x)) = Len(q) + 1 /\ Len(q) \in Nat
  OBVIOUS
<1>2. \A i \in 1..Len(q) : Append(q, x)[i] = q[i] /\ i \in 1..(Len(q) + 1)
  OBVIOUS
<1>3. Append(q, x)[Len(q) + 1] = x /\ Len(q) + 1 \in 1..(Len(q) + 1)
  OBVIOUS
<1> QED
  BY <1>1, <1>2, <1>3 DEF Flight

\* A frame that is read takes its samples with it, when it is a backfill.
LEMMA TailFlight ==
    ASSUME NEW q \in Seq(Frames), q # <<>>
    PROVE  /\ Tail(q) \in Seq(Frames) /\ Len(Tail(q)) = Len(q) - 1 /\ Len(q) \in Nat \ {0}
           /\ Head(q) = q[1] /\ q[1] \in Frames
           /\ \A i \in 1..Len(Tail(q)) : i + 1 \in 1..Len(q) /\ Tail(q)[i] = q[i + 1]
           /\ \A t \in Flight(q) :
                 t \in Flight(Tail(q)) \/ (q[1].kind = "backfill" /\ t \in q[1].ats)
<1>1. Tail(q) \in Seq(Frames) /\ Len(Tail(q)) = Len(q) - 1 /\ Len(q) \in Nat \ {0}
  OBVIOUS
<1>2. Head(q) = q[1] /\ q[1] \in Frames
  OBVIOUS
<1>3. \A i \in 1..Len(Tail(q)) : i + 1 \in 1..Len(q) /\ Tail(q)[i] = q[i + 1]
  BY <1>1
<1>4. ASSUME NEW t \in Flight(q)
      PROVE  t \in Flight(Tail(q)) \/ (q[1].kind = "backfill" /\ t \in q[1].ats)
  <2>1. PICK i \in 1..Len(q) : q[i].kind = "backfill" /\ t \in q[i].ats
    BY DEF Flight
  <2>2. CASE i = 1
    BY <2>1, <2>2
  <2>3. CASE i # 1
    <3>1. i - 1 \in 1..Len(Tail(q)) /\ (i - 1) + 1 = i
      BY <1>1, <2>3
    <3>2. Tail(q)[i - 1] = q[i]
      BY <1>3, <3>1
    <3> QED
      BY <2>1, <3>1, <3>2 DEF Flight
  <2> QED
    BY <2>2, <2>3
<1> QED
  BY <1>1, <1>2, <1>3, <1>4

\* InFlight is about the session's queue; an empty one carries nothing.
LEMMA FlightIs ==
    ASSUME queue \in Seq(Frames)
    PROVE  InFlight = Flight(queue) /\ Flight(<<>>) = {}
BY DEF InFlight, Flight

\* A line that is appended is in the file, unless it follows a torn one.
LEMMA AppendLineIs ==
    ASSUME NEW f \in File, NEW t \in Times
    PROVE  /\ AppendLine(f, t) \in File
           /\ AppendLine(f, t).lines \subseteq f.lines \cup {t}
           /\ AppendLine(f, t).torn = 0
           /\ f.torn = 0 => AppendLine(f, t).lines = f.lines \cup {t}
<1>1. CASE f.torn = 0
  BY <1>1 DEF AppendLine, File
<1>2. CASE f.torn # 0
  <2>1. AppendLine(f, t) = [lines |-> f.lines \ {f.torn}, torn |-> 0]
    BY <1>2 DEF AppendLine, Rewrite
  <2>2. f.lines \in SUBSET Times /\ 0 \in 0..MaxTime
    BY HistoryAssumption DEF File
  <2> QED
    BY <1>2, <2>1, <2>2 DEF File
<1> QED
  BY <1>1, <1>2

\* A power cut leaves no more than the line being written.
LEMMA TornIs ==
    ASSUME NEW f \in File, NEW t \in Times, NEW g \in TornLines(f, t)
    PROVE  g \in File /\ g.lines \subseteq f.lines \cup {t}
<1>1. f.lines \subseteq Times /\ t \in 0..MaxTime
  BY HistoryAssumption DEF File, Times
<1> QED
  BY <1>1 DEF TornLines, File

\* Trim leaves MaxSamples at most, and gives up none newer than it keeps.
LEMMA TrimIs ==
    ASSUME NEW f \in File
    PROVE  /\ Trim(f) \in File /\ Trim(f).lines \subseteq f.lines
           /\ f.torn = 0 => Trim(f).torn = 0
           /\ Cardinality(Trim(f).lines) <= MaxSamples
           /\ \A t \in f.lines \ Trim(f).lines, u \in Trim(f).lines : t < u
<1>1. CASE Cardinality(f.lines) <= MaxSamples
  BY <1>1 DEF Trim
<1>2. CASE ~(Cardinality(f.lines) <= MaxSamples)
  <2>1. f.lines \subseteq Times /\ MaxSamples \in Nat /\ 0 \in 0..MaxTime
    BY HistoryAssumption DEF File
  <2>2. Trim(f) = [lines |-> Newest(f.lines, MaxSamples), torn |-> 0]
    BY <1>2 DEF Trim, Rewrite
  <2>3. /\ Newest(f.lines, MaxSamples) \subseteq f.lines
        /\ Cardinality(Newest(f.lines, MaxSamples)) <= MaxSamples
        /\ \A t \in f.lines \ Newest(f.lines, MaxSamples), u \in Newest(f.lines, MaxSamples) : t < u
    BY <2>1, NewestIs
  <2>4. Trim(f) \in File
    BY <2>1, <2>2, <2>3 DEF File
  <2> QED
    BY <2>2, <2>3, <2>4
<1> QED
  BY <1>1, <1>2

-----------------------------------------------------------------------------
(* Types.                                                                  *)

\* What a flushOffline goroutine may hold.
FlusherStates == [pc : {"idle", "load", "send", "drop"}, todo : SUBSET Times,
           chunk : SUBSET Times, alive : BOOLEAN]

\* What an action can change, in three parts.
ClockOK == now \in Times /\ sampled \in 0..MaxTime /\ about \in 0..MaxTime
           /\ connected \in BOOLEAN /\ deleted \in BOOLEAN /\ faults \in 0..MaxFaults
AgentOK == file \in File /\ flush \in [Flushers -> FlusherStates]
           /\ queue \in Seq(Frames) /\ Len(queue) <= QueueCap /\ LiveOne
PanelOK == hfile \in File /\ hist \subseteq Times /\ lastAt \in 0..MaxTime
           /\ merging \in 0..MaxTime
GhostOK == taken \subseteq Times /\ excused \subseteq Times
           /\ abandoned \subseteq Times /\ cut \subseteq Times

\* The type invariant in parts.
LEMMA TypeParts == TypeOK /\ LiveOne <=> ClockOK /\ AgentOK /\ PanelOK /\ GhostOK
BY DEF TypeOK, ClockOK, AgentOK, PanelOK, GhostOK, FlusherStates

\* The samples of a queue are instants.
LEMMA FlightType ==
    ASSUME NEW q \in Seq(Frames)
    PROVE  Flight(q) \subseteq Times
<1>1. \A i \in 1..Len(q) : q[i].ats \subseteq Times
  <2> TAKE i \in 1..Len(q)
  <2>1. q[i] \in Frames
    OBVIOUS
  <2> QED
    BY <2>1 DEF Frames
<1> QED
  BY <1>1 DEF Flight

\* One frame read keeps the queue sound.
LEMMA QueueTail ==
    ASSUME AgentOK, queue # <<>>, queue' = Tail(queue), UNCHANGED <<file, flush>>
    PROVE  AgentOK'
<1>1. queue \in Seq(Frames) /\ Len(queue) <= QueueCap /\ LiveOne
  BY DEF AgentOK
<1>2. /\ Tail(queue) \in Seq(Frames) /\ Len(Tail(queue)) = Len(queue) - 1 /\ Len(queue) \in Nat \ {0}
      /\ \A i \in 1..Len(Tail(queue)) : i + 1 \in 1..Len(queue) /\ Tail(queue)[i] = queue[i + 1]
  BY <1>1, TailFlight
<1>3. Len(queue') <= QueueCap
  BY <1>1, <1>2, HistoryAssumption
<1>4. LiveOne'
  BY <1>1, <1>2 DEF LiveOne
<1> QED
  BY <1>2, <1>3, <1>4 DEF AgentOK

\* So does one frame more.
LEMMA QueueAppend ==
    ASSUME AgentOK, Len(queue) < QueueCap, NEW x \in Frames, queue' = Append(queue, x),
           x.kind = "live" => \E t \in Times : x.ats = {t}
    PROVE  queue' \in Seq(Frames) /\ Len(queue') <= QueueCap /\ LiveOne'
<1>1. queue \in Seq(Frames) /\ Len(queue) \in Nat /\ LiveOne
  BY DEF AgentOK
<1>2. queue' \in Seq(Frames) /\ Len(queue') = Len(queue) + 1
  BY <1>1, AppendFlight
<1>3. \A i \in 1..Len(queue') : (i \in 1..Len(queue) /\ queue'[i] = queue[i]) \/ queue'[i] = x
  BY <1>1
<1>4. LiveOne'
  BY <1>1, <1>3 DEF LiveOne
<1> QED
  BY <1>1, <1>2, <1>4, HistoryAssumption

\* The end of a session empties the queue.
LEMMA QueueEmpty ==
    ASSUME queue' = <<>>
    PROVE  queue' \in Seq(Frames) /\ Len(queue') <= QueueCap /\ LiveOne'
BY HistoryAssumption DEF LiveOne

\* A session that ends keeps the flushers' places.
LEMMA FlushDead ==
    ASSUME flush \in [Flushers -> FlusherStates],
           flush' = [f \in Flushers |-> [flush[f] EXCEPT !.alive = FALSE]]
    PROVE  /\ flush' \in [Flushers -> FlusherStates]
           /\ \A f \in Flushers : /\ flush'[f].pc = flush[f].pc
                                  /\ flush'[f].todo = flush[f].todo
                                  /\ flush'[f].chunk = flush[f].chunk
BY DEF FlusherStates

\* A flusher at rest.
LEMMA IdleIs == Idle \in FlusherStates
BY DEF Idle, FlusherStates

\* The live sample being merged is the one its frame carries.
LEMMA LiveMax ==
    ASSUME AgentOK, queue # <<>>, Head(queue).kind = "live"
    PROVE  Max(Head(queue).ats) \in Times
<1>1. queue \in Seq(Frames) /\ LiveOne
  BY DEF AgentOK
<1>2. Head(queue) = queue[1] /\ 1 \in 1..Len(queue)
  BY <1>1, TailFlight
<1>3. PICK t \in Times : Head(queue).ats = {t}
  BY <1>1, <1>2 DEF LiveOne
<1>4. {t} \subseteq 0..MaxTime /\ MaxTime \in Nat
  BY HistoryAssumption DEF Times
<1>5. Max({t}) \in {t}
  BY <1>4, MaxIs
<1> QED
  BY <1>3, <1>5

\* An action keeps every variable in its type.
LEMMA TypeStep == TypeOK /\ LiveOne /\ Next => TypeOK' /\ LiveOne'
<1> SUFFICES ASSUME ClockOK, AgentOK, PanelOK, GhostOK, Next
             PROVE  ClockOK' /\ AgentOK' /\ PanelOK' /\ GhostOK'
  <2>1. TypeOK /\ LiveOne <=> ClockOK /\ AgentOK /\ PanelOK /\ GhostOK
    BY TypeParts
  <2>2. (TypeOK /\ LiveOne)' <=> (ClockOK /\ AgentOK /\ PanelOK /\ GhostOK)'
    BY DEF TypeOK, LiveOne, ClockOK, AgentOK, PanelOK, GhostOK, FlusherStates, File, Frames, Times
  <2> QED
    BY <2>1, <2>2
<1>0. /\ MaxTime \in Nat \ {0} /\ 0 \in 0..MaxTime /\ Times \subseteq 0..MaxTime
      /\ MaxFaults \in Nat /\ MaxSamples \in Nat
  BY HistoryAssumption DEF Times
<1>a. ASSUME UNCHANGED panel PROVE PanelOK'
  BY <1>a DEF panel, PanelOK
<1>b. ASSUME UNCHANGED ghosts PROVE GhostOK'
  BY <1>b DEF ghosts, GhostOK
<1>c. ASSUME UNCHANGED <<file, flush, queue>> PROVE AgentOK'
  BY <1>c DEF AgentOK, LiveOne
<1>d. ASSUME UNCHANGED <<now, sampled, about, connected, deleted, faults>> PROVE ClockOK'
  BY <1>d DEF ClockOK
<1>e. ASSUME faults < MaxFaults, faults' = faults + 1 PROVE faults' \in 0..MaxFaults
  BY <1>0, <1>e DEF ClockOK
<1>f. ASSUME DropSession
      PROVE  /\ queue' \in Seq(Frames) /\ Len(queue') <= QueueCap /\ LiveOne'
             /\ connected' = FALSE /\ abandoned' \subseteq Times
  <2>1. InFlight \subseteq Times
    BY FlightIs, FlightType DEF AgentOK
  <2> QED
    BY <1>f, <2>1, QueueEmpty DEF DropSession, GhostOK
<1>1. CASE Tick
  <2>1. ClockOK'
    BY <1>1, <1>0 DEF Tick, agent, panel, ClockOK, Times
  <2> QED
    BY <1>1, <1>a, <1>b, <1>c, <2>1 DEF Tick, agent
<1>2. CASE Sample
  <2>1. ClockOK'
    BY <1>2, <1>0 DEF Sample, ClockOK, panel
  <2> QED
    BY <1>2, <1>a, <1>b, <1>c, <2>1 DEF Sample
<1>3. CASE AppendSample
  <2>1. about \in Times /\ file \in File
    BY <1>3, <1>0 DEF AppendSample, ClockOK, AgentOK, Times
  <2> DEFINE written == AppendLine(file, about)
  <2>2. written \in File
    BY <2>1, AppendLineIs
  <2>3. file' = Trim(written) /\ excused' = excused \cup (written.lines \ Trim(written).lines)
        /\ taken' = taken \cup {about} /\ about' = 0
        /\ UNCHANGED <<now, sampled, connected, queue, flush, panel, abandoned, cut, faults>>
    BY <1>3 DEF AppendSample
  <2> HIDE DEF written
  <2>4. AgentOK'
    BY <2>2, <2>3, TrimIs DEF AgentOK, LiveOne
  <2>5. GhostOK'
    <3>1. written.lines \subseteq Times
      BY <2>2 DEF File
    <3> QED
      BY <2>1, <2>3, <3>1 DEF GhostOK
  <2>6. ClockOK'
    BY <2>3, <1>0 DEF ClockOK, panel
  <2> QED
    BY <1>a, <2>3, <2>4, <2>5, <2>6
<1>4. CASE SessionEnds
  <2>1. AgentOK'
    BY <1>4, <1>f, FlushDead DEF SessionEnds, AgentOK
  <2>2. ClockOK'
    BY <1>4, <1>e, <1>f DEF SessionEnds, ClockOK, panel
  <2>3. GhostOK'
    BY <1>4, <1>f DEF SessionEnds, GhostOK
  <2> QED
    BY <1>4, <1>a, <2>1, <2>2, <2>3 DEF SessionEnds
<1>5. CASE PowerCut
  <2>1. file' \in File /\ taken' \subseteq Times /\ cut' \subseteq Times
    <3>1. about # 0 => about \in Times
      BY <1>0 DEF ClockOK, Times
    <3>2. CASE UNCHANGED <<file, taken, cut>>
      BY <3>2 DEF AgentOK, GhostOK
    <3>3. CASE /\ about # 0 /\ file' \in TornLines(file, about)
               /\ taken' = taken \cup {about} /\ cut' = cut \cup {about}
      BY <3>1, <3>3, TornIs DEF AgentOK, GhostOK
    <3>4. CASE /\ about # 0 /\ file' = AppendLine(file, about)
               /\ taken' = taken \cup {about} /\ UNCHANGED cut
      BY <3>1, <3>4, AppendLineIs DEF AgentOK, GhostOK
    <3> QED
      BY <1>5, <3>2, <3>3, <3>4 DEF PowerCut
  <2>2. AgentOK'
    BY <1>5, <1>f, <2>1, IdleIs DEF PowerCut, AgentOK
  <2>3. ClockOK'
    BY <1>5, <1>0, <1>e, <1>f DEF PowerCut, ClockOK, panel
  <2>4. GhostOK'
    BY <1>5, <1>f, <2>1 DEF PowerCut, GhostOK
  <2> QED
    BY <1>5, <1>a, <2>2, <2>3, <2>4 DEF PowerCut
<1>6. CASE LivePush
  <2>1. [kind |-> "live", ats |-> {now}] \in Frames /\ now \in Times
    BY DEF Frames, ClockOK
  <2>2. queue' = Append(queue, [kind |-> "live", ats |-> {now}]) /\ Len(queue) < QueueCap
    BY <1>6 DEF LivePush
  <2>3. queue' \in Seq(Frames) /\ Len(queue') <= QueueCap /\ LiveOne'
    BY <2>1, <2>2, QueueAppend
  <2>4. AgentOK'
    BY <1>6, <2>3 DEF LivePush, AgentOK
  <2> QED
    BY <1>6, <1>a, <1>b, <1>d, <2>4 DEF LivePush, panel
<1>7. CASE ReceiveLive
  <2>1. AgentOK'
    BY <1>7, QueueTail DEF ReceiveLive
  <2>2. merging' \in 0..MaxTime
    BY <1>7, <1>0, LiveMax DEF ReceiveLive
  <2>3. PanelOK'
    BY <1>7, <2>2 DEF ReceiveLive, PanelOK
  <2> QED
    BY <1>7, <1>b, <1>d, <2>1, <2>3 DEF ReceiveLive
<1>8. CASE Record
  <2>1. merging \in Times
    BY <1>8, <1>0 DEF Record, PanelOK, Times
  <2>2. AppendLine(hfile, merging) \in File
    BY <2>1, AppendLineIs DEF PanelOK
  <2>3. PanelOK'
    BY <1>8, <1>0, <2>1, <2>2 DEF Record, PanelOK
  <2> QED
    BY <1>8, <1>b, <1>c, <1>d, <2>3 DEF Record, agent
<1>9. CASE Backfill
  <2>1. AgentOK'
    BY <1>9, QueueTail DEF Backfill
  <2>2. PanelOK'
    <3> DEFINE new == NewOf(Head(queue).ats)
    <3>1. new \subseteq Times
      <4>1. Head(queue) \in Frames
        BY <1>9, TailFlight DEF AgentOK, Backfill
      <4> QED
        BY <4>1 DEF Frames, NewOf
    <3>2. CASE UNCHANGED <<hist, lastAt, hfile>>
      BY <1>9, <3>2 DEF Backfill, PanelOK
    <3>3. CASE /\ hist' = hist \cup new
               /\ lastAt' = MaxOr0(hist' \cup {lastAt}) /\ hfile' = Rewrite(hist')
      <4> HIDE DEF new
      <4>1. hist' \subseteq Times /\ hist' \cup {lastAt} \subseteq 0..MaxTime
        BY <3>1, <3>3, <1>0 DEF PanelOK
      <4>2. lastAt' \in 0..MaxTime
        BY <3>3, <4>1, <1>0, MaxOr0Is
      <4>3. hfile' \in File
        BY <3>3, <4>1, <1>0 DEF Rewrite, File
      <4> QED
        BY <1>9, <4>1, <4>2, <4>3 DEF Backfill, PanelOK
    <3> QED
      BY <1>9, <3>2, <3>3 DEF Backfill
  <2> QED
    BY <1>9, <1>b, <1>d, <2>1, <2>2 DEF Backfill
<1>10. CASE TrimHistory
  <2>1. hist' \subseteq Times /\ hfile' = Rewrite(hist')
    BY <1>10 DEF TrimHistory, PanelOK
  <2>2. hfile' \in File
    BY <2>1, <1>0 DEF Rewrite, File
  <2>3. PanelOK'
    BY <1>10, <2>1, <2>2 DEF TrimHistory, PanelOK
  <2> QED
    BY <1>10, <1>b, <1>c, <1>d, <2>3 DEF TrimHistory, agent
<1>11. CASE PanelRestart
  <2>1. AgentOK'
    BY <1>11, <1>f, FlushDead DEF PanelRestart, AgentOK
  <2>2. ClockOK'
    BY <1>11, <1>e, <1>f DEF PanelRestart, ClockOK
  <2>3. merging # 0 => merging \in Times
    BY <1>0 DEF PanelOK, Times
  <2>4. hfile' \in File /\ cut' \subseteq Times
    <3>1. CASE UNCHANGED <<hfile, cut>>
      BY <3>1 DEF PanelOK, GhostOK
    <3>2. CASE /\ merging # 0 /\ hfile' \in TornLines(hfile, merging)
               /\ cut' = cut \cup {merging}
      BY <3>2, <2>3, TornIs DEF PanelOK, GhostOK
    <3> QED
      BY <1>11, <3>1, <3>2 DEF PanelRestart
  <2>5. hist' \subseteq Times /\ hist' \subseteq 0..MaxTime
    <3>1. hist' \subseteq hfile'.lines
      BY <1>11 DEF PanelRestart, Loaded
    <3> QED
      BY <1>0, <2>4, <3>1 DEF File
  <2>6. lastAt' \in 0..MaxTime
    BY <1>11, <1>0, <2>5, MaxOr0Is DEF PanelRestart
  <2>7. PanelOK'
    BY <1>11, <1>0, <2>4, <2>5, <2>6 DEF PanelRestart, PanelOK
  <2>8. GhostOK'
    BY <1>11, <1>f, <2>4 DEF PanelRestart, GhostOK
  <2> QED
    BY <2>1, <2>2, <2>7, <2>8
<1>12. CASE Delete
  <2>1. PanelOK'
    BY <1>12, <1>0 DEF Delete, PanelOK, NoFile, File
  <2>2. ClockOK'
    BY <1>12 DEF Delete, ClockOK, agent
  <2> QED
    BY <1>12, <1>b, <1>c, <2>1, <2>2 DEF Delete, agent
<1>13. ASSUME NEW f \in Flushers, Connect(f) PROVE ClockOK' /\ AgentOK' /\ PanelOK' /\ GhostOK'
  <2>1. AgentOK'
    BY <1>13 DEF Connect, AgentOK, LiveOne, Idle, FlusherStates
  <2>2. ClockOK'
    BY <1>13 DEF Connect, ClockOK, panel
  <2> QED
    BY <1>13, <1>a, <1>b, <2>1, <2>2 DEF Connect
<1>14. ASSUME NEW f \in Flushers, FlushLoad(f) PROVE ClockOK' /\ AgentOK' /\ PanelOK' /\ GhostOK'
  <2>1. file.lines \subseteq Times /\ flush[f] \in FlusherStates
    BY DEF AgentOK, File
  <2>2. flush' \in [Flushers -> FlusherStates]
    BY <1>14, <2>1 DEF FlushLoad, AgentOK, Idle, FlusherStates
  <2>3. AgentOK'
    BY <1>14, <2>2 DEF FlushLoad, AgentOK, LiveOne
  <2> QED
    BY <1>14, <1>a, <1>b, <1>d, <2>3 DEF FlushLoad, panel
<1>15. ASSUME NEW f \in Flushers, FlushSend(f) PROVE ClockOK' /\ AgentOK' /\ PanelOK' /\ GhostOK'
  <2> DEFINE chunk == Oldest(flush[f].todo, ChunkSize)
             x == [kind |-> "backfill", ats |-> chunk]
  <2>1. chunk \subseteq Times /\ x \in Frames /\ x.kind = "backfill"
    BY DEF AgentOK, FlusherStates, Oldest, Frames
  <2>2. AgentOK'
    <3>1. CASE CanSend(f)
      <4>1. queue' = Append(queue, x) /\ Len(queue) < QueueCap
            /\ flush' = [flush EXCEPT ![f].pc = "drop", ![f].chunk = chunk]
        BY <1>15, <3>1 DEF FlushSend, CanSend
      <4> HIDE DEF chunk, x
      <4>2. queue' \in Seq(Frames) /\ Len(queue') <= QueueCap /\ LiveOne'
        BY <2>1, <4>1, QueueAppend
      <4>3. flush' \in [Flushers -> FlusherStates]
        BY <2>1, <4>1 DEF AgentOK, FlusherStates
      <4> QED
        BY <1>15, <4>2, <4>3 DEF FlushSend, AgentOK
    <3>2. CASE ~CanSend(f)
      BY <1>15, <3>2, IdleIs DEF FlushSend, AgentOK, LiveOne
    <3> QED
      BY <3>1, <3>2
  <2> QED
    BY <1>15, <1>a, <1>b, <1>d, <2>2 DEF FlushSend, panel
<1>16. ASSUME NEW f \in Flushers, FlushDrop(f) PROVE ClockOK' /\ AgentOK' /\ PanelOK' /\ GhostOK'
  <2>1. file' \in File
    BY <1>16, <1>0 DEF FlushDrop, DropUpTo, Rewrite, AgentOK, File
  <2>2. flush' \in [Flushers -> FlusherStates]
    BY <1>16 DEF FlushDrop, AgentOK, FlusherStates, Idle
  <2>3. AgentOK'
    BY <1>16, <2>1, <2>2 DEF FlushDrop, AgentOK, LiveOne
  <2> QED
    BY <1>16, <1>a, <1>b, <1>d, <2>3 DEF FlushDrop, panel
<1>17. ASSUME NEW f \in Flushers, FlushDropFails(f) PROVE ClockOK' /\ AgentOK' /\ PanelOK' /\ GhostOK'
  <2>1. AgentOK'
    BY <1>17, IdleIs DEF FlushDropFails, AgentOK, LiveOne
  <2>2. ClockOK'
    BY <1>17, <1>e DEF FlushDropFails, ClockOK, panel
  <2> QED
    BY <1>17, <1>a, <1>b, <2>1, <2>2 DEF FlushDropFails
<1> QED
  BY <1>1, <1>2, <1>3, <1>4, <1>5, <1>6, <1>7, <1>8, <1>9, <1>10, <1>11, <1>12,
     <1>13, <1>14, <1>15, <1>16, <1>17 DEF Next

-----------------------------------------------------------------------------
(* The buffer: its order and its bound.                                    *)

\* A buffer that keeps part of what it had, while no clock moves.
LEMMA OrderedShrinks ==
    ASSUME Ordered, file'.lines \subseteq file.lines,
           \A f \in Flushers : flush'[f].todo \subseteq flush[f].todo \cup file.lines,
           UNCHANGED <<now, sampled, excused>>, about' \in {0, about}
    PROVE  Ordered'
BY DEF Ordered

\* It keeps its bound as well.
LEMMA BoundShrinks ==
    ASSUME TypeOK, BufferBounded, file'.lines \subseteq file.lines, excused' = excused,
           faults' \in Nat, faults <= faults'
    PROVE  BufferBounded'
<1>1. file.lines \subseteq Times /\ MaxSamples \in Nat /\ faults \in Nat
  BY HistoryAssumption DEF TypeOK, File
<1>2. /\ Cardinality(file'.lines) <= Cardinality(file.lines)
      /\ Cardinality(file'.lines) \in Nat /\ Cardinality(file.lines) \in Nat
  BY <1>1, TimesPart, TimesFinite
<1> QED
  BY <1>1, <1>2 DEF BufferBounded

\* Whatever an append leaves is later than what was given up before, and
\* one line more at most.
LEMMA LineAdded ==
    ASSUME TypeOK, Ordered, BufferBounded, about # 0, NEW g \in File,
           g.lines \subseteq file.lines \cup {about}
    PROVE  /\ about \in Times /\ \A t \in g.lines : t <= about
           /\ \A t \in excused, u \in g.lines : t < u
           /\ Cardinality(g.lines) \in Nat
           /\ Cardinality(g.lines) <= MaxSamples + (faults + 1)
<1>1. /\ file.lines \subseteq Times /\ MaxSamples \in Nat /\ faults \in Nat
      /\ about \in Times /\ g.lines \subseteq Times
  BY HistoryAssumption DEF TypeOK, File, Times
<1>2. \A t \in file.lines \cup excused : t < about
  BY DEF Ordered
<1>3. \A t \in g.lines : t <= about
  BY <1>1, <1>2 DEF Times
<1>4. \A t \in excused, u \in g.lines : t < u
  BY <1>2 DEF BufferBounded
<1>5. /\ IsFiniteSet(file.lines) /\ Cardinality(file.lines) \in Nat
      /\ Cardinality(file.lines \cup {about}) <= Cardinality(file.lines) + 1
      /\ Cardinality(file.lines \cup {about}) \in Nat
  <2>1. IsFiniteSet(file.lines) /\ Cardinality(file.lines) \in Nat
    BY <1>1, TimesFinite
  <2>2. Cardinality(file.lines \cup {about}) =
           IF about \in file.lines THEN Cardinality(file.lines) ELSE Cardinality(file.lines) + 1
    BY <2>1, FS_AddElement
  <2> QED
    BY <2>1, <2>2
<1>6. Cardinality(g.lines) \in Nat /\ Cardinality(g.lines) <= Cardinality(file.lines \cup {about})
  <2>1. file.lines \cup {about} \subseteq Times
    BY <1>1
  <2> QED
    BY <2>1, TimesPart
<1> QED
  BY <1>1, <1>3, <1>4, <1>5, <1>6 DEF BufferBounded

\* An action keeps the buffer's order and bound.
LEMMA OrderStep == TypeOK /\ Ordered /\ BufferBounded /\ Next => Ordered' /\ BufferBounded'
<1> SUFFICES ASSUME TypeOK, Ordered, BufferBounded, Next PROVE Ordered' /\ BufferBounded'
  OBVIOUS
<1>0. /\ now \in Int /\ sampled \in Int /\ about \in Int /\ faults \in Nat
      /\ file.lines \subseteq Times /\ file \in File /\ flush \in [Flushers -> FlusherStates]
      /\ MaxSamples \in Nat /\ excused \subseteq Times
  BY HistoryAssumption DEF TypeOK, Times, File, FlusherStates
<1>a. ASSUME UNCHANGED <<now, sampled, about, file, flush, excused, faults>>
      PROVE  Ordered' /\ BufferBounded'
  BY <1>a DEF Ordered, BufferBounded
<1>1. CASE Tick
  BY <1>0, <1>1 DEF Tick, agent, ghosts, Ordered, BufferBounded
<1>2. CASE Sample
  <2>1. /\ sampled' = now /\ now >= sampled + 2 /\ about' \in {0, now} /\ sampled <= now
        /\ UNCHANGED <<now, file, flush, excused, faults>>
    BY <1>2 DEF Sample, Interval, ghosts, Ordered
  <2>2. \A t \in Times : t <= sampled => t <= sampled' /\ (about' # 0 => t < about')
    BY <1>0, <2>1 DEF Times
  <2>3. \A f \in Flushers : flush[f].todo \subseteq Times
    BY <1>0 DEF FlusherStates
  <2>4. Ordered'
    BY <1>0, <2>1, <2>2, <2>3 DEF Ordered
  <2> QED
    BY <2>1, <2>4 DEF BufferBounded
<1>3. CASE AppendSample
  <2> DEFINE written == AppendLine(file, about)
  <2>1. /\ file' = Trim(written) /\ excused' = excused \cup (written.lines \ Trim(written).lines)
        /\ about # 0 /\ about' = 0
        /\ UNCHANGED <<now, sampled, flush, faults>>
    BY <1>3 DEF AppendSample
  <2>2. about \in Times
    BY <2>1 DEF TypeOK, Times
  <2>3. written \in File /\ written.lines \subseteq file.lines \cup {about}
    BY <1>0, <2>2, AppendLineIs
  <2> HIDE DEF written
  <2>4. /\ \A t \in written.lines : t <= about
        /\ \A t \in excused, u \in written.lines : t < u
    BY <2>1, <2>3, LineAdded
  <2>5. /\ Trim(written).lines \subseteq written.lines
        /\ Cardinality(Trim(written).lines) <= MaxSamples
        /\ Trim(written) \in File
        /\ \A t \in written.lines \ Trim(written).lines, u \in Trim(written).lines : t < u
    BY <2>3, TrimIs
  <2>6. BufferBounded'
    <3>1. Cardinality(Trim(written).lines) \in Nat
      BY <2>5, TimesFinite DEF File
    <3> QED
      BY <1>0, <2>1, <2>4, <2>5, <3>1 DEF BufferBounded
  <2>7. Ordered'
    BY <2>1, <2>4, <2>5 DEF Ordered
  <2> QED
    BY <2>6, <2>7
<1>4. CASE SessionEnds
  <2>1. \A f \in Flushers : flush'[f].todo = flush[f].todo
    BY <1>0, <1>4, FlushDead DEF SessionEnds
  <2>2. UNCHANGED <<now, sampled, about, file, excused>> /\ faults' = faults + 1
    BY <1>4 DEF SessionEnds
  <2> QED
    BY <1>0, <2>1, <2>2, OrderedShrinks, BoundShrinks
<1>5. CASE PowerCut
  <2>1. /\ about' = 0 /\ faults' = faults + 1 /\ UNCHANGED <<now, sampled, excused>>
        /\ \A f \in Flushers : flush'[f].todo = {}
    BY <1>5 DEF PowerCut, Idle
  <2>2. CASE UNCHANGED file
    BY <1>0, <2>1, <2>2, OrderedShrinks, BoundShrinks
  <2>3. CASE about # 0 /\ file' \in File /\ file'.lines \subseteq file.lines \cup {about}
    <3>1. /\ \A t \in file'.lines : t <= about
          /\ \A t \in excused, u \in file'.lines : t < u
          /\ Cardinality(file'.lines) <= MaxSamples + (faults + 1)
      BY <2>3, LineAdded
    <3>2. Ordered'
      BY <2>1, <2>3, <3>1 DEF Ordered
    <3>3. BufferBounded'
      BY <2>1, <3>1 DEF BufferBounded
    <3> QED
      BY <3>2, <3>3
  <2>4. UNCHANGED file \/ (about # 0 /\ file' \in File /\ file'.lines \subseteq file.lines \cup {about})
    <3>1. about # 0 => about \in Times
      BY DEF TypeOK, Times
    <3>2. CASE about # 0 /\ file' \in TornLines(file, about)
      BY <1>0, <3>1, <3>2, TornIs
    <3>3. CASE about # 0 /\ file' = AppendLine(file, about)
      BY <1>0, <3>1, <3>3, AppendLineIs
    <3> QED
      BY <1>5, <3>2, <3>3 DEF PowerCut
  <2> QED
    BY <2>2, <2>3, <2>4
<1>6. CASE LivePush
  BY <1>6, <1>a DEF LivePush, ghosts
<1>7. CASE ReceiveLive
  BY <1>7, <1>a DEF ReceiveLive, ghosts
<1>8. CASE Record
  BY <1>8, <1>a DEF Record, agent, ghosts
<1>9. CASE Backfill
  BY <1>9, <1>a DEF Backfill, ghosts
<1>10. CASE TrimHistory
  BY <1>10, <1>a DEF TrimHistory, agent, ghosts
<1>11. CASE PanelRestart
  <2>1. \A f \in Flushers : flush'[f].todo = flush[f].todo
    BY <1>0, <1>11, FlushDead DEF PanelRestart
  <2>2. UNCHANGED <<now, sampled, about, file, excused>> /\ faults' = faults + 1
    BY <1>11 DEF PanelRestart
  <2> QED
    BY <1>0, <2>1, <2>2, OrderedShrinks, BoundShrinks
<1>12. CASE Delete
  BY <1>12, <1>a DEF Delete, agent, ghosts
<1>13. ASSUME NEW f \in Flushers, Connect(f) PROVE Ordered' /\ BufferBounded'
  <2>1. UNCHANGED <<now, sampled, about, file, excused, faults>>
    BY <1>13 DEF Connect, ghosts
  <2>2. \A g \in Flushers : flush'[g].todo \subseteq flush[g].todo
    BY <1>0, <1>13 DEF Connect, Idle
  <2> QED
    BY <1>0, <2>1, <2>2, OrderedShrinks, BoundShrinks
<1>14. ASSUME NEW f \in Flushers, FlushLoad(f) PROVE Ordered' /\ BufferBounded'
  <2>1. UNCHANGED <<now, sampled, about, file, excused, faults>>
    BY <1>14 DEF FlushLoad, ghosts
  <2>2. \A g \in Flushers : flush'[g].todo \subseteq flush[g].todo \cup file.lines
    BY <1>0, <1>14 DEF FlushLoad, Idle, FlusherStates
  <2> QED
    BY <1>0, <2>1, <2>2, OrderedShrinks, BoundShrinks
<1>15. ASSUME NEW f \in Flushers, FlushSend(f) PROVE Ordered' /\ BufferBounded'
  <2>1. UNCHANGED <<now, sampled, about, file, excused, faults>>
    BY <1>15 DEF FlushSend, ghosts
  <2>2. \A g \in Flushers : flush'[g].todo \subseteq flush[g].todo
    BY <1>0, <1>15, SMTT(30) DEF FlushSend, Idle, FlusherStates
  <2> QED
    BY <1>0, <2>1, <2>2, OrderedShrinks, BoundShrinks
<1>16. ASSUME NEW f \in Flushers, FlushDrop(f) PROVE Ordered' /\ BufferBounded'
  <2>1. UNCHANGED <<now, sampled, about, excused, faults>> /\ file'.lines \subseteq file.lines
    BY <1>16 DEF FlushDrop, DropUpTo, Rewrite, ghosts
  <2>2. \A g \in Flushers : flush'[g].todo \subseteq flush[g].todo
    BY <1>0, <1>16 DEF FlushDrop, Idle, FlusherStates
  <2> QED
    BY <1>0, <2>1, <2>2, OrderedShrinks, BoundShrinks
<1>17. ASSUME NEW f \in Flushers, FlushDropFails(f) PROVE Ordered' /\ BufferBounded'
  <2>1. UNCHANGED <<now, sampled, about, file, excused>> /\ faults' = faults + 1
    BY <1>17 DEF FlushDropFails, ghosts
  <2>2. \A g \in Flushers : flush'[g].todo \subseteq flush[g].todo
    BY <1>0, <1>17 DEF FlushDropFails, Idle
  <2> QED
    BY <1>0, <2>1, <2>2, OrderedShrinks, BoundShrinks
<1> QED
  BY <1>1, <1>2, <1>3, <1>4, <1>5, <1>6, <1>7, <1>8, <1>9, <1>10, <1>11, <1>12,
     <1>13, <1>14, <1>15, <1>16, <1>17 DEF Next

-----------------------------------------------------------------------------
(* The history and its file.                                               *)

\* A minute is two instants in a row.
LEMMA Minutes ==
    /\ \A t, u \in Int : t <= u => Minute(t) <= Minute(u)
    /\ \A t, u \in Int : t - u >= Interval => Minute(t) # Minute(u)
    /\ \A t, u, v \in Int : v < u /\ u < t => Minute(v) # Minute(t)
    /\ \A t \in Int : Minute(t) \in Int
BY DEF Minute, Interval

HistorySound == LoadSound /\ OnePerMinute /\ NotTorn

\* The panel's state and both files as they are, while the clock may move
\* on: what is loaded can only shrink.
LEMMA HistoryKept ==
    ASSUME TypeOK, HistorySound, UNCHANGED <<hist, lastAt, hfile, cut>>,
           now' \in Int, now <= now', cut = {} => file'.torn = 0
    PROVE  HistorySound'
<1>1. Retain \in Nat /\ now \in Int /\ hfile.lines \subseteq Times
  BY HistoryAssumption DEF TypeOK, Times, File
<1>2. \A t \in Int : t >= Cutoff' => t >= Cutoff
  <2>1. Cutoff = now - Retain /\ Cutoff' = now' - Retain
    BY DEF Cutoff
  <2>2. \A m, n \in Int, t \in Int : m <= n /\ t >= n - Retain => t >= m - Retain
    BY <1>1
  <2> QED
    BY <1>1, <2>1, <2>2, ZenonT(40)
<1>3. Loaded(hfile)' \subseteq Loaded(hfile)
  BY <1>1, <1>2 DEF Loaded, Times
<1> QED
  BY <1>3 DEF HistorySound, LoadSound, OnePerMinute, NotTorn

\* One sample more, a minute after the last one.
LEMMA OneMore ==
    ASSUME NEW S, S \subseteq Times, NEW t \in Times, NEW last \in 0..MaxTime,
           \A u \in S : u <= last, ~(last # 0 /\ t - last < Interval),
           \A u, v \in S : Minute(u) = Minute(v) => u = v
    PROVE  /\ \A u \in S \cup {t} : u <= t
           /\ \A u, v \in S \cup {t} : Minute(u) = Minute(v) => u = v
<1>1. \A u \in S : u \in Int /\ u >= 1
  BY DEF Times
<1>2. ASSUME NEW u \in S PROVE t - u >= Interval
  <2>1. last # 0 /\ last \in Int /\ t \in Int /\ u \in Int /\ u <= last
    BY <1>1 DEF Times
  <2> QED
    BY <2>1 DEF Interval
<1>3. \A u \in S : u <= t /\ Minute(u) # Minute(t)
  <2> TAKE u \in S
  <2>1. u \in Int /\ t \in Int /\ t - u >= Interval
    BY <1>1, <1>2 DEF Times
  <2> QED
    BY <2>1, Minutes DEF Interval
<1> QED
  BY <1>3 DEF Times

\* An action keeps the history one sample a minute, lastAt ahead of it, and
\* the file ready to be loaded.
LEMMA HistoryStep == TypeOK /\ LiveOne /\ HistorySound /\ Next => HistorySound'
<1> SUFFICES ASSUME TypeOK, LiveOne, HistorySound, Next PROVE HistorySound'
  OBVIOUS
<1>0. /\ now \in Int /\ hist \subseteq Times /\ hfile \in File /\ hfile.lines \subseteq Times
      /\ file \in File /\ lastAt \in 0..MaxTime /\ MaxTime \in Nat
      /\ Times \subseteq Int /\ Times \subseteq 0..MaxTime
  BY HistoryAssumption DEF TypeOK, Times, File
<1>1. TypeOK' /\ LiveOne'
  BY TypeStep
<1>a. ASSUME UNCHANGED <<now, hist, lastAt, hfile, cut>>, cut = {} => file'.torn = 0
      PROVE  HistorySound'
  BY <1>0, <1>a, HistoryKept
<1>b. cut = {} => file.torn = 0
  BY DEF HistorySound, NotTorn
<1>2. CASE Tick
  BY <1>0, <1>2, <1>b, HistoryKept DEF Tick, agent, panel, ghosts
<1>3. CASE Sample
  BY <1>3, <1>a, <1>b DEF Sample, panel, ghosts
<1>4. CASE AppendSample
  <2>1. about \in Times
    BY <1>4 DEF AppendSample, TypeOK, Times
  <2>2. AppendLine(file, about) \in File /\ AppendLine(file, about).torn = 0
    BY <1>0, <2>1, AppendLineIs
  <2>3. file'.torn = 0
    BY <1>4, <2>2, TrimIs DEF AppendSample
  <2> QED
    BY <1>4, <2>3, <1>a DEF AppendSample, panel
<1>5. CASE SessionEnds
  BY <1>5, <1>a, <1>b DEF SessionEnds, panel
<1>6. CASE PowerCut
  <2>1. about # 0 => about \in Times
    BY DEF TypeOK, Times
  <2>2. UNCHANGED <<now, hist, lastAt, hfile>>
    BY <1>6 DEF PowerCut, panel
  <2>3. CASE cut' = cut
    <3>1. cut = {} => file'.torn = 0
      BY <1>0, <1>6, <1>b, <2>1, <2>3, AppendLineIs DEF PowerCut
    <3> QED
      BY <2>2, <2>3, <3>1, <1>a
  <2>4. CASE cut' # cut
    <3>1. cut' # {}
      BY <1>6, <2>4 DEF PowerCut
    <3>2. (LoadSound /\ OnePerMinute)'
      BY <2>2 DEF HistorySound, LoadSound, OnePerMinute, Loaded, Cutoff
    <3> QED
      BY <3>1, <3>2 DEF HistorySound, NotTorn
  <2> QED
    BY <2>3, <2>4
<1>7. CASE LivePush
  BY <1>7, <1>a, <1>b DEF LivePush, panel, ghosts
<1>8. CASE ReceiveLive
  BY <1>8, <1>a, <1>b DEF ReceiveLive, ghosts
<1>9. CASE Record
  <2>1. merging \in Times
    BY <1>9 DEF Record, TypeOK, Times
  <2>2. CASE TooSoon(merging)
    BY <1>9, <1>a, <1>b, <2>2 DEF Record, agent, ghosts
  <2>3. CASE ~TooSoon(merging)
    <3>1. /\ lastAt' = merging /\ hist' = hist \cup {merging}
          /\ hfile' = AppendLine(hfile, merging) /\ UNCHANGED <<now, file, cut>>
      BY <1>9, <2>3 DEF Record, agent, ghosts
    <3>2. /\ hfile'.lines \subseteq hfile.lines \cup {merging} /\ hfile'.torn = 0
          /\ hfile.torn = 0 => hfile'.lines = hfile.lines \cup {merging}
      BY <1>0, <2>1, <3>1, AppendLineIs
    <3>3. ~(lastAt # 0 /\ merging - lastAt < Interval)
      BY <2>3 DEF TooSoon
    <3>4. /\ \A u \in hist \cup {merging} : u <= merging
          /\ \A u, v \in hist \cup {merging} : Minute(u) = Minute(v) => u = v
      BY <1>0, <2>1, <3>3, OneMore DEF HistorySound, LoadSound, OnePerMinute
    <3>5. /\ \A u \in Loaded(hfile) \cup {merging} : u <= merging
          /\ \A u, v \in Loaded(hfile) \cup {merging} : Minute(u) = Minute(v) => u = v
      <4>1. Loaded(hfile) \subseteq Times
        BY <1>0 DEF Loaded
      <4> QED
        BY <1>0, <2>1, <3>3, <4>1, OneMore DEF HistorySound, LoadSound
    <3>6. Loaded(hfile)' \subseteq Loaded(hfile) \cup {merging}
      BY <3>1, <3>2 DEF Loaded, Cutoff
    <3>7. LoadSound' /\ OnePerMinute'
      BY <3>1, <3>4, <3>5, <3>6 DEF LoadSound, OnePerMinute
    <3>8. NotTorn'
      BY <3>1, <3>2 DEF HistorySound, NotTorn
    <3> QED
      BY <3>7, <3>8 DEF HistorySound
  <2> QED
    BY <2>2, <2>3
<1>10. CASE Backfill
  <2> DEFINE new == NewOf(Head(queue).ats)
  <2>1. UNCHANGED <<now, file, cut>>
    BY <1>10 DEF Backfill, ghosts
  <2>2. CASE UNCHANGED <<hist, lastAt, hfile>>
    BY <1>a, <1>b, <2>1, <2>2
  <2>3. CASE /\ hist' = hist \cup new
             /\ lastAt' = MaxOr0(hist' \cup {lastAt}) /\ hfile' = Rewrite(hist')
    <3>1. hist' \subseteq Times /\ hist' \cup {lastAt} \subseteq 0..MaxTime
      BY <1>0, <1>1 DEF TypeOK
    <3>2. \A u \in hist' : u <= lastAt'
      <4>1. \A y \in hist' \cup {lastAt} : MaxOr0(hist' \cup {lastAt}) >= y
        BY <1>0, <3>1, MaxOr0Is
      <4> QED
        BY <1>0, <1>1, <2>3, <3>1, <4>1 DEF TypeOK
    <3>3. Loaded(hfile)' \subseteq hist' /\ hfile'.torn = 0 /\ hfile'.lines = hist'
      BY <2>3 DEF Loaded, Rewrite
    <3>4. OnePerMinute'
      <4>1. \A t, u \in new : Minute(t) = Minute(u) => t = u
        <5>1. new \subseteq Int
          BY <1>0, <2>3, <3>1
        <5> SUFFICES ASSUME NEW t \in new, NEW u \in new, Minute(t) = Minute(u), t < u
                     PROVE  FALSE
          BY <5>1
        <5> QED
          BY DEF NewOf
      <4>2. \A t \in new, u \in hist : Minute(u) # Minute(t)
        BY DEF NewOf
      <4> HIDE DEF new
      <4> QED
        BY <2>3, <4>1, <4>2 DEF HistorySound, OnePerMinute
    <3>5. LoadSound'
      BY <3>2, <3>3, <3>4 DEF LoadSound, OnePerMinute
    <3> QED
      BY <1>b, <2>1, <3>3, <3>4, <3>5 DEF HistorySound, NotTorn
  <2> QED
    BY <1>10, <2>2, <2>3 DEF Backfill
<1>11. CASE TrimHistory
  <2>1. /\ hist' \subseteq hist /\ hfile' = Rewrite(hist')
        /\ UNCHANGED <<now, file, lastAt, cut>>
    BY <1>11 DEF TrimHistory, agent, ghosts
  <2>2. Loaded(hfile)' \subseteq hist' /\ hfile'.torn = 0 /\ hfile'.lines = hist'
    BY <2>1 DEF Loaded, Rewrite
  <2> QED
    BY <1>b, <2>1, <2>2 DEF HistorySound, LoadSound, OnePerMinute, NotTorn
<1>12. CASE PanelRestart
  <2>1. hist' = Loaded(hfile)' /\ lastAt' = MaxOr0(hist') /\ UNCHANGED <<now, file>>
    BY <1>12 DEF PanelRestart, Loaded, Cutoff
  <2>2. hist' \subseteq 0..MaxTime
    BY <1>0, <1>1 DEF TypeOK
  <2>3. \A u \in hist' : u <= lastAt'
    <3>1. \A y \in hist' : MaxOr0(hist') >= y
      BY <1>0, <2>2, MaxOr0Is
    <3> QED
      BY <1>0, <1>1, <2>1, <2>2, <3>1 DEF TypeOK
  <2>4. OnePerMinute'
    <3>1. CASE UNCHANGED <<hfile, cut>>
      BY <2>1, <3>1 DEF HistorySound, LoadSound, OnePerMinute, Loaded, Cutoff
    <3>2. CASE merging # 0 /\ ~TooSoon(merging) /\ hfile' \in TornLines(hfile, merging)
      <4>1. merging \in Times
        BY <3>2 DEF TypeOK, Times
      <4>2. hfile'.lines \subseteq hfile.lines \cup {merging}
        BY <1>0, <3>2, <4>1, TornIs
      <4>3. Loaded(hfile)' \subseteq Loaded(hfile) \cup {merging}
        BY <2>1, <4>2 DEF Loaded, Cutoff
      <4>4. Loaded(hfile) \subseteq Times
        BY <1>0 DEF Loaded
      <4>5. ~(lastAt # 0 /\ merging - lastAt < Interval)
        BY <3>2 DEF TooSoon
      <4>6. \A u, v \in Loaded(hfile) \cup {merging} : Minute(u) = Minute(v) => u = v
        BY <1>0, <4>1, <4>4, <4>5, OneMore DEF HistorySound, LoadSound
      <4> QED
        BY <2>1, <4>3, <4>6 DEF OnePerMinute
    <3> QED
      BY <1>12, <3>1, <3>2 DEF PanelRestart
  <2>5. LoadSound'
    BY <2>1, <2>3, <2>4 DEF LoadSound, OnePerMinute
  <2>6. NotTorn'
    <3>1. CASE UNCHANGED <<hfile, cut>>
      BY <2>1, <3>1 DEF HistorySound, NotTorn, Loaded
    <3>2. CASE cut' = cut \cup {merging}
      BY <3>2 DEF NotTorn
    <3> QED
      BY <1>12, <3>1, <3>2 DEF PanelRestart
  <2> QED
    BY <2>4, <2>5, <2>6 DEF HistorySound
<1>13. CASE Delete
  <2>1. hist' = {} /\ hfile' = NoFile /\ UNCHANGED <<file, cut>>
    BY <1>13 DEF Delete, agent, ghosts
  <2>2. Loaded(hfile)' = {}
    BY <2>1 DEF Loaded, NoFile
  <2> QED
    BY <1>b, <2>1, <2>2 DEF HistorySound, LoadSound, OnePerMinute, NotTorn, NoFile
<1>14. ASSUME NEW f \in Flushers, Connect(f) PROVE HistorySound'
  BY <1>14, <1>a, <1>b DEF Connect, panel, ghosts
<1>15. ASSUME NEW f \in Flushers, FlushLoad(f) PROVE HistorySound'
  BY <1>15, <1>a, <1>b DEF FlushLoad, panel, ghosts
<1>16. ASSUME NEW f \in Flushers, FlushSend(f) PROVE HistorySound'
  BY <1>16, <1>a, <1>b DEF FlushSend, panel, ghosts
<1>17. ASSUME NEW f \in Flushers, FlushDrop(f) PROVE HistorySound'
  <2>1. file'.torn = 0
    BY <1>17 DEF FlushDrop, DropUpTo, Rewrite
  <2> QED
    BY <1>17, <1>a, <2>1 DEF FlushDrop, panel, ghosts
<1>18. ASSUME NEW f \in Flushers, FlushDropFails(f) PROVE HistorySound'
  BY <1>18, <1>a, <1>b DEF FlushDropFails, panel, ghosts
<1> QED
  BY <1>2, <1>3, <1>4, <1>5, <1>6, <1>7, <1>8, <1>9, <1>10, <1>11, <1>12,
     <1>13, <1>14, <1>15, <1>16, <1>17, <1>18 DEF Next

-----------------------------------------------------------------------------
(* The accounts.                                                           *)

\* What is past retention stays so.
LEMMA ExpiredStays ==
    ASSUME NEW t \in Times, now \in Int, now' \in Int, now <= now', Expired(t)
    PROVE  Expired(t)'
<1>1. Retain \in Int /\ now - Retain \in Int /\ now' - Retain \in Int /\ t \in Int
  BY HistoryAssumption DEF Times
<1>2. \A m, n, r \in Int : m <= n => m - r <= n - r
  OBVIOUS
<1>3. now - Retain <= now' - Retain
  BY <1>1, <1>2
<1>4. /\ Minute(now - Retain) <= Minute(now' - Retain)
      /\ Minute(now - Retain) \in Int /\ Minute(now' - Retain) \in Int /\ Minute(t) \in Int
  BY <1>1, <1>3, Minutes
<1>5. Minute(t) <= Minute(now - Retain)
  BY DEF Expired, Cutoff
<1>6. \A a, b, c \in Int : a <= b /\ b <= c => a <= c
  OBVIOUS
<1>7. Minute(t) <= Minute(now' - Retain)
  BY <1>4, <1>5, <1>6
<1> QED
  BY <1>7 DEF Expired, Cutoff, Minute

\* Nothing is taken away from where samples are safe.
LEMMA SafeKept ==
    ASSUME NEW t \in Times, Safe(t), now \in Int, now' \in Int, now <= now',
           excused \subseteq excused', abandoned \subseteq abandoned',
           InFlight \subseteq InFlight' \cup abandoned', hist \subseteq hist'
    PROVE  Safe(t)'
<1>1. CASE t \in InFlight \cup excused \cup abandoned
  BY <1>1 DEF Safe
<1>2. CASE Recorded(t)
  <2>1. Recorded(t)'
    BY <1>2 DEF Recorded, Minute
  <2> QED
    BY <2>1 DEF Safe
<1>3. CASE Expired(t)
  <2>1. Expired(t)'
    BY <1>3, ExpiredStays
  <2> QED
    BY <2>1 DEF Safe
<1> QED
  BY <1>1, <1>2, <1>3 DEF Safe

\* A sample of the history that goes for its age is past retention with the
\* whole of its minute.
LEMMA TooOld ==
    ASSUME NEW t \in Times, NEW u \in Times, Minute(u) = Minute(t), u <= Cutoff,
           now \in Int
    PROVE  Expired(t)
<1>1. Cutoff \in Int /\ u \in Int
  BY HistoryAssumption DEF Cutoff, Times
<1> QED
  BY <1>1, Minutes DEF Expired

\* What Backfill makes of a chunk: each of its samples is in the history by
\* its minute, or past retention.
LEMMA Backfilled ==
    ASSUME NEW A, A \subseteq Times, NEW t \in A, now \in Int, hist \subseteq Times
    PROVE  (\E u \in hist \cup NewOf(A) : Minute(u) = Minute(t)) \/ Expired(t)
<1>1. Cutoff \in Int /\ A \subseteq Int
  BY HistoryAssumption DEF Cutoff, Times
<1>2. CASE t < Cutoff
  <2>1. t <= Cutoff
    BY <1>1, <1>2
  <2> QED
    BY <2>1, TooOld
<1>3. CASE t >= Cutoff /\ \A u \in A : u < t /\ u >= Cutoff => Minute(u) # Minute(t)
  BY <1>3 DEF NewOf
<1>4. CASE \E u \in A : u < t /\ u >= Cutoff /\ Minute(u) = Minute(t)
  <2>1. PICK u \in A : u < t /\ u >= Cutoff /\ Minute(u) = Minute(t)
    BY <1>4
  <2>2. \A v \in A : v < u => Minute(v) # Minute(u)
    BY <1>1, <2>1, Minutes
  <2> QED
    BY <2>1, <2>2 DEF NewOf
<1> QED
  BY <1>1, <1>2, <1>3, <1>4

\* A session that ends leaves its samples to the ghost that names them.
LEMMA DropKeeps ==
    ASSUME DropSession
    PROVE  InFlight \subseteq InFlight' \cup abandoned' /\ abandoned \subseteq abandoned'
BY DEF DropSession

\* Until a power cut or the deletion of the server, a sample that is safe
\* stays safe.
LEMMA SafeStep ==
    ASSUME TypeOK, LiveOne, HistorySound, Next, Whole', NEW t \in Times, Safe(t)
    PROVE  Safe(t)'
<1>0. /\ now \in Int /\ hist \subseteq Times /\ queue \in Seq(Frames) /\ hfile.lines \subseteq Times
      /\ InFlight = Flight(queue)
  BY FlightIs DEF TypeOK, Times, File
<1>1. TypeOK' /\ LiveOne'
  BY TypeStep
<1>2. now' \in Int /\ InFlight' = Flight(queue') /\ queue' \in Seq(Frames)
  <2>1. now' \in Int /\ queue' \in Seq(Frames)
    BY <1>1 DEF TypeOK, Times
  <2>2. InFlight' = Flight(queue')
    BY <2>1 DEF InFlight, Flight
  <2> QED
    BY <2>1, <2>2
<1>a. ASSUME UNCHANGED <<now, hist, queue>>, excused \subseteq excused', abandoned' = abandoned
      PROVE  Safe(t)'
  <2>1. now <= now' /\ hist \subseteq hist' /\ abandoned \subseteq abandoned'
        /\ InFlight \subseteq InFlight' \cup abandoned'
    BY <1>0, <1>2, <1>a
  <2> QED
    BY <1>0, <1>2, <1>a, <2>1, SafeKept
<1>b. ASSUME UNCHANGED <<now, hist, excused>>, DropSession PROVE Safe(t)'
  <2>1. now <= now' /\ hist \subseteq hist' /\ excused \subseteq excused'
    BY <1>0, <1>b
  <2> QED
    BY <1>0, <1>2, <1>b, <2>1, DropKeeps, SafeKept
<1>c. ASSUME UNCHANGED <<now, hist, excused, abandoned>>, NEW x \in Frames,
             queue' = Append(queue, x)
      PROVE  Safe(t)'
  <2>1. InFlight \subseteq InFlight'
    BY <1>0, <1>2, <1>c, AppendFlight
  <2> QED
    BY <1>0, <1>2, <1>c, <2>1, SafeKept
<1>3. CASE Tick
  <2>1. now <= now' /\ UNCHANGED <<hist, queue, excused, abandoned>>
    BY <1>0, <1>3 DEF Tick, agent, panel, ghosts
  <2> QED
    BY <1>0, <1>2, <2>1, SafeKept
<1>4. CASE Sample
  BY <1>4, <1>a DEF Sample, panel, ghosts
<1>5. CASE AppendSample
  BY <1>5, <1>a DEF AppendSample, panel
<1>6. CASE SessionEnds
  BY <1>6, <1>b DEF SessionEnds, panel
<1>7. CASE PowerCut
  BY <1>7, <1>b DEF PowerCut, panel
<1>8. CASE LivePush
  <2>1. [kind |-> "live", ats |-> {now}] \in Frames
    BY DEF Frames, TypeOK
  <2> QED
    BY <1>8, <1>c, <2>1 DEF LivePush, panel, ghosts
<1>9. CASE ReceiveLive
  <2>1. InFlight \subseteq InFlight'
    <3>1. queue # <<>> /\ Head(queue).kind = "live" /\ queue' = Tail(queue)
      BY <1>9 DEF ReceiveLive
    <3>2. /\ Head(queue) = queue[1]
          /\ \A u \in Flight(queue) :
                u \in Flight(Tail(queue)) \/ (queue[1].kind = "backfill" /\ u \in queue[1].ats)
      BY <1>0, <3>1, TailFlight
    <3> QED
      BY <1>0, <1>2, <3>1, <3>2
  <2>2. UNCHANGED <<now, hist, excused, abandoned>>
    BY <1>9 DEF ReceiveLive, ghosts
  <2> QED
    BY <1>0, <1>2, <2>1, <2>2, SafeKept
<1>10. CASE Record
  <2>1. hist \subseteq hist' /\ UNCHANGED <<now, queue, excused, abandoned>>
    BY <1>10 DEF Record, agent, ghosts
  <2> QED
    BY <1>0, <1>2, <2>1, SafeKept
<1>11. CASE Backfill
  <2> DEFINE A == Head(queue).ats
  <2>1. /\ hist' = hist \cup NewOf(A) /\ queue' = Tail(queue) /\ queue # <<>>
        /\ UNCHANGED <<now, excused, abandoned>>
    BY <1>11 DEF Backfill, ghosts
  <2>2. Head(queue) = queue[1] /\ queue[1] \in Frames
        /\ \A u \in Flight(queue) :
              u \in Flight(Tail(queue)) \/ (queue[1].kind = "backfill" /\ u \in queue[1].ats)
    BY <1>0, <2>1, TailFlight
  <2>3. A \subseteq Times
    BY <2>2 DEF Frames
  <2>4. CASE t \in A
    <3>1. (\E u \in hist \cup NewOf(A) : Minute(u) = Minute(t)) \/ Expired(t)
      BY <1>0, <2>3, <2>4, Backfilled
    <3>2. Recorded(t)' \/ Expired(t)'
      BY <2>1, <3>1 DEF Recorded, Expired, Minute, Cutoff
    <3> QED
      BY <3>2 DEF Safe
  <2>5. CASE t \in InFlight /\ t \notin A
    <3>1. t \in InFlight'
      BY <1>0, <1>2, <2>1, <2>2, <2>5
    <3> QED
      BY <3>1 DEF Safe
  <2>6. CASE t \notin InFlight
    <3>1. t \in excused' \cup abandoned' \/ Recorded(t)' \/ Expired(t)'
      BY <2>1, <2>6 DEF Safe, Recorded, Expired, Minute, Cutoff
    <3> QED
      BY <3>1 DEF Safe
  <2> QED
    BY <2>4, <2>5, <2>6
<1>12. CASE TrimHistory
  <2>1. /\ hist' = {u \in hist : u > Cutoff} /\ UNCHANGED <<now, queue, excused, abandoned>>
    BY <1>12 DEF TrimHistory, agent, ghosts
  <2>2. InFlight' = InFlight
    BY <1>0, <1>2, <2>1
  <2>3. CASE Recorded(t)
    <3>1. PICK u \in hist : Minute(u) = Minute(t)
      BY <2>3 DEF Recorded
    <3>2. CASE u > Cutoff
      <4>1. Recorded(t)'
        BY <2>1, <3>1, <3>2 DEF Recorded, Minute
      <4> QED
        BY <4>1 DEF Safe
    <3>3. CASE u <= Cutoff
      <4>1. Expired(t)
        BY <1>0, <3>1, <3>3, TooOld
      <4>2. Expired(t)'
        BY <1>0, <1>2, <2>1, <4>1, ExpiredStays
      <4> QED
        BY <4>2 DEF Safe
    <3>4. u \in Int /\ Cutoff \in Int
      BY <1>0, HistoryAssumption DEF Times, Cutoff
    <3> QED
      BY <3>2, <3>3, <3>4
  <2>4. CASE ~Recorded(t)
    <3>1. t \in InFlight' \cup excused' \cup abandoned' \/ Expired(t)'
      BY <2>1, <2>2, <2>4 DEF Safe, Expired, Minute, Cutoff
    <3> QED
      BY <3>1 DEF Safe
  <2> QED
    BY <2>3, <2>4
<1>13. CASE PanelRestart
  <2>1. cut' = {} /\ UNCHANGED <<hfile, cut, now, excused>> /\ hist' = Loaded(hfile)'
        /\ DropSession
    BY <1>13 DEF PanelRestart, Whole, Loaded, Cutoff
  <2>2. InFlight \subseteq InFlight' \cup abandoned' /\ abandoned \subseteq abandoned'
    BY <2>1, DropKeeps
  <2>3. CASE Recorded(t)
    <3>1. PICK u \in hist : Minute(u) = Minute(t)
      BY <2>3 DEF Recorded
    <3>2. u \in hfile.lines /\ u \in Times
      BY <1>0, <2>1 DEF HistorySound, NotTorn
    <3>3. CASE u >= Cutoff
      <4>1. u \in hist'
        BY <2>1, <3>2, <3>3 DEF Loaded, Cutoff
      <4>2. Recorded(t)'
        BY <3>1, <4>1 DEF Recorded, Minute
      <4> QED
        BY <4>2 DEF Safe
    <3>4. CASE u <= Cutoff
      <4>1. Expired(t)
        BY <1>0, <3>1, <3>2, <3>4, TooOld
      <4>2. Expired(t)'
        BY <1>0, <1>2, <2>1, <4>1, ExpiredStays
      <4> QED
        BY <4>2 DEF Safe
    <3>5. u \in Int /\ Cutoff \in Int
      BY <1>0, HistoryAssumption DEF Times, Cutoff
    <3> QED
      BY <3>3, <3>4, <3>5
  <2>4. CASE ~Recorded(t)
    <3>1. t \in InFlight' \cup excused' \cup abandoned' \/ Expired(t)'
      BY <2>1, <2>2, <2>4 DEF Safe, Expired, Minute, Cutoff
    <3> QED
      BY <3>1 DEF Safe
  <2> QED
    BY <2>3, <2>4
<1>14. CASE Delete
  BY <1>14 DEF Delete, Whole
<1>15. ASSUME NEW f \in Flushers, Connect(f) PROVE Safe(t)'
  BY <1>15, <1>a DEF Connect, panel, ghosts
<1>16. ASSUME NEW f \in Flushers, FlushLoad(f) PROVE Safe(t)'
  BY <1>16, <1>a DEF FlushLoad, panel, ghosts
<1>17. ASSUME NEW f \in Flushers, FlushSend(f) PROVE Safe(t)'
  <2>1. CASE CanSend(f)
    <3> DEFINE chunk == Oldest(flush[f].todo, ChunkSize)
    <3>1. [kind |-> "backfill", ats |-> chunk] \in Frames
      BY DEF TypeOK, Oldest, Frames
    <3> QED
      BY <1>17, <1>c, <2>1, <3>1 DEF FlushSend, panel, ghosts
  <2>2. CASE ~CanSend(f)
    BY <1>17, <1>a, <2>2 DEF FlushSend, panel, ghosts
  <2> QED
    BY <2>1, <2>2
<1>18. ASSUME NEW f \in Flushers, FlushDrop(f) PROVE Safe(t)'
  BY <1>18, <1>a DEF FlushDrop, panel, ghosts
<1>19. ASSUME NEW f \in Flushers, FlushDropFails(f) PROVE Safe(t)'
  BY <1>19, <1>a DEF FlushDropFails, panel, ghosts
<1> QED
  BY <1>3, <1>4, <1>5, <1>6, <1>7, <1>8, <1>9, <1>10, <1>11, <1>12,
     <1>13, <1>14, <1>15, <1>16, <1>17, <1>18, <1>19 DEF Next

\* What a flusher may find of the buffer: its samples in order, and none of
\* them a stranger to what it is sending.
FlusherSound(f) ==
    /\ flush[f].pc \in {"send", "drop"} => flush[f].todo # {}
    /\ \A t \in file.lines, m \in flush[f].todo : t <= m => t \in flush[f].todo
    /\ flush[f].pc = "drop" =>
          /\ flush[f].chunk \subseteq flush[f].todo /\ flush[f].chunk # {}
          /\ \A t \in flush[f].todo, m \in flush[f].chunk : t <= m => t \in flush[f].chunk
          /\ Whole => \A t \in flush[f].chunk : Safe(t)

\* A flusher that stays where it is stays sound, whatever leaves the buffer
\* and whatever comes in behind all it is sending.
LEMMA FlusherKept ==
    ASSUME NEW f \in Flushers, FlusherSound(f), Whole' => Whole,
           flush'[f].pc = flush[f].pc, flush'[f].todo = flush[f].todo,
           flush'[f].chunk = flush[f].chunk,
           \A t \in file'.lines : t \in file.lines \/ \A m \in flush[f].todo : ~(t <= m),
           Whole' => \A t \in flush[f].chunk : Safe(t) => Safe(t)'
    PROVE  FlusherSound(f)'
BY DEF FlusherSound

\* A flusher with nothing to send has nothing to answer for.
LEMMA FlusherIdle ==
    ASSUME NEW f \in Flushers, flush'[f].pc \in {"idle", "load"}, flush'[f].todo = {}
    PROVE  FlusherSound(f)'
BY DEF FlusherSound

\* What a flusher drops from the buffer is what it sent.
LEMMA DropsSent ==
    ASSUME TypeOK, NEW f \in Flushers, FlusherSound(f), flush[f].pc = "drop",
           NEW t \in file.lines, ~(t > Max(flush[f].chunk))
    PROVE  t \in flush[f].chunk
<1>1. /\ flush[f].chunk \subseteq 0..MaxTime /\ flush[f].chunk # {} /\ MaxTime \in Nat
      /\ flush[f].chunk \subseteq flush[f].todo /\ t \in Int
  BY HistoryAssumption DEF TypeOK, Times, FlusherSound, File
<1>2. Max(flush[f].chunk) \in flush[f].chunk
  BY <1>1, MaxIs
<1>3. t <= Max(flush[f].chunk)
  <2>1. Max(flush[f].chunk) \in Int
    BY <1>1, <1>2
  <2> QED
    BY <1>1, <2>1
<1> QED
  BY <1>1, <1>2, <1>3 DEF FlusherSound

\* The accounts close again after every action, and every flusher goes on
\* holding a beginning of the buffer.
LEMMA FlushStep ==
    ASSUME HistoryInv, Next
    PROVE  FlushSound' /\ Accounted'
<1>0. /\ TypeOK /\ LiveOne /\ Ordered /\ HistorySound
      /\ \A f \in Flushers : FlusherSound(f)
  BY DEF HistoryInv, HistorySound, FlushSound, FlusherSound
<1>1. TypeOK'
  BY <1>0, TypeStep
<1>2. Whole' => Whole
  BY DEF Next, Whole, Tick, Sample, AppendSample, SessionEnds, PowerCut, LivePush,
         ReceiveLive, Record, Backfill, TrimHistory, PanelRestart, Delete, Connect,
         FlushLoad, FlushSend, FlushDrop, FlushDropFails, panel, ghosts
<1>3. \A t \in Times : Whole' /\ Safe(t) => Safe(t)'
  BY <1>0, SafeStep
<1>4. /\ flush \in [Flushers -> FlusherStates] /\ file \in File /\ file.lines \subseteq Times
      /\ taken \subseteq Times
      /\ \A f \in Flushers : flush[f].todo \subseteq Times /\ flush[f].chunk \subseteq Times
  BY <1>0 DEF TypeOK, FlusherStates, File
<1>5. \A t \in taken : Whole => t \in file.lines \/ Safe(t)
  BY DEF HistoryInv, Accounted, Whole, Safe
<1>6. SUFFICES /\ \A f \in Flushers : FlusherSound(f)'
               /\ Whole' => \A t \in taken' : t \in file'.lines \/ Safe(t)'
  BY DEF FlushSound, FlusherSound, Accounted, Whole, Safe
\* A flusher that stays where it is, and a buffer that loses nothing unsafe.
<1>a. ASSUME NEW f \in Flushers, flush'[f].pc = flush[f].pc, flush'[f].todo = flush[f].todo,
             flush'[f].chunk = flush[f].chunk,
             \A t \in file'.lines : t \in file.lines \/ \A m \in flush[f].todo : ~(t <= m)
      PROVE  FlusherSound(f)'
  BY <1>0, <1>2, <1>3, <1>4, <1>a, FlusherKept
<1>b. ASSUME taken' = taken, file'.lines = file.lines
      PROVE  Whole' => \A t \in taken' : t \in file'.lines \/ Safe(t)'
  BY <1>2, <1>3, <1>4, <1>5, <1>b
<1>c. ASSUME UNCHANGED <<file, flush, taken>>
      PROVE  /\ \A f \in Flushers : FlusherSound(f)'
             /\ Whole' => \A t \in taken' : t \in file'.lines \/ Safe(t)'
  BY <1>a, <1>b, <1>c
\* One flusher moves, and the buffer stays as it is.
<1>d. ASSUME UNCHANGED <<file, taken>>, NEW f \in Flushers, FlusherSound(f)',
             \A g \in Flushers \ {f} : flush'[g] = flush[g]
      PROVE  /\ \A g \in Flushers : FlusherSound(g)'
             /\ Whole' => \A t \in taken' : t \in file'.lines \/ Safe(t)'
  <2>1. ASSUME NEW g \in Flushers, g # f PROVE FlusherSound(g)'
    BY <1>a, <1>d, <2>1
  <2> QED
    BY <1>b, <1>d, <2>1
<1>7. CASE Tick
  BY <1>7, <1>c DEF Tick, agent, ghosts
<1>8. CASE Sample
  BY <1>8, <1>c DEF Sample, ghosts
<1>9. CASE AppendSample
  <2> DEFINE written == AppendLine(file, about)
  <2>1. /\ file' = Trim(written) /\ excused' = excused \cup (written.lines \ Trim(written).lines)
        /\ about # 0 /\ taken' = taken \cup {about} /\ UNCHANGED <<flush, cut>>
    BY <1>9 DEF AppendSample
  <2>2. about \in Times
    BY <1>0, <2>1 DEF TypeOK, Times
  <2>3. /\ written \in File /\ written.lines \subseteq file.lines \cup {about}
        /\ file.torn = 0 => written.lines = file.lines \cup {about}
    BY <1>4, <2>2, AppendLineIs
  <2> HIDE DEF written
  <2>4. Trim(written).lines \subseteq written.lines
    BY <2>3, TrimIs
  <2>5. ASSUME NEW f \in Flushers PROVE FlusherSound(f)'
    <3>1. \A m \in flush[f].todo : m < about /\ m \in Int /\ about \in Int
      BY <1>0, <1>4, <2>1, <2>2 DEF Ordered, Times
    <3>2. \A m \in flush[f].todo : ~(about <= m)
      BY <3>1
    <3> QED
      BY <1>a, <2>1, <2>3, <2>4, <3>2
  <2>6. ASSUME Whole', NEW t \in taken' PROVE t \in file'.lines \/ Safe(t)'
    <3>1. file.torn = 0
      BY <1>0, <1>2, <2>6 DEF HistorySound, NotTorn, Whole
    <3>2. CASE t \in file.lines \cup {about}
      BY <2>1, <2>3, <3>1, <3>2 DEF Safe
    <3>3. CASE t \notin file.lines \cup {about}
      BY <1>2, <1>3, <1>4, <1>5, <2>1, <2>6, <3>3
    <3> QED
      BY <3>2, <3>3
  <2> QED
    BY <2>5, <2>6
<1>10. CASE SessionEnds
  <2>1. \A f \in Flushers : /\ flush'[f].pc = flush[f].pc /\ flush'[f].todo = flush[f].todo
                            /\ flush'[f].chunk = flush[f].chunk
    BY <1>4, <1>10, FlushDead DEF SessionEnds
  <2>2. UNCHANGED <<file, taken>>
    BY <1>10 DEF SessionEnds
  <2> QED
    BY <1>a, <1>b, <2>1, <2>2
<1>11. CASE PowerCut
  <2>1. \A f \in Flushers : flush'[f] = Idle
    BY <1>11 DEF PowerCut
  <2>2. \A f \in Flushers : FlusherSound(f)'
    BY <2>1, FlusherIdle DEF Idle
  <2>3. CASE UNCHANGED <<file, taken, cut>>
    BY <1>b, <2>2, <2>3
  <2>4. CASE about # 0 /\ cut' = cut \cup {about}
    BY <2>2, <2>4 DEF Whole
  <2>5. CASE about # 0 /\ file' = AppendLine(file, about) /\ taken' = taken \cup {about}
    <3>1. about \in Times
      BY <1>0, <2>5 DEF TypeOK, Times
    <3>2. file.torn = 0 => file'.lines = file.lines \cup {about}
      BY <1>4, <2>5, <3>1, AppendLineIs
    <3>3. Whole => file.torn = 0
      BY <1>0 DEF HistorySound, NotTorn, Whole
    <3> QED
      BY <1>2, <1>3, <1>4, <1>5, <2>2, <2>5, <3>2, <3>3
  <2> QED
    BY <1>11, <2>3, <2>4, <2>5 DEF PowerCut
<1>12. CASE LivePush
  BY <1>12, <1>c DEF LivePush, ghosts
<1>13. CASE ReceiveLive
  BY <1>13, <1>c DEF ReceiveLive, ghosts
<1>14. CASE Record
  BY <1>14, <1>c DEF Record, agent, ghosts
<1>15. CASE Backfill
  BY <1>15, <1>c DEF Backfill, ghosts
<1>16. CASE TrimHistory
  BY <1>16, <1>c DEF TrimHistory, agent, ghosts
<1>17. CASE PanelRestart
  <2>1. \A f \in Flushers : /\ flush'[f].pc = flush[f].pc /\ flush'[f].todo = flush[f].todo
                            /\ flush'[f].chunk = flush[f].chunk
    BY <1>4, <1>17, FlushDead DEF PanelRestart
  <2>2. UNCHANGED <<file, taken>>
    BY <1>17 DEF PanelRestart
  <2> QED
    BY <1>a, <1>b, <2>1, <2>2
<1>18. CASE Delete
  BY <1>18, <1>c DEF Delete, agent, ghosts
<1>19. CASE \E f \in Flushers : Connect(f)
  <2>1. PICK f \in Flushers : Connect(f)
    BY <1>19
  <2>2. /\ flush'[f].pc = "load" /\ flush'[f].todo = {} /\ UNCHANGED <<file, taken>>
        /\ \A g \in Flushers \ {f} : flush'[g] = flush[g]
    BY <1>4, <2>1 DEF Connect, Idle, ghosts
  <2> QED
    BY <1>d, <2>2, FlusherIdle
<1>20. CASE \E f \in Flushers : FlushLoad(f)
  <2>1. PICK f \in Flushers : FlushLoad(f)
    BY <1>20
  <2>2. UNCHANGED <<file, taken>> /\ \A g \in Flushers \ {f} : flush'[g] = flush[g]
    BY <1>4, <2>1 DEF FlushLoad, ghosts
  <2>3. CASE file.lines = {}
    BY <1>4, <1>d, <2>1, <2>2, <2>3, FlusherIdle DEF FlushLoad, Idle
  <2>4. CASE file.lines # {}
    <3>1. flush'[f].pc = "send" /\ flush'[f].todo = file.lines
      BY <1>4, <2>1, <2>4 DEF FlushLoad, FlusherStates
    <3>2. FlusherSound(f)'
      BY <2>2, <2>4, <3>1 DEF FlusherSound
    <3> QED
      BY <1>d, <2>2, <3>2
  <2> QED
    BY <2>3, <2>4
<1>21. CASE \E f \in Flushers : FlushSend(f)
  <2>1. PICK f \in Flushers : FlushSend(f)
    BY <1>21
  <2>2. UNCHANGED <<file, taken>> /\ \A g \in Flushers \ {f} : flush'[g] = flush[g]
    BY <1>4, <2>1 DEF FlushSend, ghosts
  <2>3. CASE ~CanSend(f)
    <3>1. flush'[f] = Idle
      BY <1>4, <2>1, <2>3 DEF FlushSend
    <3>2. FlusherSound(f)'
      BY <3>1, FlusherIdle DEF Idle
    <3> QED
      BY <1>d, <2>2, <3>2
  <2>4. CASE CanSend(f)
    <3> DEFINE chunk == Oldest(flush[f].todo, ChunkSize)
               x == [kind |-> "backfill", ats |-> chunk]
    <3>1. /\ flush' = [flush EXCEPT ![f].pc = "drop", ![f].chunk = chunk]
          /\ queue' = Append(queue, x) /\ flush[f].pc = "send"
      BY <2>1, <2>4 DEF FlushSend
    <3>2. /\ flush'[f].pc = "drop" /\ flush'[f].chunk = chunk
          /\ flush'[f].todo = flush[f].todo
      BY <1>4, <3>1 DEF FlusherStates
    <3>3. flush[f].todo # {} /\ flush[f].todo \subseteq Times
      BY <1>0, <1>4, <3>1 DEF FlusherSound
    <3>4. /\ chunk \subseteq flush[f].todo /\ chunk # {}
          /\ \A t \in flush[f].todo, u \in chunk : t <= u => t \in chunk
      BY <3>3, OldestIs, HistoryAssumption
    <3>5. chunk \subseteq InFlight'
      <4>1. x \in Frames /\ x.kind = "backfill" /\ x.ats = chunk
        BY <3>3, <3>4 DEF Frames
      <4>2. queue \in Seq(Frames)
        BY <1>0 DEF TypeOK
      <4>3. chunk \subseteq Flight(queue')
        BY <3>1, <4>1, <4>2, AppendFlight
      <4>4. InFlight' = Flight(queue')
        BY <1>1 DEF TypeOK, InFlight, Flight
      <4> QED
        BY <4>3, <4>4
    <3> HIDE DEF chunk, x
    <3>6. FlusherSound(f)'
      <4>1. \A t \in file.lines, m \in flush[f].todo : t <= m => t \in flush[f].todo
        BY <1>0 DEF FlusherSound
      <4>2. \A t \in chunk : Safe(t)'
        BY <3>5 DEF Safe
      <4> QED
        BY <2>2, <3>2, <3>3, <3>4, <4>1, <4>2 DEF FlusherSound
    <3> QED
      BY <1>d, <2>2, <3>6
  <2> QED
    BY <2>3, <2>4
<1>22. CASE \E f \in Flushers : FlushDrop(f)
  <2>1. PICK f \in Flushers : FlushDrop(f)
    BY <1>22
  <2> DEFINE rest == flush[f].todo \ flush[f].chunk
  <2>2. /\ flush[f].pc = "drop" /\ file'.lines = {t \in file.lines : t > Max(flush[f].chunk)}
        /\ taken' = taken /\ \A g \in Flushers \ {f} : flush'[g] = flush[g]
    BY <1>4, <2>1 DEF FlushDrop, DropUpTo, Rewrite, ghosts
  <2>3. \A t \in file.lines \ file'.lines : t \in flush[f].chunk
    BY <1>0, <2>2, DropsSent
  <2>4. Whole' => \A t \in file.lines \ file'.lines : Safe(t)'
    BY <1>0, <1>2, <1>3, <1>4, <2>2, <2>3 DEF FlusherSound
  <2>5. Whole' => \A t \in taken' : t \in file'.lines \/ Safe(t)'
    BY <1>2, <1>3, <1>4, <1>5, <2>2, <2>4
  <2>6. ASSUME NEW g \in Flushers, g # f PROVE FlusherSound(g)'
    BY <1>a, <2>2, <2>6
  <2>7. FlusherSound(f)'
    <3>1. CASE rest = {}
      <4>1. flush'[f] = Idle
        BY <1>4, <2>1, <3>1 DEF FlushDrop
      <4> QED
        BY <4>1, FlusherIdle DEF Idle
    <3>2. CASE rest # {}
      <4>1. flush'[f].pc = "send" /\ flush'[f].todo = rest
        BY <1>4, <2>1, <3>2 DEF FlushDrop, FlusherStates
      <4>2. ASSUME NEW t \in file'.lines, NEW m \in rest, t <= m PROVE t \in rest
        <5>1. t \in file.lines /\ t > Max(flush[f].chunk) /\ t \in Int
          BY <1>4, <2>2 DEF Times
        <5>2. t \in flush[f].todo
          BY <1>0, <4>2, <5>1 DEF FlusherSound
        <5>3. t \notin flush[f].chunk
          <6>1. flush[f].chunk \subseteq 0..MaxTime /\ flush[f].chunk # {} /\ MaxTime \in Nat
            BY <1>0, <1>4, <2>2, HistoryAssumption DEF Times, FlusherSound
          <6>2. \A y \in flush[f].chunk : Max(flush[f].chunk) >= y /\ y \in Int /\ Max(flush[f].chunk) \in Int
            BY <6>1, MaxIs
          <6> QED
            BY <5>1, <6>2
        <5> QED
          BY <5>2, <5>3
      <4> HIDE DEF rest
      <4> QED
        BY <3>2, <4>1, <4>2 DEF FlusherSound
    <3> QED
      BY <3>1, <3>2
  <2> QED
    BY <2>5, <2>6, <2>7
<1>23. CASE \E f \in Flushers : FlushDropFails(f)
  <2>1. PICK f \in Flushers : FlushDropFails(f)
    BY <1>23
  <2>2. /\ flush'[f] = Idle /\ UNCHANGED <<file, taken>>
        /\ \A g \in Flushers \ {f} : flush'[g] = flush[g]
    BY <1>4, <2>1 DEF FlushDropFails, ghosts
  <2>3. FlusherSound(f)'
    BY <2>2, FlusherIdle DEF Idle
  <2> QED
    BY <1>d, <2>2, <2>3
<1> QED
  BY <1>7, <1>8, <1>9, <1>10, <1>11, <1>12, <1>13, <1>14, <1>15, <1>16, <1>17,
     <1>18, <1>19, <1>20, <1>21, <1>22, <1>23 DEF Next

-----------------------------------------------------------------------------
(* The theorems.                                                           *)

\* It holds when agent and panel start.
LEMMA HistoryInit == Init => HistoryInv
<1> SUFFICES ASSUME Init PROVE HistoryInv
  OBVIOUS
<1>0. /\ MaxTime \in Nat \ {0} /\ 1 \in Times /\ 0 \in 0..MaxTime /\ 0 \in 0..MaxFaults
      /\ QueueCap \in Nat /\ MaxSamples \in Nat
  BY HistoryAssumption DEF Times
<1>1. TypeOK
  <2>1. file \in File /\ hfile \in File /\ queue \in Seq(Frames) /\ Len(queue) = 0
    BY <1>0 DEF Init, NoFile, File
  <2>2. flush \in [Flushers -> FlusherStates]
    BY IdleIs DEF Init
  <2>3. ClockOK
    BY <1>0 DEF Init, ClockOK
  <2>4. AgentOK
    BY <1>0, <2>1, <2>2 DEF AgentOK, LiveOne
  <2>5. PanelOK /\ GhostOK
    BY <1>0, <2>1 DEF Init, PanelOK, GhostOK
  <2> QED
    BY <2>3, <2>4, <2>5, TypeParts
<1>2. /\ file.lines = {} /\ hfile.lines = {} /\ file.torn = 0 /\ hfile.torn = 0
      /\ \A f \in Flushers : flush[f].pc = "idle" /\ flush[f].todo = {}
  BY DEF Init, NoFile, Idle
<1>3. LiveOne /\ Ordered /\ FlushSound
  BY <1>2 DEF Init, LiveOne, Ordered, FlushSound
<1>4. BufferBounded
  <2>1. Cardinality({}) = 0
    BY FS_EmptySet
  <2> QED
    BY <1>0, <1>2, <2>1 DEF BufferBounded, Init
<1>5. LoadSound /\ OnePerMinute /\ NotTorn /\ Accounted
  BY <1>2 DEF Init, LoadSound, Loaded, OnePerMinute, NotTorn, Accounted
<1> QED
  BY <1>1, <1>3, <1>4, <1>5 DEF HistoryInv

\* Nothing changes it but an action.
LEMMA HistoryStutter == HistoryInv /\ UNCHANGED vars => HistoryInv'
<1> SUFFICES ASSUME HistoryInv, UNCHANGED vars PROVE HistoryInv'
  OBVIOUS
<1> USE DEF vars, agent, panel, ghosts
<1>1. TypeOK' /\ LiveOne' /\ Ordered' /\ BufferBounded'
  BY DEF HistoryInv, TypeOK, LiveOne, Ordered, BufferBounded
<1>2. LoadSound' /\ OnePerMinute' /\ NotTorn'
  BY DEF HistoryInv, LoadSound, OnePerMinute, NotTorn, Loaded, Cutoff
<1>3. /\ InFlight' = InFlight /\ Whole' = Whole
      /\ \A t : Recorded(t)' = Recorded(t) /\ Expired(t)' = Expired(t)
  BY DEF InFlight, Whole, Recorded, Expired, Cutoff
<1>4. Accounted'
  BY <1>3 DEF HistoryInv, Accounted
<1>5. \A t : Safe(t) => Safe(t)'
  BY <1>3 DEF Safe
<1>6. FlushSound'
  BY <1>3, <1>5 DEF HistoryInv, FlushSound
<1> QED
  BY <1>1, <1>2, <1>4, <1>6 DEF HistoryInv

\* The inductive invariant of the buffer, the handover and the history.
THEOREM HistoryInvariant == Spec => []HistoryInv
<1>1. HistoryInv /\ Next => HistoryInv'
  <2> SUFFICES ASSUME HistoryInv, Next PROVE HistoryInv'
    OBVIOUS
  <2>1. TypeOK /\ LiveOne /\ Ordered /\ BufferBounded /\ HistorySound
    BY DEF HistoryInv, HistorySound
  <2>2. TypeOK' /\ LiveOne'
    BY <2>1, TypeStep
  <2>3. Ordered' /\ BufferBounded'
    BY <2>1, OrderStep
  <2>4. HistorySound'
    BY <2>1, HistoryStep
  <2>5. FlushSound' /\ Accounted'
    BY FlushStep
  <2> QED
    BY <2>2, <2>3, <2>4, <2>5 DEF HistoryInv, HistorySound
<1>2. HistoryInv /\ [Next]_vars => HistoryInv'
  BY <1>1, HistoryStutter
<1> QED
  BY <1>2, HistoryInit, PTL DEF Spec

\* Whatever is sampled, sent, sent again, torn or restarted, the history keeps
\* one sample a minute (History.Record, Backfill, load), and the agent's buffer
\* is bounded and gives up its oldest samples first (OfflineBuffer.Append,
\* trimLocked): each power cut before a trim costs one line of the bound.
THEOREM HistoryFiles == Spec => []FilesSound
<1>1. HistoryInv => FilesSound
  BY DEF HistoryInv, FilesSound
<1> QED
  BY <1>1, HistoryInvariant, PTL

\* Every sample OfflineBuffer.Append wrote is still in the buffer, on its way
\* (flushOffline) or in the history by its minute (Backfill), or it went for
\* one of the named reasons.
THEOREM HistoryAccounted == Spec => []Accounted
<1>1. HistoryInv => Accounted
  BY DEF HistoryInv
<1> QED
  BY <1>1, HistoryInvariant, PTL
=============================================================================
