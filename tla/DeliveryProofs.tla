--------------------------- MODULE DeliveryProofs ---------------------------
(***************************************************************************)
(* Delivery for any number of servers, alerts, edits and faults.           *)
(***************************************************************************)
EXTENDS MCDelivery, FiniteSetTheorems, WellFoundedInduction, TLAPS

-----------------------------------------------------------------------------
(* The election.                                                           *)

\* A set of servers has a most stable one.
LEMMA StablestIs ==
    ASSUME NEW S, S \subseteq Servers
    PROVE  /\ S = {} => Stablest(S) = Nobody
           /\ S # {} => Stablest(S) \in S /\ \A w \in S : Stablest(S) <= w
  <1> DEFINE R == OpToRel(<, Nat)
  <1>1. IsWellFoundedOn(R, Nat)
    BY NatLessThanWellFounded
  <1> HIDE DEF R
  <1>2. S = {} => Stablest(S) = Nobody
    BY DEF Stablest
  <1>3. ASSUME S # {} PROVE Stablest(S) \in S /\ \A w \in S : Stablest(S) <= w
    <2>1. S \subseteq Nat
      BY DeliveryAssumption DEF Servers
    <2>2. PICK x \in S : \A y \in S : ~(<<y, x>> \in R)
      BY <1>1, <1>3, <2>1, WFMin
    <2>3. \A u, v \in Nat : <<v, u>> \in R <=> v < u
      BY DEF R, OpToRel
    <2>4. ASSUME NEW y \in S PROVE x <= y
      <3>1. x \in Nat /\ y \in Nat /\ ~(y < x)
        BY <2>1, <2>2, <2>3
      <3> QED
        BY <3>1
    <2> QED
      BY <1>3, <2>4 DEF Stablest
  <1> QED
    BY <1>2, <1>3

\* best takes a server other than the taken one when there is one, and one
\* outside its network when there is one.
LEMMA BestIs ==
    ASSUME conn \subseteq Servers, NEW taken
    PROVE  /\ conn \ {taken} = {} => Best(taken) = Nobody
           /\ conn \ {taken} # {} => Best(taken) \in conn /\ Best(taken) # taken
           /\ taken # Nobody /\ sameNetwork(Best(taken), taken)
                => \A v \in conn \ {taken} : sameNetwork(v, taken)
  <1> DEFINE others == conn \ {taken}
             outside == {v \in others : taken = Nobody \/ ~sameNetwork(v, taken)}
  <1>1. Best(taken) = IF outside # {} THEN Stablest(outside) ELSE Stablest(others)
    BY DEF Best
  <1>2. outside \subseteq others /\ others \subseteq conn /\ others \subseteq Servers /\ taken \notin others
    OBVIOUS
  <1>3. outside # {} => Stablest(outside) \in outside
    BY <1>2, StablestIs
  <1>4. others # {} => Stablest(others) \in others
    BY <1>2, StablestIs
  <1>5. others = {} => Stablest(others) = Nobody
    BY <1>2, StablestIs
  <1>6. taken # Nobody /\ outside # {} => ~sameNetwork(Best(taken), taken)
    BY <1>1, <1>3
  <1>7. taken # Nobody /\ outside = {} => \A v \in others : sameNetwork(v, taken)
    OBVIOUS
  <1> HIDE DEF others, outside
  <1>8. /\ others = {} => Best(taken) = Nobody
        /\ others # {} => Best(taken) \in others
    BY <1>1, <1>2, <1>3, <1>4, <1>5
  <1>9. taken # Nobody /\ sameNetwork(Best(taken), taken) => \A v \in others : sameNetwork(v, taken)
    BY <1>6, <1>7
  <1> QED
    BY <1>8, <1>9 DEF others

PinsSound == pin \in Pair /\ (pin.primary = pin.secondary => pin.primary = Nobody)

\* The cardinality of a set of one and of two.
LEMMA FewIs ==
    /\ \A x : Cardinality({x}) = 1
    /\ \A x, y : x # y => Cardinality({x, y}) = 2
  <1>1. \A x : Cardinality({x}) = 1
    BY FS_Singleton
  <1>2. ASSUME NEW x, NEW y, x # y PROVE Cardinality({x, y}) = 2
    <2>1. IsFiniteSet({x}) /\ Cardinality({x}) = 1
      BY FS_Singleton
    <2>2. Cardinality({x} \cup {y}) = Cardinality({x}) + 1
      BY <1>2, <2>1, FS_AddElement
    <2>3. {x} \cup {y} = {x, y}
      OBVIOUS
    <2> QED
      BY <2>1, <2>2, <2>3
  <1> QED
    BY <1>1, <1>2

\* The connected servers are none, one, or at least two.
LEMMA ConnIs ==
    ASSUME conn \subseteq Servers
    PROVE  /\ Cardinality(conn) \in Nat
           /\ conn = {} => Cardinality(conn) = 0
           /\ \A x \in conn : conn \ {x} = {} => Cardinality(conn) = 1
           /\ \A x \in conn : conn \ {x} # {} => Cardinality(conn) >= 2
  <1>1. IsFiniteSet(Servers)
    BY DeliveryAssumption, FS_Interval DEF Servers
  <1>2. IsFiniteSet(conn) /\ Cardinality(conn) \in Nat
    BY <1>1, FS_Subset, FS_CardinalityType
  <1>3. conn = {} => Cardinality(conn) = 0
    BY FS_EmptySet
  <1>4. ASSUME NEW x \in conn
        PROVE  /\ Cardinality(conn \ {x}) = Cardinality(conn) - 1
               /\ IsFiniteSet(conn \ {x})
    BY <1>2, FS_RemoveElement
  <1>5. ASSUME NEW x \in conn, conn \ {x} = {} PROVE Cardinality(conn) = 1
    BY <1>2, <1>4, <1>5, FS_EmptySet
  <1>6. ASSUME NEW x \in conn, conn \ {x} # {} PROVE Cardinality(conn) >= 2
    <2>1. Cardinality(conn \ {x}) # 0 /\ Cardinality(conn \ {x}) \in Nat
      BY <1>4, <1>6, FS_EmptySet, FS_CardinalityType
    <2> QED
      BY <1>2, <1>4, <2>1
  <1> QED
    BY <1>2, <1>3, <1>5, <1>6

\* The seats when one is given and the other goes to the best of the rest.
LEMMA BesideIs ==
    ASSUME conn \subseteq Servers, NEW x \in conn
    PROVE  LET y == Best(x)
           IN  /\ {x, y} \ {Nobody} \subseteq conn
               /\ Cardinality({x, y} \ {Nobody}) = (IF Cardinality(conn) < 2 THEN Cardinality(conn) ELSE 2)
               /\ y \in Seat /\ y # x
               /\ sameNetwork(y, x) => \A v \in conn \ {x} : sameNetwork(v, x)
  <1> DEFINE y == Best(x)
  <1>1. x # Nobody
    BY DEF Servers, Nobody
  <1>2. sameNetwork(y, x) => \A v \in conn \ {x} : sameNetwork(v, x)
    BY <1>1, BestIs
  <1>3. CASE conn \ {x} = {}
    <2>1. y = Nobody
      BY <1>3, BestIs
    <2>2. {x, y} \ {Nobody} = {x}
      BY <1>1, <2>1
    <2> HIDE DEF y
    <2> QED
      BY <1>1, <1>2, <1>3, <2>1, <2>2, FewIs, ConnIs DEF Seat, y
  <1>4. CASE conn \ {x} # {}
    <2>1. y \in conn /\ y # x
      BY <1>4, BestIs
    <2>2. {x, y} \ {Nobody} = {x, y}
      BY <1>1, <2>1 DEF Servers, Nobody
    <2>3. Cardinality({x, y}) = 2
      BY <2>1, FewIs
    <2>4. Cardinality(conn) \in Nat /\ Cardinality(conn) >= 2
      BY <1>4, ConnIs
    <2> HIDE DEF y
    <2> QED
      BY <1>2, <2>1, <2>2, <2>3, <2>4 DEF Seat, y
  <1> QED
    BY <1>3, <1>4

\* What electWatchers promises, for every fleet, network and pins.
LEMMA ElectSound ==
    ASSUME conn \subseteq Servers, PinsSound
    PROVE  SeatsSound /\ Elect \in Pair
  <1> DEFINE second == IF Pinned(pin.secondary) = Pinned(pin.primary) THEN Nobody ELSE Pinned(pin.secondary)
             first == IF Pinned(pin.primary) # Nobody THEN Pinned(pin.primary) ELSE Best(second)
             backup == IF second # Nobody THEN second ELSE Best(first)
             W == {first, backup} \ {Nobody}
  <1>1. Elect = [primary |-> first, secondary |-> backup]
    BY DEF Elect
  <1>2. Nobody \notin conn
    BY DEF Servers, Nobody
  <1>3. second = IF pin.secondary \in conn THEN pin.secondary ELSE Nobody
    BY <1>2 DEF Pinned, PinsSound
  <1>4. pin.primary \in conn => first = pin.primary
    BY <1>2 DEF Pinned
  <1>5. pin.primary \notin conn => first = Best(second)
    BY DEF Pinned
  <1>6. second # Nobody => backup = second
    OBVIOUS
  <1>7. second = Nobody => backup = Best(first)
    OBVIOUS
  <1> HIDE DEF first, second, backup
  <1>8. /\ first \in Seat /\ backup \in Seat /\ W \subseteq conn
        /\ Cardinality(W) = (IF Cardinality(conn) < 2 THEN Cardinality(conn) ELSE 2)
        /\ pin.secondary \in conn => backup = pin.secondary
        /\ sameNetwork(first, backup) /\ Cardinality(W) = 2
             => \/ {pin.primary, pin.secondary} \subseteq conn
                \/ \A v \in conn \ W : sameNetwork(v, first)
    <2>1. pin.secondary \in conn => backup = pin.secondary
      BY <1>2, <1>3, <1>6
    <2>2. CASE {pin.primary, pin.secondary} \subseteq conn
      <3>1. first = pin.primary /\ backup = pin.secondary /\ first # backup /\ first \in conn /\ backup \in conn
        BY <1>2, <1>4, <2>1, <2>2 DEF PinsSound
      <3>2. W = {first, backup}
        BY <1>2, <3>1
      <3>3. Cardinality(W) = 2
        <4>1. Cardinality({first, backup}) = 2
          BY <3>1, FewIs
        <4> QED
          BY <3>2, <4>1, Zenon
      <3>4. Cardinality(conn) >= 2 /\ Cardinality(conn) \in Nat
        BY <3>1, ConnIs
      <3> QED
        BY <2>1, <2>2, <3>1, <3>2, <3>3, <3>4 DEF Seat
    <2>3. CASE conn = {}
      <3>1. first = Nobody /\ backup = Nobody
        BY <1>3, <1>5, <1>7, <2>3, BestIs
      <3>2. W = {} /\ Cardinality(W) = 0 /\ Cardinality(conn) = 0
        BY <2>3, <3>1, FS_EmptySet
      <3> QED
        BY <2>3, <3>1, <3>2 DEF Seat
    <2>4. CASE conn # {} /\ second = Nobody
      <3>1. first \in conn
        BY <1>2, <1>4, <1>5, <2>4, BestIs
      <3>2. /\ W \subseteq conn /\ backup \in Seat
            /\ Cardinality(W) = (IF Cardinality(conn) < 2 THEN Cardinality(conn) ELSE 2)
            /\ sameNetwork(backup, first) => \A v \in conn \ {first} : sameNetwork(v, first)
        BY <1>7, <2>4, <3>1, BesideIs
      <3>3. sameNetwork(first, backup) => sameNetwork(backup, first)
        BY DEF sameNetwork
      <3> QED
        BY <1>2, <2>1, <3>1, <3>2, <3>3 DEF Seat
    <2>5. CASE second # Nobody /\ pin.primary \notin conn
      <3>1. backup = second /\ second \in conn /\ first = Best(second)
        BY <1>3, <1>5, <1>6, <2>5
      <3>2. W = {backup, first} \ {Nobody}
        OBVIOUS
      <3>3. /\ W \subseteq conn /\ first \in Seat
            /\ Cardinality(W) = (IF Cardinality(conn) < 2 THEN Cardinality(conn) ELSE 2)
            /\ sameNetwork(first, backup) => \A v \in conn \ {backup} : sameNetwork(v, backup)
        BY <3>1, <3>2, BesideIs
      <3>4. \A v : sameNetwork(first, backup) /\ sameNetwork(v, backup) => sameNetwork(v, first)
        BY DEF sameNetwork
      <3>5. \A v \in conn \ W : v \in conn \ {backup}
        BY <1>2, <3>1
      <3> QED
        BY <2>1, <3>1, <3>3, <3>4, <3>5 DEF Seat
    <2> QED
      BY <1>2, <1>3, <2>2, <2>3, <2>4, <2>5
  <1>9. Elect.primary = first /\ Elect.secondary = backup /\ Elect \in Pair /\ Watchers(Elect) = W
    BY <1>1, <1>8 DEF Pair, Watchers
  <1> QED
    BY <1>4, <1>8, <1>9 DEF SeatsSound

-----------------------------------------------------------------------------
(* The way of a message.                                                   *)

DTyped ==
    /\ net \in [Servers -> Nat] /\ PinsSound
    /\ conn \subseteq Servers \ dead /\ dead \subseteq Servers /\ cut \subseteq Servers
    /\ targets \in Versions /\ held \in [Servers -> Versions] /\ pushed \subseteq Pair
    /\ sync \in [at: {"idle", "push"}, pair: Pair, ver: Versions, left: SUBSET Servers, for: {"timer", "worker"}]
    /\ queue \in Seq(Message) /\ Len(queue) <= QueueCap
    /\ worker \in [at: {"idle", "sync", "ask"}, pair: Pair, msg: [id: Nat, about: Seat], seat: {"primary", "secondary"}]
    /\ slow \subseteq Slow /\ IsFiniteSet(slow)
    /\ sends \in [Msgs -> Nat] /\ denied \subseteq Msgs /\ tardy \subseteq Msgs
    /\ msgs \in 0..MaxMsgs /\ edits \in 0..MaxEdits

\* What agents still do of a message the panel gave up.
Owed(m) == {x \in slow : x.what = "send" /\ x.msg.id = m}

Untouched(m) == sends[m] = 0 /\ m \notin denied /\ m \notin tardy /\ Owed(m) = {}

\* Nothing has become of a message before a watcher is asked.
QueueFresh ==
    /\ \A m \in Msgs : m > msgs => Untouched(m)
    /\ \A i \in 1..Len(queue) : queue[i].id <= msgs /\ Untouched(queue[i].id)
    /\ \A i, j \in 1..Len(queue) : i < j => queue[i].id < queue[j].id

\* The worker has the message that came before the queue's.
WorkerHas ==
    worker.at # "idle" =>
        /\ worker.msg.id \in Msgs /\ worker.msg.id <= msgs
        /\ \A i \in 1..Len(queue) : worker.msg.id < queue[i].id

\* What has become of it by the time a seat is asked.
WorkerAsks ==
    worker.at # "idle" =>
        /\ worker.seat = "primary" => Untouched(worker.msg.id)
        /\ worker.seat = "secondary" =>
             /\ sends[worker.msg.id] + Cardinality(Owed(worker.msg.id)) <= 1
             /\ worker.msg.id \notin tardy => sends[worker.msg.id] = 0 /\ worker.msg.id \notin denied

\* Each of the two seats sends a message once at most, now or late.
TwiceAtMost == \A m \in Msgs : sends[m] + Cardinality(Owed(m)) <= 2

\* Only a message that was given up is still on some agent's hands.
GivenUp == \A m \in Msgs : m \notin tardy => Owed(m) = {}

\* The push that the worker waits for.
SyncFor == sync.at = "push" /\ sync.for = "worker" => worker.at = "sync"

DInv == /\ DTyped /\ QueueFresh /\ WorkerHas /\ WorkerAsks /\ TwiceAtMost /\ GivenUp /\ OncePerAlert /\ SyncFor

\* The bounds and what they bound are numbers.
LEMMA DNumbers ==
    ASSUME DTyped
    PROVE  /\ msgs \in Nat /\ edits \in Nat /\ MaxMsgs \in Nat /\ MaxEdits \in Nat /\ QueueCap \in Nat
           /\ \A m \in Msgs : m \in Nat /\ sends[m] \in Nat
           /\ Len(queue) \in Nat /\ \A i \in 1..Len(queue) : queue[i] \in Message /\ queue[i].id \in Msgs
  <1>1. MaxMsgs \in Nat /\ MaxEdits \in Nat /\ QueueCap \in Nat
    BY DeliveryAssumption
  <1>2. \A m \in Msgs : m \in Nat /\ sends[m] \in Nat
    BY <1>1 DEF DTyped, Msgs
  <1>3. Len(queue) \in Nat /\ \A i \in 1..Len(queue) : queue[i] \in Message
    BY DEF DTyped
  <1> QED
    BY <1>1, <1>2, <1>3 DEF DTyped, Message

\* What is owed of a message is finite, and its count is a number.
LEMMA OwedIs ==
    ASSUME DTyped
    PROVE  \A m : IsFiniteSet(Owed(m)) /\ Cardinality(Owed(m)) \in Nat /\ (Owed(m) = {} <=> Cardinality(Owed(m)) = 0)
  <1> SUFFICES ASSUME NEW m
               PROVE  IsFiniteSet(Owed(m)) /\ Cardinality(Owed(m)) \in Nat /\ (Owed(m) = {} <=> Cardinality(Owed(m)) = 0)
    OBVIOUS
  <1>1. IsFiniteSet(slow) /\ Owed(m) \subseteq slow
    BY DEF DTyped, Owed
  <1>2. IsFiniteSet(Owed(m))
    BY <1>1, FS_Subset
  <1> QED
    BY <1>2, FS_CardinalityType, FS_EmptySet

\* Nothing becomes of any message.
LEMMA FlowFrame ==
    ASSUME DInv, UNCHANGED <<queue, worker, sends, denied, tardy, msgs>>, \A m : Owed(m)' = Owed(m)
    PROVE  QueueFresh' /\ WorkerHas' /\ WorkerAsks' /\ TwiceAtMost' /\ GivenUp' /\ OncePerAlert'
  <1>1. \A m : Untouched(m)' = Untouched(m)
    BY DEF Untouched
  <1>2. QueueFresh'
    BY <1>1 DEF DInv, QueueFresh
  <1>3. WorkerHas' /\ WorkerAsks'
    BY <1>1 DEF DInv, WorkerHas, WorkerAsks
  <1>4. TwiceAtMost' /\ GivenUp' /\ OncePerAlert'
    BY DEF DInv, TwiceAtMost, GivenUp, OncePerAlert
  <1> QED
    BY <1>2, <1>3, <1>4

\* The panel starts with an empty queue.
LEMMA DInit == Init => DInv
  <1> SUFFICES ASSUME Init PROVE DInv
    OBVIOUS
  <1>1. PICK s \in Starts : net = s.net /\ pin = s.pin
    BY DEF Init
  <1>2. net \in [Servers -> Nat] /\ PinsSound
    <2>1. /\ s.net \in [1..N -> Nat] /\ s.pin \in [primary: 0..N, secondary: 0..N]
          /\ s.pin.primary = s.pin.secondary => s.pin.primary = 0
      BY DeliveryAssumption
    <2>2. 0..N = Seat
      BY DeliveryAssumption DEF Seat, Servers, Nobody
    <2> QED
      BY <1>1, <2>1, <2>2 DEF PinsSound, Pair, Servers, Nobody
  <1>3. /\ conn = Servers /\ dead = {} /\ cut = {} /\ targets = 1 /\ held = [v \in Servers |-> 0] /\ pushed = {}
        /\ sync = NotSyncing /\ queue = <<>> /\ worker = Idle /\ slow = {} /\ sends = [m \in Msgs |-> 0]
        /\ denied = {} /\ tardy = {} /\ msgs = 0 /\ edits = 0
    BY DEF Init
  <1>4. 0 \in Versions /\ 1 \in Versions /\ 0 \in 0..MaxMsgs /\ 0 \in 0..MaxEdits
    BY DeliveryAssumption DEF Versions
  <1>5. /\ sync \in [at: {"idle", "push"}, pair: Pair, ver: Versions, left: SUBSET Servers, for: {"timer", "worker"}]
        /\ worker \in [at: {"idle", "sync", "ask"}, pair: Pair, msg: [id: Nat, about: Seat], seat: {"primary", "secondary"}]
    BY <1>3, <1>4 DEF NotSyncing, Idle, NoPair, Pair, Seat
  <1>6. queue \in Seq(Message) /\ Len(queue) = 0 /\ 0 <= QueueCap
    BY <1>3, DeliveryAssumption
  <1>7. DTyped
    <2>1. IsFiniteSet(slow)
      BY <1>3, FS_EmptySet
    <2> QED
      BY <1>2, <1>3, <1>4, <1>5, <1>6, <2>1 DEF DTyped
  <1>8. \A m : Owed(m) = {}
    BY <1>3 DEF Owed
  <1>9. \A m \in Msgs : Untouched(m) /\ sends[m] = 0
    BY <1>3, <1>8 DEF Untouched
  <1>10. QueueFresh /\ WorkerHas /\ WorkerAsks /\ SyncFor
    BY <1>3, <1>6, <1>9 DEF QueueFresh, WorkerHas, WorkerAsks, SyncFor, Idle, NotSyncing
  <1>11. TwiceAtMost
    BY <1>8, <1>9, FS_EmptySet DEF TwiceAtMost
  <1>12. GivenUp /\ OncePerAlert
    BY <1>3, <1>8, <1>9 DEF GivenUp, OncePerAlert
  <1> QED
    BY <1>7, <1>10, <1>11, <1>12 DEF DInv

\* StartSync puts an elected pair on its way.
LEMMA StartSyncIs ==
    ASSUME DInv, NEW for \in {"timer", "worker"}, StartSync(for)
    PROVE  /\ pushed' \subseteq Pair /\ sync'.at = "push" /\ sync'.for = for
           /\ sync' \in [at: {"idle", "push"}, pair: Pair, ver: Versions, left: SUBSET Servers, for: {"timer", "worker"}]
  <1>1. Elect \in Pair
    BY ElectSound DEF DInv, DTyped
  <1> QED
    BY <1>1 DEF DInv, DTyped, StartSync

\* The timer
LEMMA DSync == DInv /\ Sync => DInv'
  <1> SUFFICES ASSUME DInv, Sync PROVE DInv'
    OBVIOUS
  <1>1. /\ UNCHANGED <<net, pin, conn, dead, cut, targets, held, queue, worker, slow, sends, denied, tardy, msgs, edits>>
        /\ StartSync("timer")
    BY DEF Sync, world, outcome, bounds
  <1>2. DTyped'
    BY <1>1, StartSyncIs DEF DInv, DTyped, PinsSound
  <1>3. \A m : Owed(m)' = Owed(m)
    BY <1>1 DEF Owed
  <1>4. QueueFresh' /\ WorkerHas' /\ WorkerAsks' /\ TwiceAtMost' /\ GivenUp' /\ OncePerAlert'
    BY <1>1, <1>3, FlowFrame
  <1>5. SyncFor'
    BY <1>1, StartSyncIs DEF SyncFor
  <1> QED
    BY <1>2, <1>4, <1>5 DEF DInv

\* A push, answered or not.
LEMMA DPush == ASSUME DInv, NEW v \in Servers, Push(v) PROVE DInv'
  <1>1. /\ UNCHANGED <<net, pin, conn, dead, cut, targets, pushed, queue, worker, sends, denied, tardy, msgs, edits>>
        /\ sync' = [sync EXCEPT !.left = @ \ {v}]
    BY DEF Push, world, outcome
  <1>2. /\ sync' \in [at: {"idle", "push"}, pair: Pair, ver: Versions, left: SUBSET Servers, for: {"timer", "worker"}]
        /\ sync'.at = sync.at /\ sync'.for = sync.for
    BY <1>1 DEF DInv, DTyped
  <1>3. Config(v) \in Versions
    BY DeliveryAssumption DEF DInv, DTyped, Config, Versions
  <1>4. /\ held' \in [Servers -> Versions] /\ slow' \subseteq Slow /\ IsFiniteSet(slow')
        /\ \A m : Owed(m)' = Owed(m)
    <2>1. held' = held \/ held' = [held EXCEPT ![v] = Config(v)]
      BY DEF Push
    <2>2. held' \in [Servers -> Versions]
      BY <1>3, <2>1 DEF DInv, DTyped
    <2>3. CASE slow' = slow
      BY <2>2, <2>3 DEF DInv, DTyped, Owed
    <2>4. CASE slow' = slow \cup {[what |-> "push", to |-> v, ver |-> Config(v)]}
      <3>1. IsFiniteSet(slow')
        BY <2>4, FS_AddElement DEF DInv, DTyped
      <3>2. [what |-> "push", to |-> v, ver |-> Config(v)] \in Slow
        BY <1>3 DEF Slow
      <3>3. \A m : Owed(m)' = Owed(m)
        BY <2>4 DEF Owed
      <3> QED
        BY <2>2, <2>4, <3>1, <3>2, <3>3 DEF DInv, DTyped
    <2> QED
      BY <2>3, <2>4 DEF Push
  <1>5. DTyped'
    BY <1>1, <1>2, <1>4 DEF DInv, DTyped, PinsSound
  <1>6. QueueFresh' /\ WorkerHas' /\ WorkerAsks' /\ TwiceAtMost' /\ GivenUp' /\ OncePerAlert'
    BY <1>1, <1>4, FlowFrame
  <1>7. SyncFor'
    BY <1>1, <1>2 DEF DInv, SyncFor
  <1> QED
    BY <1>5, <1>6, <1>7 DEF DInv

\* SyncWatchers returns.
LEMMA DEndSync == DInv /\ EndSync => DInv'
  <1> SUFFICES ASSUME DInv, EndSync PROVE DInv'
    OBVIOUS
  <1>1. /\ UNCHANGED <<net, pin, conn, dead, cut, targets, held, pushed, queue, slow, sends, denied, tardy, msgs, edits>>
        /\ sync.at = "push" /\ sync' = NotSyncing
        /\ worker' = IF sync.for = "worker" THEN [worker EXCEPT !.at = "ask"] ELSE worker
    BY DEF EndSync, world, outcome, bounds
  <1>2. /\ sync' \in [at: {"idle", "push"}, pair: Pair, ver: Versions, left: SUBSET Servers, for: {"timer", "worker"}]
        /\ sync'.at = "idle"
    BY <1>1, DeliveryAssumption DEF NotSyncing, NoPair, Pair, Seat, Versions
  <1>3. /\ worker' \in [at: {"idle", "sync", "ask"}, pair: Pair, msg: [id: Nat, about: Seat], seat: {"primary", "secondary"}]
        /\ worker'.msg = worker.msg /\ worker'.seat = worker.seat
        /\ worker'.at # "idle" => worker.at # "idle"
    BY <1>1 DEF DInv, DTyped, SyncFor
  <1>4. DTyped'
    BY <1>1, <1>2, <1>3 DEF DInv, DTyped, PinsSound
  <1>5. \A m : Owed(m)' = Owed(m) /\ Untouched(m)' = Untouched(m)
    BY <1>1 DEF Owed, Untouched
  <1>6. QueueFresh'
    BY <1>1, <1>5 DEF DInv, QueueFresh
  <1>7. WorkerHas'
    BY <1>1, <1>3 DEF DInv, WorkerHas
  <1>8. WorkerAsks'
    BY <1>1, <1>3, <1>5 DEF DInv, WorkerAsks
  <1>9. TwiceAtMost' /\ GivenUp' /\ OncePerAlert'
    BY <1>1, <1>5 DEF DInv, TwiceAtMost, GivenUp, OncePerAlert
  <1>10. SyncFor'
    BY <1>2 DEF SyncFor
  <1> QED
    BY <1>4, <1>6, <1>7, <1>8, <1>9, <1>10 DEF DInv

\* Edits of the destinations, and the fleet's sockets and lines.
LEMMA DWorld ==
    DInv /\ (SetTargets \/ \E v \in Servers : SocketLost(v) \/ LineLost(v) \/ Returns(v)) => DInv'
  <1> SUFFICES ASSUME DInv, SetTargets \/ \E v \in Servers : SocketLost(v) \/ LineLost(v) \/ Returns(v) PROVE DInv'
    OBVIOUS
  <1>1. UNCHANGED <<net, pin, held, pushed, sync, queue, worker, slow, sends, denied, tardy, msgs>>
    BY DEF SetTargets, SocketLost, LineLost, Returns, world, outcome, bounds
  <1>2. targets' \in Versions /\ edits' \in 0..MaxEdits
    <2>1. CASE SetTargets
      BY <2>1, DeliveryAssumption DEF SetTargets, DInv, DTyped, Versions
    <2>2. CASE UNCHANGED <<targets, edits>>
      BY <2>2 DEF DInv, DTyped
    <2> QED
      BY <2>1, <2>2 DEF SocketLost, LineLost, Returns, bounds
  <1>3. conn' \subseteq Servers \ dead' /\ dead' \subseteq Servers /\ cut' \subseteq Servers
    BY DEF SetTargets, SocketLost, LineLost, Returns, DInv, DTyped, world
  <1>4. DTyped'
    BY <1>1, <1>2, <1>3 DEF DInv, DTyped, PinsSound
  <1>5. \A m : Owed(m)' = Owed(m)
    BY <1>1 DEF Owed
  <1>6. QueueFresh' /\ WorkerHas' /\ WorkerAsks' /\ TwiceAtMost' /\ GivenUp' /\ OncePerAlert'
    BY <1>1, <1>5, FlowFrame
  <1>7. SyncFor'
    BY <1>1 DEF DInv, SyncFor
  <1> QED
    BY <1>4, <1>6, <1>7 DEF DInv

\* An alert is fired: its message is new, and last in the queue or dropped.
LEMMA DAlert == ASSUME DInv, NEW v \in Seat, Alert(v) PROVE DInv'
  <1> DEFINE m1 == [id |-> msgs + 1, about |-> v]
  <1>1. /\ UNCHANGED <<net, pin, conn, dead, cut, targets, held, pushed, sync, worker, slow, sends, denied, tardy, edits>>
        /\ msgs < MaxMsgs /\ msgs' = msgs + 1
        /\ queue' = queue \/ (Len(queue) < QueueCap /\ queue' = Append(queue, m1))
    BY DEF Alert, Enqueue, world, outcome
  <1>2. DTyped
    BY DEF DInv
  <1>3. m1 \in Message /\ m1.id = msgs + 1 /\ msgs' \in 0..MaxMsgs /\ msgs + 1 \in Msgs
    BY <1>1, <1>2, DNumbers DEF Message, Msgs
  <1>4. /\ queue' \in Seq(Message) /\ Len(queue') \in Nat /\ Len(queue') <= QueueCap
        /\ \A i \in 1..Len(queue') : (i \in 1..Len(queue) /\ queue'[i] = queue[i])
                                     \/ (i = Len(queue) + 1 /\ queue'[i] = m1)
    <2> HIDE DEF m1
    <2>1. queue \in Seq(Message) /\ Len(queue) <= QueueCap /\ QueueCap \in Nat
      BY <1>2, DNumbers DEF DTyped
    <2>2. CASE queue' = queue
      BY <2>1, <2>2
    <2>3. CASE Len(queue) < QueueCap /\ queue' = Append(queue, m1)
      BY <1>3, <2>1, <2>3
    <2> QED
      BY <1>1, <2>2, <2>3
  <1>5. DTyped'
    BY <1>1, <1>3, <1>4 DEF DInv, DTyped, PinsSound
  <1>6. \A m : Owed(m)' = Owed(m) /\ Untouched(m)' = Untouched(m)
    BY <1>1 DEF Owed, Untouched
  <1>7. Untouched(msgs + 1)
    BY <1>2, <1>3, DNumbers DEF DInv, QueueFresh
  <1> HIDE DEF m1
  <1>8. QueueFresh'
    <2>1. \A m \in Msgs : m > msgs' => Untouched(m)'
      BY <1>1, <1>2, <1>6, DNumbers DEF DInv, QueueFresh
    <2>2. \A i \in 1..Len(queue') : queue'[i].id <= msgs' /\ Untouched(queue[i].id)'
      <3>1. SUFFICES ASSUME NEW i \in 1..Len(queue') PROVE queue'[i].id <= msgs' /\ Untouched(queue'[i].id)
        BY <1>6
      <3>2. CASE i \in 1..Len(queue) /\ queue'[i] = queue[i]
        BY <1>1, <1>2, <3>2, DNumbers DEF DInv, QueueFresh
      <3>3. CASE queue'[i] = m1
        BY <1>1, <1>2, <1>3, <1>7, <3>3, DNumbers
      <3> QED
        BY <1>4, <3>2, <3>3
    <2>3. ASSUME NEW i \in 1..Len(queue'), NEW j \in 1..Len(queue'), i < j PROVE queue'[i].id < queue'[j].id
      <3>1. i \in 1..Len(queue) /\ queue'[i] = queue[i]
        BY <1>2, <1>4, <2>3, DNumbers
      <3>2. CASE j \in 1..Len(queue) /\ queue'[j] = queue[j]
        BY <2>3, <3>1, <3>2 DEF DInv, QueueFresh
      <3>3. CASE queue'[j] = m1
        BY <1>2, <1>3, <3>1, <3>3, DNumbers DEF DInv, QueueFresh
      <3> QED
        BY <1>4, <3>2, <3>3
    <2> QED
      BY <2>1, <2>2, <2>3 DEF QueueFresh
  <1>9. WorkerHas'
    <2>1. SUFFICES ASSUME worker.at # "idle"
                   PROVE  /\ worker.msg.id \in Msgs /\ worker.msg.id <= msgs'
                          /\ \A i \in 1..Len(queue') : worker.msg.id < queue'[i].id
      BY <1>1 DEF WorkerHas
    <2>2. /\ worker.msg.id \in Msgs /\ worker.msg.id <= msgs /\ worker.msg.id \in Nat
          /\ \A i \in 1..Len(queue) : worker.msg.id < queue[i].id
      BY <1>2, <2>1, DNumbers DEF DInv, WorkerHas
    <2>3. msgs \in Nat /\ msgs' = msgs + 1
      BY <1>1, <1>2, DNumbers
    <2>4. worker.msg.id < m1.id
      BY <1>3, <2>2, <2>3
    <2> QED
      BY <1>4, <2>2, <2>3, <2>4, SMTT(30)
  <1>10. WorkerAsks'
    BY <1>1, <1>6 DEF DInv, WorkerAsks
  <1>11. TwiceAtMost' /\ GivenUp' /\ OncePerAlert' /\ SyncFor'
    BY <1>1, <1>6 DEF DInv, TwiceAtMost, GivenUp, OncePerAlert, SyncFor
  <1> QED
    BY <1>5, <1>8, <1>9, <1>10, <1>11 DEF DInv

\* The head of the queue goes to the worker.
LEMMA DTake == DInv /\ Take => DInv'
  <1> SUFFICES ASSUME DInv, Take PROVE DInv'
    OBVIOUS
  <1>1. /\ UNCHANGED <<net, pin, conn, dead, cut, targets, held, slow, sends, denied, tardy, msgs, edits>>
        /\ worker.at = "idle" /\ queue # <<>> /\ queue' = Tail(queue)
    BY DEF Take, world, outcome, bounds
  <1>2. DTyped
    BY DEF DInv
  <1>3. Elect \in Pair
    BY <1>2, ElectSound DEF DTyped
  <1>4. /\ Len(queue) \in Nat /\ Len(queue) >= 1 /\ Head(queue) = queue[1] /\ queue[1] \in Message
        /\ queue' \in Seq(Message) /\ Len(queue') = Len(queue) - 1
        /\ \A i \in 1..Len(queue') : queue'[i] = queue[i + 1] /\ i + 1 \in 1..Len(queue)
    BY <1>1 DEF DInv, DTyped
  <1>5. /\ pushed' \subseteq Pair
        /\ sync' \in [at: {"idle", "push"}, pair: Pair, ver: Versions, left: SUBSET Servers, for: {"timer", "worker"}]
        /\ \/ worker' = worker /\ sync' = sync
           \/ worker' = [at |-> "sync", pair |-> Elect, msg |-> Head(queue), seat |-> "primary"]
           \/ worker' = [at |-> "ask", pair |-> Elect, msg |-> Head(queue), seat |-> "primary"] /\ sync' = sync
    <2>1. CASE UNCHANGED <<worker, sync, pushed>>
      BY <2>1 DEF DInv, DTyped
    <2>2. CASE /\ StartSync("worker")
               /\ worker' = [at |-> "sync", pair |-> Elect, msg |-> Head(queue), seat |-> "primary"]
      BY <2>2, StartSyncIs
    <2>3. CASE /\ worker' = [at |-> "ask", pair |-> Elect, msg |-> Head(queue), seat |-> "primary"]
               /\ UNCHANGED <<sync, pushed>>
      BY <2>3 DEF DInv, DTyped
    <2> QED
      BY <2>1, <2>2, <2>3 DEF Take
  <1>6. /\ worker' \in [at: {"idle", "sync", "ask"}, pair: Pair, msg: [id: Nat, about: Seat], seat: {"primary", "secondary"}]
        /\ worker'.at # "idle" => worker'.msg = queue[1] /\ worker'.seat = "primary"
    <2>1. queue[1] \in [id: Nat, about: Seat]
      BY <1>2, <1>4, DNumbers DEF Message
    <2> QED
      BY <1>1, <1>3, <1>4, <1>5, <2>1 DEF DInv, DTyped
  <1>7. DTyped'
    BY <1>1, <1>2, <1>4, <1>5, <1>6, DNumbers, SMTT(30) DEF DTyped, PinsSound
  <1>8. \A m : Owed(m)' = Owed(m) /\ Untouched(m)' = Untouched(m)
    BY <1>1 DEF Owed, Untouched
  <1>9. QueueFresh'
    <2>1. \A m \in Msgs : m > msgs' => Untouched(m)'
      BY <1>1, <1>8 DEF DInv, QueueFresh
    <2>2. \A i \in 1..Len(queue') : queue'[i].id <= msgs' /\ Untouched(queue[i].id)'
      BY <1>1, <1>4, <1>8 DEF DInv, QueueFresh
    <2>3. \A i, j \in 1..Len(queue') : i < j => queue'[i].id < queue'[j].id
      BY <1>4 DEF DInv, QueueFresh
    <2> QED
      BY <2>1, <2>2, <2>3 DEF QueueFresh
  <1>10. Untouched(queue[1].id) /\ queue[1].id \in Msgs /\ queue[1].id <= msgs
         /\ \A i \in 1..Len(queue') : queue[1].id < queue'[i].id
    <2>1. 1 \in 1..Len(queue) /\ \A i \in 1..Len(queue') : i + 1 \in 1..Len(queue) /\ 1 < i + 1 /\ queue'[i] = queue[i + 1]
      BY <1>4
    <2>2. /\ Untouched(queue[1].id) /\ queue[1].id <= msgs
          /\ \A j \in 1..Len(queue) : 1 < j => queue[1].id < queue[j].id
      BY <2>1 DEF DInv, QueueFresh
    <2>3. queue[1].id \in Msgs
      BY <1>2, <2>1, DNumbers
    <2> QED
      BY <2>1, <2>2, <2>3
  <1>11. WorkerHas'
    BY <1>1, <1>6, <1>10 DEF WorkerHas
  <1>12. WorkerAsks'
    <2>1. worker'.at # "idle" => worker'.seat = "primary" /\ Untouched(worker'.msg.id)
      BY <1>6, <1>10
    <2>2. worker'.at # "idle" => worker'.seat = "primary" /\ Untouched(worker.msg.id)'
      BY <1>8, <2>1
    <2> QED
      BY <2>2 DEF WorkerAsks
  <1>13. TwiceAtMost' /\ GivenUp' /\ OncePerAlert'
    BY <1>1, <1>8 DEF DInv, TwiceAtMost, GivenUp, OncePerAlert
  <1>14. SyncFor'
    BY <1>1, <1>5 DEF DInv, SyncFor
  <1> QED
    BY <1>7, <1>9, <1>11, <1>12, <1>13, <1>14 DEF DInv

\* Something becomes of one message, which is not in the queue.
LEMMA OneMessage ==
    ASSUME DInv, UNCHANGED <<queue, msgs>>, NEW id \in Msgs, id <= msgs, \A i \in 1..Len(queue) : queue[i].id # id,
           \A m \in Msgs \ {id} : /\ sends'[m] = sends[m] /\ Owed(m)' = Owed(m)
                                  /\ (m \in denied' <=> m \in denied) /\ (m \in tardy' <=> m \in tardy),
           sends'[id] + Cardinality(Owed(id)') <= 2,
           id \notin tardy' => Owed(id)' = {} /\ sends'[id] <= 1 /\ (id \in denied' => sends'[id] = 0)
    PROVE  QueueFresh' /\ TwiceAtMost' /\ GivenUp' /\ OncePerAlert'
  <1>1. \A m \in Msgs \ {id} : Untouched(m)' = Untouched(m)
    BY DEF Untouched
  <1>2. QueueFresh'
    <2>1. \A m \in Msgs : m > msgs' => m # id /\ Untouched(m)
      <3>1. DTyped
        BY DEF DInv
      <3> QED
        BY <3>1, DNumbers DEF DInv, QueueFresh
    <2>2. \A m \in Msgs : m > msgs' => Untouched(m)'
      BY <1>1, <2>1
    <2>3. \A i \in 1..Len(queue) : queue[i].id \in Msgs \ {id} /\ queue[i].id <= msgs /\ Untouched(queue[i].id)
      <3>1. DTyped
        BY DEF DInv
      <3> QED
        BY <3>1, DNumbers DEF DInv, QueueFresh
    <2>4. \A i \in 1..Len(queue') : queue'[i].id <= msgs' /\ Untouched(queue[i].id)'
      BY <1>1, <2>3
    <2>5. \A i, j \in 1..Len(queue') : i < j => queue'[i].id < queue'[j].id
      BY DEF DInv, QueueFresh
    <2> QED
      BY <2>2, <2>4, <2>5 DEF QueueFresh
  <1>3. TwiceAtMost'
    <2>1. \A m \in Msgs : m # id => sends'[m] + Cardinality(Owed(m)') <= 2
      BY DEF DInv, TwiceAtMost
    <2> QED
      BY <2>1 DEF TwiceAtMost
  <1>4. GivenUp'
    BY DEF DInv, GivenUp
  <1>5. OncePerAlert'
    BY DEF DInv, OncePerAlert
  <1> QED
    BY <1>2, <1>3, <1>4, <1>5

\* The worker turns to the next seat or is done.
LEMMA WorkerMoves ==
    ASSUME DInv, worker.at = "ask", worker' = Idle \/ worker' = NextSeat, UNCHANGED <<queue, msgs, sync>>
    PROVE  /\ worker' \in [at: {"idle", "sync", "ask"}, pair: Pair, msg: [id: Nat, about: Seat], seat: {"primary", "secondary"}]
           /\ WorkerHas' /\ SyncFor'
           /\ worker'.at # "idle" => worker.seat = "primary" /\ worker'.seat = "secondary" /\ worker'.msg = worker.msg
  <1>1. Idle \in [at: {"idle", "sync", "ask"}, pair: Pair, msg: [id: Nat, about: Seat], seat: {"primary", "secondary"}]
        /\ Idle.at = "idle"
    BY DEF Idle, NoPair, Pair, Seat
  <1>2. worker' = Idle \/ (worker.seat = "primary" /\ worker' = [worker EXCEPT !.seat = "secondary"])
    BY DEF NextSeat
  <1>3. /\ worker' \in [at: {"idle", "sync", "ask"}, pair: Pair, msg: [id: Nat, about: Seat], seat: {"primary", "secondary"}]
        /\ worker'.at # "idle" => worker.seat = "primary" /\ worker'.seat = "secondary" /\ worker'.msg = worker.msg
    BY <1>1, <1>2 DEF DInv, DTyped
  <1>4. WorkerHas'
    BY <1>3 DEF DInv, WorkerHas
  <1>5. SyncFor'
    BY DEF DInv, SyncFor
  <1> QED
    BY <1>3, <1>4, <1>5

\* No watcher in that seat.
LEMMA DAskNobody == DInv /\ AskNobody => DInv'
  <1> SUFFICES ASSUME DInv, AskNobody PROVE DInv'
    OBVIOUS
  <1>1. /\ UNCHANGED <<net, pin, conn, dead, cut, targets, held, pushed, sync, queue, slow, sends, denied, tardy, msgs, edits>>
        /\ worker.at = "ask" /\ worker' = NextSeat
    BY DEF AskNobody, world, outcome, bounds
  <1>2. /\ worker' \in [at: {"idle", "sync", "ask"}, pair: Pair, msg: [id: Nat, about: Seat], seat: {"primary", "secondary"}]
        /\ WorkerHas' /\ SyncFor'
        /\ worker'.at # "idle" => worker.seat = "primary" /\ worker'.seat = "secondary" /\ worker'.msg = worker.msg
    BY <1>1, WorkerMoves
  <1>3. DTyped'
    BY <1>1, <1>2 DEF DInv, DTyped, PinsSound
  <1>4. \A m : Owed(m)' = Owed(m) /\ Untouched(m)' = Untouched(m)
    BY <1>1 DEF Owed, Untouched
  <1>5. QueueFresh' /\ TwiceAtMost' /\ GivenUp' /\ OncePerAlert'
    BY <1>1, <1>4 DEF DInv, QueueFresh, TwiceAtMost, GivenUp, OncePerAlert
  <1>6. WorkerAsks'
    <2>1. SUFFICES ASSUME worker'.at # "idle"
                   PROVE  /\ sends'[worker.msg.id] + Cardinality(Owed(worker.msg.id)) <= 1
                          /\ worker.msg.id \notin tardy => sends'[worker.msg.id] = 0 /\ worker.msg.id \notin denied
      BY <1>1, <1>2, <1>4 DEF WorkerAsks
    <2>2. Untouched(worker.msg.id)
      BY <1>1, <1>2, <2>1 DEF DInv, WorkerAsks
    <2> QED
      BY <1>1, <2>2, FS_EmptySet DEF Untouched
  <1> QED
    BY <1>2, <1>3, <1>5, <1>6 DEF DInv

\* What the worker knows of its message.
LEMMA AskedIs ==
    ASSUME DInv, worker.at = "ask"
    PROVE  LET id == worker.msg.id
           IN  /\ id \in Msgs /\ id <= msgs /\ \A i \in 1..Len(queue) : queue[i].id # id
               /\ sends[id] \in Nat /\ Cardinality(Owed(id)) \in Nat
               /\ sends[id] + Cardinality(Owed(id)) <= 1
               /\ worker.seat = "primary" => sends[id] = 0 /\ Cardinality(Owed(id)) = 0
               /\ id \notin tardy => sends[id] = 0 /\ id \notin denied /\ Owed(id) = {}
  <1> DEFINE id == worker.msg.id
  <1>1. DTyped
    BY DEF DInv
  <1>2. id \in Msgs /\ id <= msgs /\ \A i \in 1..Len(queue) : queue[i].id # id
    BY <1>1, DNumbers DEF DInv, WorkerHas
  <1>3. sends[id] \in Nat /\ Cardinality(Owed(id)) \in Nat
    BY <1>1, <1>2, DNumbers, OwedIs
  <1>4. id \notin tardy => Owed(id) = {}
    BY <1>2 DEF DInv, GivenUp
  <1>5. CASE worker.seat = "primary"
    <2>1. Untouched(id)
      BY <1>5 DEF DInv, WorkerAsks
    <2>2. sends[id] = 0 /\ id \notin denied /\ Cardinality(Owed(id)) = 0
      BY <2>1, FS_EmptySet DEF Untouched
    <2> QED
      BY <1>2, <1>3, <1>4, <2>2
  <1>6. CASE worker.seat = "secondary"
    <2>1. /\ sends[id] + Cardinality(Owed(id)) <= 1
          /\ id \notin tardy => sends[id] = 0 /\ id \notin denied
      BY <1>6 DEF DInv, WorkerAsks
    <2> QED
      BY <1>2, <1>3, <1>4, <1>6, <2>1
  <1>7. worker.seat \in {"primary", "secondary"}
    BY <1>1 DEF DTyped
  <1> QED
    BY <1>5, <1>6, <1>7

\* A watcher answers.
LEMMA DAsk == ASSUME DInv, NEW taken \in BOOLEAN, Ask(taken) PROVE DInv'
  <1> DEFINE answer == Answer(worker.pair[worker.seat], worker.msg, taken)
  <1>0. PICK id : id = worker.msg.id
    OBVIOUS
  <1>1. /\ UNCHANGED <<net, pin, conn, dead, cut, targets, held, pushed, sync, queue, slow, tardy, msgs, edits>>
        /\ worker.at = "ask"
        /\ IF answer = "sent" THEN Sent(worker.msg) ELSE UNCHANGED sends
        /\ denied' = IF answer = "deny" THEN denied \cup {worker.msg.id} ELSE denied
        /\ worker' = IF Done(answer) THEN Idle ELSE NextSeat
    BY DEF Ask, world, bounds
  <1>2. DTyped
    BY DEF DInv
  <1>3. /\ id \in Msgs /\ id <= msgs /\ \A i \in 1..Len(queue) : queue[i].id # id
        /\ sends[id] \in Nat /\ Cardinality(Owed(id)) \in Nat
        /\ sends[id] + Cardinality(Owed(id)) <= 1
        /\ worker.seat = "primary" => sends[id] = 0 /\ Cardinality(Owed(id)) = 0
        /\ id \notin tardy => sends[id] = 0 /\ id \notin denied /\ Owed(id) = {}
    BY <1>0, <1>1, AskedIs
  <1>4. /\ worker' \in [at: {"idle", "sync", "ask"}, pair: Pair, msg: [id: Nat, about: Seat], seat: {"primary", "secondary"}]
        /\ WorkerHas' /\ SyncFor'
        /\ worker'.at # "idle" => worker.seat = "primary" /\ worker'.seat = "secondary" /\ worker'.msg = worker.msg
    BY <1>1, WorkerMoves
  <1>5. worker'.at # "idle" => answer # "sent" /\ answer # "deny"
    BY <1>1 DEF Done, Idle
  <1>6. /\ sends' \in [Msgs -> Nat] /\ \A m \in Msgs \ {id} : sends'[m] = sends[m]
        /\ answer = "sent" => sends'[id] = sends[id] + 1
        /\ answer # "sent" => sends'[id] = sends[id]
    <2>1. sends \in [Msgs -> Nat]
      BY <1>2 DEF DTyped
    <2>2. CASE answer = "sent"
      <3>1. sends' = [sends EXCEPT ![id] = @ + 1]
        BY <1>0, <1>1, <2>2 DEF Sent
      <3> QED
        BY <1>3, <2>1, <2>2, <3>1
    <2>3. CASE answer # "sent"
      BY <1>1, <2>1, <2>3
    <2> QED
      BY <2>2, <2>3
  <1>7. /\ denied' \subseteq Msgs /\ \A m \in Msgs \ {id} : m \in denied' <=> m \in denied
        /\ answer # "deny" => denied' = denied
    BY <1>0, <1>1, <1>2, <1>3 DEF DTyped
  <1>8. DTyped'
    BY <1>1, <1>2, <1>4, <1>6, <1>7 DEF DTyped, PinsSound
  <1>9. \A m : Owed(m)' = Owed(m)
    BY <1>1 DEF Owed
  <1> HIDE DEF answer
  <1>10. QueueFresh' /\ TwiceAtMost' /\ GivenUp' /\ OncePerAlert'
    <2>1. sends'[id] + Cardinality(Owed(id)') <= 2
      BY <1>3, <1>6, <1>9
    <2>2. id \notin tardy' => Owed(id)' = {} /\ sends'[id] <= 1 /\ (id \in denied' => sends'[id] = 0)
      BY <1>1, <1>3, <1>6, <1>7, <1>9
    <2>3. \A m \in Msgs \ {id} : /\ sends'[m] = sends[m] /\ Owed(m)' = Owed(m)
                                 /\ (m \in denied' <=> m \in denied) /\ (m \in tardy' <=> m \in tardy)
      BY <1>1, <1>6, <1>7, <1>9
    <2> QED
      BY <1>1, <1>3, <2>1, <2>2, <2>3, OneMessage
  <1>11. WorkerAsks'
    <2>1. SUFFICES ASSUME worker'.at # "idle"
                   PROVE  /\ sends'[id] + Cardinality(Owed(id)) <= 1
                          /\ id \notin tardy' => sends'[id] = 0 /\ id \notin denied'
      BY <1>0, <1>4, <1>9 DEF WorkerAsks
    <2> QED
      BY <1>1, <1>3, <1>5, <1>6, <1>7, <2>1
  <1> QED
    BY <1>4, <1>8, <1>10, <1>11 DEF DInv

\* A watcher that is given up goes on, and the message is marked.
LEMMA DAskLate == DInv /\ AskLate => DInv'
  <1> SUFFICES ASSUME DInv, AskLate PROVE DInv'
    OBVIOUS
  <1>0. PICK id, x : id = worker.msg.id /\ x = [what |-> "send", to |-> worker.pair[worker.seat], msg |-> worker.msg]
    OBVIOUS
  <1>1. /\ UNCHANGED <<net, pin, conn, dead, cut, targets, held, pushed, sync, queue, sends, denied, msgs, edits>>
        /\ worker.at = "ask" /\ worker.pair[worker.seat] \in conn
        /\ slow' = slow \cup {x} /\ tardy' = tardy \cup {id} /\ worker' = NextSeat
    BY <1>0 DEF AskLate, world
  <1>2. DTyped
    BY DEF DInv
  <1>3. /\ id \in Msgs /\ id <= msgs /\ \A i \in 1..Len(queue) : queue[i].id # id
        /\ sends[id] \in Nat /\ Cardinality(Owed(id)) \in Nat
        /\ sends[id] + Cardinality(Owed(id)) <= 1
        /\ worker.seat = "primary" => sends[id] = 0 /\ Cardinality(Owed(id)) = 0
    BY <1>0, <1>1, AskedIs
  <1>4. /\ worker' \in [at: {"idle", "sync", "ask"}, pair: Pair, msg: [id: Nat, about: Seat], seat: {"primary", "secondary"}]
        /\ WorkerHas' /\ SyncFor'
        /\ worker'.at # "idle" => worker.seat = "primary" /\ worker'.seat = "secondary" /\ worker'.msg = worker.msg
    BY <1>1, WorkerMoves
  <1>5. x \in Slow
    <2>1. worker.msg \in Message
      BY <1>0, <1>2, <1>3 DEF DTyped, Message
    <2>2. worker.pair[worker.seat] \in Servers
      BY <1>1, <1>2 DEF DTyped
    <2> QED
      BY <1>0, <2>1, <2>2 DEF Slow
  <1>6. IsFiniteSet(slow')
    BY <1>1, <1>2, FS_AddElement DEF DTyped
  <1>7. DTyped'
    BY <1>1, <1>2, <1>3, <1>4, <1>5, <1>6 DEF DTyped, PinsSound
  <1>8. x.what = "send" /\ x.msg.id = id
    BY <1>0
  <1>9. (\A m \in Msgs \ {id} : Owed(m)' = Owed(m)) /\ Owed(id)' = Owed(id) \cup {x}
    BY <1>1, <1>8 DEF Owed
  <1>10. Cardinality(Owed(id)') \in Nat /\ Cardinality(Owed(id)') <= Cardinality(Owed(id)) + 1
    <2>1. IsFiniteSet(Owed(id))
      BY <1>2, OwedIs
    <2>2. Cardinality(Owed(id) \cup {x}) \in {Cardinality(Owed(id)), Cardinality(Owed(id)) + 1}
      BY <2>1, FS_AddElement
    <2> QED
      BY <1>3, <1>9, <2>2
  <1>11. QueueFresh' /\ TwiceAtMost' /\ GivenUp' /\ OncePerAlert'
    <2>1. sends'[id] + Cardinality(Owed(id)') <= 2
      BY <1>1, <1>3, <1>10
    <2>2. id \in tardy'
      BY <1>1
    <2>3. \A m \in Msgs \ {id} : /\ sends'[m] = sends[m] /\ Owed(m)' = Owed(m)
                                 /\ (m \in denied' <=> m \in denied) /\ (m \in tardy' <=> m \in tardy)
      BY <1>1, <1>9
    <2> QED
      BY <1>1, <1>3, <2>1, <2>2, <2>3, OneMessage
  <1>12. WorkerAsks'
    <2>1. SUFFICES ASSUME worker'.at # "idle"
                   PROVE  /\ sends'[id] + Cardinality(Owed(id)') <= 1
                          /\ id \notin tardy' => sends'[id] = 0 /\ id \notin denied'
      BY <1>0, <1>4 DEF WorkerAsks
    <2> QED
      BY <1>1, <1>3, <1>4, <1>10, <2>1
  <1> QED
    BY <1>4, <1>7, <1>11, <1>12 DEF DInv

\* An agent gets to what the panel gave up.
LEMMA DLate == ASSUME DInv, NEW x \in slow, Late(x) PROVE DInv'
  <1>1. /\ UNCHANGED <<net, pin, conn, dead, cut, targets, pushed, sync, queue, worker, denied, tardy, msgs, edits>>
        /\ slow' = slow \ {x}
    BY DEF Late, world, bounds
  <1>2. DTyped /\ x \in Slow
    BY DEF DInv, DTyped
  <1>3. slow' \subseteq Slow /\ IsFiniteSet(slow')
    BY <1>1, <1>2, FS_Subset DEF DTyped
  <1>4. CASE x.what = "push"
    <2>1. sends' = sends /\ (held' = held \/ held' = [held EXCEPT ![x.to] = x.ver]) /\ x.ver \in Versions
      BY <1>2, <1>4 DEF Late, Slow
    <2>2. DTyped'
      BY <1>1, <1>2, <1>3, <2>1 DEF DTyped, PinsSound
    <2>3. \A m : Owed(m)' = Owed(m)
      BY <1>1, <1>4 DEF Owed
    <2>4. QueueFresh' /\ WorkerHas' /\ WorkerAsks' /\ TwiceAtMost' /\ GivenUp' /\ OncePerAlert'
      BY <1>1, <2>1, <2>3, FlowFrame
    <2>5. SyncFor'
      BY <1>1 DEF DInv, SyncFor
    <2> QED
      BY <2>2, <2>4, <2>5 DEF DInv
  <1>5. CASE x.what # "push"
    <2>0. PICK id : id = x.msg.id
      OBVIOUS
    <2>1. x.what = "send" /\ id \in Msgs /\ x \in Owed(id)
      BY <1>2, <1>5, <2>0 DEF Slow, Message, Owed
    <2>2. held' = held /\ (sends' = sends \/ sends' = [sends EXCEPT ![id] = @ + 1])
      BY <1>5, <2>0 DEF Late, Sent
    <2>3. /\ sends' \in [Msgs -> Nat] /\ \A m \in Msgs \ {id} : sends'[m] = sends[m]
          /\ sends[id] \in Nat /\ sends'[id] \in Nat /\ sends'[id] <= sends[id] + 1
      BY <1>2, <2>1, <2>2 DEF DTyped
    <2>4. DTyped'
      BY <1>1, <1>2, <1>3, <2>2, <2>3 DEF DTyped, PinsSound
    <2>5. (\A m \in Msgs \ {id} : Owed(m)' = Owed(m)) /\ Owed(id)' = Owed(id) \ {x}
      BY <1>1, <2>0 DEF Owed
    <2>6. Cardinality(Owed(id)) \in Nat /\ Cardinality(Owed(id)') = Cardinality(Owed(id)) - 1
      <3>1. IsFiniteSet(Owed(id)) /\ Cardinality(Owed(id)) \in Nat
        BY <1>2, OwedIs
      <3> QED
        BY <2>1, <2>5, <3>1, FS_RemoveElement
    <2>7. sends'[id] + Cardinality(Owed(id)') <= sends[id] + Cardinality(Owed(id))
      BY <2>3, <2>6
    <2>8. id \in tardy /\ ~Untouched(id)
      BY <2>1 DEF DInv, GivenUp, Untouched
    <2>9. id <= msgs /\ \A i \in 1..Len(queue) : queue[i].id # id
      BY <1>2, <2>1, <2>8, DNumbers DEF DInv, QueueFresh
    <2>10. QueueFresh' /\ TwiceAtMost' /\ GivenUp' /\ OncePerAlert'
      <3>1. sends'[id] + Cardinality(Owed(id)') <= 2
        <4>1. sends[id] + Cardinality(Owed(id)) <= 2
          BY <2>1 DEF DInv, TwiceAtMost
        <4>2. Cardinality(Owed(id)') \in Int
          BY <2>6
        <4> QED
          BY <2>3, <2>6, <2>7, <4>1, <4>2
      <3>2. id \in tardy'
        BY <1>1, <2>8
      <3>3. \A m \in Msgs \ {id} : /\ sends'[m] = sends[m] /\ Owed(m)' = Owed(m)
                                   /\ (m \in denied' <=> m \in denied) /\ (m \in tardy' <=> m \in tardy)
        BY <1>1, <2>3, <2>5
      <3> QED
        BY <1>1, <2>1, <2>9, <3>1, <3>2, <3>3, OneMessage
    <2>11. WorkerHas' /\ SyncFor'
      BY <1>1 DEF DInv, WorkerHas, SyncFor
    <2>12. WorkerAsks'
      <3>1. SUFFICES ASSUME worker.at # "idle" PROVE WorkerAsks'
        BY <1>1 DEF WorkerAsks
      <3>2. PICK w : w = worker.msg.id
        OBVIOUS
      <3>3. w \in Msgs
        BY <3>1, <3>2 DEF DInv, WorkerHas
      <3>4. CASE w = id
        <4>1. worker.seat = "secondary"
          BY <1>2, <2>8, <3>1, <3>2, <3>4 DEF DInv, WorkerAsks, DTyped
        <4>2. sends[id] + Cardinality(Owed(id)) <= 1
          BY <3>1, <3>2, <3>4, <4>1 DEF DInv, WorkerAsks
        <4>3. sends'[id] + Cardinality(Owed(id)') <= 1
          BY <2>3, <2>6, <2>7, <4>2
        <4> QED
          BY <1>1, <2>8, <3>2, <3>4, <4>1, <4>3 DEF WorkerAsks
      <3>5. CASE w # id
        <4>1. sends'[w] = sends[w] /\ Owed(w)' = Owed(w)
          BY <2>3, <2>5, <3>3, <3>5
        <4>2. Untouched(w)' = Untouched(w)
          BY <1>1, <4>1 DEF Untouched
        <4>3. worker'.msg.id = w /\ worker.msg.id = w
          BY <1>1, <3>2
        <4> QED
          BY <1>1, <3>1, <4>1, <4>2, <4>3 DEF DInv, WorkerAsks
      <3> QED
        BY <3>4, <3>5
    <2> QED
      BY <2>4, <2>10, <2>11, <2>12 DEF DInv
  <1> QED
    BY <1>4, <1>5

\* The invariant of delivery, of which DeliverySound is a part: what has become
\* of a message is told by where it is (WebhookService.Run, deliver).
THEOREM DeliveryInvariant == Spec => []DInv
  <1>1. DInv /\ UNCHANGED vars => DInv'
    <2> SUFFICES ASSUME DInv, UNCHANGED vars PROVE DInv'
      OBVIOUS
    <2>1. UNCHANGED <<net, pin, conn, dead, cut, targets, held, pushed, sync, queue, worker, slow, sends, denied, tardy, msgs, edits>>
      BY DEF vars, world, outcome, bounds
    <2>2. DTyped' /\ SyncFor'
      BY <2>1 DEF DInv, DTyped, PinsSound, SyncFor
    <2>3. \A m : Owed(m)' = Owed(m)
      BY <2>1 DEF Owed
    <2>4. QueueFresh' /\ WorkerHas' /\ WorkerAsks' /\ TwiceAtMost' /\ GivenUp' /\ OncePerAlert'
      BY <2>1, <2>3, FlowFrame
    <2> QED
      BY <2>2, <2>4 DEF DInv
  <1>2. DInv /\ Next => DInv'
    BY DSync, DWorld, DTake, DAsk, DAskNobody, DAskLate, DPush, DEndSync, DAlert, DLate DEF Next, Work, Syncing
  <1> QED
    BY <1>1, <1>2, DInit, PTL DEF Spec

\* However many servers, pins, faults and edits: the election keeps its promise,
\* and a message goes out twice, or after it was denied, only if a watcher was
\* given up while at it (electWatchers, deliver).
THEOREM DeliveryIsSound == Spec => []DeliverySound
  <1>1. DInv => DeliverySound
    <2> SUFFICES ASSUME DInv PROVE DeliverySound
      OBVIOUS
    <2>1. DTyped
      BY DEF DInv
    <2>2. SeatsSound
      BY <2>1, ElectSound DEF DTyped
    <2>3. sends \in [Msgs -> 0..3]
      <3>1. \A m \in Msgs : sends[m] \in 0..3
        <4>1. SUFFICES ASSUME NEW m \in Msgs PROVE sends[m] \in 0..3
          OBVIOUS
        <4>2. sends[m] \in Nat /\ Cardinality(Owed(m)) \in Nat
          BY <2>1, DNumbers, OwedIs
        <4>3. sends[m] + Cardinality(Owed(m)) <= 2
          BY DEF DInv, TwiceAtMost
        <4> QED
          BY <4>2, <4>3
      <3> QED
        BY <2>1, <3>1 DEF DTyped
    <2>4. \A n \in DOMAIN queue : queue[n] \in Message
      BY <2>1 DEF DTyped
    <2>5. TypeOK
      BY <2>1, <2>3, <2>4 DEF TypeOK, DTyped
    <2> QED
      BY <2>2, <2>5 DEF DInv, DeliverySound
  <1> QED
    BY <1>1, DeliveryInvariant, PTL

\* A watcher that sends word of a server has seen it, or its agent, gone.
LEMMA VouchIs ==
    ASSUME NEW w, NEW m, NEW taken, Answer(w, m, taken) = "sent", m.about # Nobody
    PROVE  m.about \in dead \cup cut
  <1>1. Verify(w, m) = "send" /\ held[w] # 0
    <2>1. Verify(w, m) # "sent"
      BY DEF Verify
    <2> QED
      BY <2>1 DEF Answer
  <1>2. ~Answers(w, m.about) /\ ~CutOff(w, m.about)
    BY <1>1 DEF Verify
  <1>3. w \notin cut
    BY <1>2 DEF CutOff, HostAnswers
  <1> QED
    BY <1>2, <1>3 DEF Answers

\* No step sends word of a server whose agent runs and whose line is up, for
\* any number of servers (watchdog.verify).
THEOREM DeliveryNoFalsePage == Spec => NoFalsePage
  <1> DEFINE P == \A v \in Servers : v \notin dead \cup cut =>
                     \A m \in Msgs : sends'[m] > sends[m] =>
                        \/ worker.msg = [id |-> m, about |-> Nobody]
                        \/ (worker.msg.id = m /\ worker.msg.about # v)
                        \/ \E x \in slow : x.what = "send" /\ x.msg.id = m /\ x.msg.about # v
  <1>1. ASSUME DInv, [Next]_vars PROVE [P]_vars
    <2>1. ASSUME NEW v \in Servers, v \notin dead \cup cut, NEW m \in Msgs, sends'[m] > sends[m]
          PROVE  \/ worker.msg = [id |-> m, about |-> Nobody]
                 \/ (worker.msg.id = m /\ worker.msg.about # v)
                 \/ \E x \in slow : x.what = "send" /\ x.msg.id = m /\ x.msg.about # v
      <3>1. sends \in [Msgs -> Nat] /\ sends[m] \in Nat /\ v # Nobody
        BY <1>1 DEF DInv, DTyped, Servers, Nobody
      <3>2. sends' # sends
        BY <2>1, <3>1
      <3>3. CASE \E taken \in BOOLEAN : Ask(taken)
        <4>1. PICK taken \in BOOLEAN : Ask(taken)
          BY <3>3
        <4>2. /\ Answer(worker.pair[worker.seat], worker.msg, taken) = "sent"
              /\ sends' = [sends EXCEPT ![worker.msg.id] = @ + 1]
          BY <3>2, <4>1 DEF Ask, Sent
        <4>3. worker.msg.id = m
          BY <2>1, <3>1, <4>2
        <4>4. CASE worker.msg.about = Nobody
          <5>1. worker.msg \in [id: Nat, about: Seat]
            BY <1>1 DEF DInv, DTyped
          <5> QED
            BY <4>3, <4>4, <5>1
        <4>5. CASE worker.msg.about # Nobody
          BY <2>1, <4>2, <4>3, <4>5, VouchIs
        <4> QED
          BY <4>4, <4>5
      <3>4. CASE \E x \in slow : Late(x)
        <4>1. PICK x \in slow : Late(x)
          BY <3>4
        <4>2. x.what # "push" /\ Answer(x.to, x.msg, TRUE) = "sent" /\ sends' = [sends EXCEPT ![x.msg.id] = @ + 1]
          BY <3>2, <4>1 DEF Late, Sent
        <4>3. x.msg.id = m
          BY <2>1, <3>1, <4>2
        <4>4. x.what = "send"
          BY <1>1, <4>2 DEF DInv, DTyped, Slow
        <4>5. x.msg.about # v
          BY <2>1, <3>1, <4>2, VouchIs
        <4> QED
          BY <4>3, <4>4, <4>5
      <3>5. CASE sends' = sends
        BY <3>2, <3>5
      <3> QED
        BY <1>1, <3>3, <3>4, <3>5
           DEF Next, Sync, SetTargets, Work, Take, AskNobody, AskLate, Syncing, Push, EndSync, Alert,
               SocketLost, LineLost, Returns, outcome, vars
    <2> QED
      BY <2>1
  <1> QED
    BY <1>1, DeliveryInvariant, PTL DEF Spec, NoFalsePage
=============================================================================
