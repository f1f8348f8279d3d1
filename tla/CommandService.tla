--------------------------- MODULE CommandService ---------------------------
(***************************************************************************)
(* What the panel may expect of the commands it sends over a connection,   *)
(* without the agent's goroutines, slots and mutexes: changes to a feature *)
(* come one after the other, a command runs once, as many at a time as     *)
(* there is room for, and it is answered on the connection it came by or, when that   *)
(* is over, not at all.  CommandLanes implements it.                       *)
(***************************************************************************)
EXTENDS Naturals

CONSTANTS Commands,
          Changes,     \* the commands that change something
          Feature(_),  \* what a command is about
          Room(_)      \* may these commands run at one time

VARIABLES state,       \* each command: new, asked, running, answered, lost
          conn,        \* the connection, 0 for none
          last,        \* the last one there was
          via          \* the connection a command came by

serviceVars == <<state, conn, last, via>>

Running == {c \in Commands : state[c] = "running"}

Init ==
    /\ state = [c \in Commands |-> "new"] /\ via = [c \in Commands |-> 0]
    /\ conn = 0 /\ last = 0

Ask(c) ==
    /\ state[c] = "new" /\ conn # 0
    /\ state' = [state EXCEPT ![c] = "asked"]
    /\ via' = [via EXCEPT ![c] = conn]
    /\ UNCHANGED <<conn, last>>

Begin(c) ==
    /\ state[c] = "asked"
    /\ Room(Running \cup {c})
    /\ c \in Changes => \A d \in Running \cap Changes : Feature(d) # Feature(c)
    /\ state' = [state EXCEPT ![c] = "running"]
    /\ UNCHANGED <<conn, last, via>>

Answer(c) ==
    /\ state[c] = "running" /\ conn = via[c]
    /\ state' = [state EXCEPT ![c] = "answered"]
    /\ UNCHANGED <<conn, last, via>>

Lose(c) ==
    /\ state[c] \in {"asked", "running"} /\ conn # via[c]
    /\ state' = [state EXCEPT ![c] = "lost"]
    /\ UNCHANGED <<conn, last, via>>

Disconnect == conn # 0 /\ conn' = 0 /\ UNCHANGED <<state, last, via>>
Connect == conn = 0 /\ last' = last + 1 /\ conn' = last + 1 /\ UNCHANGED <<state, via>>

Next ==
    \/ \E c \in Commands : Ask(c) \/ Begin(c) \/ Answer(c) \/ Lose(c)
    \/ Disconnect \/ Connect

Spec == Init /\ [][Next]_serviceVars
=============================================================================
