--------------------------- MODULE RequestService ---------------------------
(***************************************************************************)
(* What a caller of AgentHub.Request is promised, without the sockets,     *)
(* their buffers and the pending map: a command runs at most once; one     *)
(* that was refused ("agent offline", "agent send buffer full") never      *)
(* runs; an answer is given only for a command that has run; a timeout     *)
(* says nothing, for the command may still run.  AgentHub implements it.   *)
(***************************************************************************)

CONSTANT Requests

VARIABLES caller,  \* each request: new, asked, answered, refused, gaveup, gone
          work     \* its command on the agent: none, running, ran

serviceVars == <<caller, work>>

Init ==
    /\ caller = [r \in Requests |-> "new"]
    /\ work = [r \in Requests |-> "none"]

Ask(r) ==
    /\ caller[r] = "new"
    /\ caller' = [caller EXCEPT ![r] = "asked"]
    /\ UNCHANGED work

Refuse(r) ==
    /\ caller[r] \in {"new", "asked"} /\ work[r] = "none"
    /\ caller' = [caller EXCEPT ![r] = "refused"]
    /\ UNCHANGED work

Begin(r) ==
    /\ caller[r] \notin {"new", "refused"} /\ work[r] = "none"
    /\ work' = [work EXCEPT ![r] = "running"]
    /\ UNCHANGED caller

End(r) ==
    /\ work[r] = "running"
    /\ work' = [work EXCEPT ![r] = "ran"]
    /\ UNCHANGED caller

Answer(r) ==
    /\ caller[r] = "asked" /\ work[r] = "ran"
    /\ caller' = [caller EXCEPT ![r] = "answered"]
    /\ UNCHANGED work

GiveUp(r) ==
    /\ caller[r] = "asked"
    /\ caller' = [caller EXCEPT ![r] = "gaveup"]
    /\ UNCHANGED work

\* The callers of S have left: they have used their answer, or their panel is
\* gone.
Leave(S) ==
    /\ \A r \in S : caller[r] \in {"asked", "answered"}
    /\ caller' = [r \in Requests |-> IF r \in S THEN "gone" ELSE caller[r]]
    /\ UNCHANGED work

Next ==
    \/ \E r \in Requests : \/ Ask(r) \/ Refuse(r) \/ Answer(r) \/ GiveUp(r)
                           \/ Begin(r) \/ End(r)
    \/ \E S \in SUBSET Requests : Leave(S)

Spec == Init /\ [][Next]_serviceVars
=============================================================================
