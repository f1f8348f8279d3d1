----------------------------- MODULE MCAgentHub -----------------------------
(***************************************************************************)
(* AgentHub for TLC.  What the environment does (link failures, restarts,  *)
(* requests, mode changes) is bounded as a whole, so that one run covers   *)
(* every small mix of them.  None of these actions is a fair one, so the   *)
(* bound blocks nothing that FairSpec promises.                            *)
(***************************************************************************)
EXTENDS AgentHub

CONSTANT MaxEvents   \* bound: events of all kinds together

Issued == {r \in Reqs : req[r].pc # "new"}

Events == faults + restarts + calls + Cardinality(Issued)

MCNext == Next /\ Events' <= MaxEvents

MCSpec == Init /\ [][MCNext]_vars /\ Fairness
=============================================================================
