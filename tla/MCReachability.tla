--------------------------- MODULE MCReachability ---------------------------
(***************************************************************************)
(* Reachability for TLC: two servers.                                      *)
(***************************************************************************)
EXTENDS Reachability

CONSTANTS alpha, beta

List == <<alpha, beta>>
=============================================================================
