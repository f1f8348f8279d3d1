----------------------------- MODULE MCWatchdog -----------------------------
(***************************************************************************)
(* Watchdog for TLC: a fleet of three servers, the fewest with which a     *)
(* watcher can tell that it is the one cut off.                            *)
(***************************************************************************)
EXTENDS Watchdog

CONSTANTS alpha, beta, gamma

Fleet == <<alpha, beta, gamma>>
=============================================================================
