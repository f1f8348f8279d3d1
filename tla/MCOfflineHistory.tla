-------------------------- MODULE MCOfflineHistory --------------------------
(***************************************************************************)
(* OfflineHistory for TLC: flushOffline goroutines are interchangeable.    *)
(***************************************************************************)
EXTENDS OfflineHistory, TLC

Symmetry == Permutations(Flushers)
=============================================================================
