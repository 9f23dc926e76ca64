-------------------------- MODULE MCRefreshEngine --------------------------
(***************************************************************************)
(* Small instances of RefreshEngine.  Sources, workers and jobs are        *)
(* interchangeable, which the runs without liveness properties exploit.    *)
(***************************************************************************)
EXTENDS RefreshEngine, TLC

Symmetry ==
  Permutations(Source) \cup Permutations(Worker) \cup Permutations(Job)
============================================================================
