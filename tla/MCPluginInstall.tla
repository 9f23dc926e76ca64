-------------------------- MODULE MCPluginInstall --------------------------
(***************************************************************************)
(* Small instances of PluginInstall.                                       *)
(***************************************************************************)
EXTENDS PluginInstall, TLC

Symmetry ==
  Permutations(Worker) \cup Permutations(Version) \cup Permutations(Id)
    \cup Permutations(Source)

(***************************************************************************)
(* One call fails; the process dies; installs race and the process dies.   *)
(***************************************************************************)
Troubles ==
  {[ops |-> OpKinds, solo |-> TRUE, maxFaults |-> 1, crashes |-> FALSE],
   [ops |-> OpKinds, solo |-> TRUE, maxFaults |-> 0, crashes |-> TRUE],
   [ops |-> {"install"}, solo |-> FALSE, maxFaults |-> 0, crashes |-> TRUE]}

(***************************************************************************)
(* Requests of every kind race and nothing goes wrong.                     *)
(***************************************************************************)
Races == {[ops |-> OpKinds, solo |-> FALSE, maxFaults |-> 0, crashes |-> FALSE]}
============================================================================
