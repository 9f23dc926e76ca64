-------------------------- MODULE MCProfileExport --------------------------
(***************************************************************************)
(* Small instances of ProfileExport.                                       *)
(***************************************************************************)
EXTENDS ProfileExport, TLC

Symmetry ==
  Permutations(Profile) \cup Permutations(Source)
    \cup Permutations(Reader) \cup Permutations(Writer)
============================================================================
