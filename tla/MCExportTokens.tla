-------------------------- MODULE MCExportTokens --------------------------
(***************************************************************************)
(* Small instances of ExportTokens.                                        *)
(***************************************************************************)
EXTENDS ExportTokens, TLC

CONSTANTS tc  \* the token a headless configuration may name

Symmetry ==
  Permutations(Profile) \cup Permutations(Request)
    \cup Permutations(Token \ {tc})
============================================================================
