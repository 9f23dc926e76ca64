-------------------------- MODULE MCSourceService --------------------------
(***************************************************************************)
(* A deployment with one source and room for another, two secret fields    *)
(* (the second one upper-case, and stored under the legacy scope too), and *)
(* a configuration file that sets the first and omits the second.          *)
(***************************************************************************)
EXTENDS SourceService, TLC

MCFields == <<"k1", "K2">>
MCAsk(a, b) == ("k1" :> a) @@ ("K2" :> b)
MCAsks == {MCAsk("new", "omit"), MCAsk("omit", "keep")}
MCFileAsk == MCAsk("new", "omit")
MCSymmetry == Permutations(Worker)
=============================================================================
