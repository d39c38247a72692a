---------------------------- MODULE MCModelCalls ----------------------------
(* Instances of ModelCalls for TLC.                                        *)
EXTENDS ModelCalls
CONSTANTS c1, c2, c3, r1, r2
MCRunOf == (c1 :> r1) @@ (c2 :> r1) @@ (c3 :> r2)

(* Of the callers, those of one run are alike.                             *)
Symmetry == Permutations({c1, c2})
=============================================================================
