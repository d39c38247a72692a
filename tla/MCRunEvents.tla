---------------------------- MODULE MCRunEvents ----------------------------
(* Symmetry for the runs of RunEvents.                                     *)
EXTENDS RunEvents

Symmetry == Permutations(Workers)
=============================================================================
