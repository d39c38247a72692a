--------------------------- MODULE MCRunDispatch ---------------------------
(* Model values and symmetry for the runs of RunDispatch.                  *)
EXTENDS RunDispatch, TLC

Symmetry == Permutations(Workers) \cup Permutations(Deliveries)
=============================================================================
