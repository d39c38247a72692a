---------------------------- MODULE MCAdmission ----------------------------
(* Instances of Admission for TLC.                                         *)
EXTENDS Admission, TLC
Symmetry == Permutations(Handler) \cup Permutations(RunId)
=============================================================================
