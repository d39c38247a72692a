---------------------------- MODULE MCResearcher ----------------------------
(* Instances of Researcher for TLC.                                        *)
EXTENDS Researcher
=============================================================================
