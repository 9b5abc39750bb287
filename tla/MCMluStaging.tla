---------------------------- MODULE MCMluStaging ----------------------------
(* Instances of MluStaging for TLC.                                        *)
EXTENDS MluStaging, TLC

Symmetry == Permutations(Events) \cup Permutations(Buffers) \cup Permutations(Tags)
=============================================================================
