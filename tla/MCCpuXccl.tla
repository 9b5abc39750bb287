----------------------------- MODULE MCCpuXccl ------------------------------
(* Instances of CpuXccl for TLC.                                           *)
EXTENDS CpuXccl, TLC

Symmetry == Permutations(Ranks \ {Root})
=============================================================================
