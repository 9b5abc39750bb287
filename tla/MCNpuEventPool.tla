--------------------------- MODULE MCNpuEventPool ---------------------------
(* Instances of NpuEventPool for TLC.                                      *)
EXTENDS NpuEventPool, TLC

Symmetry == Permutations(Threads) \cup Permutations(Events)
NoStreams == {}
=============================================================================
