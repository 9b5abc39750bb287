------------------------ MODULE MCNpuEventRefinement ------------------------
(* The instance of NpuEventRefinement for TLC.                             *)
EXTENDS NpuEventRefinement
=============================================================================
