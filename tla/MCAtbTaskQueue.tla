--------------------------- MODULE MCAtbTaskQueue ---------------------------
(* Instances of AtbTaskQueue for TLC.                                      *)
EXTENDS AtbTaskQueue, TLC
=============================================================================
