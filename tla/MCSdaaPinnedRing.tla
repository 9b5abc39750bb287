-------------------------- MODULE MCSdaaPinnedRing --------------------------
(* Instances of SdaaPinnedRing for TLC.                                    *)
EXTENDS SdaaPinnedRing
=============================================================================
