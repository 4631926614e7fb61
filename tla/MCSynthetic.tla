---------------------------- MODULE MCSynthetic ----------------------------
(* Constants of SyntheticWorker for TLC. *)
EXTENDS SyntheticWorker

MCFeatureCounts == {-1, 1, 3, 4}
MCPerUpdates == {None, 0, -2, 2, 3, 6}
=============================================================================
