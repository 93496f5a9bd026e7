-------------------------- MODULE MCSyncRepository --------------------------
(* The repository and its replay on two workspaces, two positions per log   *)
(* and three ids: overflow, repeated ids across workspaces and out-of-order *)
(* batches are all within reach.                                            *)
EXTENDS SyncReplay

MCEventIds == 1 .. 3
MCSequences == 0 .. 1
=============================================================================
