----------------------------- MODULE MCSyncRelay -----------------------------
(* One workspace, two devices with three events between them.  Safety: room *)
(* for two requests and two replies to each device, enough for a request to *)
(* be overtaken, repeated after its acceptance, and for uploads to race on  *)
(* one cursor.  Liveness: one message each way per device.                  *)
EXTENDS SyncRelay

CONSTANTS d1, d2

MCEventIds == 1 .. 3
MCSequences == {0}
MCLocalEvents == d1 :> {1, 3} @@ d2 :> {2}
=============================================================================
