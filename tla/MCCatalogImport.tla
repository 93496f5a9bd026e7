--------------------------- MODULE MCCatalogImport ---------------------------
(* Three ids and logs of at most three events: catalogs of three events are *)
(* one more than a replay window takes, and reach past the last position    *)
(* when they start beyond the origin.                                       *)
EXTENDS CatalogImport

MCEventIds == 1 .. 3
MCSequences == 1 .. 4
MCTimes == 0 .. 1
=============================================================================
