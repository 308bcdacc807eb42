--------------------------- MODULE MCOfflineQueue ---------------------------
(***************************************************************************)
(* Instances of OfflineQueue: two overlapping flushes.                     *)
(***************************************************************************)
EXTENDS OfflineQueue

CONSTANTS f1, f2
=============================================================================
