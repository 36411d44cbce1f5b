----------------------------- MODULE MCSyncTask -----------------------------
(* Instances of SyncTask for TLC. *)
EXTENDS SyncTask
=============================================================================
