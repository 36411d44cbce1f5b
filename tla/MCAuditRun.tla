----------------------------- MODULE MCAuditRun -----------------------------
(***************************************************************************)
(* Instances of AuditRun for TLC.  No symmetry: the run checks liveness.   *)
(***************************************************************************)
EXTENDS AuditRun, TLC

CONSTANTS b1, b2, w1, w2

MCScope == b1 :> "full" @@ b2 :> "duplicates"
MCScope1 == b1 :> "full"
=============================================================================
