----------------------------- MODULE MCSnapshot -----------------------------
(***************************************************************************)
(* Snapshot with two workers and one flow rule.  The runs choose the ring  *)
(* size, the timing bounds and whether fairness is assumed.                *)
(***************************************************************************)
EXTENDS Snapshot
=============================================================================
