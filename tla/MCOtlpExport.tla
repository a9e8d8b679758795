---------------------------- MODULE MCOtlpExport ----------------------------
(***************************************************************************)
(* OtlpExport with snapshots below the cap, above it (with and without a   *)
(* rule that has no flows), and with rules that alone exceed it; one       *)
(* metric needs to be split.                                               *)
(***************************************************************************)
EXTENDS OtlpExport

MCSnapshots == {<<1>>, <<19>>, <<12, 11>>, <<0, 14, 9>>, [r \in 1..13 |-> 1]}
=============================================================================
