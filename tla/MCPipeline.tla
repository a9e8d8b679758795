----------------------------- MODULE MCPipeline -----------------------------
(***************************************************************************)
(* Pipeline with an exporter of queue_depth 0, which snapshot_channel      *)
(* raises to 1, beside the snapshot-to-control thread.                     *)
(***************************************************************************)
EXTENDS Pipeline

MCQueueDepth == <<0>>
=============================================================================
