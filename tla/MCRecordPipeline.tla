-------------------------- MODULE MCRecordPipeline --------------------------
(* RecordPipeline for TLC: queues of two, so that both overflow. *)
EXTENDS RecordPipeline
=============================================================================
