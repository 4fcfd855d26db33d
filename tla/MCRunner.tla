----------------------------- MODULE MCRunner ------------------------------
(* Bounds for PipelineRunner: as many calls as fill its two slots twice.   *)
EXTENDS PipelineRunner
=============================================================================
