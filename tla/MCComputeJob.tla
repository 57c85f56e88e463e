---------------------------- MODULE MCComputeJob ----------------------------
(* ComputeJob with two units, one worker node, one local thread and the      *)
(* pump; two calls, so that the pump may hold a job that is over.            *)
EXTENDS ComputeJob, TLC
==============================================================================
