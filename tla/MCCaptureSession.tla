-------------------------- MODULE MCCaptureSession --------------------------
(* Two captures: screenshots, sequences until stopped and of two frames,     *)
(* in real time one or two intervals late, a queue of two frames.            *)
EXTENDS CaptureSession
=============================================================================
