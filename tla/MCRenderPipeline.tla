-------------------------- MODULE MCRenderPipeline --------------------------
(* RenderPipeline with two resolutions and three requests, so that all three *)
(* framebuffers go round and each may have been left by an abandoned render  *)
(* or by a frame of the other size.                                          *)
EXTENDS RenderPipeline, TLC
==============================================================================
