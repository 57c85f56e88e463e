--------------------------- MODULE MCFrameDispatch ---------------------------
(* FrameDispatch on small instances: two tiles, one worker node beside the   *)
(* local one, and a second frame that may meet the first one's results.      *)
EXTENDS FrameDispatch, TLC
==============================================================================
