----------------------------- MODULE MCSpscQueue -----------------------------
(* SpscQueue on a ring of two slots whose counters wrap after four: six      *)
(* elements go round the ring three times and round the counters once and a  *)
(* half.                                                                     *)
EXTENDS SpscQueue, TLC
==============================================================================
