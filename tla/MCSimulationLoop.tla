-------------------------- MODULE MCSimulationLoop --------------------------
(* Every command of the clock in a queue of two: steps that fit into one     *)
(* turn, steps that do not, steps that may never end, and sums of them that  *)
(* wrap to nothing (Plenty + 3 = Width) and to less than was asked for.      *)
EXTENDS SimulationLoop

Order(kind, n) == [kind |-> kind, n |-> n]
Everything ==
  {Order(kind, 0) : kind \in Kinds}
    \cup {Order("step", 3), Order("step", Plenty), Order("schematic", 1)}
=============================================================================
