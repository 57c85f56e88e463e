---------------------------- MODULE WorkContract ----------------------------
(* What the two distributing calls of ClusterOrchestrator promise about the  *)
(* memory they borrow from their caller: dispatch_frame about the tiles of a *)
(* framebuffer, run_compute_job about the units of a result array.  From the *)
(* call to the return, wanted items are delivered, each at most once; after  *)
(* a return of true all of them have been; outside a call nothing is         *)
(* written.                                                                  *)
CONSTANT Items

VARIABLES open,         \* a call is under way: the memory is borrowed
          wanted,       \* the items of the last call
          delivered,    \* those written
          result        \* what the last call returned

vars == <<open, wanted, delivered, result>>

Init == ~open /\ wanted = {} /\ delivered = {} /\ ~result

(* The call is accepted, and later its items are known.                      *)
Open == /\ ~open /\ open' /\ ~result'
        /\ UNCHANGED <<wanted, delivered>>
Plan(S) == /\ open
           /\ wanted' = S /\ delivered' = {}
           /\ UNCHANGED <<open, result>>

Deliver(i) == /\ open
              /\ i \in wanted \ delivered
              /\ delivered' = delivered \cup {i}
              /\ UNCHANGED <<open, wanted, result>>

Return == /\ open /\ ~open'
          /\ result' \in BOOLEAN
          /\ result' => delivered = wanted
          /\ UNCHANGED <<wanted, delivered>>

Next == \/ Open \/ Return
        \/ \E S \in SUBSET Items : Plan(S)
        \/ \E i \in Items : Deliver(i)

Spec == Init /\ [][Next]_vars
==============================================================================
