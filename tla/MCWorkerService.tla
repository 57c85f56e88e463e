--------------------------- MODULE MCWorkerService ---------------------------
(* WorkerService with one peer and two session objects: a session and the    *)
(* one that follows it on the same peer id, while jobs of the first still    *)
(* run.  The master the worker calls sends two frames and the one that calls *)
(* in one, whose number and tile are those of the other's first.  The store  *)
(* of catalogues holds one, the job map two.                                 *)
EXTENDS WorkerService, TLC

CONSTANTS m1, m2
Both == {m1, m2}
First == {m1}
Second == {m2}
PerMaster == [m \in Masters |-> IF m \in Called THEN MaxFrames ELSE MaxFrames - 1]
SendsNothing == [m \in Masters |-> 0]
==============================================================================
