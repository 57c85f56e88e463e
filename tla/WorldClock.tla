----------------------------- MODULE WorldClock -----------------------------
(* What is promised to those who command the simulation, and not how it is   *)
(* kept: "pause" halts the progression of logical simulation time, "resume"  *)
(* resumes continuous simulation progression, "step" advances the simulation *)
(* by exactly N ticks and pauses (docs/CLI_REFERENCE.md, 2.1); the requested *)
(* steps are executed, and at the last of them the world stops               *)
(* (docs/ARCHITECTURE.md, 3.1).                                              *)
EXTENDS Naturals

CONSTANT Plenty         \* a count as long as this may outlast the program

VARIABLES free,         \* the world goes on by itself
          owed,         \* the steps it was asked for and has not made
          world,        \* changes with every tick
          order,        \* the next command: [kind, n]; none is one of kind "none"
          heard         \* commands obeyed

clock == <<free, owed, world>>
vars == <<clock, heard>>

Init == ~free /\ owed = 0 /\ world = 0 /\ heard = 0

Hear(kinds) == order.kind \in kinds /\ heard' = heard + 1

Hold == Hear({"pause", "reset"}) /\ ~free' /\ owed' = 0 /\ UNCHANGED world

Release == Hear({"resume"}) /\ free' /\ owed' = 0 /\ UNCHANGED world

Steps == IF order.n > 0 THEN order.n ELSE 1
Ask == Hear({"step"}) /\ ~free' /\ owed' = owed + Steps /\ UNCHANGED world

Listen == Hear({"rate", "schematic", "set", "shutdown"}) /\ UNCHANGED clock

(* The counts one tick may leave.                                            *)
After(r) == IF r < Plenty THEN {r - 1} ELSE {r - 1, r}

Tick == /\ world' = 1 - world /\ UNCHANGED heard
        /\ \/ free /\ UNCHANGED <<free, owed>>
           \/ owed > 0 /\ owed' \in After(owed) /\ UNCHANGED free

Next == Hold \/ Release \/ Ask \/ Listen \/ Tick

Spec == Init /\ [][Next]_vars
=============================================================================
