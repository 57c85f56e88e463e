--------------------------- MODULE SimulationLoop ---------------------------
(* The simulation thread and those that command it.  Every turn of its loop  *)
(* adds the time that has passed to the accumulator of the scheduler,        *)
(* applies the commands in the queue, runs the actions that were deferred    *)
(* until they are applied, and then ticks.  The user interface and the       *)
(* console put commands into the queue under one mutex, and hand over        *)
(* actions under another.                                                    *)
(*                                                                           *)
(* A deterministic capture steps the scheduler on another thread and without *)
(* a lock: the clock below is that of a simulation while none is made.       *)
(*                                                                           *)
(* Time is counted in tick intervals; a turn may take any time.  The ring    *)
(* below the queue is SpscQueue: here a command is in or out.                *)
EXTENDS Integers, Sequences

CONSTANTS Orders,       \* commands that are given: [kind, n]
          Capacity,     \* QueueCapacity
          Burst,        \* ticks of one turn at most
          Lag,          \* intervals the accumulator holds at most
          Width,        \* counts of steps are unsigned numbers below it: 2^64
          Plenty,       \* a count as long as this may outlast the program
          MaxCommands,  \* bound of the model: commands
          MaxActions    \* bound of the model: deferred actions

Kinds == {"pause", "resume", "step", "reset", "rate", "schematic", "set", "shutdown"}

ASSUME OrdersAssumption == Orders \subseteq [kind : Kinds, n : 0 .. Width - 1]
ASSUME SizesAssumption == /\ Capacity \in Nat \ {0} /\ Burst \in Nat \ {0} /\ Lag \in Nat
                          /\ Width \in Nat \ {0, 1} /\ Plenty \in Nat \ {0}
                          /\ MaxCommands \in Nat /\ MaxActions \in Nat

VARIABLES
  queue,                \* command_queue_
  actions, pending,     \* post_command_actions_, how many; post_command_pending_
  batch,                \* actions taken out and not run yet
  paused, remaining,    \* is_paused_ and remaining_steps_ of the scheduler
  accumulator,          \* accumulator_ns_, in tick intervals
  ticks,                \* ticks_this_iteration
  world,                \* what advance_simulation changes
  schematic,            \* the schematic mode is on and forbids the simulation
  running,              \* is_running_, and no stop was requested
  sim,                  \* where the simulation thread is
  accepted, applied,    \* commands put into the queue, and applied
  deferred, ran         \* actions handed over, and run

producers == <<accepted, deferred>>
list == <<actions, pending, batch>>
clock == <<paused, remaining, accumulator>>
vars == <<queue, list, clock, ticks, world, schematic, running, sim, producers, applied, ran>>

(* A world that still has steps to make goes on only to make them.           *)
Clock == INSTANCE WorldClock WITH
  free <- ~paused /\ remaining = 0, owed <- remaining, heard <- applied,
  order <- IF queue = <<>> THEN [kind |-> "none", n |-> 0] ELSE Head(queue)

Init ==
  /\ queue = <<>> /\ actions = 0 /\ pending = FALSE /\ batch = 0
  /\ paused = TRUE /\ remaining = 0 /\ accumulator = 0 /\ ticks = 0 /\ world = 0
  /\ schematic = FALSE /\ running = TRUE /\ sim = "top"
  /\ accepted = 0 /\ applied = 0 /\ deferred = 0 /\ ran = 0

-----------------------------------------------------------------------------
(* The user interface and the console.                                       *)

(* enqueue_command; a command that finds the queue full is dropped, and its  *)
(* sender is told.                                                           *)
Enqueue(order) ==
  /\ accepted < MaxCommands /\ Len(queue) < Capacity
  /\ queue' = Append(queue, order) /\ accepted' = accepted + 1
  /\ UNCHANGED <<list, clock, ticks, world, schematic, running, sim, deferred, applied, ran>>

(* queue_post_command_action.                                                *)
Defer ==
  /\ deferred < MaxActions /\ deferred' = deferred + 1
  /\ actions' = actions + 1 /\ pending' = TRUE
  /\ UNCHANGED <<queue, batch, clock, ticks, world, schematic, running, sim, accepted, applied, ran>>

Stop ==
  /\ running /\ running' = FALSE
  /\ UNCHANGED <<queue, list, clock, ticks, world, schematic, sim, producers, applied, ran>>

-----------------------------------------------------------------------------
(* The simulation thread.                                                    *)

Go(from, to) == sim = from /\ sim' = to

(* add_real_time_nanoseconds.                                                *)
BeginTurn ==
  /\ running /\ Go("top", "commands")
  /\ accumulator' \in accumulator .. Lag
  /\ UNCHANGED <<queue, list, paused, remaining, ticks, world, schematic, running, producers, applied,
                 ran>>
Exit ==
  /\ ~running /\ Go("top", "done")
  /\ UNCHANGED <<queue, list, clock, ticks, world, schematic, running, producers, applied, ran>>

(* apply_command of the next command, as far as the clock is concerned.      *)
Take(kind) ==
  /\ sim = "commands" /\ queue # <<>> /\ Head(queue).kind = kind
  /\ queue' = Tail(queue) /\ applied' = applied + 1
  /\ UNCHANGED <<list, ticks, world, sim, producers, ran>>

Pause ==
  /\ Take("pause")
  /\ paused' = TRUE /\ remaining' = 0
  /\ UNCHANGED <<accumulator, schematic, running>>
Resume ==
  /\ Take("resume")
  /\ paused' = FALSE
  /\ UNCHANGED <<remaining, accumulator, schematic, running>>

Asked == IF Head(queue).n > 0 THEN Head(queue).n ELSE 1
RequestSteps ==
  /\ Take("step")
  /\ remaining' = (remaining + Asked) % Width /\ paused' = FALSE
  /\ UNCHANGED <<accumulator, schematic, running>>
Reset ==
  /\ Take("reset")
  /\ paused' = TRUE /\ remaining' = 0 /\ accumulator' = 0 /\ schematic' = FALSE
  /\ UNCHANGED running

(* The interval changes, and with it the number of intervals that wait.      *)
SetTickRate ==
  /\ Take("rate")
  /\ accumulator' \in 0 .. Lag
  /\ UNCHANGED <<paused, remaining, schematic, running>>
SetSchematic ==
  /\ Take("schematic")
  /\ schematic' = (Head(queue).n = 0)
  /\ UNCHANGED <<clock, running>>
SetOther ==
  /\ Take("set")
  /\ UNCHANGED <<clock, schematic, running>>
Shutdown ==
  /\ Take("shutdown")
  /\ running' = FALSE
  /\ UNCHANGED <<clock, schematic>>

NoMoreCommands ==
  /\ queue = <<>> /\ Go("commands", "actions")
  /\ UNCHANGED <<queue, list, clock, ticks, world, schematic, running, producers, applied, ran>>

(* run_post_command_actions.                                                 *)
NoActions ==
  /\ ~pending /\ Go("actions", "ticks")
  /\ UNCHANGED <<queue, list, clock, ticks, world, schematic, running, producers, applied, ran>>
SeeActions ==
  /\ pending /\ Go("actions", "swap")
  /\ UNCHANGED <<queue, list, clock, ticks, world, schematic, running, producers, applied, ran>>
SwapActions ==
  /\ Go("swap", "acting")
  /\ batch' = actions /\ actions' = 0 /\ pending' = FALSE
  /\ UNCHANGED <<queue, clock, ticks, world, schematic, running, producers, applied, ran>>

(* A session that is restored brings its schematic mode; an action that      *)
(* throws is skipped.                                                        *)
RunAction ==
  /\ sim = "acting" /\ batch > 0
  /\ batch' = batch - 1 /\ ran' = ran + 1 /\ schematic' \in BOOLEAN
  /\ UNCHANGED <<queue, actions, pending, clock, ticks, world, running, sim, producers, applied>>

(* A mistake: the list is emptied when its actions have run.                 *)
ClearActions ==
  /\ batch = 0 /\ Go("acting", "ticks")
  /\ actions' = 0 /\ pending' = FALSE
  /\ UNCHANGED <<queue, batch, clock, ticks, world, schematic, running, producers, applied, ran>>

ActionsDone ==
  /\ batch = 0 /\ Go("acting", "ticks")
  /\ UNCHANGED <<queue, list, clock, ticks, world, schematic, running, producers, applied, ran>>

(* can_advance_tick.                                                         *)
CanAdvance == remaining > 0 \/ (~paused /\ accumulator > 0)

Ticks == ~schematic /\ CanAdvance /\ ticks < Burst

(* A mistake: the ticks of a turn are not counted.                           *)
Uncounted(n) == n

Counted(n) == n + 1

(* A mistake: the scheduler goes on when the last step is made.              *)
NeverPauses(r) == FALSE

PausesAt(r) == r = 0

(* advance_tick and advance_simulation.                                      *)
AdvanceTick ==
  /\ sim = "ticks" /\ Ticks
  /\ ticks' = Counted(ticks) /\ world' = 1 - world
  /\ accumulator' = IF accumulator > 0 THEN accumulator - 1 ELSE accumulator
  /\ IF remaining > 0
     THEN /\ remaining' \in Clock!After(remaining)
          /\ paused' = (paused \/ PausesAt(remaining'))
     ELSE UNCHANGED <<paused, remaining>>
  /\ UNCHANGED <<queue, list, schematic, running, sim, producers, applied, ran>>

(* The thread sleeps for a moment.                                           *)
EndTurn ==
  /\ ~Ticks /\ Go("ticks", "top")
  /\ ticks' = 0
  /\ UNCHANGED <<queue, list, clock, world, schematic, running, producers, applied, ran>>

Commands ==
  \/ Pause \/ Resume \/ RequestSteps \/ Reset \/ SetTickRate \/ SetSchematic \/ SetOther \/ Shutdown
  \/ NoMoreCommands
Sim ==
  \/ BeginTurn \/ Exit \/ Commands
  \/ NoActions \/ SeeActions \/ SwapActions \/ RunAction \/ ActionsDone
  \/ AdvanceTick \/ EndTurn

-----------------------------------------------------------------------------

Next == Sim \/ (\E order \in Orders : Enqueue(order)) \/ Defer \/ Stop

Spec == Init /\ [][Next]_vars

(* The simulation thread runs; nobody need command it.                       *)
FairSpec == Spec /\ WF_vars(Sim)

-----------------------------------------------------------------------------

TypeOK ==
  /\ queue \in Seq(Orders) /\ actions \in Nat /\ pending \in BOOLEAN /\ batch \in Nat
  /\ paused \in BOOLEAN /\ remaining \in 0 .. Width - 1 /\ accumulator \in 0 .. Lag
  /\ ticks \in 0 .. Burst /\ world \in {0, 1} /\ schematic \in BOOLEAN /\ running \in BOOLEAN
  /\ sim \in {"top", "commands", "actions", "swap", "acting", "ticks", "done"}
  /\ accepted \in 0 .. MaxCommands /\ applied \in Nat /\ deferred \in 0 .. MaxActions /\ ran \in Nat

(* A scheduler that has steps to make is not paused.                         *)
StepsAreAwake == remaining > 0 => ~paused

(* The code breaks the promise twice.  A resume that meets steps still to be *)
(* made only clears is_paused_: the last step pauses the world all the same. *)
(* And a sum of steps that does not fit into 64 bits wraps: the world makes  *)
(* what is left of it, and runs free if that is nothing.                     *)
LostResume ==
  /\ Clock!Hear({"resume"}) /\ remaining > 0
  /\ UNCHANGED Clock!clock
WrappedCount ==
  /\ Clock!Hear({"step"}) /\ remaining + Clock!Steps >= Width
  /\ remaining' = (remaining + Clock!Steps) % Width /\ ~paused'
  /\ UNCHANGED world

(* docs/CLI_REFERENCE.md: pause halts, resume resumes continuous progression *)
(* and step advances by exactly N ticks and pauses.  But for the two         *)
(* disagreements above so they do, whatever time has been accumulated,       *)
(* however many turns the steps take and whatever commands meet in the       *)
(* queue: no tick comes that is neither free nor owed, and no other step of  *)
(* the program moves the clock.                                              *)
ImplementsClock ==
  Clock!Init /\ [][Clock!Next \/ LostResume \/ WrappedCount]_(Clock!vars)

(* A command that was accepted is applied, although the steps of an earlier  *)
(* one may last for ever.                                                    *)
CommandsApplied ==
  \A n \in 1 .. MaxCommands : (accepted >= n) ~> (applied >= n \/ ~running)

(* An action that was handed over is run, also one that comes while others   *)
(* are taken out or run (await_startup_content waits for its own).           *)
ActionsRun ==
  \A n \in 1 .. MaxActions : (deferred >= n) ~> (ran >= n \/ ~running)
=============================================================================
