--------------------- MODULE SimulationAndCaptureProofs ---------------------
(* The simulation keeps its clock, for every set of commands and sizes, and  *)
(* what it has been given it applies and runs once.  A capture, which steps  *)
(* the scheduler of that simulation, is complete when it says so.            *)
EXTENDS SimulationLoop, CaptureOutcome, TLAPS

Safe == TypeOK /\ StepsAreAwake

(* Counts of steps stay below Width: when they are added, and after a tick. *)
LEMMA CountsStay ==
  ASSUME NEW r \in 0 .. Width - 1, NEW n \in 0 .. Width - 1
  PROVE  /\ (r + n) % Width \in 0 .. Width - 1
         /\ r > 0 => Clock!After(r) \subseteq 0 .. Width - 1
  BY SizesAssumption DEF Clock!After

(* The command at the head of the queue is one of those that are given.      *)
LEMMA HeadIsOrder ==
  ASSUME TypeOK, queue # <<>>
  PROVE  /\ Head(queue) \in Orders /\ Tail(queue) \in Seq(Orders)
         /\ Head(queue).n \in 0 .. Width - 1
  <1>1. queue \in Seq(Orders)
    BY DEF TypeOK
  <1>2. Head(queue) \in Orders /\ Tail(queue) \in Seq(Orders)
    BY <1>1, queue # <<>>
  <1>3. Head(queue) \in [kind : Kinds, n : 0 .. Width - 1]
    BY <1>2, OrdersAssumption
  <1> QED
    BY <1>2, <1>3

(* So many steps a step command asks for.                                    *)
LEMMA AskedIsCount ==
  ASSUME TypeOK, queue # <<>>
  PROVE  Asked \in 1 .. Width - 1
  BY HeadIsOrder, SizesAssumption DEF Asked

LEMMA InitSafe == Init => Safe
  <1> SUFFICES ASSUME Init PROVE Safe
    OBVIOUS
  <1>1. queue \in Seq(Orders)
    BY DEF Init
  <1>2. /\ remaining \in 0 .. Width - 1 /\ accumulator \in 0 .. Lag /\ ticks \in 0 .. Burst
        /\ accepted \in 0 .. MaxCommands /\ deferred \in 0 .. MaxActions
    BY SizesAssumption DEF Init
  <1>3. TypeOK
    BY <1>1, <1>2 DEF Init, TypeOK
  <1> QED
    BY <1>3 DEF Init, Safe, StepsAreAwake

(* Every step keeps the types, and a scheduler with steps to make awake.     *)
LEMMA NextSafe == Safe /\ [Next]_vars => Safe'
  <1> SUFFICES ASSUME Safe, [Next]_vars PROVE Safe'
    OBVIOUS
  <1> USE SizesAssumption DEF Safe, StepsAreAwake
  <1>1. ASSUME NEW order \in Orders, Enqueue(order) PROVE Safe'
    <2>1. Append(queue, order) \in Seq(Orders)
      BY DEF TypeOK
    <2> QED
      BY <1>1, <2>1 DEF Enqueue, TypeOK, list, clock
  <1>2. CASE Defer
    BY <1>2 DEF Defer, TypeOK, clock
  <1>3. CASE Stop
    BY <1>3 DEF Stop, TypeOK, list, clock, producers
  <1>4. CASE BeginTurn
    BY <1>4 DEF BeginTurn, Go, TypeOK, list, producers
  <1>5. CASE Exit
    BY <1>5 DEF Exit, Go, TypeOK, list, clock, producers
  <1>6. CASE NoMoreCommands
    BY <1>6 DEF NoMoreCommands, Go, TypeOK, list, clock, producers
  <1>7. CASE NoActions
    BY <1>7 DEF NoActions, Go, TypeOK, list, clock, producers
  <1>8. CASE SeeActions
    BY <1>8 DEF SeeActions, Go, TypeOK, list, clock, producers
  <1>9. CASE SwapActions
    BY <1>9 DEF SwapActions, Go, TypeOK, list, clock, producers
  <1>10. CASE RunAction
    BY <1>10 DEF RunAction, Go, TypeOK, list, clock, producers
  <1>11. CASE ActionsDone
    BY <1>11 DEF ActionsDone, Go, TypeOK, list, clock, producers
  <1>12. CASE EndTurn
    BY <1>12 DEF EndTurn, Go, TypeOK, list, clock, producers
  <1>13. CASE AdvanceTick
    <2>1. remaining > 0 => Clock!After(remaining) \subseteq 0 .. Width - 1
      BY CountsStay DEF TypeOK
    <2>2. ticks + 1 \in 0 .. Burst /\ 1 - world \in {0, 1}
      BY <1>13 DEF AdvanceTick, Ticks, TypeOK
    <2>3. /\ paused' \in BOOLEAN /\ remaining' \in 0 .. Width - 1
          /\ remaining' > 0 => ~paused'
      <3>1. CASE remaining > 0
        BY <1>13, <2>1, <3>1 DEF AdvanceTick, PausesAt, TypeOK
      <3>2. CASE ~(remaining > 0)
        BY <1>13, <3>2 DEF AdvanceTick, TypeOK
      <3> QED
        BY <3>1, <3>2
    <2>4. TypeOK'
      <3>1. accumulator' \in 0 .. Lag
        BY <1>13 DEF AdvanceTick, TypeOK
      <3> QED
        BY <1>13, <2>2, <2>3, <3>1 DEF AdvanceTick, Counted, TypeOK, list, producers
    <2> QED
      BY <2>3, <2>4
  <1>14. CASE Pause
    <2>1. Tail(queue) \in Seq(Orders)
      BY <1>14, HeadIsOrder DEF Pause, Take
    <2>2. TypeOK'
      BY <1>14, <2>1 DEF Pause, Take, TypeOK, list, clock, producers
    <2> QED
      BY <1>14, <2>2 DEF Pause, Take, clock
  <1>15. CASE Resume
    <2>1. Tail(queue) \in Seq(Orders)
      BY <1>15, HeadIsOrder DEF Resume, Take
    <2>2. TypeOK'
      <3>1. /\ queue' = Tail(queue) /\ applied' = applied + 1
            /\ UNCHANGED <<actions, pending, batch, ticks, world, sim, accepted, deferred, ran>>
        BY <1>15 DEF Resume, Take, list, producers
      <3>2. /\ paused' \in BOOLEAN
            /\ UNCHANGED <<remaining, accumulator, schematic, running>>
        BY <1>15 DEF Resume, clock, TypeOK
      <3> QED
        BY <2>1, <3>1, <3>2 DEF TypeOK
    <2> QED
      BY <1>15, <2>2 DEF Resume, Take, clock
  <1>16. CASE Reset
    <2>1. Tail(queue) \in Seq(Orders)
      BY <1>16, HeadIsOrder DEF Reset, Take
    <2>2. TypeOK'
      <3>1. /\ queue' = Tail(queue) /\ applied' = applied + 1
            /\ UNCHANGED <<actions, pending, batch, ticks, world, sim, accepted, deferred, ran>>
        BY <1>16 DEF Reset, Take, list, producers
      <3>2. paused' \in BOOLEAN /\ schematic' \in BOOLEAN /\ UNCHANGED running
        BY <1>16 DEF Reset
      <3>3. remaining' = 0 /\ accumulator' = 0
        BY <1>16 DEF Reset
      <3>4. remaining' \in 0 .. Width - 1 /\ accumulator' \in 0 .. Lag
        BY <3>3
      <3> QED
        BY <2>1, <3>1, <3>2, <3>4 DEF TypeOK
    <2> QED
      BY <1>16, <2>2 DEF Reset, Take, clock
  <1>17. CASE SetTickRate
    <2>1. Tail(queue) \in Seq(Orders)
      BY <1>17, HeadIsOrder DEF SetTickRate, Take
    <2>2. TypeOK'
      BY <1>17, <2>1 DEF SetTickRate, Take, TypeOK, list, clock, producers
    <2> QED
      BY <1>17, <2>2 DEF SetTickRate, Take, clock
  <1>18. CASE SetSchematic
    <2>1. Tail(queue) \in Seq(Orders)
      BY <1>18, HeadIsOrder DEF SetSchematic, Take
    <2>2. TypeOK'
      BY <1>18, <2>1 DEF SetSchematic, Take, TypeOK, list, clock, producers
    <2> QED
      BY <1>18, <2>2 DEF SetSchematic, Take, clock
  <1>19. CASE SetOther
    <2>1. Tail(queue) \in Seq(Orders)
      BY <1>19, HeadIsOrder DEF SetOther, Take
    <2>2. TypeOK'
      BY <1>19, <2>1 DEF SetOther, Take, TypeOK, list, clock, producers
    <2> QED
      BY <1>19, <2>2 DEF SetOther, Take, clock
  <1>20. CASE Shutdown
    <2>1. Tail(queue) \in Seq(Orders)
      BY <1>20, HeadIsOrder DEF Shutdown, Take
    <2>2. TypeOK'
      <3>1. /\ queue' = Tail(queue) /\ applied' = applied + 1
            /\ UNCHANGED <<actions, pending, batch, ticks, world, sim, accepted, deferred, ran>>
        BY <1>20 DEF Shutdown, Take, list, producers
      <3>2. /\ running' \in BOOLEAN
            /\ UNCHANGED <<paused, remaining, accumulator, schematic>>
        BY <1>20 DEF Shutdown, clock, TypeOK
      <3> QED
        BY <2>1, <3>1, <3>2 DEF TypeOK
    <2> QED
      BY <1>20, <2>2 DEF Shutdown, Take, clock
  <1>21. CASE RequestSteps
    <2>1. Tail(queue) \in Seq(Orders) /\ Asked \in 1 .. Width - 1
      BY <1>21, HeadIsOrder, AskedIsCount DEF RequestSteps, Take
    <2>2. (remaining + Asked) % Width \in 0 .. Width - 1
      <3>1. remaining \in 0 .. Width - 1 /\ Asked \in 0 .. Width - 1
        BY <2>1 DEF TypeOK
      <3> QED
        BY <3>1, CountsStay
    <2>3. TypeOK'
      <3>1. /\ queue' = Tail(queue) /\ applied' = applied + 1
            /\ UNCHANGED <<actions, pending, batch, ticks, world, sim, accepted, deferred, ran>>
        BY <1>21 DEF RequestSteps, Take, list, producers
      <3>2. /\ paused' \in BOOLEAN /\ remaining' \in 0 .. Width - 1
            /\ UNCHANGED <<accumulator, schematic, running>>
        BY <1>21, <2>2 DEF RequestSteps
      <3> QED
        BY <2>1, <3>1, <3>2 DEF TypeOK
    <2> QED
      BY <1>21, <2>3 DEF RequestSteps
  <1>22. CASE UNCHANGED vars
    BY <1>22 DEF vars, TypeOK, list, clock, producers
  <1> QED
    BY <1>1, <1>2, <1>3, <1>4, <1>5, <1>6, <1>7, <1>8, <1>9, <1>10, <1>11, <1>12, <1>13, <1>14, <1>15, <1>16, <1>17, <1>18, <1>19, <1>20, <1>21, <1>22 DEF Next, Sim, Commands

(* Every reachable state is well typed; a scheduler with steps to make is    *)
(* not paused (request_steps wakes it, pause takes the steps back).          *)
THEOREM AlwaysSafe == Spec => []Safe
  BY InitSafe, NextSafe, PTL DEF Spec

(* A tick is one the clock allows: a free one, or a step that is owed.       *)
LEMMA TickIsTick ==
  ASSUME Safe, AdvanceTick
  PROVE  Clock!Tick
  <1> USE DEF AdvanceTick, Ticks, CanAdvance, PausesAt, Clock!Tick
  <1>1. CASE remaining > 0
    <2>1. remaining' \in Clock!After(remaining) /\ paused' = (paused \/ remaining' = 0)
      BY <1>1
    <2>2. ~paused /\ remaining # 0
      BY <1>1 DEF Safe, StepsAreAwake
    <2>3. ~(~paused' /\ remaining' = 0)
      BY <2>1
    <2> QED
      BY <1>1, <2>1, <2>2, <2>3
  <1>2. CASE ~(remaining > 0)
    <2>1. remaining = 0 /\ ~paused
      BY <1>2 DEF Safe, TypeOK
    <2> QED
      BY <1>2, <2>1
  <1> QED
    BY <1>1, <1>2

(* The command the thread takes is the one the clock hears.                  *)
LEMMA TakenIsHeard ==
  ASSUME NEW kind, NEW kinds, Take(kind), kind \in kinds
  PROVE  Clock!Hear(kinds) /\ UNCHANGED world
  BY DEF Take, Clock!Hear

(* A step command adds what it asks for, unless the sum wraps.               *)
LEMMA StepsAreAsked ==
  ASSUME Safe, RequestSteps
  PROVE  Clock!Ask \/ WrappedCount
  <1>1. queue # <<>> /\ Clock!Steps = Asked /\ Clock!Hear({"step"}) /\ UNCHANGED world
    BY TakenIsHeard DEF RequestSteps, Take, Clock!Steps, Asked
  <1>2. remaining \in 0 .. Width - 1 /\ Asked \in 1 .. Width - 1
    BY <1>1, AskedIsCount DEF Safe, TypeOK
  <1>3. remaining' = (remaining + Asked) % Width /\ ~paused'
    BY DEF RequestSteps
  <1>4. CASE remaining + Asked < Width
    <2>1. remaining' = remaining + Asked /\ remaining' # 0
      BY <1>2, <1>3, <1>4, SizesAssumption
    <2> QED
      BY <1>1, <1>3, <2>1 DEF Clock!Ask
  <1>5. CASE remaining + Asked >= Width
    BY <1>1, <1>3, <1>5 DEF WrappedCount
  <1> QED
    BY <1>2, <1>4, <1>5, SizesAssumption

(* A resume releases the world, unless it still has steps to make.           *)
LEMMA ResumeReleases ==
  ASSUME Safe, Resume
  PROVE  Clock!Release \/ LostResume
  <1>1. Clock!Hear({"resume"}) /\ UNCHANGED world
    BY TakenIsHeard DEF Resume
  <1>2. ~paused' /\ remaining' = remaining
    BY DEF Resume
  <1>3. CASE remaining > 0
    BY <1>1, <1>2, <1>3 DEF LostResume, Clock!clock, Safe, StepsAreAwake
  <1>4. CASE ~(remaining > 0)
    <2>1. remaining = 0
      BY <1>4 DEF Safe, TypeOK
    <2> QED
      BY <1>1, <1>2, <2>1 DEF Clock!Release
  <1> QED
    BY <1>3, <1>4

(* The steps of the simulation are those of the clock and the two it does    *)
(* not allow, or do not concern it.                                          *)
LEMMA NextIsClock ==
  ASSUME Safe, [Next]_vars
  PROVE  [Clock!Next \/ LostResume \/ WrappedCount]_(Clock!vars)
  <1> USE DEF Clock!Next
  <1>1. CASE AdvanceTick
    BY <1>1, TickIsTick
  <1>2. CASE Pause \/ Reset
    <2>1. Clock!Hear({"pause", "reset"}) /\ UNCHANGED world
      BY <1>2, TakenIsHeard DEF Pause, Reset
    <2> QED
      BY <1>2, <2>1 DEF Pause, Reset, Clock!Hold
  <1>3. CASE Resume
    BY <1>3, ResumeReleases
  <1>4. CASE RequestSteps
    BY <1>4, StepsAreAsked
  <1>5. CASE SetTickRate \/ SetSchematic \/ SetOther \/ Shutdown
    <2>1. Clock!Hear({"rate", "schematic", "set", "shutdown"}) /\ UNCHANGED world
      BY <1>5, TakenIsHeard DEF SetTickRate, SetSchematic, SetOther, Shutdown
    <2>2. UNCHANGED <<paused, remaining>>
      BY <1>5 DEF SetTickRate, SetSchematic, SetOther, Shutdown, clock
    <2> QED
      BY <2>1, <2>2 DEF Clock!Listen, Clock!clock
  <1>6. CASE UNCHANGED <<paused, remaining, world, applied>>
    BY <1>6 DEF Clock!vars, Clock!clock
  <1>7. CASE BeginTurn \/ Exit \/ NoMoreCommands \/ EndTurn
    BY <1>6, <1>7 DEF BeginTurn, Exit, NoMoreCommands, EndTurn, clock
  <1>8. CASE NoActions \/ SeeActions \/ SwapActions \/ RunAction \/ ActionsDone
    BY <1>6, <1>8 DEF NoActions, SeeActions, SwapActions, RunAction, ActionsDone, clock
  <1>9. CASE (\E order \in Orders : Enqueue(order)) \/ Defer \/ Stop \/ UNCHANGED vars
    BY <1>6, <1>9 DEF Enqueue, Defer, Stop, vars, clock
  <1> QED
    BY <1>1, <1>2, <1>3, <1>4, <1>5, <1>7, <1>8, <1>9 DEF Next, Sim, Commands

(* The simulation thread with its queue, its bursts and its accumulator      *)
(* keeps the clock that docs/CLI_REFERENCE.md describes: it ticks when it    *)
(* was resumed, or else for exactly the steps it was asked for.  The only    *)
(* commands it obeys in another way are a resume that meets steps still to   *)
(* be made, and a step whose sum with them does not fit into 64 bits.        *)
THEOREM KeepsTheClock == Spec => ImplementsClock
  <1>1. Init => Clock!Init
    BY DEF Init, Clock!Init
  <1>2. Safe /\ [Next]_vars => [Clock!Next \/ LostResume \/ WrappedCount]_(Clock!vars)
    BY NextIsClock
  <1>3. Spec => []Safe
    BY AlwaysSafe
  <1> QED
    BY <1>1, <1>2, <1>3, PTL DEF Spec, ImplementsClock

-----------------------------------------------------------------------------
(* What the simulation has been given is applied or run once, or is still    *)
(* held; actions that wait are announced, and a batch was taken out only to  *)
(* be run: SwapActions, which overwrites it, never finds one.                *)
CommandsKept == accepted = applied + Len(queue)
ActionsKept ==
  /\ deferred = ran + actions + batch
  /\ actions > 0 => pending
  /\ batch > 0 => sim = "acting"

LEMMA NextKept == Safe /\ CommandsKept /\ ActionsKept /\ [Next]_vars => (CommandsKept /\ ActionsKept)'
  <1> SUFFICES ASSUME Safe, CommandsKept, ActionsKept, [Next]_vars
               PROVE  CommandsKept' /\ ActionsKept'
    OBVIOUS
  <1> DEFINE Kept == CommandsKept' /\ ActionsKept'
  <1>1. /\ queue \in Seq(Orders) /\ Len(queue) \in Nat /\ accepted \in Int /\ applied \in Nat
        /\ actions \in Nat /\ batch \in Nat /\ ran \in Nat /\ deferred \in Int
        /\ pending \in BOOLEAN
    BY DEF Safe, TypeOK
  <1>2. ASSUME NEW order \in Orders, Enqueue(order) PROVE Kept
    <2>1. Len(queue') = Len(queue) + 1 /\ accepted' = accepted + 1
      BY <1>1, <1>2 DEF Enqueue
    <2> QED
      BY <1>1, <1>2, <2>1 DEF Enqueue, list, CommandsKept, ActionsKept
  <1>3. CASE Defer
    BY <1>1, <1>3 DEF Defer, CommandsKept, ActionsKept
  <1>4. ASSUME NEW kind, Take(kind) PROVE Kept
    <2>1. Len(queue') = Len(queue) - 1 /\ applied' = applied + 1
      BY <1>1, <1>4 DEF Take
    <2> QED
      BY <1>1, <1>4, <2>1 DEF Take, list, producers, CommandsKept, ActionsKept
  <1>5. CASE \/ Pause \/ Resume \/ RequestSteps \/ Reset \/ SetTickRate \/ SetSchematic
             \/ SetOther \/ Shutdown
    BY <1>4, <1>5 DEF Pause, Resume, RequestSteps, Reset, SetTickRate, SetSchematic, SetOther,
                      Shutdown
  <1>6. CASE SwapActions
    <2>1. batch = 0
      BY <1>1, <1>6 DEF SwapActions, Go, ActionsKept
    <2> QED
      BY <1>1, <1>6, <2>1 DEF SwapActions, Go, producers, CommandsKept, ActionsKept
  <1>7. CASE RunAction
    BY <1>1, <1>7 DEF RunAction, producers, CommandsKept, ActionsKept
  <1>8. CASE \/ NoMoreCommands \/ NoActions \/ SeeActions \/ ActionsDone \/ BeginTurn \/ Exit
             \/ AdvanceTick \/ EndTurn \/ Stop \/ UNCHANGED vars
    <2>1. /\ UNCHANGED <<queue, actions, pending, batch, accepted, applied, deferred, ran>>
          /\ sim' = sim \/ sim # "acting" \/ batch = 0
      BY <1>8 DEF NoMoreCommands, NoActions, SeeActions, ActionsDone, BeginTurn, Exit, AdvanceTick,
                  EndTurn, Stop, Go, vars, list, producers
    <2>2. batch > 0 => sim' = sim
      BY <1>1, <1>8 DEF ActionsKept, NoMoreCommands, NoActions, SeeActions, ActionsDone, BeginTurn,
                        Exit, AdvanceTick, EndTurn, Stop, Go, vars
    <2> QED
      BY <2>1, <2>2 DEF CommandsKept, ActionsKept
  <1> QED
    BY <1>2, <1>3, <1>5, <1>6, <1>7, <1>8 DEF Next, Sim, Commands

(* No command that was accepted and no action that was handed over is lost   *)
(* or served twice, whenever they come: also while a batch is taken out or   *)
(* run, and when the thread leaves with commands in its queue.  That they    *)
(* are served in the end is CommandsApplied and ActionsRun.                  *)
THEOREM NothingIsLost == Spec => [](CommandsKept /\ ActionsKept)
  <1>1. Init => CommandsKept /\ ActionsKept
    BY DEF Init, CommandsKept, ActionsKept
  <1> QED
    BY <1>1, NextKept, AlwaysSafe, PTL DEF Spec

-----------------------------------------------------------------------------
(* Captures.  A sequence pauses and steps the scheduler on its own account,  *)
(* and held is what it sees of is_paused_: paused is the simulation's.       *)
CONSTANTS Totals, Depth, Missed, MaxCaptures, MaxFrames, MaxStills
VARIABLES copies, tasks, current, failed, cancel, held, ui, worker, captures

Capture == INSTANCE CaptureSession WITH paused <- held

-----------------------------------------------------------------------------
(* The inductive invariant, in parts.                                        *)

TaskRecords == [kind : {"single", "frame", "copy", "still", "assembly"}, frame : Nat]
SessionRecords ==
  [active : BOOLEAN, realtime : BOOLEAN, manual : BOOLEAN, assembles : BOOLEAN,
   deletes : BOOLEAN, script : BOOLEAN, total : Totals \cup {0}, prepared : Int, requests : Int,
   stills : Int, stopping : BOOLEAN, cancelled : BOOLEAN, pausedBy : BOOLEAN, found : BOOLEAN]
CaptureShape ==
  /\ session \in SessionRecords
  /\ tasks \in Seq(TaskRecords) /\ current \in TaskRecords \cup {Capture!None}
  /\ worker = "task" => current \in TaskRecords
  /\ worker \in {"wait", "task", "finish", "done"}
  /\ ui \in {"run", "ending", "copying", "joining", "gone"}
  /\ asked \in Nat /\ cancel \in BOOLEAN /\ failed \in BOOLEAN /\ held \in BOOLEAN

(* pending_tasks_ counts the tasks in the queue and the one being executed.  *)
CountExact ==
  unfinished = Len(tasks) + (IF worker \in {"task", "finish"} THEN 1 ELSE 0)

(* In the middle of update the session is open.                              *)
UpdateHasSession == ui \in {"ending", "copying"} => session.active

(* While a sequence is open its tasks are frames of it or stills, and every  *)
(* frame asked for is on the disk or waits in the queue or is being written, *)
(* unless a failure or a cancellation has been recorded.                     *)
OfSequence(t) ==
  /\ t.kind \in {"frame", "copy", "still"}
  /\ t.kind # "still" => t.frame \in 1 .. asked
Carries(t, n) == t.kind # "still" /\ t.frame = n
Waits(n) == \/ \E i \in 1 .. Len(tasks) : Carries(tasks[i], n)
            \/ worker = "task" /\ Carries(current, n)
FramesKept == \A n \in 1 .. asked : n \in files \/ Waits(n) \/ failed \/ cancel
CancelSeen == cancel => session.cancelled \/ ui \in {"joining", "gone"}
SequenceOK ==
  session.active =>
    /\ phase = "rendering" /\ video = {} /\ files \subseteq 1 .. asked
    /\ \A i \in 1 .. Len(tasks) : OfSequence(tasks[i])
    /\ worker = "task" => OfSequence(current)
    /\ FramesKept /\ CancelSeen

(* Otherwise there is one task at most, a screenshot or the assembly of all  *)
(* the frames; when it has been done the outcome is settled.                 *)
Solo(t) ==
  /\ video = {}
  /\ \/ t.kind = "single" /\ t.frame = 1 /\ asked = 1 /\ files = {} /\ phase = "rendering"
     \/ t.kind = "assembly" /\ files = 1 .. asked /\ phase = "assembling"
Settled ==
  /\ phase = "completed" => files \cup video = 1 .. asked
  /\ phase \in {"rendering", "assembling"} => thrown
AloneOK ==
  ~session.active =>
    /\ unfinished <= 1
    /\ tasks # <<>> => Solo(Head(tasks))
    /\ worker = "task" => Solo(current)
    /\ tasks = <<>> /\ worker # "task" => Settled

CaptureInv == CaptureShape /\ CountExact /\ UpdateHasSession /\ SequenceOK /\ AloneOK

-----------------------------------------------------------------------------
(* One lemma for each kind of step.                                          *)

LEMMA CaptureInit == Capture!Init => CaptureInv
<1> SUFFICES ASSUME Capture!Init PROVE CaptureInv OBVIOUS
<1>1. session = Capture!Closed /\ ~session.active /\ session \in SessionRecords
  BY DEF Capture!Init, Capture!Closed, SessionRecords
<1>2. /\ tasks = <<>> /\ current = Capture!None /\ worker = "wait" /\ ui = "run" /\ asked = 0
      /\ cancel = FALSE /\ failed = FALSE /\ held \in BOOLEAN /\ unfinished = 0
      /\ files = {} /\ video = {} /\ phase = "idle"
  BY DEF Capture!Init
<1>3. CaptureShape
  <2>1. tasks \in Seq(TaskRecords) /\ asked \in Nat BY <1>2
  <2>2. cancel \in BOOLEAN /\ failed \in BOOLEAN BY <1>2, Zenon
  <2> QED BY <1>1, <1>2, <2>1, <2>2 DEF CaptureShape
<1>4. CountExact /\ UpdateHasSession BY <1>2 DEF CountExact, UpdateHasSession
<1>5. SequenceOK BY <1>1 DEF SequenceOK
<1>6. AloneOK BY <1>2 DEF AloneOK, Settled
<1> QED BY <1>3, <1>4, <1>5, <1>6 DEF CaptureInv

(* Nothing is under way when a capture begins.                               *)
LEMMA Quiet ==
  ASSUME CaptureInv, ~Capture!Busy
  PROVE  ~session.active /\ tasks = <<>> /\ worker \in {"wait", "done"} /\ unfinished = 0
<1>1. ~session.active /\ ~(unfinished > 0) BY DEF Capture!Busy
<1>2. Len(tasks) \in Nat /\ (Len(tasks) = 0 => tasks = <<>>)
  BY DEF CaptureInv, CaptureShape
<1> QED BY <1>1, <1>2 DEF CaptureInv, CaptureShape, CountExact

LEMMA ScreenshotStep ==
  ASSUME CaptureInv, Capture!RequestScreenshot
  PROVE  CaptureInv'
<1>1. PICK t \in TaskRecords : t = Capture!Frame("single", 1)
  BY DEF Capture!Frame, TaskRecords
<1>2. t.kind = "single" /\ t.frame = 1 BY <1>1 DEF Capture!Frame
<1>3. ~session.active /\ tasks = <<>> /\ worker \in {"wait", "done"} /\ unfinished = 0
  BY Quiet DEF Capture!RequestScreenshot
<1>4. /\ tasks' = tasks \o <<t>> /\ unfinished' = unfinished + Len(<<t>>)
      /\ asked' = 1 /\ files' = {} /\ video' = {} /\ phase' = "rendering" /\ cancel' = FALSE
      /\ failed' = FALSE /\ ui = "run"
      /\ UNCHANGED <<session, current, held, ui, worker>>
  BY <1>1 DEF Capture!RequestScreenshot, Capture!Begin, Capture!Enqueue
<1>5. tasks' = <<t>> /\ Len(tasks') = 1 /\ Head(tasks') = t /\ unfinished' = 1
  BY <1>3, <1>4
<1>6. CaptureShape'
  <2>1. tasks' \in Seq(TaskRecords) BY <1>5
  <2>2. /\ session \in SessionRecords /\ current \in TaskRecords \cup {Capture!None}
        /\ held \in BOOLEAN
    BY DEF CaptureInv, CaptureShape
  <2>3. asked' \in Nat /\ cancel' \in BOOLEAN /\ failed' \in BOOLEAN /\ held' \in BOOLEAN
    BY <1>4, <2>2
  <2>4. session' \in SessionRecords /\ current' \in TaskRecords \cup {Capture!None}
    BY <1>4, <2>2
  <2> QED BY <1>3, <1>4, <2>1, <2>3, <2>4 DEF CaptureShape
<1>7. CountExact' /\ UpdateHasSession' BY <1>3, <1>4, <1>5 DEF CountExact, UpdateHasSession
<1>8. SequenceOK' BY <1>3, <1>4 DEF SequenceOK
<1>9. AloneOK' BY <1>2, <1>3, <1>4, <1>5 DEF AloneOK, Solo
<1> QED BY <1>6, <1>7, <1>8, <1>9 DEF CaptureInv

LEMMA StartStep ==
  ASSUME CaptureInv, NEW total \in Totals, NEW pauses \in BOOLEAN, NEW s \in Capture!Settings,
         Capture!StartSequence(total, pauses, s)
  PROVE  CaptureInv'
<1>1. ~session.active /\ tasks = <<>> /\ worker \in {"wait", "done"} /\ unfinished = 0
  BY Quiet DEF Capture!StartSequence
<1>2. /\ asked' = 0 /\ files' = {} /\ video' = {} /\ phase' = "rendering" /\ cancel' = FALSE
      /\ failed' = FALSE /\ ui = "run"
      /\ UNCHANGED <<tasks, current, unfinished, ui, worker>>
  BY DEF Capture!StartSequence, Capture!Begin
<1>3. held \in BOOLEAN BY DEF CaptureInv, CaptureShape
<1>4. /\ s.realtime \in BOOLEAN /\ s.manual \in BOOLEAN /\ s.assembles \in BOOLEAN
      /\ s.deletes \in BOOLEAN /\ s.script \in BOOLEAN
  BY DEF Capture!Settings
<1>5. session' \in SessionRecords /\ session'.active
  <2>1. PICK by \in BOOLEAN : by = (~s.realtime /\ pauses /\ ~held)
    OBVIOUS
  <2>2. session' = [Capture!Closed EXCEPT !.active = TRUE, !.total = total,
                      !.realtime = s.realtime, !.manual = s.manual, !.assembles = s.assembles,
                      !.deletes = s.deletes, !.script = s.script, !.pausedBy = by,
                      !.found = held]
    BY <2>1 DEF Capture!StartSequence
  <2>3. session' = [active |-> TRUE, realtime |-> s.realtime, manual |-> s.manual,
                    assembles |-> s.assembles, deletes |-> s.deletes, script |-> s.script,
                    total |-> total, prepared |-> 0, requests |-> 0, stills |-> 0,
                    stopping |-> FALSE, cancelled |-> FALSE, pausedBy |-> by, found |-> held]
    BY <2>2 DEF Capture!Closed
  <2> QED BY <1>3, <1>4, <2>3 DEF SessionRecords
<1>6. held' \in BOOLEAN BY DEF Capture!StartSequence
<1>7. CaptureShape' BY <1>2, <1>5, <1>6 DEF CaptureInv, CaptureShape
<1>8. CountExact' /\ UpdateHasSession' BY <1>1, <1>2 DEF CaptureInv, CountExact, UpdateHasSession
<1>9. SequenceOK'
  BY <1>1, <1>2, <1>5 DEF SequenceOK, FramesKept, CancelSeen
<1>10. AloneOK' BY <1>5 DEF AloneOK
<1> QED BY <1>7, <1>8, <1>9, <1>10 DEF CaptureInv

(* Steps of the user interface that leave the tasks and the record of the    *)
(* capture alone.                                                            *)
LEMMA CaptureQuietStep ==
  ASSUME CaptureInv,
         UNCHANGED <<tasks, current, unfinished, worker, phase, asked, files, video, thrown>>,
         session' \in SessionRecords, session'.active = session.active,
         session.cancelled => session'.cancelled,
         ui' \in {"run", "ending", "copying", "joining", "gone"},
         ui' \in {"ending", "copying"} => session.active,
         ui \in {"joining", "gone"} => ui' \in {"joining", "gone"},
         cancel' \in BOOLEAN, failed' \in BOOLEAN, held' \in BOOLEAN,
         failed => failed', cancel => cancel',
         cancel' => cancel \/ session'.cancelled \/ ~session.active \/ ui' = "joining"
  PROVE  CaptureInv'
<1>1. CaptureShape' BY DEF CaptureInv, CaptureShape
<1>2. CountExact' /\ UpdateHasSession' BY DEF CaptureInv, CountExact, UpdateHasSession
<1>3. SequenceOK'
  <2> SUFFICES ASSUME session.active PROVE SequenceOK' BY DEF SequenceOK
  <2>1. /\ phase = "rendering" /\ video = {} /\ files \subseteq 1 .. asked
        /\ \A i \in 1 .. Len(tasks) : OfSequence(tasks[i])
        /\ worker = "task" => OfSequence(current)
        /\ FramesKept /\ CancelSeen
    BY DEF CaptureInv, SequenceOK
  <2>2. \A i \in 1 .. Len(tasks) : OfSequence(tasks[i])' BY <2>1 DEF OfSequence
  <2>3. worker = "task" => OfSequence(current)' BY <2>1 DEF OfSequence
  <2>4. FramesKept' BY <2>1 DEF FramesKept, Waits
  <2>5. CancelSeen' BY <2>1 DEF CancelSeen
  <2> QED BY <2>1, <2>2, <2>3, <2>4, <2>5 DEF SequenceOK
<1>4. AloneOK' BY DEF CaptureInv, AloneOK, Solo, Settled
<1> QED BY <1>1, <1>2, <1>3, <1>4 DEF CaptureInv

(* The steps of update that have nothing to queue, and those of the user.    *)
LEMMA CaptureUserStep ==
  ASSUME CaptureInv,
         \/ Capture!StopSequence \/ Capture!CancelAll \/ Capture!RequestManualFrame
         \/ Capture!TogglePause \/ Capture!RunEvents \/ Capture!SeeCancel \/ Capture!Skip
         \/ Capture!DropCopy \/ Capture!AllCopied \/ Capture!GoOn
         \/ Capture!Shutdown \/ Capture!Join
         \/ \E steps \in BOOLEAN : Capture!FailToPrepare(steps)
  PROVE  CaptureInv'
<1>1. session \in SessionRecords /\ held \in BOOLEAN /\ cancel \in BOOLEAN /\ failed \in BOOLEAN
  BY DEF CaptureInv, CaptureShape
<1>2. session.active \in BOOLEAN /\ session.requests \in Int BY <1>1 DEF SessionRecords
<1>3. CASE Capture!StopSequence
  <2>1. /\ session' = [session EXCEPT !.stopping = TRUE] /\ ui = "run"
        /\ UNCHANGED <<tasks, current, unfinished, failed, phase, cancel, held, ui, worker, asked,
                       files, video, thrown>>
    BY <1>3 DEF Capture!StopSequence, Capture!capture
  <2>2. /\ session' \in SessionRecords /\ session'.active = session.active
        /\ session'.cancelled = session.cancelled
    BY <1>1, <2>1 DEF SessionRecords
  <2> QED BY <1>1, <2>1, <2>2, CaptureQuietStep
<1>4. CASE Capture!CancelAll
  <2>1. /\ cancel' = TRUE /\ ui = "run"
        /\ session.active => session' = [session EXCEPT !.stopping = TRUE, !.cancelled = TRUE]
        /\ ~session.active => session' = session
        /\ UNCHANGED <<tasks, current, unfinished, failed, phase, held, ui, worker, asked,
                       files, video, thrown>>
    BY <1>2, <1>4 DEF Capture!CancelAll, Capture!capture
  <2>2. /\ session' \in SessionRecords /\ session'.active = session.active
        /\ session.cancelled => session'.cancelled
        /\ session.active => session'.cancelled
    BY <1>1, <1>2, <2>1 DEF SessionRecords
  <2> QED BY <1>1, <1>2, <2>1, <2>2, CaptureQuietStep
<1>5. CASE Capture!RequestManualFrame
  <2>1. /\ session' = [session EXCEPT !.requests = session.requests + 1] /\ ui = "run"
        /\ UNCHANGED <<tasks, current, unfinished, failed, phase, cancel, held, ui, worker, asked,
                       files, video, thrown>>
    BY <1>5 DEF Capture!RequestManualFrame, Capture!capture
  <2>2. /\ session' \in SessionRecords /\ session'.active = session.active
        /\ session'.cancelled = session.cancelled
    BY <1>1, <1>2, <2>1 DEF SessionRecords
  <2> QED BY <1>1, <2>1, <2>2, CaptureQuietStep
<1>6. CASE Capture!TogglePause \/ Capture!RunEvents
  <2>1. /\ held' \in BOOLEAN /\ ui = "run"
        /\ UNCHANGED <<session, tasks, current, unfinished, failed, phase, cancel, ui, worker,
                       asked, files, video, thrown>>
    BY <1>6 DEF Capture!TogglePause, Capture!RunEvents, Capture!Updating, Capture!capture
  <2> QED BY <1>1, <2>1, CaptureQuietStep
<1>7. CASE Capture!SeeCancel
  <2>1. /\ session' = [session EXCEPT !.stopping = TRUE, !.cancelled = TRUE]
        /\ session.active /\ ui = "run" /\ ui' = "ending"
        /\ UNCHANGED <<tasks, current, unfinished, failed, phase, cancel, held, worker, asked,
                       files, video, thrown>>
    BY <1>7 DEF Capture!SeeCancel, Capture!Updating, Capture!capture
  <2>2. /\ session' \in SessionRecords /\ session'.active = session.active
        /\ session'.cancelled
    BY <1>1, <2>1 DEF SessionRecords
  <2> QED BY <1>1, <2>1, <2>2, CaptureQuietStep
<1>8. CASE Capture!Skip \/ Capture!DropCopy \/ Capture!AllCopied \/ Capture!GoOn
  <2>1. /\ ui \in {"run", "copying", "ending"} /\ ui' \in {"run", "copying", "ending"}
        /\ ui' \in {"ending", "copying"} => session.active \/ ui \in {"ending", "copying"}
        /\ UNCHANGED <<session, tasks, current, unfinished, failed, phase, cancel, held, worker,
                       asked, files, video, thrown>>
    BY <1>8 DEF Capture!Skip, Capture!DropCopy, Capture!AllCopied, Capture!GoOn,
                Capture!Updating, Capture!capture
  <2>2. ui' \in {"ending", "copying"} => session.active
    BY <2>1 DEF CaptureInv, UpdateHasSession
  <2> QED BY <1>1, <2>1, <2>2, CaptureQuietStep
<1>9. CASE Capture!Shutdown \/ Capture!Join
  <2>1. /\ ui' \in {"joining", "gone"} /\ (ui' = "joining" \/ cancel' = cancel)
        /\ cancel' \in BOOLEAN /\ (cancel => cancel')
        /\ UNCHANGED <<session, tasks, current, unfinished, failed, phase, held, worker,
                       asked, files, video, thrown>>
    BY <1>1, <1>9 DEF Capture!Shutdown, Capture!Join, Capture!capture
  <2> QED BY <1>1, <2>1, CaptureQuietStep
<1>10. ASSUME NEW steps \in BOOLEAN, Capture!FailToPrepare(steps) PROVE CaptureInv'
  <2>1. PICK left : left = Capture!Consumed OBVIOUS
  <2>2. /\ session' = [session EXCEPT !.stopping = TRUE, !.requests = left]
        /\ session.active /\ ui = "run" /\ ui' = "ending" /\ failed' = TRUE
        /\ UNCHANGED <<tasks, current, unfinished, phase, cancel, worker, asked,
                       files, video, thrown>>
    BY <1>10, <2>1 DEF Capture!FailToPrepare, Capture!Ready, Capture!Goes, Capture!Updating,
                       Capture!capture
  <2>3. left \in Int BY <1>2, <2>1 DEF Capture!Consumed
  <2>4. /\ session' \in SessionRecords /\ session'.active = session.active
        /\ session'.cancelled = session.cancelled
    BY <1>1, <2>2, <2>3 DEF SessionRecords
  <2>5. held' \in BOOLEAN BY <1>10 DEF Capture!FailToPrepare
  <2> QED BY <1>1, <2>2, <2>4, <2>5, CaptureQuietStep
<1> QED BY <1>3, <1>4, <1>5, <1>6, <1>7, <1>8, <1>9, <1>10

(* Tasks are queued in an open session, and the frames asked for with them.  *)
LEMMA CaptureEnqueueStep ==
  ASSUME CaptureInv, session.active, session' \in SessionRecords, session'.active,
         session.cancelled => session'.cancelled,
         NEW new \in Seq(TaskRecords), Capture!Enqueue(new),
         asked' \in Nat, asked <= asked',
         \A i \in 1 .. Len(new) : OfSequence(new[i])',
         \A n \in (asked + 1) .. asked' : \E i \in 1 .. Len(new) : Carries(new[i], n),
         ui' \in {"ending", "copying"}, ui \in {"run", "copying"}, held' \in BOOLEAN,
         UNCHANGED <<current, failed, phase, cancel, worker, files, video>>
  PROVE  CaptureInv'
<1>1. tasks' = tasks \o new /\ unfinished' = unfinished + Len(new) BY DEF Capture!Enqueue
<1>2. /\ tasks \in Seq(TaskRecords) /\ current \in TaskRecords \cup {Capture!None}
      /\ worker = "task" => current \in TaskRecords
      /\ worker \in {"wait", "task", "finish", "done"}
      /\ asked \in Nat /\ cancel \in BOOLEAN /\ failed \in BOOLEAN
  BY DEF CaptureInv, CaptureShape
<1>3. /\ phase = "rendering" /\ video = {} /\ files \subseteq 1 .. asked
      /\ \A i \in 1 .. Len(tasks) : OfSequence(tasks[i])
      /\ worker = "task" => OfSequence(current)
      /\ FramesKept /\ CancelSeen
  BY DEF CaptureInv, SequenceOK
<1>4. /\ tasks' \in Seq(TaskRecords) /\ Len(tasks') = Len(tasks) + Len(new)
      /\ \A i \in 1 .. Len(tasks) : tasks'[i] = tasks[i]
      /\ \A i \in 1 .. Len(new) : tasks'[Len(tasks) + i] = new[i]
      /\ \A i \in 1 .. Len(tasks') :
           i \in 1 .. Len(tasks) \/ \E j \in 1 .. Len(new) : i = Len(tasks) + j
  <2>1. /\ tasks' \in Seq(TaskRecords) /\ Len(tasks') = Len(tasks) + Len(new)
        /\ \A i \in 1 .. Len(tasks) : tasks'[i] = tasks[i]
        /\ \A i \in 1 .. Len(new) : tasks'[Len(tasks) + i] = new[i]
    BY <1>1, <1>2
  <2>2. ASSUME NEW i \in 1 .. Len(tasks'), ~(i \in 1 .. Len(tasks))
        PROVE  \E j \in 1 .. Len(new) : i = Len(tasks) + j
    <3>1. PICK j : j = i - Len(tasks) OBVIOUS
    <3>2. Len(tasks) \in Nat /\ Len(new) \in Nat /\ Len(tasks') = Len(tasks) + Len(new)
      BY <1>2, <2>1
    <3>3. j \in 1 .. Len(new) /\ i = Len(tasks) + j BY <2>2, <3>1, <3>2
    <3> QED BY <3>3
  <2> QED BY <2>1, <2>2
<1>5. CaptureShape' BY <1>2, <1>4 DEF CaptureShape
<1>6. CountExact' /\ UpdateHasSession'
  BY <1>1, <1>2, <1>4 DEF CaptureInv, CountExact, UpdateHasSession
<1>7. SequenceOK'
  <2>1. \A t \in TaskRecords : OfSequence(t) => OfSequence(t)' BY <1>2 DEF OfSequence
  <2>2. \A i \in 1 .. Len(tasks') : OfSequence(tasks[i])'
    <3> SUFFICES ASSUME NEW i \in 1 .. Len(tasks') PROVE OfSequence(tasks[i])' OBVIOUS
    <3>1. CASE i \in 1 .. Len(tasks)
      <4>1. tasks[i] \in TaskRecords /\ OfSequence(tasks[i]) /\ tasks'[i] = tasks[i]
        BY <1>2, <1>3, <1>4, <3>1
      <4> QED BY <1>2, <4>1 DEF OfSequence
    <3>2. CASE \E j \in 1 .. Len(new) : i = Len(tasks) + j
      <4>1. PICK j \in 1 .. Len(new) : i = Len(tasks) + j BY <3>2
      <4>2. tasks'[i] = new[j] /\ OfSequence(new[j])' BY <1>4, <4>1
      <4> QED BY <4>2 DEF OfSequence
    <3> QED BY <1>4, <3>1, <3>2
  <2>3. worker' = "task" => OfSequence(current)' BY <1>2, <1>3 DEF OfSequence
  <2>4. FramesKept'
    <3> SUFFICES ASSUME NEW n \in 1 .. asked' PROVE (n \in files \/ Waits(n) \/ failed \/ cancel)'
      BY DEF FramesKept
    <3>1. CASE n \in 1 .. asked
      <4>1. CASE Waits(n)
        <5>1. CASE \E i \in 1 .. Len(tasks) : Carries(tasks[i], n)
          <6>1. PICK i \in 1 .. Len(tasks) : Carries(tasks[i], n) BY <5>1
          <6>2. i \in 1 .. Len(tasks') /\ tasks'[i] = tasks[i] BY <1>2, <1>4
          <6>3. Carries(tasks'[i], n) BY <6>1, <6>2
          <6> QED BY <6>2, <6>3 DEF Waits, Carries
        <5>2. CASE worker = "task" /\ Carries(current, n) BY <5>2 DEF Waits, Carries
        <5> QED BY <4>1, <5>1, <5>2 DEF Waits
      <4>2. CASE n \in files \/ failed \/ cancel BY <4>2
      <4> QED BY <1>3, <3>1, <4>1, <4>2 DEF FramesKept
    <3>2. CASE n \in (asked + 1) .. asked'
      <4>1. PICK i \in 1 .. Len(new) : Carries(new[i], n) BY <3>2
      <4>2. Len(tasks) + i \in 1 .. Len(tasks') /\ tasks'[Len(tasks) + i] = new[i]
        BY <1>2, <1>4
      <4>3. Carries(tasks'[Len(tasks) + i], n) BY <4>1, <4>2
      <4> QED BY <4>2, <4>3 DEF Waits, Carries
    <3> QED BY <1>2, <3>1, <3>2
  <2>5. CancelSeen' BY <1>3 DEF CancelSeen
  <2>6. files' \subseteq 1 .. asked' BY <1>2, <1>3
  <2> QED BY <1>3, <2>2, <2>3, <2>4, <2>5, <2>6 DEF SequenceOK
<1>8. AloneOK' BY DEF AloneOK
<1> QED BY <1>5, <1>6, <1>7, <1>8 DEF CaptureInv

LEMMA StillsFacts ==
  ASSUME NEW still \in BOOLEAN, session \in SessionRecords
  PROVE  /\ Capture!Stills(still) \in Seq(TaskRecords) /\ Capture!Count(still) \in Int
         /\ Len(Capture!Stills(still)) \in {0, 1}
         /\ \A i \in 1 .. Len(Capture!Stills(still)) : Capture!Stills(still)[i].kind = "still"
<1>1. Capture!Frame("still", 0) \in TaskRecords /\ Capture!Frame("still", 0).kind = "still"
  BY DEF Capture!Frame, TaskRecords
<1>2. Capture!Count(still) \in Int BY DEF Capture!Count, SessionRecords
<1>3. CASE still
  <2>1. PICK t \in TaskRecords : t = Capture!Frame("still", 0) /\ t.kind = "still" BY <1>1
  <2>2. Capture!Stills(still) = <<t>> BY <1>3, <2>1 DEF Capture!Stills
  <2> QED BY <1>2, <2>1, <2>2
<1>4. CASE ~still
  <2>1. Capture!Stills(still) = <<>> BY <1>4 DEF Capture!Stills
  <2> QED BY <1>2, <2>1
<1> QED BY <1>3, <1>4

(* A frame is queued under the next number, after a still perhaps.           *)
LEMMA NextFrame ==
  ASSUME CaptureInv, asked' = asked + 1, NEW stills \in Seq(TaskRecords),
         \A i \in 1 .. Len(stills) : stills[i].kind = "still",
         NEW frame \in TaskRecords, frame.kind \in {"frame", "copy"}, frame.frame = asked',
         NEW new, new = stills \o <<frame>>
  PROVE  /\ new \in Seq(TaskRecords) /\ asked' \in Nat /\ asked <= asked'
         /\ \A i \in 1 .. Len(new) : OfSequence(new[i])'
         /\ \A n \in (asked + 1) .. asked' : \E i \in 1 .. Len(new) : Carries(new[i], n)
<1>1. asked \in Nat /\ asked' \in Nat BY DEF CaptureInv, CaptureShape
<1>2. new \in Seq(TaskRecords)
  <2>1. <<frame>> \in Seq(TaskRecords) OBVIOUS
  <2>2. stills \o <<frame>> \in Seq(TaskRecords) BY <2>1
  <2> QED BY <2>2
<1>3. /\ Len(new) = Len(stills) + 1 /\ new[Len(new)] = frame
      /\ \A i \in 1 .. Len(stills) : new[i] = stills[i]
  BY <1>2
<1>4. ASSUME NEW i \in 1 .. Len(new) PROVE OfSequence(new[i])'
  <2>1. i = Len(new) \/ i \in 1 .. Len(stills) BY <1>3
  <2> QED BY <1>1, <1>3, <2>1 DEF OfSequence
<1>5. ASSUME NEW n \in (asked + 1) .. asked' PROVE \E i \in 1 .. Len(new) : Carries(new[i], n)
  <2>1. n = frame.frame /\ Len(new) \in 1 .. Len(new) BY <1>1, <1>3
  <2> QED BY <1>3, <2>1 DEF Carries
<1> QED BY <1>1, <1>2, <1>4, <1>5

LEMMA PrepareStep ==
  ASSUME CaptureInv, NEW steps \in BOOLEAN, NEW still \in BOOLEAN,
         Capture!PrepareFrame(steps, still)
  PROVE  CaptureInv'
<1>1. session \in SessionRecords /\ held \in BOOLEAN /\ asked \in Nat
  BY DEF CaptureInv, CaptureShape
<1>2. PICK left : left = Capture!Consumed OBVIOUS
<1>3. PICK count : count = Capture!Count(still) OBVIOUS
<1>4. /\ session' = [session EXCEPT !.prepared = session.prepared + 1, !.requests = left,
                                  !.stills = count]
      /\ session.active /\ ui = "run" /\ ui' = "ending" /\ asked' = asked + 1
      /\ Capture!Enqueue(Capture!Stills(still) \o <<Capture!Frame("frame", asked')>>)
      /\ UNCHANGED <<current, failed, phase, cancel, worker, files, video>>
  BY <1>2, <1>3 DEF Capture!PrepareFrame, Capture!Ready, Capture!Goes, Capture!Updating
<1>5. left \in Int /\ count \in Int /\ session.prepared + 1 \in Int
  <2>1. session.prepared \in Int /\ session.requests \in Int BY <1>1 DEF SessionRecords
  <2>2. left \in Int BY <1>2, <2>1 DEF Capture!Consumed
  <2>3. count \in Int BY <1>1, <1>3, StillsFacts
  <2> QED BY <2>1, <2>2, <2>3
<1>6. /\ session' \in SessionRecords /\ session'.active
      /\ session'.cancelled = session.cancelled
  BY <1>1, <1>4, <1>5 DEF SessionRecords
<1>7. held' \in BOOLEAN BY DEF Capture!PrepareFrame
<1>8. PICK stills \in Seq(TaskRecords) :
        /\ stills = Capture!Stills(still)
        /\ \A i \in 1 .. Len(stills) : stills[i].kind = "still"
  BY <1>1, StillsFacts
<1>9. PICK frame \in TaskRecords :
        frame = Capture!Frame("frame", asked') /\ frame.kind = "frame" /\ frame.frame = asked'
  BY <1>1, <1>4 DEF Capture!Frame, TaskRecords
<1>10. PICK new : new = stills \o <<frame>> OBVIOUS
<1>11. /\ new \in Seq(TaskRecords) /\ asked' \in Nat /\ asked <= asked'
       /\ \A i \in 1 .. Len(new) : OfSequence(new[i])'
       /\ \A n \in (asked + 1) .. asked' : \E i \in 1 .. Len(new) : Carries(new[i], n)
  <2>1. asked' = asked + 1 BY <1>4
  <2> QED BY <1>8, <1>9, <1>10, <2>1, NextFrame
<1>12. Capture!Enqueue(new) BY <1>4, <1>8, <1>9, <1>10
<1> QED BY <1>4, <1>6, <1>7, <1>11, <1>12, CaptureEnqueueStep

LEMMA DueStep ==
  ASSUME CaptureInv, NEW missed \in Missed, NEW still \in BOOLEAN,
         Capture!FramesDue(missed, still)
  PROVE  CaptureInv'
<1>1. session \in SessionRecords /\ held \in BOOLEAN /\ asked \in Nat
  BY DEF CaptureInv, CaptureShape
<1>2. PICK count : count = Capture!Count(still) OBVIOUS
<1>3. /\ session' = [session EXCEPT !.stills = count]
      /\ session.active /\ ui = "run" /\ ui' = "copying" /\ asked' = asked /\ held' = held
      /\ Capture!Enqueue(Capture!Stills(still))
      /\ UNCHANGED <<current, failed, phase, cancel, worker, files, video>>
  BY <1>2 DEF Capture!FramesDue, Capture!Goes, Capture!Updating, Capture!capture
<1>4. count \in Int BY <1>1, <1>2, StillsFacts
<1>5. /\ session' \in SessionRecords /\ session'.active
      /\ session'.cancelled = session.cancelled
  BY <1>1, <1>3, <1>4 DEF SessionRecords
<1>6. PICK new \in Seq(TaskRecords) :
        new = Capture!Stills(still) /\ \A i \in 1 .. Len(new) : new[i].kind = "still"
  BY <1>1, StillsFacts
<1>7. \A i \in 1 .. Len(new) : OfSequence(new[i])' BY <1>6 DEF OfSequence
<1>8. \A n \in (asked + 1) .. asked' : \E i \in 1 .. Len(new) : Carries(new[i], n)
  BY <1>1, <1>3
<1>9. Capture!Enqueue(new) BY <1>3, <1>6
<1> QED BY <1>1, <1>3, <1>5, <1>7, <1>8, <1>9, CaptureEnqueueStep

LEMMA CopyStep ==
  ASSUME CaptureInv, Capture!QueueCopy
  PROVE  CaptureInv'
<1>1. session \in SessionRecords /\ held \in BOOLEAN /\ asked \in Nat
  BY DEF CaptureInv, CaptureShape
<1>2. /\ session' = [session EXCEPT !.prepared = session.prepared + 1]
      /\ ui = "copying" /\ ui' = ui /\ asked' = asked + 1 /\ held' = held
      /\ Capture!Enqueue(<<Capture!Frame("copy", asked')>>)
      /\ UNCHANGED <<current, failed, phase, cancel, worker, files, video>>
  BY DEF Capture!QueueCopy
<1>3. session.active BY <1>2 DEF CaptureInv, UpdateHasSession
<1>4. session.prepared + 1 \in Int BY <1>1 DEF SessionRecords
<1>5. /\ session' \in SessionRecords /\ session'.active
      /\ session'.cancelled = session.cancelled
  BY <1>1, <1>2, <1>3, <1>4 DEF SessionRecords
<1>6. PICK frame \in TaskRecords :
        frame = Capture!Frame("copy", asked') /\ frame.kind = "copy" /\ frame.frame = asked'
  BY <1>1, <1>2 DEF Capture!Frame, TaskRecords
<1>7. PICK stills \in Seq(TaskRecords) :
        stills = <<>> /\ \A i \in 1 .. Len(stills) : stills[i].kind = "still"
  <2>1. <<>> \in Seq(TaskRecords) OBVIOUS
  <2>2. PICK empty \in Seq(TaskRecords) : empty = <<>> BY <2>1, Zenon
  <2>3. Len(empty) = 0 BY <2>2
  <2>4. \A i \in 1 .. Len(empty) : empty[i].kind = "still" BY <2>3
  <2> QED BY <2>2, <2>4
<1>8. PICK new : new = stills \o <<frame>> OBVIOUS
<1>9. /\ new \in Seq(TaskRecords) /\ asked' \in Nat /\ asked <= asked'
      /\ \A i \in 1 .. Len(new) : OfSequence(new[i])'
      /\ \A n \in (asked + 1) .. asked' : \E i \in 1 .. Len(new) : Carries(new[i], n)
  BY <1>2, <1>6, <1>7, <1>8, NextFrame
<1>10. new = <<frame>> BY <1>7, <1>8
<1>11. Capture!Enqueue(new) BY <1>2, <1>6, <1>10
<1> QED BY <1>1, <1>2, <1>3, <1>5, <1>9, <1>11, CaptureEnqueueStep

(* The end of a session.  Its last task is finished, so no frame waits:      *)
(* when nothing failed and nothing was cancelled they are all on the disk.   *)
LEMMA FinalizeStep ==
  ASSUME CaptureInv, Capture!FinalizeSession
  PROVE  CaptureInv'
<1>1. /\ session \in SessionRecords /\ held \in BOOLEAN /\ asked \in Nat
      /\ tasks \in Seq(TaskRecords) /\ current \in TaskRecords \cup {Capture!None}
      /\ worker \in {"wait", "task", "finish", "done"}
      /\ cancel \in BOOLEAN /\ failed \in BOOLEAN
  BY DEF CaptureInv, CaptureShape
<1>2. /\ ui = "ending" /\ ui' = "run" /\ unfinished = 0
      /\ session' = [session EXCEPT !.active = FALSE]
      /\ UNCHANGED <<current, failed, cancel, worker, asked, files, video, thrown>>
  BY DEF Capture!FinalizeSession, Capture!Ends, Capture!TasksFinished, Capture!capture
<1>3. session.active BY <1>2 DEF CaptureInv, UpdateHasSession
<1>4. tasks = <<>> /\ worker \in {"wait", "done"}
  <2>1. Len(tasks) \in Nat /\ (Len(tasks) = 0 => tasks = <<>>) BY <1>1
  <2> QED BY <1>1, <1>2, <2>1 DEF CaptureInv, CountExact
<1>5. session' \in SessionRecords /\ ~session'.active BY <1>1, <1>2 DEF SessionRecords
<1>6. held' \in BOOLEAN BY DEF Capture!FinalizeSession
<1>7. video = {} /\ files \subseteq 1 .. asked /\ FramesKept /\ CancelSeen
  BY <1>3 DEF CaptureInv, SequenceOK
<1>8. Capture!Outcome = "completed" => files = 1 .. asked
  <2> SUFFICES ASSUME Capture!Outcome = "completed" PROVE files = 1 .. asked OBVIOUS
  <2>1. ~session.cancelled /\ ~failed BY <1>1 DEF Capture!Outcome
  <2>2. ~cancel BY <1>2, <1>7, <2>1 DEF CancelSeen
  <2>3. ASSUME NEW n \in 1 .. asked PROVE n \in files
    <3>1. Len(tasks) = 0 BY <1>4
    <3>2. ~Waits(n) BY <1>4, <3>1 DEF Waits
    <3> QED BY <1>7, <2>1, <2>2, <3>2 DEF FramesKept
  <2> QED BY <1>7, <2>3
<1>9. CASE Capture!Assembles
  <2>1. PICK t \in TaskRecords : t = Capture!Frame("assembly", 0) /\ t.kind = "assembly"
    <3>1. /\ Capture!Frame("assembly", 0) \in TaskRecords
          /\ Capture!Frame("assembly", 0).kind = "assembly"
      BY DEF Capture!Frame, TaskRecords
    <3> QED BY <3>1
  <2>2. /\ tasks' = tasks \o <<t>> /\ unfinished' = unfinished + Len(<<t>>)
        /\ phase' = "assembling" /\ files = 1 .. asked
    BY <1>8, <1>9, <2>1 DEF Capture!FinalizeSession, Capture!Enqueue, Capture!Assembles
  <2>3. tasks' = <<t>> /\ Len(tasks') = 1 /\ Head(tasks') = t /\ unfinished' = 1
    BY <1>2, <1>4, <2>2
  <2>4. tasks' \in Seq(TaskRecords) BY <2>3
  <2>5. CaptureShape' BY <1>1, <1>2, <1>4, <1>5, <1>6, <2>4 DEF CaptureShape
  <2>6. CountExact' /\ UpdateHasSession'
    BY <1>2, <1>4, <2>3 DEF CountExact, UpdateHasSession
  <2>7. Solo(t)' BY <1>2, <1>7, <2>1, <2>2 DEF Solo
  <2>8. AloneOK' BY <1>2, <1>4, <2>3, <2>7 DEF AloneOK, Solo
  <2>9. SequenceOK' BY <1>5 DEF SequenceOK
  <2> QED BY <2>5, <2>6, <2>8, <2>9 DEF CaptureInv
<1>10. CASE ~Capture!Assembles
  <2>1. phase' = Capture!Outcome /\ UNCHANGED <<tasks, unfinished>>
    BY <1>10 DEF Capture!FinalizeSession
  <2>2. Capture!Outcome \in {"cancelled", "failed", "completed"} BY DEF Capture!Outcome
  <2>3. CaptureShape' BY <1>1, <1>2, <1>4, <1>5, <1>6, <2>1 DEF CaptureShape
  <2>4. CountExact' /\ UpdateHasSession'
    BY <1>2, <1>4, <2>1 DEF CaptureInv, CountExact, UpdateHasSession
  <2>5. Settled'
    BY <1>2, <1>7, <1>8, <2>1, <2>2 DEF Settled
  <2>6. AloneOK' BY <1>2, <1>4, <2>1, <2>5 DEF AloneOK
  <2>7. SequenceOK' BY <1>5 DEF SequenceOK
  <2> QED BY <2>3, <2>4, <2>6, <2>7 DEF CaptureInv
<1> QED BY <1>9, <1>10

-----------------------------------------------------------------------------
(* The worker.                                                               *)

(* A task is taken: a frame that was in the queue is now being written.      *)
LEMMA TakeStep ==
  ASSUME CaptureInv, Capture!TakeTask
  PROVE  CaptureInv'
<1>1. /\ session \in SessionRecords /\ held \in BOOLEAN /\ asked \in Nat
      /\ tasks \in Seq(TaskRecords) /\ cancel \in BOOLEAN /\ failed \in BOOLEAN
      /\ ui \in {"run", "ending", "copying", "joining", "gone"}
  BY DEF CaptureInv, CaptureShape
<1>2. /\ worker = "wait" /\ worker' = "task" /\ tasks # <<>>
      /\ current' = Head(tasks) /\ tasks' = Tail(tasks)
      /\ UNCHANGED <<session, unfinished, failed, phase, cancel, held, ui, asked, files, video,
                     thrown>>
  BY DEF Capture!TakeTask, Capture!capture
<1>3. /\ current' = tasks[1] /\ current' \in TaskRecords /\ tasks' \in Seq(TaskRecords)
      /\ Len(tasks) \in Nat \ {0} /\ Len(tasks') = Len(tasks) - 1 /\ 1 \in 1 .. Len(tasks)
      /\ \A i \in 1 .. Len(tasks') : i + 1 \in 1 .. Len(tasks) /\ tasks'[i] = tasks[i + 1]
  BY <1>1, <1>2
<1>4. CaptureShape' BY <1>1, <1>2, <1>3 DEF CaptureShape
<1>5. CountExact' /\ UpdateHasSession'
  BY <1>2, <1>3 DEF CaptureInv, CountExact, UpdateHasSession
<1>6. SequenceOK'
  <2> SUFFICES ASSUME session.active PROVE SequenceOK' BY <1>2 DEF SequenceOK
  <2>1. /\ phase = "rendering" /\ video = {} /\ files \subseteq 1 .. asked
        /\ \A i \in 1 .. Len(tasks) : OfSequence(tasks[i])
        /\ FramesKept /\ CancelSeen
    BY DEF CaptureInv, SequenceOK
  <2>2. OfSequence(current)'
    <3>1. OfSequence(tasks[1]) BY <1>3, <2>1
    <3> QED BY <1>2, <1>3, <3>1 DEF OfSequence
  <2>3. ASSUME NEW i \in 1 .. Len(tasks') PROVE OfSequence(tasks[i])'
    <3>1. OfSequence(tasks[i + 1]) /\ tasks'[i] = tasks[i + 1] BY <1>3, <2>1
    <3> QED BY <1>2, <3>1 DEF OfSequence
  <2>4. ASSUME NEW n \in 1 .. asked PROVE (n \in files \/ Waits(n) \/ failed \/ cancel)'
    <3>1. CASE Waits(n)
      <4>1. PICK i \in 1 .. Len(tasks) : Carries(tasks[i], n) BY <1>2, <3>1 DEF Waits
      <4>2. CASE i = 1
        <5>1. Carries(current', n) BY <1>3, <4>1, <4>2
        <5> QED BY <1>2, <5>1 DEF Waits, Carries
      <4>3. CASE i # 1
        <5>1. PICK j : j = i - 1 OBVIOUS
        <5>2. j \in 1 .. Len(tasks') /\ j + 1 = i BY <1>3, <4>3, <5>1
        <5>3. Carries(tasks'[j], n) BY <1>3, <4>1, <5>2
        <5> QED BY <5>2, <5>3 DEF Waits, Carries
      <4> QED BY <4>2, <4>3
    <3>2. CASE n \in files \/ failed \/ cancel BY <1>2, <3>2
    <3> QED BY <2>1, <3>1, <3>2 DEF FramesKept
  <2>5. FramesKept' BY <1>2, <2>4 DEF FramesKept
  <2>6. CancelSeen' BY <1>2, <2>1 DEF CancelSeen
  <2> QED BY <1>2, <2>1, <2>2, <2>3, <2>5, <2>6 DEF SequenceOK
<1>7. AloneOK'
  <2> SUFFICES ASSUME ~session.active PROVE AloneOK' BY <1>2 DEF AloneOK
  <2>1. unfinished <= 1 /\ Solo(Head(tasks)) BY <1>2 DEF CaptureInv, AloneOK
  <2>2. unfinished = Len(tasks) BY <1>2 DEF CaptureInv, CountExact
  <2>3. tasks' = <<>> BY <1>3, <2>1, <2>2
  <2>4. Solo(current)' BY <1>2, <2>1 DEF Solo
  <2> QED BY <1>2, <2>1, <2>3, <2>4 DEF AloneOK
<1> QED BY <1>4, <1>5, <1>6, <1>7 DEF CaptureInv

(* The task has been done, one way or another.                               *)
LEMMA DoneStep ==
  ASSUME CaptureInv, worker = "task", worker' = "finish",
         UNCHANGED <<session, tasks, current, unfinished, cancel, held, ui, asked>>,
         failed' \in BOOLEAN, failed => failed',
         session.active => /\ phase' = phase /\ video' = video /\ files \subseteq files'
                           /\ files' \subseteq 1 .. asked
                           /\ \A n \in 1 .. asked :
                                Carries(current, n) => n \in files' \/ failed' \/ cancel,
         ~session.active => Settled'
  PROVE  CaptureInv'
<1>1. CaptureShape' BY DEF CaptureInv, CaptureShape
<1>2. CountExact' /\ UpdateHasSession' BY DEF CaptureInv, CountExact, UpdateHasSession
<1>3. SequenceOK'
  <2> SUFFICES ASSUME session.active PROVE SequenceOK' BY DEF SequenceOK
  <2>1. /\ phase = "rendering" /\ video = {}
        /\ \A i \in 1 .. Len(tasks) : OfSequence(tasks[i])
        /\ FramesKept /\ CancelSeen
    BY DEF CaptureInv, SequenceOK
  <2>2. \A i \in 1 .. Len(tasks) : OfSequence(tasks[i])' BY <2>1 DEF OfSequence
  <2>3. FramesKept' BY <2>1 DEF FramesKept, Waits
  <2>4. CancelSeen' BY <2>1 DEF CancelSeen
  <2> QED BY <2>1, <2>2, <2>3, <2>4 DEF SequenceOK
<1>4. AloneOK'
  <2> SUFFICES ASSUME ~session.active PROVE AloneOK' BY DEF AloneOK
  <2>1. unfinished <= 1 /\ unfinished = Len(tasks) + 1
    BY DEF CaptureInv, AloneOK, CountExact
  <2>2. Len(tasks) \in Nat /\ (Len(tasks) = 0 => tasks = <<>>) BY DEF CaptureInv, CaptureShape
  <2>3. tasks' = <<>> BY <2>1, <2>2
  <2> QED BY <2>1, <2>3 DEF AloneOK
<1> QED BY <1>1, <1>2, <1>3, <1>4 DEF CaptureInv

LEMMA FinishStep ==
  ASSUME CaptureInv, Capture!FinishTask
  PROVE  CaptureInv'
<1>1. /\ worker = "finish" /\ worker' = "wait" /\ unfinished' = unfinished - 1
      /\ current' = Capture!None
      /\ UNCHANGED <<session, tasks, failed, phase, cancel, held, ui, asked, files, video, thrown>>
  BY DEF Capture!FinishTask, Capture!capture
<1>2. Len(tasks) \in Nat /\ (Len(tasks) = 0 => tasks = <<>>) BY DEF CaptureInv, CaptureShape
<1>3. CaptureShape' BY <1>1 DEF CaptureInv, CaptureShape
<1>4. CountExact' /\ UpdateHasSession'
  BY <1>1, <1>2 DEF CaptureInv, CountExact, UpdateHasSession
<1>5. SequenceOK'
  <2> SUFFICES ASSUME session.active PROVE SequenceOK' BY <1>1 DEF SequenceOK
  <2>1. /\ phase = "rendering" /\ video = {} /\ files \subseteq 1 .. asked
        /\ \A i \in 1 .. Len(tasks) : OfSequence(tasks[i])
        /\ FramesKept /\ CancelSeen
    BY DEF CaptureInv, SequenceOK
  <2>2. \A i \in 1 .. Len(tasks) : OfSequence(tasks[i])' BY <1>1, <2>1 DEF OfSequence
  <2>3. FramesKept' BY <1>1, <2>1 DEF FramesKept, Waits
  <2>4. CancelSeen' BY <1>1, <2>1 DEF CancelSeen
  <2> QED BY <1>1, <2>1, <2>2, <2>3, <2>4 DEF SequenceOK
<1>6. AloneOK'
  <2> SUFFICES ASSUME ~session.active PROVE AloneOK' BY <1>1 DEF AloneOK
  <2>1. unfinished <= 1 /\ unfinished = Len(tasks) + 1
    BY <1>1 DEF CaptureInv, AloneOK, CountExact
  <2>2. tasks = <<>> /\ unfinished' = 0 BY <1>1, <1>2, <2>1
  <2>3. Settled' BY <1>1, <2>2 DEF CaptureInv, AloneOK, Settled
  <2> QED BY <1>1, <2>2, <2>3 DEF AloneOK
<1> QED BY <1>3, <1>4, <1>5, <1>6 DEF CaptureInv

LEMMA WorkerStep ==
  ASSUME CaptureInv, Capture!Worker
  PROVE  CaptureInv'
<1>1. /\ session \in SessionRecords /\ asked \in Nat /\ cancel \in BOOLEAN /\ failed \in BOOLEAN
      /\ worker = "task" => current \in TaskRecords
  BY DEF CaptureInv, CaptureShape
<1>2. session.active \in BOOLEAN /\ session.deletes \in BOOLEAN BY <1>1 DEF SessionRecords
<1>3. /\ worker = "task" /\ session.active =>
           OfSequence(current) /\ files \subseteq 1 .. asked
      /\ worker = "task" /\ ~session.active => Solo(current)
  BY DEF CaptureInv, SequenceOK, AloneOK
<1>4. CASE Capture!TakeTask BY <1>4, TakeStep
<1>5. CASE Capture!Exit
  <2>1. /\ worker = "wait" /\ worker' = "done"
        /\ UNCHANGED <<session, tasks, current, unfinished, failed, phase, cancel, held, ui,
                       asked, files, video, thrown>>
    BY <1>5 DEF Capture!Exit, Capture!capture
  <2>2. CaptureShape' BY <2>1 DEF CaptureInv, CaptureShape
  <2>3. CountExact' /\ UpdateHasSession'
    BY <2>1 DEF CaptureInv, CountExact, UpdateHasSession
  <2>4. SequenceOK'
    <3> SUFFICES ASSUME session.active PROVE SequenceOK' BY <2>1 DEF SequenceOK
    <3>1. /\ phase = "rendering" /\ video = {} /\ files \subseteq 1 .. asked
          /\ \A i \in 1 .. Len(tasks) : OfSequence(tasks[i])
          /\ FramesKept /\ CancelSeen
      BY DEF CaptureInv, SequenceOK
    <3>2. \A i \in 1 .. Len(tasks) : OfSequence(tasks[i])' BY <2>1, <3>1 DEF OfSequence
    <3>3. FramesKept' BY <2>1, <3>1 DEF FramesKept, Waits
    <3>4. CancelSeen' BY <2>1, <3>1 DEF CancelSeen
    <3> QED BY <2>1, <3>1, <3>2, <3>3, <3>4 DEF SequenceOK
  <2>5. AloneOK' BY <2>1 DEF CaptureInv, AloneOK, Solo, Settled
  <2> QED BY <2>2, <2>3, <2>4, <2>5 DEF CaptureInv
<1>6. CASE Capture!Write
  <2>1. /\ worker = "task" /\ worker' = "finish" /\ current.kind \in {"single", "frame", "copy"}
        /\ files' = files \cup {current.frame}
        /\ phase' = IF current.kind = "single" THEN "completed" ELSE phase
        /\ UNCHANGED <<session, tasks, current, unfinished, failed, cancel, held, ui, asked, video,
                       thrown>>
    BY <1>6 DEF Capture!Write, Capture!Doing
  <2>2. session.active => /\ phase' = phase /\ video' = video /\ files \subseteq files'
                          /\ files' \subseteq 1 .. asked
                          /\ \A n \in 1 .. asked :
                               Carries(current, n) => n \in files' \/ failed' \/ cancel
    BY <1>3, <2>1 DEF OfSequence, Carries
  <2>3. ASSUME ~session.active PROVE Settled'
    <3>1. /\ current.frame = 1 /\ asked = 1 /\ files = {} /\ video = {}
          /\ current.kind = "single"
      BY <1>3, <2>1, <2>3 DEF Solo
    <3>2. files' \cup video' = {1} /\ 1 .. asked' = {1} /\ phase' = "completed" BY <2>1, <3>1
    <3> QED BY <3>2 DEF Settled
  <2> QED BY <1>1, <2>1, <2>2, <2>3, DoneStep
<1>7. CASE Capture!GiveUp
  <2>1. /\ worker = "task" /\ worker' = "finish" /\ current.kind \in {"single", "frame"} /\ cancel
        /\ phase' = IF current.kind = "single" THEN "cancelled" ELSE phase
        /\ UNCHANGED <<session, tasks, current, unfinished, failed, cancel, held, ui, asked, files,
                       video, thrown>>
    BY <1>7 DEF Capture!GiveUp, Capture!Doing, Capture!capture
  <2>2. session.active => /\ phase' = phase /\ video' = video /\ files \subseteq files'
                          /\ files' \subseteq 1 .. asked
                          /\ \A n \in 1 .. asked :
                               Carries(current, n) => n \in files' \/ failed' \/ cancel
    BY <1>3, <2>1 DEF OfSequence
  <2>3. ~session.active => Settled' BY <1>3, <2>1 DEF Solo, Settled
  <2> QED BY <1>1, <2>1, <2>2, <2>3, DoneStep
<1>8. CASE Capture!Fail
  <2>1. /\ worker = "task" /\ worker' = "finish" /\ current.kind \in {"single", "frame", "copy"}
        /\ phase' = IF current.kind = "single" THEN "failed" ELSE phase
        /\ failed' = (failed \/ current.kind # "single")
        /\ UNCHANGED <<session, tasks, current, unfinished, cancel, held, ui, asked, files,
                       video, thrown>>
    BY <1>8 DEF Capture!Fail, Capture!Doing, Capture!capture
  <2>2. session.active => /\ phase' = phase /\ video' = video /\ files \subseteq files'
                          /\ files' \subseteq 1 .. asked
                          /\ \A n \in 1 .. asked :
                               Carries(current, n) => n \in files' \/ failed' \/ cancel
    BY <1>3, <2>1 DEF OfSequence
  <2>3. ~session.active => Settled' BY <1>3, <2>1 DEF Solo, Settled
  <2>4. failed' \in BOOLEAN /\ (failed => failed') BY <1>1, <2>1
  <2> QED BY <2>1, <2>2, <2>3, <2>4, DoneStep
<1>9. CASE Capture!Still
  <2>1. /\ worker = "task" /\ worker' = "finish" /\ current.kind = "still"
        /\ UNCHANGED <<session, tasks, current, unfinished, failed, phase, cancel, held, ui, asked,
                       files, video, thrown>>
    BY <1>9 DEF Capture!Still, Capture!Doing, Capture!capture
  <2>2. session.active => /\ phase' = phase /\ video' = video /\ files \subseteq files'
                          /\ files' \subseteq 1 .. asked
                          /\ \A n \in 1 .. asked :
                               Carries(current, n) => n \in files' \/ failed' \/ cancel
    BY <1>3, <2>1 DEF Carries
  <2>3. ~session.active => Settled' BY <1>3, <2>1 DEF Solo
  <2> QED BY <1>1, <2>1, <2>2, <2>3, DoneStep
<1>10. CASE Capture!Assemble
  <2>1. /\ worker = "task" /\ worker' = "finish" /\ current.kind = "assembly"
        /\ video' = files /\ files' = (IF session.deletes THEN {} ELSE files)
        /\ phase' = "completed"
        /\ UNCHANGED <<session, tasks, current, unfinished, failed, cancel, held, ui, asked>>
    BY <1>10 DEF Capture!Assemble, Capture!Doing
  <2>2. ~session.active /\ files = 1 .. asked BY <1>2, <1>3, <2>1 DEF OfSequence, Solo
  <2>3. files' \cup video' = 1 .. asked' BY <2>1, <2>2
  <2>4. Settled' BY <2>1, <2>3 DEF Settled
  <2> QED BY <1>1, <2>1, <2>2, <2>4, DoneStep
<1>11. CASE Capture!FailToAssemble
  <2>1. /\ worker = "task" /\ worker' = "finish" /\ current.kind = "assembly" /\ phase' = "failed"
        /\ UNCHANGED <<session, tasks, current, unfinished, failed, cancel, held, ui, asked>>
    BY <1>11 DEF Capture!FailToAssemble, Capture!Doing, Capture!capture
  <2>2. ~session.active BY <1>2, <1>3, <2>1 DEF OfSequence
  <2>3. Settled' BY <2>1 DEF Settled
  <2> QED BY <1>1, <2>1, <2>2, <2>3, DoneStep
<1>12. CASE Capture!Throw
  <2>1. /\ worker = "task" /\ worker' = "finish" /\ failed' = TRUE /\ thrown' = TRUE
        /\ UNCHANGED <<session, tasks, current, unfinished, phase, cancel, held, ui, asked, files,
                       video>>
    BY <1>12 DEF Capture!Throw, Capture!Doing
  <2>2. session.active => /\ phase' = phase /\ video' = video /\ files \subseteq files'
                          /\ files' \subseteq 1 .. asked
                          /\ \A n \in 1 .. asked :
                               Carries(current, n) => n \in files' \/ failed' \/ cancel
    BY <1>3, <2>1
  <2>3. ~session.active => Settled' BY <1>3, <2>1 DEF Solo, Settled
  <2> QED BY <1>1, <2>1, <2>2, <2>3, DoneStep
<1>13. CASE Capture!FinishTask BY <1>13, FinishStep
<1> QED BY <1>4, <1>5, <1>6, <1>7, <1>8, <1>9, <1>10, <1>11, <1>12, <1>13 DEF Capture!Worker

-----------------------------------------------------------------------------

LEMMA CaptureStep ==
  ASSUME CaptureInv, [Capture!Next]_Capture!vars
  PROVE  CaptureInv'
<1>1. /\ session \in SessionRecords /\ cancel \in BOOLEAN /\ failed \in BOOLEAN
      /\ held \in BOOLEAN /\ ui \in {"run", "ending", "copying", "joining", "gone"}
      /\ ui \in {"ending", "copying"} => session.active
  BY DEF CaptureInv, CaptureShape, UpdateHasSession
<1>2. CASE Capture!RequestScreenshot BY <1>2, ScreenshotStep
<1>3. ASSUME NEW total \in Totals, NEW pauses \in BOOLEAN, NEW s \in Capture!Settings,
             Capture!StartSequence(total, pauses, s)
      PROVE  CaptureInv'
  BY <1>3, StartStep
<1>4. CASE \/ Capture!StopSequence \/ Capture!CancelAll \/ Capture!RequestManualFrame
           \/ Capture!TogglePause \/ Capture!RunEvents \/ Capture!Shutdown \/ Capture!Join
  BY <1>4, CaptureUserStep
<1>5. CASE Capture!Update
  <2>1. CASE \/ Capture!SeeCancel \/ Capture!Skip \/ Capture!DropCopy \/ Capture!AllCopied
             \/ Capture!GoOn \/ \E steps \in BOOLEAN : Capture!FailToPrepare(steps)
    BY <2>1, CaptureUserStep
  <2>2. ASSUME NEW steps \in BOOLEAN, NEW still \in BOOLEAN, Capture!PrepareFrame(steps, still)
        PROVE  CaptureInv'
    BY <2>2, PrepareStep
  <2>3. ASSUME NEW missed \in Missed, NEW still \in BOOLEAN, Capture!FramesDue(missed, still)
        PROVE  CaptureInv'
    BY <2>3, DueStep
  <2>4. CASE Capture!QueueCopy BY <2>4, CopyStep
  <2>5. CASE Capture!FinalizeSession BY <2>5, FinalizeStep
  <2> QED BY <1>5, <2>1, <2>2, <2>3, <2>4, <2>5 DEF Capture!Update
<1>6. CASE Capture!Worker BY <1>6, WorkerStep
<1>7. CASE UNCHANGED Capture!vars
  <2>1. UNCHANGED <<session, tasks, current, unfinished, failed, phase, cancel, held, ui, worker,
                    asked, files, video, thrown>>
    BY <1>7 DEF Capture!vars, Capture!capture
  <2> QED BY <1>1, <2>1, CaptureQuietStep
<1> QED BY <1>2, <1>3, <1>4, <1>5, <1>6, <1>7 DEF Capture!Next

THEOREM CaptureInvariant == Capture!Spec => []CaptureInv
BY CaptureInit, CaptureStep, PTL DEF Capture!Spec

(* pending_tasks_, which says whether a capture may begin and a session may  *)
(* end, is decremented without a test: it is exact, so it never goes below   *)
(* zero, also when tasks are cancelled, fail or throw.                       *)
THEOREM PendingExact == Capture!Spec => [](CountExact /\ unfinished \in Nat)
<1>1. CaptureInv => CountExact /\ unfinished \in Nat
  <2> SUFFICES ASSUME CaptureInv PROVE CountExact /\ unfinished \in Nat OBVIOUS
  <2>1. Len(tasks) \in Nat BY DEF CaptureInv, CaptureShape
  <2> QED BY <2>1 DEF CaptureInv, CountExact
<1> QED BY <1>1, CaptureInvariant, PTL

(* A capture that is said to be completed has every frame that was queued    *)
(* for it on the disk or in the video: finalize_session waits for the count  *)
(* of tasks to be zero and not for the queue to be empty.                    *)
THEOREM Completed == Capture!Spec => []CompletedIsComplete
<1>1. CaptureInv => CompletedIsComplete
  <2> SUFFICES ASSUME CaptureInv, phase = "completed" PROVE files \cup video = 1 .. asked
    BY DEF CompletedIsComplete
  <2>1. ~session.active BY DEF CaptureInv, SequenceOK
  <2>2. worker # "task" /\ tasks = <<>> BY <2>1 DEF CaptureInv, AloneOK, Solo
  <2> QED BY <2>1, <2>2 DEF CaptureInv, AloneOK, Settled
<1> QED BY <1>1, CaptureInvariant, PTL

(* When nothing is under way, no capture is left in the phase it was working *)
(* in, unless one of its tasks threw an exception.                           *)
THEOREM Settles == Capture!Spec => []PhaseSettles
<1>1. CaptureInv => PhaseSettles
  <2> SUFFICES ASSUME CaptureInv, ~Busy, phase \in {"rendering", "assembling"}
               PROVE  thrown
    BY DEF PhaseSettles
  <2>1. ~session.active /\ tasks = <<>> /\ worker \in {"wait", "done"}
    BY Quiet DEF Busy, Capture!Busy
  <2> QED BY <2>1 DEF CaptureInv, AloneOK, Settled
<1> QED BY <1>1, CaptureInvariant, PTL

-----------------------------------------------------------------------------
(* The pause state, when a session ends.                                     *)

PauseOK ==
  session.active =>
    /\ session.pausedBy => ~session.realtime /\ ~session.found
    /\ ~session.realtime /\ session.found => held
    /\ session.realtime /\ ~session.script => held = session.found

(* A step within a session: its terms stand; a tick pauses, but nothing in a *)
(* deterministic sequence resumes, and only events change a real-time one.   *)
Within ==
  /\ session'.active = session.active /\ session'.realtime = session.realtime
  /\ session'.script = session.script /\ session'.pausedBy = session.pausedBy
  /\ session'.found = session.found
  /\ session.active => \/ held' = held
                       \/ ~session.realtime /\ (held => held')
                       \/ session.realtime /\ session.script

LEMMA PauseWithin == ASSUME CaptureInv, CaptureInv', PauseOK, Within PROVE PauseOK'
<1>1. /\ session.active \in BOOLEAN /\ session.realtime \in BOOLEAN /\ session.script \in BOOLEAN
      /\ session.found \in BOOLEAN /\ held \in BOOLEAN /\ held' \in BOOLEAN
  BY DEF CaptureInv, CaptureShape, SessionRecords
<1> QED BY <1>1 DEF PauseOK, Within

LEMMA UserWithin ==
  ASSUME CaptureInv,
         \/ Capture!RequestScreenshot \/ Capture!StopSequence \/ Capture!CancelAll
         \/ Capture!RequestManualFrame \/ Capture!TogglePause \/ Capture!RunEvents
         \/ Capture!Shutdown \/ Capture!Join \/ Capture!Worker
  PROVE  Within
<1>1. session \in SessionRecords BY DEF CaptureInv, CaptureShape
<1>2. CASE \/ Capture!RequestScreenshot \/ Capture!TogglePause \/ Capture!RunEvents
           \/ Capture!Shutdown \/ Capture!Join
  BY <1>2 DEF Capture!RequestScreenshot, Capture!TogglePause, Capture!RunEvents, Capture!Shutdown,
              Capture!Join, Within
<1>3. CASE Capture!Worker
  <2>1. UNCHANGED <<session, held>>
    BY <1>3 DEF Capture!Worker, Capture!TakeTask, Capture!Exit, Capture!Write, Capture!GiveUp,
                Capture!Fail, Capture!Still, Capture!Assemble, Capture!FailToAssemble,
                Capture!Throw, Capture!FinishTask
  <2> QED BY <2>1 DEF Within
<1>4. CASE Capture!StopSequence
  <2>1. held' = held /\ session' = [session EXCEPT !.stopping = TRUE]
    BY <1>4 DEF Capture!StopSequence
  <2> QED BY <1>1, <2>1 DEF SessionRecords, Within
<1>5. CASE Capture!CancelAll
  <2>1. /\ held' = held
        /\ \/ session' = session
           \/ session' = [session EXCEPT !.stopping = TRUE, !.cancelled = TRUE]
    BY <1>5 DEF Capture!CancelAll
  <2> QED BY <1>1, <2>1 DEF SessionRecords, Within
<1>6. CASE Capture!RequestManualFrame
  <2>1. held' = held /\ \E x : session' = [session EXCEPT !.requests = x]
    BY <1>6 DEF Capture!RequestManualFrame
  <2> QED BY <1>1, <2>1 DEF SessionRecords, Within
<1> QED BY <1>2, <1>3, <1>4, <1>5, <1>6

LEMMA UpdateWithin ==
  ASSUME CaptureInv, Capture!Update, ~Capture!FinalizeSession
  PROVE  Within
<1>1. session \in SessionRecords /\ held \in BOOLEAN BY DEF CaptureInv, CaptureShape
<1>2. CASE \/ Capture!Skip \/ Capture!DropCopy \/ Capture!AllCopied \/ Capture!GoOn
  BY <1>2 DEF Capture!Skip, Capture!DropCopy, Capture!AllCopied, Capture!GoOn, Within
<1>3. CASE Capture!SeeCancel
  <2>1. held' = held /\ session' = [session EXCEPT !.stopping = TRUE, !.cancelled = TRUE]
    BY <1>3 DEF Capture!SeeCancel
  <2> QED BY <1>1, <2>1 DEF SessionRecords, Within
<1>4. ASSUME NEW steps \in BOOLEAN, NEW still \in BOOLEAN, Capture!PrepareFrame(steps, still)
      PROVE  Within
  <2>1. /\ ~session.realtime /\ held' = (held \/ steps)
        /\ \E x, y, z : session' = [session EXCEPT !.prepared = x, !.requests = y, !.stills = z]
    BY <1>4 DEF Capture!PrepareFrame, Capture!Ready
  <2>2. held => held' BY <1>1, <2>1
  <2> QED BY <1>1, <2>1, <2>2 DEF SessionRecords, Within
<1>5. ASSUME NEW steps \in BOOLEAN, Capture!FailToPrepare(steps) PROVE Within
  <2>1. /\ ~session.realtime /\ held' = (held \/ steps)
        /\ \E x : session' = [session EXCEPT !.stopping = TRUE, !.requests = x]
    BY <1>5 DEF Capture!FailToPrepare, Capture!Ready
  <2>2. held => held' BY <1>1, <2>1
  <2> QED BY <1>1, <2>1, <2>2 DEF SessionRecords, Within
<1>6. ASSUME NEW missed \in Missed, NEW still \in BOOLEAN, Capture!FramesDue(missed, still)
      PROVE  Within
  <2>1. held' = held /\ \E x : session' = [session EXCEPT !.stills = x]
    BY <1>6 DEF Capture!FramesDue
  <2> QED BY <1>1, <2>1 DEF SessionRecords, Within
<1>7. CASE Capture!QueueCopy
  <2>1. held' = held /\ \E x : session' = [session EXCEPT !.prepared = x]
    BY <1>7 DEF Capture!QueueCopy
  <2> QED BY <1>1, <2>1 DEF SessionRecords, Within
<1> QED BY <1>2, <1>3, <1>4, <1>5, <1>6, <1>7 DEF Capture!Update

LEMMA PauseAtStart ==
  ASSUME CaptureInv, NEW total \in Totals, NEW pauses \in BOOLEAN, NEW s \in Capture!Settings,
         Capture!StartSequence(total, pauses, s)
  PROVE  PauseOK'
<1>1. /\ held \in BOOLEAN /\ s.realtime \in BOOLEAN /\ s.script \in BOOLEAN
  BY DEF CaptureInv, CaptureShape, Capture!Settings
<1>2. PICK by \in BOOLEAN : by = (~s.realtime /\ pauses /\ ~held) OBVIOUS
<1>3. /\ session'.realtime = s.realtime /\ session'.script = s.script
      /\ session'.pausedBy = by /\ session'.found = held
  <2>1. session' = [Capture!Closed EXCEPT !.active = TRUE, !.total = total,
                      !.realtime = s.realtime, !.manual = s.manual, !.assembles = s.assembles,
                      !.deletes = s.deletes, !.script = s.script, !.pausedBy = by,
                      !.found = held]
    BY <1>2 DEF Capture!StartSequence
  <2> QED BY <2>1 DEF Capture!Closed
<1>4. held' = (held \/ (~s.realtime /\ pauses)) BY DEF Capture!StartSequence
<1> QED BY <1>1, <1>2, <1>3, <1>4 DEF PauseOK

LEMMA PauseStep == CaptureInv /\ PauseOK /\ [Capture!Next]_Capture!vars => PauseOK'
<1> SUFFICES ASSUME CaptureInv, PauseOK, [Capture!Next]_Capture!vars PROVE PauseOK' OBVIOUS
<1>1. CaptureInv' BY CaptureStep
<1>2. CASE \E total \in Totals, pauses \in BOOLEAN, s \in Capture!Settings :
             Capture!StartSequence(total, pauses, s)
  BY <1>2, PauseAtStart
<1>3. CASE Capture!FinalizeSession
  <2>1. session \in SessionRecords /\ session' = [session EXCEPT !.active = FALSE]
    BY <1>3 DEF Capture!FinalizeSession, CaptureInv, CaptureShape
  <2>2. ~session'.active BY <2>1 DEF SessionRecords
  <2> QED BY <2>2 DEF PauseOK
<1>4. CASE Capture!Update /\ ~Capture!FinalizeSession
  BY <1>1, <1>4, UpdateWithin, PauseWithin
<1>5. CASE \/ Capture!RequestScreenshot \/ Capture!StopSequence \/ Capture!CancelAll
           \/ Capture!RequestManualFrame \/ Capture!TogglePause \/ Capture!RunEvents
           \/ Capture!Shutdown \/ Capture!Join \/ Capture!Worker
  BY <1>1, <1>5, UserWithin, PauseWithin
<1>6. CASE UNCHANGED Capture!vars
  BY <1>6 DEF Capture!vars, PauseOK
<1> QED BY <1>2, <1>3, <1>4, <1>5, <1>6 DEF Capture!Next

(* How far docs/ARCHITECTURE.md is right that the end of a session restores  *)
(* the pause state: whenever the user leaves it alone during the session     *)
(* (TogglePause comes between two of them), unless a script's events may     *)
(* have changed it, or the sequence is deterministic, found the simulation   *)
(* running and did not pause it.  PauseRestored, which excepts none of these *)
(* cases, is refuted.                                                        *)
PauseRestoredUnless ==
  [][session.active /\ ~session'.active =>
       \/ held' = session.found
       \/ session.realtime /\ session.script
       \/ ~session.realtime /\ ~session.found /\ ~session.pausedBy]_(Capture!vars)

(* restore_session_state resumes only what the sequence paused (pausedBy), so *)
(* the theorem rests on what the session found and on nobody else resuming.  *)
THEOREM RestoresPause == Capture!Spec => PauseRestoredUnless
<1> DEFINE Restored == \/ held' = session.found
                       \/ session.realtime /\ session.script
                       \/ ~session.realtime /\ ~session.found /\ ~session.pausedBy
           Ends == session.active /\ ~session'.active
<1>1. Capture!Init => PauseOK BY DEF Capture!Init, Capture!Closed, PauseOK
<1>2. CaptureInv /\ PauseOK /\ [Capture!Next]_Capture!vars => [Ends => Restored]_(Capture!vars)
  <2> SUFFICES ASSUME CaptureInv, PauseOK, Capture!Next, Ends PROVE Restored OBVIOUS
  <2>1. Capture!FinalizeSession
    <3>1. ~Within BY DEF Within
    <3>3. ASSUME NEW total, NEW pauses, NEW s, Capture!StartSequence(total, pauses, s) PROVE FALSE
      BY <3>3 DEF Capture!StartSequence, Capture!Busy
    <3> QED BY <3>1, <3>3, UserWithin, UpdateWithin DEF Capture!Next
  <2>2. /\ held' = (held /\ ~session.pausedBy) /\ session.active
        /\ session.realtime \in BOOLEAN /\ session.script \in BOOLEAN /\ session.found \in BOOLEAN
        /\ session.pausedBy \in BOOLEAN /\ held \in BOOLEAN
    BY <2>1 DEF Capture!FinalizeSession, CaptureInv, CaptureShape, SessionRecords
  <2> QED BY <2>2 DEF PauseOK
<1> HIDE DEF Restored, Ends
<1> QED BY <1>1, <1>2, PauseStep, CaptureInvariant, PTL DEF Capture!Spec, PauseRestoredUnless, Restored, Ends

=============================================================================
