---------------------------- MODULE FrameDispatch ----------------------------
(* One master distributing frames: ClusterOrchestrator::dispatch_frame and   *)
(* the DistributionScheduler it drives.  Three kinds of threads run at once: *)
(*                                                                           *)
(*   dispatcher    the caller of dispatch_frame (dispatch_mutex_ lets one in)*)
(*   pump          pump_loop: results, lost and returning nodes, under       *)
(*                 pump_mutex_                                               *)
(*   local pool    the renderers of run_local_batch                          *)
(*                                                                           *)
(* They meet in the tiles' status bytes (compare-and-swap), the completion   *)
(* counter, the in-flight list, the window pointer and the list of tiles     *)
(* reclaimed by node loss.  A step is one access to that shared state or one *)
(* critical section.  Which deadlines have passed is a free choice: time is  *)
(* abstract.  A result may never come, or come after its tile was reclaimed. *)
EXTENDS Integers, FiniteSets

CONSTANTS Tiles,        \* the tile grid
          Nodes,        \* remote workers
          Local,        \* kLocalNodeIdentifier
          MaxFrames     \* bound of the model: calls of dispatch_frame

ASSUME TilesAssumption == IsFiniteSet(Tiles)
ASSUME LocalAssumption == Local \notin Nodes
ASSUME MaxFramesAssumption == MaxFrames \in Nat

VARIABLES
  status, owner,        \* tile -> TileStatus, node responsible
  active,               \* active_tiles_: the tiles of the requested window
  inFlight,             \* in_flight_: the tiles a deadline is kept for
  completed,            \* completed_tiles_
  frame,                \* frame_index_ and active_frame_
  window,               \* active_window_ is not null
  nodeLoss,             \* reclaimed_by_node_loss_
  dpc,                  \* dispatcher: where it stands
  batch,                \* dispatcher: the tiles handed to run_local_batch
  after,                \* dispatcher: where the batch returns to
  cancelled, complete,  \* dispatcher: its locals of the same name
  attempt,              \* run_local_batch: 1 the installed renderer, 2 software
  work,                 \* tile -> what the local pool does with it
  pump,                 \* pump thread: holds pump_mutex_ unless "idle"
  tasks,                \* <<frame, tile, node>> sent whose result may still come
  up,                   \* nodes with an authenticated session
  cancelFlag,           \* the caller's cancel flag
  late,                 \* the clock is past frame_deadline
  cluster,              \* "active", then shutdown()'s progress
  stored                \* history: tile -> writes into the framebuffer

scheduler == <<status, owner, active, inFlight, completed, frame>>
dispatcher == <<dpc, batch, after, cancelled, complete>>
pool == <<attempt, work>>
environment == <<up, cancelFlag, late, cluster>>
vars == <<scheduler, dispatcher, pool, environment, window, nodeLoss, pump, tasks, stored>>

Completed == {"CompletedRemote", "CompletedLocal"}
(* A mistake: a tile that the remote result completed is rendered again.     *)
RenderableAgain == {"Queued", "Reclaimed", "CompletedRemote"}

Renderable == {"Queued", "Reclaimed"}
ShouldComputeLocal(t) == status[t] \in Renderable
(* A mistake: the frame ends one tile early.                                 *)
IsFrameCompleteEarly == completed + 1 >= Cardinality(active)

IsFrameComplete == completed >= Cardinality(active)
Operational == cluster = "active"
PumpMutexFree == pump.pc = "idle"
DispatchMutexFree == dpc \in {"idle", "enter"}
(* complete_remote holds the scheduler's own mutex from its compare-and-swap *)
(* to its increment.                                                         *)
SchedulerMutexFree == pump.pc # "count"

TypeOK ==
  /\ status \in [Tiles -> {"Skipped", "Queued", "InFlight", "Reclaimed"} \cup Completed]
  /\ owner \in [Tiles -> Nodes \cup {Local}]
  /\ active \subseteq Tiles /\ inFlight \subseteq Tiles
  /\ completed \in Nat /\ frame \in Nat
  /\ window \in BOOLEAN /\ nodeLoss \subseteq Tiles
  /\ dpc \in {"idle", "enter", "setup", "batch", "loop", "expire", "steal", "final",
              "drain", "sweep", "finish", "close"}
  /\ after \in {"loop", "sweep", "finish"}
  /\ batch \subseteq Tiles /\ cancelled \in BOOLEAN /\ complete \in BOOLEAN
  /\ attempt \in {1, 2}
  /\ work \in [Tiles -> {"none", "render", "store", "failed"}]
  /\ pump \in [pc : {"idle", "count", "store"}, tile : Tiles]
  /\ tasks \subseteq Nat \X Tiles \X Nodes
  /\ up \subseteq Nodes /\ cancelFlag \in BOOLEAN /\ late \in BOOLEAN
  /\ cluster \in {"active", "stopping", "joined", "clearing", "down"}
  /\ stored \in [Tiles -> Nat]

Init ==
  /\ status = [t \in Tiles |-> "Skipped"]
  /\ owner = [t \in Tiles |-> Local]
  /\ active = {} /\ inFlight = {} /\ completed = 0 /\ frame = 0
  /\ window = FALSE /\ nodeLoss = {}
  /\ dpc = "idle" /\ batch = {} /\ after = "loop"
  /\ cancelled = FALSE /\ complete = FALSE
  /\ attempt = 1 /\ work = [t \in Tiles |-> "none"]
  /\ pump \in [pc : {"idle"}, tile : Tiles]
  /\ tasks = {}
  /\ up = Nodes /\ cancelFlag = FALSE /\ late = FALSE /\ cluster = "active"
  /\ stored = [t \in Tiles |-> 0]

-----------------------------------------------------------------------------
(* dispatch_frame, up to the first local batch.                              *)

(* The first look at the cluster is made before dispatch_mutex_ is tried.    *)
Call ==
  /\ dpc = "idle" /\ Operational /\ frame < MaxFrames
  /\ dpc' = "enter"
  /\ cancelled' = FALSE /\ complete' = FALSE
  /\ cancelFlag' = FALSE /\ late' = FALSE
  /\ UNCHANGED <<scheduler, batch, after, pool, up, cluster, window, nodeLoss, pump, tasks, stored>>

Enter ==
  /\ dpc = "enter"
  /\ dpc' = "setup"
  /\ UNCHANGED <<scheduler, batch, after, cancelled, complete, pool, environment, window, nodeLoss,
                 pump, tasks, stored>>

(* The cluster was shut down before pump_mutex_ was obtained.                *)
SetupRefused ==
  /\ dpc = "setup" /\ PumpMutexFree
  /\ ~Operational
  /\ dpc' = "idle"
  /\ UNCHANGED <<scheduler, batch, after, cancelled, complete, pool, environment, window, nodeLoss,
                 pump, tasks, stored>>

(* begin_frame and send_remote_tasks under pump_mutex_.  The plan gives each *)
(* wanted tile an owner; a task whose node has no session or whose send      *)
(* fails joins the local batch, still Queued.                                *)
Setup(wanted, plan, unsent) ==
  LET remote == {t \in wanted : plan[t] \in up /\ t \notin unsent}
  IN
  /\ dpc = "setup" /\ PumpMutexFree
  /\ Operational
  /\ frame' = frame + 1
  /\ active' = wanted
  /\ owner' = plan
  /\ status' = [t \in Tiles |-> IF t \notin wanted THEN "Skipped"
                                ELSE IF t \in remote THEN "InFlight" ELSE "Queued"]
  /\ inFlight' = remote
  /\ completed' = 0
  /\ window' = TRUE
  /\ nodeLoss' = {}
  /\ tasks' = tasks \cup {<<frame + 1, t, plan[t]>> : t \in remote}
  /\ batch' = wanted \ remote
  /\ after' = "loop"
  /\ attempt' = 1
  /\ work' = [t \in Tiles |-> IF t \in wanted \ remote THEN "render" ELSE "none"]
  /\ dpc' = "batch"
  /\ stored' = [t \in Tiles |-> 0]
  /\ UNCHANGED <<cancelled, complete, environment, pump>>

-----------------------------------------------------------------------------
(* run_local_batch: the tiles still renderable are rendered in parallel; the *)
(* sink claims a tile by compare-and-swap and only the winner stores it.     *)

StartBatch(tiles, continuation) ==
  /\ batch' = tiles
  /\ after' = continuation
  /\ attempt' = 1
  /\ work' = [t \in Tiles |-> IF t \in tiles /\ ShouldComputeLocal(t) THEN "render" ELSE "none"]
  /\ dpc' = "batch"

(* The sink's try_complete_local: it claims the tile and counts it, or       *)
(* drops the pixels because the remote result came first.                    *)
TryCompleteLocal(t) ==
  /\ dpc = "batch" /\ work[t] = "render"
  /\ IF status[t] \in Renderable
       THEN /\ status' = [status EXCEPT ![t] = "CompletedLocal"]
            /\ completed' = completed + 1
            /\ work' = [work EXCEPT ![t] = "store"]
       ELSE /\ work' = [work EXCEPT ![t] = "none"]
            /\ UNCHANGED <<status, completed>>
  /\ UNCHANGED <<owner, active, inFlight, frame, dispatcher, attempt, environment, window, nodeLoss,
                 pump, tasks, stored>>

StoreLocal(t) ==
  /\ work[t] = "store"
  /\ stored' = [stored EXCEPT ![t] = @ + 1]
  /\ work' = [work EXCEPT ![t] = "none"]
  /\ UNCHANGED <<scheduler, dispatcher, attempt, environment, window, nodeLoss, pump, tasks>>

(* The installed renderer may give a tile up; the software one only does so  *)
(* when the frame is cancelled.                                              *)
RenderFails(t) ==
  /\ dpc = "batch" /\ work[t] = "render"
  /\ attempt = 1 \/ cancelFlag
  /\ work' = [work EXCEPT ![t] = "failed"]
  /\ UNCHANGED <<scheduler, dispatcher, attempt, environment, window, nodeLoss, pump, tasks, stored>>

BatchJoined == dpc = "batch" /\ \A t \in Tiles : work[t] \in {"none", "failed"}
BatchFailed == \E t \in Tiles : work[t] = "failed"

(* A renderer that failed without a cancellation: what it left is rendered   *)
(* in software.                                                              *)
RetryInSoftware ==
  /\ BatchJoined /\ BatchFailed /\ ~cancelFlag /\ attempt = 1
  /\ attempt' = 2
  /\ work' = [t \in Tiles |-> IF t \in batch /\ ShouldComputeLocal(t) THEN "render" ELSE "none"]
  /\ UNCHANGED <<scheduler, dispatcher, environment, window, nodeLoss, pump, tasks, stored>>

(* A mistake: a tile the installed renderer gave up is not tried again.      *)
BatchReturnsWithoutRetry ==
  /\ BatchJoined
  /\ cancelled' = (BatchFailed /\ cancelFlag)
  /\ work' = [t \in Tiles |-> "none"]
  /\ dpc' = after
  /\ UNCHANGED <<scheduler, batch, after, complete, attempt, environment, window, nodeLoss, pump,
                 tasks, stored>>

BatchReturns ==
  /\ BatchJoined
  /\ BatchFailed => (cancelFlag \/ attempt = 2)
  /\ cancelled' = (BatchFailed /\ cancelFlag)
  /\ work' = [t \in Tiles |-> "none"]
  /\ dpc' = after
  /\ UNCHANGED <<scheduler, batch, after, complete, attempt, environment, window, nodeLoss, pump,
                 tasks, stored>>

-----------------------------------------------------------------------------
(* The waiting loop.                                                         *)

LoopEnds ==
  /\ dpc = "loop"
  /\ cancelled \/ IsFrameComplete
  /\ dpc' = "finish"
  /\ UNCHANGED <<scheduler, batch, after, cancelled, complete, pool, environment, window, nodeLoss,
                 pump, tasks, stored>>

LoopCancelled ==
  /\ dpc = "loop" /\ ~cancelled /\ ~IsFrameComplete
  /\ cancelFlag \/ ~Operational
  /\ cancelled' = TRUE
  /\ dpc' = "finish"
  /\ UNCHANGED <<scheduler, batch, after, complete, pool, environment, window, nodeLoss, pump, tasks,
                 stored>>

(* A mistake: the deadline counts only once nothing is in flight.            *)
LoopDeadlineIfQuiet ==
  /\ dpc = "loop" /\ ~cancelled /\ ~IsFrameComplete
  /\ ~cancelFlag /\ Operational /\ late /\ inFlight = {}
  /\ dpc' = "final"
  /\ UNCHANGED <<scheduler, batch, after, cancelled, complete, pool, environment, window, nodeLoss,
                 pump, tasks, stored>>

LoopDeadline ==
  /\ dpc = "loop" /\ ~cancelled /\ ~IsFrameComplete
  /\ ~cancelFlag /\ Operational /\ late
  /\ dpc' = "final"
  /\ UNCHANGED <<scheduler, batch, after, cancelled, complete, pool, environment, window, nodeLoss,
                 pump, tasks, stored>>

LoopDrain ==
  /\ dpc = "loop" /\ ~cancelled /\ ~IsFrameComplete
  /\ ~cancelFlag /\ Operational /\ ~late
  /\ PumpMutexFree
  /\ batch' = nodeLoss
  /\ nodeLoss' = {}
  /\ dpc' = "expire"
  /\ UNCHANGED <<scheduler, after, cancelled, complete, pool, environment, window, pump, tasks, stored>>

(* try_reclaim_unlocked on each tile of a set, and the compaction of the     *)
(* in-flight list that every caller does.                                    *)
StillInFlight(t) == t \in inFlight /\ status[t] = "InFlight"
Reclaim(tiles) ==
  /\ status' = [t \in Tiles |-> IF t \in tiles THEN "Reclaimed" ELSE status[t]]
  /\ inFlight' = {t \in inFlight : StillInFlight(t)} \ tiles

CollectExpired(expired) ==
  /\ dpc = "expire" /\ SchedulerMutexFree
  /\ \A t \in expired : StillInFlight(t)
  /\ Reclaim(expired)
  /\ batch' = batch \cup expired
  /\ dpc' = "steal"
  /\ UNCHANGED <<owner, active, completed, frame, after, cancelled, complete, pool, environment,
                 window, nodeLoss, pump, tasks, stored>>

(* steal_speculative, and the batch of everything reclaimed in this round    *)
(* (none: the dispatcher sleeps and looks again).                            *)
StealSpeculative(stolen) ==
  /\ dpc = "steal" /\ SchedulerMutexFree
  /\ \A t \in stolen : StillInFlight(t)
  /\ Reclaim(stolen)
  /\ IF batch \cup stolen = {}
       THEN /\ dpc' = "loop"
            /\ UNCHANGED <<batch, after, pool>>
       ELSE /\ batch' = batch \cup stolen
            /\ after' = "loop"
            /\ attempt' = 1
            /\ work' = [t \in Tiles |->
                         IF t \in stolen \/ (t \in batch /\ ShouldComputeLocal(t))
                           THEN "render" ELSE "none"]
            /\ dpc' = "batch"
  /\ UNCHANGED <<owner, active, completed, frame, cancelled, complete, environment, window, nodeLoss,
                 pump, tasks, stored>>

-----------------------------------------------------------------------------
(* After the deadline: everything outstanding is taken back.                 *)

FinalReclaim ==
  LET outstanding == {t \in inFlight : StillInFlight(t)}
  IN
  /\ dpc = "final" /\ ~IsFrameComplete /\ SchedulerMutexFree
  /\ Reclaim(outstanding)
  /\ batch' = outstanding
  /\ dpc' = "drain"
  /\ UNCHANGED <<owner, active, completed, frame, after, cancelled, complete, pool, environment,
                 window, nodeLoss, pump, tasks, stored>>

FinalDrain ==
  /\ dpc = "drain" /\ PumpMutexFree
  /\ StartBatch(batch \cup nodeLoss, "sweep")
  /\ nodeLoss' = {}
  /\ UNCHANGED <<scheduler, cancelled, complete, environment, window, pump, tasks, stored>>

(* A last pass over the active tiles, whatever happened to them.             *)
Sweep ==
  /\ dpc = "sweep" /\ ~cancelled /\ ~IsFrameComplete
  /\ StartBatch({t \in active : ShouldComputeLocal(t)}, "finish")
  /\ UNCHANGED <<scheduler, cancelled, complete, environment, window, nodeLoss, pump, tasks, stored>>

SkipFinal ==
  /\ \/ dpc = "final" /\ IsFrameComplete
     \/ dpc = "sweep" /\ (cancelled \/ IsFrameComplete)
  /\ dpc' = "finish"
  /\ UNCHANGED <<scheduler, batch, after, cancelled, complete, pool, environment, window, nodeLoss,
                 pump, tasks, stored>>

(* complete is computed before pump_mutex_ is taken for the last time.       *)
Finish ==
  /\ dpc = "finish"
  /\ complete' = (~cancelled /\ IsFrameComplete)
  /\ dpc' = "close"
  /\ UNCHANGED <<scheduler, batch, after, cancelled, pool, environment, window, nodeLoss, pump, tasks,
                 stored>>

(* A mistake: the window is closed without a last look at pump_mutex_.       *)
CloseWithoutPumpMutex ==
  /\ dpc = "close"
  /\ window' = FALSE
  /\ dpc' = "idle"
  /\ UNCHANGED <<scheduler, batch, after, cancelled, complete, pool, environment, nodeLoss, pump, tasks,
                 stored>>

Close ==
  /\ dpc = "close" /\ PumpMutexFree
  /\ window' = FALSE
  /\ dpc' = "idle"
  /\ UNCHANGED <<scheduler, batch, after, cancelled, complete, pool, environment, nodeLoss, pump, tasks,
                 stored>>

-----------------------------------------------------------------------------
(* The pump thread.                                                          *)

PumpServes == PumpMutexFree /\ cluster \in {"active", "stopping"}

(* TileResultData: dropped unless a window is open for its frame;            *)
(* complete_remote accepts it while the tile is InFlight or Reclaimed.       *)
ResultArrives(f, t, n) ==
  /\ PumpServes
  /\ <<f, t, n>> \in tasks /\ n \in up
  /\ tasks' = tasks \ {<<f, t, n>>}
  /\ IF window /\ f = frame /\ owner[t] = n /\ status[t] \in {"InFlight", "Reclaimed"}
       THEN /\ status' = [status EXCEPT ![t] = "CompletedRemote"]
            /\ pump' = [pc |-> "count", tile |-> t]
       ELSE UNCHANGED <<status, pump>>
  /\ UNCHANGED <<owner, active, inFlight, completed, frame, dispatcher, pool, environment, window,
                 nodeLoss, stored>>

PumpCounts ==
  /\ pump.pc = "count"
  /\ completed' = completed + 1
  /\ pump' = [pump EXCEPT !.pc = "store"]
  /\ UNCHANGED <<status, owner, active, inFlight, frame, dispatcher, pool, environment, window,
                 nodeLoss, tasks, stored>>

PumpStores ==
  /\ pump.pc = "store"
  /\ stored' = [stored EXCEPT ![pump.tile] = @ + 1]
  /\ pump' = [pump EXCEPT !.pc = "idle"]
  /\ UNCHANGED <<scheduler, dispatcher, pool, environment, window, nodeLoss, tasks>>

(* The tiles of a lost node are added to those not yet picked up; a mistake  *)
(* would be to replace them.                                                 *)
HandOverLastOnly(lost) == nodeLoss' = lost

HandOver(lost) == nodeLoss' = nodeLoss \cup lost

(* A node is lost: disconnected (on_peer_disconnected) or silent for too     *)
(* long (detect_timeouts).  Its session goes, and with it every result of    *)
(* its tasks; reclaim_node hands its tiles to the dispatcher.                *)
NodeLost(n) ==
  LET lost == {t \in inFlight : StillInFlight(t) /\ owner[t] = n}
  IN
  /\ PumpServes /\ n \in up
  /\ up' = up \ {n}
  /\ tasks' = {x \in tasks : x[3] # n}
  /\ Reclaim(lost)
  /\ HandOver(lost)
  /\ UNCHANGED <<owner, active, completed, frame, dispatcher, pool, cancelFlag, late, cluster, window,
                 pump, stored>>

NodeReturns(n) ==
  /\ PumpServes /\ n \notin up
  /\ up' = up \cup {n}
  /\ UNCHANGED <<scheduler, dispatcher, pool, cancelFlag, late, cluster, window, nodeLoss, pump, tasks,
                 stored>>

-----------------------------------------------------------------------------
(* The caller's cancel flag, the clock, and shutdown(): it stops and joins   *)
(* the pump, waits for the dispatcher, then clears everything.               *)

RequestCancel ==
  /\ dpc # "idle" /\ ~cancelFlag
  /\ cancelFlag' = TRUE
  /\ UNCHANGED <<scheduler, dispatcher, pool, up, late, cluster, window, nodeLoss, pump, tasks, stored>>

DeadlinePasses ==
  /\ dpc # "idle" /\ ~late
  /\ late' = TRUE
  /\ UNCHANGED <<scheduler, dispatcher, pool, up, cancelFlag, cluster, window, nodeLoss, pump, tasks,
                 stored>>

ShutdownBegins ==
  /\ cluster = "active"
  /\ cluster' = "stopping"
  /\ UNCHANGED <<scheduler, dispatcher, pool, up, cancelFlag, late, window, nodeLoss, pump, tasks, stored>>

PumpJoined ==
  /\ cluster = "stopping" /\ PumpMutexFree
  /\ cluster' = "joined"
  /\ UNCHANGED <<scheduler, dispatcher, pool, up, cancelFlag, late, window, nodeLoss, pump, tasks, stored>>

(* A mistake: shutdown does not wait for the frame under way.                *)
ShutdownDoesNotWait ==
  /\ cluster = "joined"
  /\ cluster' = "clearing"
  /\ UNCHANGED <<scheduler, dispatcher, pool, up, cancelFlag, late, window, nodeLoss, pump, tasks, stored>>

ShutdownWaits ==
  /\ cluster = "joined"
  /\ DispatchMutexFree
  /\ cluster' = "clearing"
  /\ UNCHANGED <<scheduler, dispatcher, pool, up, cancelFlag, late, window, nodeLoss, pump, tasks, stored>>

ShutdownEnds ==
  /\ cluster = "clearing" /\ PumpMutexFree
  /\ cluster' = "down"
  /\ window' = FALSE /\ nodeLoss' = {} /\ up' = {} /\ tasks' = {}
  /\ UNCHANGED <<scheduler, dispatcher, pool, cancelFlag, late, pump, stored>>

-----------------------------------------------------------------------------

SomeSetup ==
  \E wanted \in SUBSET Tiles \ {{}} :
    \E plan \in [Tiles -> Nodes \cup {Local}] :
      /\ \A t \in Tiles \ wanted : plan[t] = Local
      /\ \E unsent \in SUBSET {t \in wanted : plan[t] \in up} : Setup(wanted, plan, unsent)

Dispatcher ==
  \/ Enter \/ SetupRefused \/ SomeSetup
  \/ RetryInSoftware \/ BatchReturns
  \/ LoopEnds \/ LoopCancelled \/ LoopDeadline \/ LoopDrain
  \/ \E S \in SUBSET inFlight : CollectExpired(S)
  \/ \E S \in SUBSET inFlight : StealSpeculative(S)
  \/ FinalReclaim \/ FinalDrain \/ Sweep \/ SkipFinal \/ Finish \/ Close

Pool == \E t \in Tiles : TryCompleteLocal(t) \/ StoreLocal(t) \/ RenderFails(t)

Pump ==
  \/ \E x \in tasks : ResultArrives(x[1], x[2], x[3])
  \/ PumpCounts \/ PumpStores
  \/ \E n \in Nodes : NodeLost(n) \/ NodeReturns(n)

Environment == RequestCancel \/ DeadlinePasses \/ ShutdownBegins \/ PumpJoined \/ ShutdownWaits \/ ShutdownEnds

Next == Call \/ Dispatcher \/ Pool \/ Pump \/ Environment

Spec == Init /\ [][Next]_vars

(* Threads that can run do run, and the clock goes on.  Nobody owes a call,  *)
(* a result, a node's return, a cancellation or a shutdown.                  *)
FairSpec == /\ Spec
            /\ WF_vars(Dispatcher) /\ WF_vars(Pool) /\ WF_vars(PumpCounts \/ PumpStores)
            /\ WF_vars(DeadlinePasses)

-----------------------------------------------------------------------------

InFrame == dpc \notin {"idle", "enter", "setup"}

(* A frame reported complete has every requested tile in the framebuffer,    *)
(* although the counter that decides it moves before the pixels do.          *)
CompleteMeansRendered ==
  (dpc = "idle" /\ complete) => \A t \in active : stored[t] = 1

(* Neither the pump nor the pool is about to write to a framebuffer whose    *)
(* dispatch_frame has returned: taking pump_mutex_ once more, and joining    *)
(* the batch, before returning is what guarantees it.                        *)
NoStoreAfterReturn ==
  /\ pump.pc # "idle" => window /\ InFrame
  /\ \A t \in Tiles : work[t] = "store" => dpc = "batch"

(* shutdown() clears sessions, window and registry only once no frame runs,  *)
(* and no frame starts afterwards, not even one whose caller saw the cluster *)
(* active just before: the second look, under pump_mutex_, turns it away.    *)
NoFrameAfterShutdown == cluster \in {"clearing", "down"} => ~InFrame /\ ~window

(* A tile is written at most once per frame, by the remote result or by the  *)
(* local renderer, never both.                                               *)
StoredOnce == \A t \in Tiles : stored[t] <= 1

(* completed_tiles_ counts the completed tiles, one behind only while the    *)
(* pump stands between its compare-and-swap and its increment.               *)
CounterExact ==
  completed + (IF pump.pc = "count" THEN 1 ELSE 0)
    = Cardinality({t \in active : status[t] \in Completed})

(* A tile taken back is always in the hands of somebody who will render it:  *)
(* the dispatcher's batch or the list the pump hands over.                   *)
NoTileStranded ==
  (InFrame /\ ~cancelFlag) =>
    \A t \in active :
      /\ status[t] \in Renderable => t \in batch \cup nodeLoss
      /\ status[t] = "InFlight" => t \in inFlight

(* Work stealing leaves nothing behind: when an uncancelled dispatch_frame   *)
(* is about to return, every tile of its window has been completed by        *)
(* somebody, whatever the workers did.                                       *)
NothingLeftBehind ==
  (dpc = "close" /\ ~cancelled) => \A t \in active : status[t] \in Completed

(* README.md:77, "without frame drops": a frame that was not cancelled is    *)
(* reported complete.  The code does not keep this, and no run checks it:    *)
(* is_frame_complete reads the counter without a lock, and the pump may have *)
(* completed the last tile and not counted it yet.                           *)
NeverDropped == (dpc = "close" /\ ~cancelled) => complete

(* A completed tile stays completed for the rest of its frame: it is never   *)
(* reclaimed, nor does a late result change who completed it.                *)
CompletedIsFinal ==
  [][frame' = frame => \A t \in Tiles : status[t] \in Completed => status'[t] = status[t]]_vars

(* Every call of dispatch_frame returns, even if no worker ever answers.     *)
FrameReturns == (dpc # "idle") ~> (dpc = "idle")

Contract == INSTANCE WorkContract
              WITH Items <- Tiles, open <- dpc # "idle", wanted <- active,
                   delivered <- {t \in Tiles : stored[t] > 0},
                   result <- complete /\ dpc = "idle"

(* Dispatch with workers, deadlines, theft and losses implements the plain   *)
(* contract of WorkContract.                                                 *)
ImplementsContract == Contract!Spec
==============================================================================
