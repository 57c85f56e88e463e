# A verification model of the Relativity Simulator's concurrent core

The Relativity Simulator traces light rays through curved spacetimes and integrates the bodies in
them.  Its numerics are sequential floating-point functions with unit tests of their own.  What a
test hardly reaches is the machinery around them: the simulation thread and those that command it,
a thread pool, the pipeline that renders and displays frames, capture sessions, and a cluster layer
that spreads the tiles of a frame and the units of a computation over workers that may be slow, lost
or late.  This directory models that machinery in TLA+, model-checks it with TLC on small instances,
and proves the most important properties with TLAPS for every instance.

Paths below are relative to the repository.  `OR` is `src/distributed/cluster_orchestrator.cpp`,
`DS` is `src/distributed/distribution_scheduler.cpp`, `TP` is
`include/relativistic/core/thread_pool.hpp`, `WS` is `src/distributed/worker_service.cpp`, `GP` is
`include/relativistic/render/geodesic_compute_pipeline.hpp`, `CC` is
`include/relativistic/capture/capture_coordinator.hpp`, `SO` is
`include/relativistic/orchestrator/simulation_orchestrator.hpp`.

## Inventory

What each part keeps, does, meets, and must get right.  The last column of the list says where the
part stands; `PROJECT.json` repeats it with the source files.

### The command ring (`core/spsc_queue.hpp`) — `SpscQueue`

*State*: two `std::atomic<size_t>` counters, `head_` and `tail_`, that are never masked, and an
array of a power-of-two size.  *Operations*: `try_push` (one producer), `try_pop` (one consumer).
*Meets*: the orchestrator's command and result queues.  *Hard*: each side decides on a stale value
of the other's counter, and the counters wrap.  *Correct when* what is popped is what was pushed, in
order, no slot is read while it is written, a full or empty ring is never mistaken for the other,
and a consumer that keeps popping gets everything.

### The thread pool (`core/thread_pool.hpp`) — `ThreadPool`

*State*: a deque of tasks under `queue_mutex_`, a condition variable, `active_tasks_`, `stop_`, the
workers; for each loop a frame on its caller's stack with a chunk counter, a counter of helpers, a
mutex and a condition variable.  *Operations*: `enqueue`, `parallel_for`, `wait_idle`, `shutdown`,
the worker loop.  *Meets*: every parallel loop of the program.  *Hard*: counters that move outside
the mutex their waiters sleep under, helpers that outlive their loop, a stop that is announced
without the mutex.  *Correct when* every item is processed exactly once before `parallel_for`
returns, nobody sleeps over work, `wait_idle` means idle, and every call returns.

### Frame dispatch (`ClusterOrchestrator::dispatch_frame`, `DistributionScheduler`) — `FrameDispatch`

*State*: a status byte and an owner for each tile, the in-flight list with its deadlines, a counter
of completed tiles, the window into the caller's framebuffer, the list of tiles reclaimed by node
loss.  *Threads*: the caller of `dispatch_frame` under `dispatch_mutex_`, the pump under
`pump_mutex_`, the renderers of the local batch.  *Operations*: begin a frame, send tiles, render a
local batch and retry it in software, collect expired tiles, steal speculatively, reclaim what is
left at the end, accept a remote result, hand over a lost node's tiles, shut down.  *Meets*: the
render pipeline above, node membership and the network below.  *Hard*: a late remote result and the
local renderer of the same tile; the counter and the pixels, which move apart; a shutdown at any
point.  *Correct when* every tile of a complete frame is in the framebuffer, written once, nothing
is written after the call returned, no tile is forgotten, and the call returns although no worker
ever answers.

### Compute jobs (`ClusterOrchestrator::run_compute_job`) — `ComputeJob`

*State*: per unit a status (open, remote, done) and an `expired` flag, counters of completions and
of appliers inside the job, `closed`, `failed`; the job itself is held by `shared_ptr` and outlives
the call in the pump's hands, its arrays do not.  *Operations*: dispatch, local execution, the
reclaim scan, `complete_compute_unit` from either side, `finish`.  *Meets*: the n-body, quadrature and geodesic
modules above, node membership below.  *Hard*: two completers of a unit; a failed application that
gives the unit back; a pump that still holds the job when the call returns.  *Correct when* no unit
is applied twice at once or after the return, success means every unit was applied, and an
uncancelled job ends complete.

### Node membership (`ClusterNode`, `NodeRegistry`, sessions in `OR`) — `ClusterMembership`

*State*: the registry (one node per endpoint, never unregistered) with each node's state, peer and
load; `peer_index_`; the session objects, indexed once by peer and once by node; the transport's
peers.  *Operations*: connection maintenance, connected and disconnected events, the handshake,
heartbeats, timeouts, dispatch and completion counts, shutdown and start.  *Meets*: the transport
below, frame dispatch and compute jobs, which ask it who may get work.  *Hard*: four indexes updated
apart; events that refer to a peer whose session is already gone; a worker that is listed *and*
calls in; a timeout that cuts a connection still being made, which leaves its node bound to a peer
that is gone.  *Correct when* the indexes agree also then, a node has at most one session that is not
on its way out, work goes only to nodes with a session, loads never drift, and a lost worker comes
back.

### The worker service (`WS`, `body_catalog.cpp`) — `WorkerService`

*State*: sessions by peer, a job map keyed by peer, frame and tile, per session a store of body
catalogues and the newest frame seen, one outbound peer for `--master-address`.  *Threads*: the event
loop, which runs every handler, and the pool, which executes jobs.  *Operations*: connect, handshake,
rekey, close; accept, reject, supersede and cancel tile assignments; ingest catalogue chunks and
release the jobs that wait for them; render, look whether the session is still open, send.  *Meets*:
the master of `ClusterMembership` and `FrameDispatch` through two channels, a reliable one for
catalogues and cancellations and a lossy one for assignments.  *Hard*: the channels overtake each
other, a peer id is reused by the next session while jobs of the last still run, a catalogue is kept
for a few frames only, a job may wait for one that never comes, and masters number their frames each
from zero, so that jobs of two of them meet under one key.  *Correct when* the job map points only to
jobs that are not over and loses none of them but by such a collision, what is answered was rendered
with the bodies of its own frame, every job ends, and the worker goes back to its master.

### The render pipeline (`GP`) — `RenderPipeline`

*State*: the pending request and the current job, three framebuffers (back, front and the display's),
`is_rendering_`, `cancel_render_`, `new_frame_ready_`, `is_running_`.  *Threads*: the user interface,
which posts requests, takes frames and copies them for captures, and one worker.  *Operations*:
`dispatch`, `worker_loop`, `swap_display_framebuffer`, `copy_display_framebuffer`, the destructor.
*Meets*: `dispatch_frame` and the engines below, the viewport and capture above.  *Hard*: a request
cancels the render under way, and the cancellation must hit that render and not the next; buffers of
several resolutions change places; notifications meet a worker between its test and its sleep.
*Correct when* what is displayed is a whole frame of the size it claims, and the newest request is
displayed in the end.

### Capture sessions (`CC`, `capture_progress.hpp`) — `CaptureSession`

*State*: a session with its counters, a queue of tasks with a count of those not finished, a failure
flag, the phase shown to the user, the pause state it found.  *Threads*: the user interface, whose
`update` prepares frames, and one worker, which renders, writes and calls ffmpeg.  *Operations*:
screenshots, sequences in both modes, manual frames, stop, cancel, the end of a session, shutdown.
*Meets*: the scheduler it pauses and steps, the framebuffers it copies.  *Hard*: the end is decided
from a counter and a flag that the worker changes; any task may throw; a session is cancelled while
frames wait.  *Correct when* a capture called completed has all its frames, an outcome is always
settled, and a session that should end does.

### The simulation loop (`apps/engine_cli/main.cpp`, `SO`, `scheduler.hpp`) — `SimulationLoop`

*State*: the command queue, the deferred actions with their flag, the scheduler's pause state, steps
and accumulator.  *Threads*: the simulation thread, the user interface and the console.  *Operations*:
`enqueue_command` under a mutex, `queue_post_command_action` under another, and the turn of the
simulation thread: add time, apply commands, run actions, tick at most 200 times.  *Meets*: the ring
below; everything that commands the program above.  *Hard*: pause, resume, step, reset and rate
changes meet steps still to be made and time still accumulated; a step count may be without end;
actions arrive while others run.  *Correct when* the world makes exactly the steps it was asked for
and pauses, or runs freely after a resume, every accepted command is applied, and every action is run.
The first of these the code keeps but for two cases, named under Findings.

### Parts that are not modelled

| Part | State, operations, interactions | Why not |
| --- | --- | --- |
| Session cryptography (`crypto_channel.cpp`) | packet counters and a 64-packet replay window; encrypt, decrypt | planned as `SessionChannel`: two channels share one window, and a resent packet may be locked out |
| Distribution quotas (`distribution_scheduler.cpp`) | node shares, tile quotas | planned as `TileQuotas`, a pure rounding algorithm; `FrameDispatch` accepts every plan |
| Discovery (`discovery_service.cpp`) | known peers, a bounded event queue under one mutex | a discovered worker is one more way to be listed in `ClusterMembership` |
| Textures (`sky_panorama_image.hpp`, `earth_texture_image.hpp`) | slots filled by decoding threads | planned last |
| Result queue (`SO:602`) | outcomes of commands | nothing reads it |

Transport, packets, codecs, tile renderer, kernels, worker options, Slurm, engines, motion scripts,
arena, journal, logging, diagnostics, file formats, user interface and the physics modules are listed
in `PROJECT.json` with the reason each is left out: they are sequential numerics or encoders with
tests of their own, wrappers of a library, or code whose interleavings nothing depends on.  They are
by far the larger part of the repository: a ray tracer's shaders, windows full of widgets and metric
tensors have no interleavings and no finite instance a model checker could decide.

### How the parts interact

The user interface pushes commands into the ring; the simulation thread pops them once a tick and
runs its physics loops on the thread pool or, through `run_compute_job`, on the cluster.  A frame
request goes to the render pipeline's worker, which calls `dispatch_frame` if a cluster is active
and renders by itself if that returns false.  `dispatch_frame` and `run_compute_job` share the pump
thread, which services the transport, runs every handler under `pump_mutex_`, and moves nodes
between states; both ask the registry for nodes that accept work.

The models meet at the same seams.  `FrameDispatch` and `ComputeJob` take "a node has an
authenticated session" as a set that changes at any time; `ClusterMembership` says how that set
changes and never promises more than they assume (their `up` may change at every step).
`ClusterMembership` takes dispatches and deadline misses as inputs that come at any time for a node
that accepts work.  `WorkerService` has the other end of the two channels: its master sends what
`FrameDispatch` sends, a catalogue to every session and each tile to one, and calls frames off when
they end early.  `WorkContract` is the promise the render pipeline and the physics modules rely on:
`RenderPipeline` takes a frame rendered by the cluster or by the engine as one step that either fills
the buffer or leaves it partly filled.  The local batches of `FrameDispatch` and `ComputeJob` are
threads of their own, which is what `LoopCovers` and `LoopReturns` of `ThreadPool` promise of
`parallel_for`.  `SimulationLoop` takes the command queue as a sequence, which is what `SpscQueue`
implements for one producer at a time.  `CaptureSession` keeps of the world only whether it is
paused.

A deterministic capture calls `request_steps` and `advance_tick` (`CC:707`) from the user interface's
thread, without a lock.  Both models take the scheduler as their own: `SimulationLoop` is the
simulation while no deterministic capture is made.

## Modules

| Module | Models | Instance of |
| --- | --- | --- |
| `BoundedFifo` | what a bounded queue promises | |
| `SpscQueue` | `spsc_queue.hpp` | implements `BoundedFifo` |
| `WorkContract` | what a call that completes a set of items promises | |
| `FrameDispatch` | `dispatch_frame` and the scheduler | implements `WorkContract` |
| `ComputeJob` | `run_compute_job` | implements `WorkContract` |
| `ThreadPool` | `thread_pool.hpp` | each caller implements `WorkContract` |
| `ClusterMembership` | registry, sessions, connections of the master | |
| `WorkerService` | the worker daemon and its body catalogues | |
| `RenderPipeline` | the windowed render pipeline | |
| `CaptureOutcome` | what a capture promises to whom it reports its progress | |
| `CaptureSession` | screenshots and sequences | extends `CaptureOutcome` |
| `WorldClock` | what the documents promise to those who command the simulation | |
| `SimulationLoop` | simulation thread, commands, scheduler | implements `WorldClock` but for two named steps |
| `MC…` | instances for TLC | |
| `…Proofs` | theorems and proofs about `SpscQueue`, `FrameDispatch`, `ComputeJob`, `ThreadPool`, `ClusterMembership`, `WorkerService`, `RenderPipeline`; `SimulationAndCaptureProofs` about `SimulationLoop` and `CaptureSession` | |

Each module that models code holds, beside the definitions the runs use, a few preceded by the words
"A mistake": plausible errors in that code, which `PROJECT.json` lists as mutants and against which
every property of a passing run is tried.

### `WorkContract`

A call opens a set of items (`Open`, `Plan`), each of them is delivered at most once (`Deliver`), and
the call returns (`Return`) with "complete" only if all were delivered; nothing is delivered outside
a call.  It is what three components promise their callers, and each refines it under its own
mapping: tiles written into the framebuffer, units applied to the caller's array, items processed by
the loop's body.  A delivery that repeats an earlier one is a stutter of the contract, so that
nothing is delivered *twice* is a property of its own (`StoredOnce`, `OneApplier`, `LoopCovers`).

### `SpscQueue`

One step for each access to shared memory: load both counters, decide, write the slot, publish.
The acquire load of the other side's counter may return any value between the last one seen and the
newest (`seen` records how far); the own counter is read exactly, for its thread is its only writer.
Counters live modulo `Wrap`, which stands for 2^64, so that `tail - head` is the unsigned difference
of the code.  `sent` and `received` are history.

### `FrameDispatch`

| Model | Code |
| --- | --- |
| `status`, `owner`, `inFlight`, `completed` | `tile_status_`, `tile_owner_`, `in_flight_`, `completed_tiles_` of the scheduler |
| `window`, `nodeLoss`, `frame` | `active_window_`, `reclaimed_by_node_loss_`, `active_frame_` |
| `Call`, `Enter`, `Setup` | `dispatch_frame` up to the first local batch; `dispatch_mutex_`, then `pump_mutex_` |
| `TryCompleteLocal`, `StoreLocal`, `RenderFails`, `RetryInSoftware`, `BatchReturns` | `run_local_batch` |
| `LoopEnds` … `StealSpeculative` | the body of the wait loop |
| `FinalReclaim`, `FinalDrain`, `Sweep`, `Finish`, `Close` | the end of the frame |
| `ResultArrives`, `PumpCounts`, `PumpStores` | `handle_tile_result`: the compare-and-swap, the counter and the copy of the pixels are three steps, as they are in the code |
| `NodeLost`, `NodeReturns`, `ShutdownBegins` … `ShutdownEnds` | node loss in the pump, `shutdown` |

Time is abstract: any tile in flight may have expired at any look, and the frame's deadline may pass
at any moment (`late`).  The plan (which node owns which tile) is any function, and any send may
fail.  Results stay in `tasks` until they come, if they ever do, also across frames.

### `ComputeJob`

Each atomic access of `complete_compute_unit` is a step (`Enter` raises `active_applies`, `Check`
reads `closed`, `Claim` is the compare-and-swap, then the application, the undo or the count, and
`Leave`).  The dispatcher dispatches, runs its local threads, scans for units to reclaim, and in
`finish` closes the job and waits for appliers.  `closed` and `applies` are kept per job because they
live as long as the pump's pointer; the rest dies with the call.

### `ThreadPool`

What is done under `queue_mutex_` is one step, with one exception: a worker that found nothing to do
holds the mutex from its test (`doze`) until the condition variable puts it to sleep (`Sleep`), and
`shutdown`, which does not take the mutex, may come in between.  Everything else is one step per
atomic access.  A wake-up may be spurious.  A step into a loop frame whose call has returned moves
the thread to `"lost"`: what a destroyed mutex does is undefined, and nothing is concluded about it.

### `ClusterMembership`

Nodes are endpoints.  Session objects have identities, since two maps refer to them and are updated
apart.  Transport peers are slots that are free, connecting, connected or closing; `disconnect()` of
an established peer ends with an event, of a connecting one without one, as ENet does it — the
transport's own steps (`Answered`, `CallsIn`) are marked external.  Every handler of the pump holds
`pump_mutex_` from start to end and is one action; `DeadlineMiss` comes from the dispatcher without
it.  Any silence may exceed a timeout, also that of a peer still being called: the transport gives up
a request after `node_timeout_ms` at the earliest (`cluster_config.hpp:113`), and `detect_timeouts`
may cut it before.  A node that timed out and keeps its peer is `Detached`; if no event is to come for
that peer, for its attempt was cut, it is `Stranded`.  A worker that calls in may be given the very
peer a stranded node is bound to: `bind_peer` fails, `OR:679` ignores it, and the worker joins unbound.

### `WorkerService`

| Model | Code |
| --- | --- |
| `slot` | the transport's peers (external) |
| `outbound`, `byPeer`, `sess` | `outbound_peer`, `sessions`, `PeerSession` |
| `store` | `BodyCatalogStore`: the catalogues being assembled, and those published |
| `job`, `map` | each job with its session, its cancel flag and where it stands; the jobs the entries of the job map point to |
| `Key` | peer, frame and tile; `Accept` emplaces under it and keeps the first, `Without` erases by it |
| `ctrl`, `data` | the packets under way on the two channels of a session |
| `Connect` … `Disconnected` | connection maintenance, `on_peer_connected`, the handshake, `close_session`, rekeying, `on_peer_disconnected` |
| `Reject`, `Accept` | `on_task_assignment`: superseded frames are cancelled, the map's bound is checked, the job waits or is queued |
| `Chunk`, `LastChunk`, `TaskCancel`, `EndTurn` | chunks and the release of waiting jobs, cancellation, the sweep of expired waits |
| `Begin` … `Transmit`, `OutOfNumbers` | `execute_tile_job`; the look whether the session is open and the send are two steps |
| `SendFrame`, `EndFrame` | the masters, as `OR` sends: `Catalogue` is `broadcast_bodies_if_needed`, `CancelFrame` is `cancel_remote_frame` |

A master is a process that numbers its frames from zero; a restarted one is another master.  A job is
identified by its master, frame and tile, the code's key by its peer, frame and tile, so a peer id used
by one master after another can bring two jobs under one key.

Rendering, and every deadline, may take any time.  Handlers run on the event loop and are one action
each; a job's steps interleave with all of them.

### `RenderPipeline`

A framebuffer is its size and, for its even and its odd rows, the set of requests those rows come
from, so that a row left over from another frame can be told from a fresh one.  A section under
`mutex_` is one step, except that the worker stands between its test and its sleep (`dozing`) with the
mutex held: `dispatch` has to wait, and the destructor, which takes no mutex (`GP:773`), has not.
`Render` and `RenderOnGpu` fill the buffer or, cancelled, part of it; `Keep` and `Abandon` are the
look at `cancel_render_` afterwards.  `SwapDisplay` and `CopyFramebuffer` are the viewport's and the
capture's ends, `StoreStopped` … `Join` the destructor.

### `CaptureOutcome` and `CaptureSession`

`CaptureOutcome` has what a capture shows to whom it reports its progress, and the two promises about
it (`CompletedIsComplete`, `PhaseSettles`); `CaptureSession` extends it with the rest of the state and
the steps.  `session`, `tasks`, `unfinished` (`pending_tasks_`), `failed`, `phase` and `cancel` are the
members of the coordinator and of its progress.  `update` takes several steps (`Updating`, `Goes` …, `Ends` or `GoOn`), between which the
worker goes on; `TakeTask`, `Doing` … `FinishTask` are the worker's, and every task may end in an
exception (`Throw`).  A frame is its number: `asked`, `files` and `video` record what was queued, what
is on the disk, and what ffmpeg has read.

### `WorldClock` and `SimulationLoop`

`WorldClock` is the clock of `docs/CLI_REFERENCE.md` 2.1, for an observer who sees each command as it
is obeyed: pause halts, resume makes the world free, whatever steps were pending, step adds exactly
its N to what is owed and stops the world at the last of them.  It is a promise, not the
scheduler's code; only what a tick leaves of a count (`After`) and that a step without a count is one
(`Steps`) are the same in both.  `SimulationLoop` keeps `paused`, `remaining` and `accumulator` as `scheduler.hpp` does and
maps `free` to "not paused and no steps left", `owed` to `remaining` and `heard` to the commands
applied.  The scheduler does not keep that clock in two cases, and `ImplementsClock` names them beside
`Clock!Next`: `LostResume`, a resume that meets pending steps and changes nothing, and `WrappedCount`, a
step whose sum with the pending ones does not fit into 64 bits (`scheduler.hpp:106`; the parser accepts
any count) and is reduced, at worst to nothing and a world that runs free.  Everything else it does
must be the clock's; without either exception TLC refutes the property.

A turn of the simulation thread is `BeginTurn`, one action for each command, `SwapActions` and
`RunAction`, ticks, `EndTurn`; producers step in anywhere.  Time is counted in tick intervals, so a
change of the tick rate may leave any number of them.  `Width` stands for 2^64.  A count of `Plenty` or
more may outlast the program: a tick lowers it or leaves it as it is.  The flag of the deferred
actions is read outside the mutex and the list swapped inside, hence two steps.

## Runs

| Run | Instance | Distinct states | What it checks |
| --- | --- | --- | --- |
| `spsc` | 2 values, 2 slots, counters modulo 4, 6 elements | 14 thousand | order, slot races, refinement of `BoundedFifo`; everything sent arrives |
| `frame` | 2 tiles, 1 worker, 2 frames | 441 thousand | single writes, no stranded tile, nothing after the return or the shutdown, refinement of `WorkContract`; the call returns |
| `compute` | 2 units, 1 worker, 1 local thread, 2 jobs | 243 thousand | single application, success means applied, no stranded unit, refinement; the call returns |
| `pool` | 2 workers, 2 callers of which one loops, 1 call each | 45 thousand | every item once, no sleep over work, refinement; loops and waits return, `wait_idle` means idle |
| `membership` | 1 listed worker, 1 not listed that may call in as well, 2 peers, 2 sessions, 2 tasks, 4 faults | 105 thousand | agreement of the indexes, live bindings, sessions of serving nodes, loads; a listed worker serves again and again unless stranded, a stall ends |
| `worker` | 1 peer, 2 sessions; 2 masters, one called with 2 frames, one that calls in with 1; 1 tile, 2 chunks, 1 fault; a map of two, a store of one | 212 thousand | the job map has only living jobs and loses one only to a twin, answers have the right bodies; every job ends |
| `pipeline` | 2 resolutions, interlacing on and off, 3 requests | 632 thousand | whole frames on the display, no sleep over a request; the newest request is shown |
| `capture` | 2 captures of up to 3 frames, 1 still | 1.03 million | completed means complete, outcomes settle; a session ends |
| `simulation` | 3 commands of 11 kinds in a queue of 2, 2 actions, bursts of 2 ticks, counts modulo 10 | 656 thousand | refinement of `WorldClock` but for the two steps named above; commands are applied, actions are run |
| `membership_slow` | the instance of `membership`, 1 task, 2 faults | small | refutes one sentence, see Findings |
| `worker_retry` | 2 peers, 2 faults, no frames | small | the same |
| `capture_pause` | the instance of `capture` | small | the same |

### Why the bounds are enough

* `SpscQueue`: two slots are the least with a ring that is neither full nor empty; six elements go
  round the slots three times and wrap the counters once, so a push decides with `tail` on one side
  of the wrap and `head` on the other.
* `FrameDispatch`: with two tiles one may be done while the other is in flight, stolen, expired or
  lost, and the counter may be off by one in either direction; the second frame meets the first
  one's late results, and its own reset.  One worker beside the local node already brings every
  owner a tile can change between; the theorems cover any number of tiles, workers and frames.
* `ComputeJob`: two units and two completers (a local thread and the pump) collide on one unit while
  the other is open; the second job meets the pump still inside the first.
* `ThreadPool`: a loop of three items in chunks of two has a helper and a short last chunk, a loop of
  one item has none; two callers compete for one queue, where one's loop meets the other's task or wait.  Only one of them loops
  (`Loopers`), which keeps safety and liveness in one run.
* `ClusterMembership`: two peers let a worker be connected while its last peer still closes, or be
  connected both ways.  Calls of workers count as faults, like losses, timeouts, refusals and restarts:
  four are enough for an attempt that is cut, a caller on the stranded peer, its loss, and a second
  recovery.  Two session objects are in use at most, as each is filed under a peer.
* `WorkerService`: one peer and two sessions are the least in which a peer id is reused while the jobs
  of the first session still run.  The frame of the second master has the number and the tile of the
  first one's first, so their jobs have one key; a fault or a rekey that fails ends the session between
  them.  The second frame of the called master exceeds a store of one catalogue, and three jobs a map
  of two, so that catalogues are forgotten and jobs refused.  Two chunks let an assignment fall between
  them.
* `RenderPipeline`: a buffer comes back after two publications, so the third request may meet what the
  first left; two resolutions make a buffer come back in the wrong one.
* `CaptureSession`: the second capture meets what the first left in the queue, the flags and the
  phase; three frames are one more than the two that may be queued; `Missed` of 2 makes a real-time
  copy repeat.  `Totals` has a sequence with an end and one that is stopped by hand.
* `SimulationLoop`: a queue of two is full before the third command; three steps take more than one
  burst of two, and `Plenty` (7) may never end; with `Width` 10 a sum of 7 and 3 wraps to nothing, and
  one of 7 and 7 to less than was asked for; two actions let one arrive while the other is taken or run.

`MaxSent`, `MaxFrames`, `MaxJobs`, `MaxCalls`, `MaxTasks`, `MaxFaults`, `MaxRequests`, `MaxCaptures`,
`MaxStills`, `MaxCommands` and `MaxActions` are the bounds of the models and stand in guards.  Besides,
`Width` and `Plenty` stand for the counts of steps as said above, `Budget` for the frames of each master
of `WorkerService`, and `Lag` caps the accumulator, as `max_accumulator_ns_` does in the
code.  `CHECK_DEADLOCK FALSE` stands where the system may stop for good: all calls made, the
component shut down, or every fault spent and a node stranded.

## Fairness

* `spsc`: weak fairness of each thread's steps, and strong fairness of a pop that sees the newest
  `tail` (`FreshPop`): stores become visible to the other thread in finite time.  The producer need
  not keep trying.
* `frame`, `compute`: weak fairness of the dispatcher, of each local thread's step and of the pump's
  steps inside a handler; these are running threads and their loops do not block on anybody else.
  Also that the frame's deadline (a unit's deadline) passes, which is the clock.  No fairness of any
  worker, message, loss or cancellation: the calls must return without them.
* `pool`: the scheduler runs every thread, and the mutex is granted to who keeps asking.  The latter
  is strong fairness, since spurious wake-ups and other threads take the mutex away again and again;
  without it a waiter may find the mutex taken each time it looks.  No fairness of calls.
* `membership`: the pump keeps servicing events and maintaining connections, the transport ends what
  is closing, and a worker that is up answers, be it with a refusal; a node without a session gets no
  ping, falls silent and times out.  Nobody owes a call from a worker or a frame.  Faults are finitely
  many (`MaxFaults`), as no worker can serve that is lost for ever.
* `worker`: the pool executes its jobs, the event loop turns and sees what has waited too long
  (`EndTurn`), the transport ends what is closing, and the service tries to connect.  No fairness of
  the master, of any packet, chunk or cancellation: a job ends without them.
* `pipeline`: the worker runs, `dispatch` notifies after it has posted, and the viewport takes frames
  again and again; this is strong fairness, since a frame is ready only between its publication and the
  next swap.
* `capture`: the user interface keeps calling `update`, the worker runs, and the join ends with it.
  No fairness of anything the user does.
* `simulation`: the simulation thread runs.  Nobody need command it, and no time need pass.

## Theorems

All are of the form `Spec => []I`, `Spec => [][A]_v` or `Spec => Abstract!Spec`, for all values of the
constants that satisfy the named assumptions of the modules (a finite grid or set of units, a local
node that is not a worker, a capacity that divides the width of the counters, finitely many workers
and callers of the pool, a positive number of chunks, orders that are commands).

* **`SpscQueueProofs`** — `RaceFree`, `FirstInFirstOut`, `RingImplementsFifo`.  The invariant ties the
  wrapped counters to the history: `tail = Len(sent)` modulo `Wrap`, `head = Len(received)` modulo
  `Wrap`, the difference of the *lengths* never exceeds `Capacity`, and the slot of each element
  between them holds it.  What a thread has loaded is some earlier length of the other side, hence a
  conservative estimate.  `Capacity` dividing `Wrap` is what makes masking a wrapped counter the same
  as masking the length (`SlotOfCounter`), and `ModInjective` is what keeps two live elements in
  different slots.
* **`FrameDispatchProofs`** — `NobodyStoresAfterReturn`, `ShutdownExcludesFrames`, `TilesStoredOnce`,
  `CounterIsExact`, `NobodyStrandsATile`, `NoTileLeftBehind`, `CompleteFramesAreRendered`,
  `CompletionIsFinal`, `DispatchImplementsContract`.  None of these is inductive.  The invariant adds who holds the frame
  up (`WindowOK`: a pump between its compare-and-swap and its store keeps `pump_mutex_`, which
  closing the window needs), where a tile's single write is accounted for (`StoredOK`: done and
  written, or done and in one completer's hands), the counter up to the pump's pending increment
  (`CountOK`), and what the last stages have established (`FinalOK`).  `NoTileStranded` looks at any
  moment of a frame, also in the middle of a batch; `OutstandingOK` says stage by stage who still goes
  to a tile that was taken back: the batch, as long as it has not rendered it, and afterwards nobody
  but the pump's list, for a batch ends with nothing renderable in it.
* **`ComputeJobProofs`** — `NothingAppliedAfterReturn`, `OneApplierPerUnit`, `CounterExact`,
  `SuccessIsComplete`, `CompletesUnlessCancelled`, `NobodyStranded`, `ComputeImplementsContract`.  The
  invariant says that a registered applier past its look at `closed` is in the job under way
  (`StageOK`), that a unit in somebody's hands is in one pair of hands (`HoldOK`), that it is applied
  once unless the job has failed (`AppliedOK`), and that every open unit is about to be taken by
  somebody (`CoverOK`).
* **`ThreadPoolProofs`** — `EveryItemOnce`, `NoLostWakeup`, `WaitIdleWaits`, `LoopKeepsContract`, and,
  as steps on the way that are worth knowing, `PoolInductive`, `PoolType`, `ActiveCounts` and
  `FrameOutlivesChunks`.  `LoopCovers` speaks of loops that have returned; why they may return is that
  `remaining_tasks` counts three things at once: the helpers still queued, the threads at work on the
  loop, and the caller (`RemainingOK`, a sum of two cardinalities that each step shifts by one).  When
  it is zero nobody holds a chunk, and nobody has left the loop before the index passed the range
  (`ExhaustedOK`); the chunks handed out are disjoint, and an item below the index is processed unless
  it lies in one of them (`ChunksOK`).  Both need that a helper belongs to the very call its owner is
  in (`HelpersOK`): frames are reused by the caller's next call, and the argument fails if a helper of
  the last one can still be queued.  `PoolType` has that counters which are decremented without a test
  never become negative, hence is no part of the invariant but a consequence.  For the wake-ups, a
  worker between its test and its sleep has seen an empty queue and keeps it so (`SleepOK`); the
  theorem takes `Workers # {}` as a hypothesis, for `start_workers` makes at least one thread unless the
  system has none to give.  `WaitIdleWaits` rests on `ActiveExact` and on `KeptOK`, by which an accepted
  task that has not run is queued or in a thread's hands, and `active_tasks_` is positive.
  `LoopKeepsContract` maps each caller's loop to a call of `WorkContract`, a chunk's bodies to
  deliveries and everything another caller does to a stutter.  `NobodySleepsForNothing` is the half of
  `LoopReturns` and `WaitReturns` that needs no fairness: a caller asleep on `completion_cv` or
  `cv_finished_` has work queued or under way, or a thread that has counted to zero and has yet to
  notify.  Such a thread is there because a counter falls to zero in one step only, whose thread goes
  on to the notification (`CountersFall`), and because it cannot leave before it has notified
  (`OnlyNotifies`).
* **`ClusterMembershipProofs`** — `LoadIsMatched`, `IndexesAlwaysAgree`, `OneSessionAlways`,
  `ServingAlwaysHasSession`, `BindingsAreLive`, for any configuration of timeouts: attempts may be cut
  at any moment.  None but the first is inductive, and they need each other.  The link is `Standing`:
  whatever refers to a peer the transport has given up is on its way out or belongs to a `Detached`
  node, one that is Disconnected, has no session and still has a peer.  So a session on a peer of a
  detached node is the only one that may not match the registry, and a second session of a node is the
  one whose peer is closing.  `IndexesAgree` implies `OneSessionPerNode`.  `ServingHasSession` has a part
  about steps: a node begins to serve without a peer only by calling in on the peer of a detached one.
* **`WorkerServiceProofs`** — `JobsAreTracked`, `RightBodiesAlways`.  `JobsTracked` has a part about states
  and one about steps.  For the first the invariant says that a job not over has a session
  (`HasSession`), that the map points to such jobs (`Entries`), and that each of them has an open
  session that holds its peer, or has been given up: it does not wait, and is cancelled or has lost its
  entry (`Attended`).  A session object is used again only when no job refers to it, which is what
  `shared_ptr` guarantees.  The second, that only a *twin* (a job of another master under the same key,
  not over either) can keep a job out of the map or take its entry, needs that one master never makes
  two jobs with one key.  That is an invariant about the packets under way (`Wire`): a channel carries
  only what the master at its other end has sent, each job is assigned in one packet at most, and a job
  in a packet has not begun.  Every step either ends some jobs and takes out what has their keys
  (`Settled`) or accepts one.  `RightBodies` is about the newest frame of a master only, and false of
  older ones: a job that waited may take a later frame's catalogue.  The invariant says that this is
  all that can happen: packets speak of frames that have been sent (`Sent`), so the catalogue that ends
  a wait is the job's own or that of a later frame, and then the job's frame is no longer the newest
  (`Fitting`).
* **`RenderPipelineProofs`** — `DisplayedIsWhole`, `NoRequestSleptOver`, `NewestNeverDropped`,
  `DisplayGoesForward`.  From the allocation on the back buffer has the size of the job (`BackFits`); a
  render that gave up has seen `cancel_render_`, which only the worker clears, so what passes the check
  is whole (`BackWhole`), and so is what waits in front (`FrontWhole`).  A worker that falls asleep has tested under the mutex (`NoDozeOverRequest`).
  `NewestKept`, the half of `NewestShown` that needs no fairness, has the newest request wait, be
  rendered, be ready, be displayed or have failed.  It is not inductive: a cancellation that strikes
  the newest frame, or an older frame that is swapped in, would refute it.  Hence `InTurn` (request,
  job, front and display are each older than the one before, strictly while a frame is on its way
  between them) and `NotHit` (`cancel_render_` is never set while the newest request is being
  rendered, unless the destructor has begun: `dispatch` sets it with a newer request, and the worker
  clears it before each frame).
* **`SimulationAndCaptureProofs`**, the simulation: `AlwaysSafe`, `KeepsTheClock`, `NothingIsLost`.  A
  scheduler with steps to make is not paused (`StepsAreAwake`): with it every tick is one the clock
  allows, every command obeyed as the clock does, and everything else a stutter.  What is left over is
  what `KeepsTheClock` has to name: a resume with steps pending (`ResumeReleases`) and a sum that reaches
  `Width` (`StepsAreAsked`).  `NothingIsLost` counts:
  commands accepted are applied or queued, actions deferred have run, wait, or are in the batch in
  hand, and a batch is there only while its actions run, so the swap never overwrites one.
* **`SimulationAndCaptureProofs`**, the captures: `Completed`, `Settles`, `PendingExact`,
  `RestoresPause`.  `CompletedIsComplete` looks at the end of a capture; the inductive invariant
  (`CaptureInv`) says how it gets there.  `pending_tasks_` is the length of the queue plus the task in
  hand (`CountExact`), so a session whose count is zero has nothing under way, whatever a look at the
  queue would say.  While a sequence is open every frame asked for is on the disk, queued or being
  written, unless a failure or a cancellation has been recorded (`SequenceOK`), which makes the
  outcome right at the moment it is decided.  Otherwise there is one task at most, a screenshot, or an
  assembly that has all the frames, and without one the outcome is settled (`AloneOK`).
  `RestoresPause` gives sufficient conditions beside the finding `capture_pause` below: provided the
  user leaves the pause alone during a session, as the model has it, the state found is restored by
  every real-time sequence without a script, and by every deterministic one that found the simulation
  paused or paused it itself.  It says nothing of the others, whose end may find the pause state right
  by chance.  No assumption about the constants of `CaptureSession` is used.

Each of these modules also proves its type invariant (`AlwaysSafe` and, as a part of
`CaptureInvariant`, `CaptureShape` in the last).  Every invariant and every action property of a run,
and every refinement, of a run that passes is thereby proved for all constants that satisfy the
assumptions.  Only model-checked: the liveness
properties, since the prover does neither fairness nor `ENABLED`.  What can go wrong in them without
fairness, work that is lost or a sleeper nobody wakes, is proved where the code has it
(`NoTileLeftBehind`, `NobodyStranded`, `NobodySleepsForNothing`, `NewestNeverDropped`,
`NothingIsLost`).

Not provable because it is false: what the next section says.

## Findings

Runs in which TLC refutes something the repository says.

* `membership_slow` — a connection attempt that `detect_timeouts` cuts (`OR:416`) ends without an event,
  the node keeps its peer and is not connected again (unless a worker that calls in happens to be given
  that peer and leaves again), although a listed node promises to be (`docs/FILE_FORMATS.md:585`).
* `worker_retry` — `outbound_peer` is cleared by a Connected event only (`WS:440`): after an attempt that
  fails, the worker never calls its master again, although `docs/CLI_REFERENCE.md:313` says it is retried
  automatically.
* `capture_pause` — a session remembers only whether it paused the simulation itself (`CC:892`).  A
  deterministic sequence that did not pauses it all the same, for the last of its steps does, and
  nothing releases it, although `docs/ARCHITECTURE.md:134` says the pause state is restored.

Two more disagreements with `docs/CLI_REFERENCE.md` are in the run `simulation`, as the steps that
`ImplementsClock` must except.

* `LostResume` — a resume that meets steps still to be made only clears `is_paused_`, which they cleared
  before; the last of them pauses the scheduler (`scheduler.hpp:158`).  Line 24 says "Resumes continuous
  simulation progression."
* `WrappedCount` — `remaining_steps_ += n` wraps (`scheduler.hpp:106`): `step 10` and, before they are made,
  `step 18446744073709551606` leave no step and a scheduler that is not paused, so the world runs free.
  Line 25 says "Advances the simulation by exactly `N` ticks (default: 1) & pauses."

Some properties are stated beside these and are not run, because no sentence of the repository
promises them, or because a run above has the same cause.

* `FrameDispatch`: `NeverDropped` (a frame may be done and reported incomplete, since its counter is
  read between the compare-and-swap of its last tile and the increment).
* `ThreadPool`: `ShutdownReturns` (`TP:203`, a notification without the mutex) and `NoTouchAfterReturn`
  (`TP:171`, a helper that locks the mutex of a frame whose call may have returned).
* `ClusterMembership`: `RetryIsWelcome` (a worker that calls in again is refused, `OR:672`).
* `RenderPipeline`: `DestructorReturns` (`GP:773`), `CapturedInOrder` (`CC:806`, a capture may copy an older frame
  after a newer one), `KeepsPreviousRows` (`GP:689`, the rows an interlaced frame does not trace are not the
  previous frame's).

## Limits of the models

* Memory is sequentially consistent except where the code's acquire loads may be stale
  (`SpscQueue`).  The other components order their accesses by mutexes or by read-modify-write
  operations on the very variable they decide on; where a relaxed load is used alone it is a look at
  a hint whose value the model lets change at any time.
* Exceptions inside tasks and renderers are modelled (a tile that fails, a unit that throws); a failed
  allocation is not.
* `ClusterMembership` leaves out clock and throughput estimates, the delay between reconnects (a
  connection may be tried at any time) and a shutdown that interleaves with handlers (`Restart` is one
  step; `FrameDispatch` has the interleaved one).  A connection takes any free peer, where ENet hands out
  the first: with more than one listed worker, a stranded peer that comes first would also stand in the
  way of the others, and the run has one.  Nothing unregisters a node (`node_registry.hpp:44`), so workers
  that call in from ever new ports use up the registry; the model has the limit as a guard only.  Discovery is one more way for a node to be listed.
* Quotas are left out of `FrameDispatch`, which accepts every plan.
* `WorkerService` leaves out pixels, compute tasks (their answers are inputs of `ComputeJob`), pings and
  clock replies, and the daemon's own shutdown.
* `RenderPipeline` leaves out the headless dispatch and `render_capture`, which are sequential.
* `CaptureSession` leaves out a user who pauses or resumes the simulation during a session,
  the camera, the ramps of scripts and the recorder.  A real-time sequence of a fixed number of frames
  may end with more, as in the code.
* `SimulationLoop` has one simulation thread, warp and logical time left out; of the commands that are
  not the clock's it keeps that they are applied.  The schematic mode and its permission to simulate are
  one switch.
* The scheduler's data race with a deterministic capture (`CC:707`) is in no model, as said above.

## Plan

1. `SessionChannel` — the replay window against a reference set of accepted packets, two channels, the
   packet limit; composed with the two channels of `WorkerService`.
2. `WorkerService` beside `FrameDispatch`: the master's half of the channels taken from `FrameDispatch`
   instead of stated again.
3. `TileQuotas` — the rounding against its specification, over bounded inputs.
4. The texture caches.
