--------------------------- MODULE RenderPipeline ---------------------------
(* GeodesicComputePipeline in a window: the UI thread posts requests and     *)
(* takes finished frames, and one worker renders the newest request.         *)
(*                                                                           *)
(* Three framebuffers go round: the worker renders into back and swaps it    *)
(* with front, the UI thread swaps front with its display.  A framebuffer is *)
(* its size and, for its even and its odd rows, the requests those rows come *)
(* from; 0 is the black of a new buffer, and an abandoned render leaves rows *)
(* of several requests.  A request traces all rows, or one field of them     *)
(* when interlacing is on.                                                   *)
EXTENDS Integers, FiniteSets, FiniteSetsExt

CONSTANTS Sizes,        \* resolutions of a request
          NoSize,       \* the size of a buffer that has never been used
          Interlacing,  \* settings of interlace_rendering_enabled the user chooses
          MaxRequests   \* bound of the model: calls of dispatch

ASSUME SizesAssumption == NoSize \notin Sizes
ASSUME InterlacingAssumption == Interlacing \subseteq BOOLEAN
ASSUME MaxRequestsAssumption == MaxRequests \in Nat

Fields == {0, 1}
Ids == 0 .. MaxRequests
Buffers == [size : Sizes \cup {NoSize}, rows : [Fields -> SUBSET Ids]]
Requests == [id : Ids, size : Sizes \cup {NoSize}, traced : SUBSET Fields]

VARIABLES
  front, back, display,   \* front_buffer_, back_buffer_, display_framebuffer_
  request,                \* pending_constants_
  job,                    \* current_job
  published,              \* the request front was rendered for when it was published
  shown,                  \* the one display was rendered for
  pending, ready,         \* request_pending_, new_frame_ready_
  rendering, cancel,      \* is_rendering_, cancel_render_
  running, stop,          \* is_running_, the worker's stop token
  worker, ui,             \* where the threads are
  phase,                  \* interlace_phase_ of the viewport
  failed,                 \* the last request that could not be allocated or threw
  captured                \* newest row of the frame copied last

buffers == <<front, back, display>>
flags == <<pending, ready, rendering, cancel, running, stop>>
records == <<published, shown, failed, captured>>
vars == <<buffers, request, job, flags, worker, ui, phase, records>>

Black == [r \in Fields |-> {0}]
Nothing == [id |-> 0, size |-> NoSize, traced |-> {}]

Init ==
  /\ \E s \in Sizes : front = [size |-> s, rows |-> Black] /\ back = front
  /\ display = [size |-> NoSize, rows |-> Black]
  /\ request = Nothing /\ job = Nothing /\ published = Nothing /\ shown = Nothing
  /\ pending = FALSE /\ ready = FALSE /\ rendering = FALSE /\ cancel = FALSE
  /\ running = TRUE /\ stop = FALSE
  /\ worker = "top" /\ ui = "run" /\ phase = 0 /\ failed = 0 /\ captured = 0

(* A mistake: dispatch does without mutex_.                                  *)
MutexIgnored == TRUE

(* The worker holds mutex_ from its test until it sleeps; every other        *)
(* section under mutex_ is one step.                                         *)
MutexFree == worker # "dozing"
Stopped == stop \/ ~running

-----------------------------------------------------------------------------
(* worker_loop.                                                              *)

Go(from, to) == worker = from /\ worker' = to

Exit ==
  /\ Stopped /\ worker \in {"top", "wait"} /\ worker' = "done"
  /\ UNCHANGED <<buffers, request, job, flags, ui, phase, records>>

Enter ==
  /\ ~Stopped /\ Go("top", "wait")
  /\ UNCHANGED <<buffers, request, job, flags, ui, phase, records>>

(* The predicate of the wait is false: the worker is about to sleep.         *)
Doze ==
  /\ ~Stopped /\ ~pending /\ Go("wait", "dozing")
  /\ UNCHANGED <<buffers, request, job, flags, ui, phase, records>>
Sleep ==
  /\ Go("dozing", "asleep")
  /\ UNCHANGED <<buffers, request, job, flags, ui, phase, records>>
SpuriousWakeup ==
  /\ Go("asleep", "wait")
  /\ UNCHANGED <<buffers, request, job, flags, ui, phase, records>>

Take ==
  /\ ~Stopped /\ pending /\ Go("wait", "allocate")
  /\ job' = request
  /\ pending' = FALSE /\ rendering' = TRUE
  /\ UNCHANGED <<buffers, request, ready, cancel, running, stop, ui, phase, records>>

(* A buffer of another size is replaced by a black one.                      *)
Allocate ==
  /\ Go("allocate", "clear")
  /\ back' = IF back.size = job.size THEN back ELSE [size |-> job.size, rows |-> Black]
  /\ UNCHANGED <<front, display, request, job, flags, ui, phase, records>>

NoFrame ==
  /\ worker' = "top" /\ rendering' = FALSE
  /\ failed' = job.id
  /\ UNCHANGED <<pending, ready, cancel, running, stop, front, display, request, job, ui, phase,
                 published, shown, captured>>
AllocationFails ==
  /\ worker = "allocate" /\ back.size # job.size
  /\ NoFrame /\ UNCHANGED back

(* A mistake: a cancellation is never taken back.                            *)
ClearNothing ==
  /\ Go("clear", "render")
  /\ UNCHANGED <<buffers, request, job, flags, ui, phase, records>>

ClearCancel ==
  /\ Go("clear", "render")
  /\ cancel' = FALSE
  /\ UNCHANGED <<buffers, request, job, pending, ready, rendering, running, stop, ui, phase,
                 records>>

(* Rows of the job that were traced, all of them or some.                    *)
Whole(b, j) == [b EXCEPT !.rows = [r \in Fields |-> IF r \in j.traced THEN {j.id} ELSE @[r]]]
Partly(b, j) ==
  [b EXCEPT !.rows = [r \in Fields |-> IF r \in j.traced THEN @[r] \cup {j.id} ELSE @[r]]]

(* A GPU frame is whole, is never interlaced and is published although a     *)
(* newer request has come meanwhile.                                         *)
RenderOnGpu ==
  /\ Go("render", "publish") /\ job.traced = Fields
  /\ back' = Whole(back, job)
  /\ UNCHANGED <<front, display, request, job, flags, ui, phase, records>>

(* On the cluster or the processor, to the end or until cancel is seen.      *)
Render ==
  /\ Go("render", "check")
  /\ \/ back' = Whole(back, job)
     \/ cancel /\ back' = Partly(back, job)
  /\ UNCHANGED <<front, display, request, job, flags, ui, phase, records>>

RenderThrows ==
  /\ worker = "render" /\ back' \in {back, Partly(back, job)}
  /\ NoFrame

Abandon ==
  /\ cancel /\ Go("check", "top")
  /\ rendering' = FALSE
  /\ UNCHANGED <<buffers, request, job, pending, ready, cancel, running, stop, ui, phase, records>>

(* A mistake: what has been rendered is published.                          *)
KeepAnyway ==
  /\ Go("check", "publish")
  /\ UNCHANGED <<buffers, request, job, flags, ui, phase, records>>

Keep ==
  /\ ~cancel /\ Go("check", "publish")
  /\ UNCHANGED <<buffers, request, job, flags, ui, phase, records>>

Publish ==
  /\ Go("publish", "top")
  /\ front' = back /\ back' = front
  /\ published' = job
  /\ ready' = TRUE /\ rendering' = FALSE
  /\ UNCHANGED <<display, request, job, pending, cancel, running, stop, ui, phase, shown, failed,
                 captured>>

Worker ==
  \/ Exit \/ Enter \/ Doze \/ Sleep \/ Take \/ Allocate \/ AllocationFails \/ ClearCancel
  \/ RenderOnGpu \/ Render \/ RenderThrows \/ Abandon \/ Keep \/ Publish

-----------------------------------------------------------------------------
(* The UI thread.                                                            *)

(* dispatch, which keeps the frame under way if the camera is moving and the *)
(* setting for it is on (preserve); the field to trace alternates.           *)
Dispatch(size, interlaced, preserve) ==
  /\ ui = "run" /\ MutexFree /\ request.id < MaxRequests
  /\ cancel' = (cancel \/ (rendering /\ ~preserve))
  /\ request' = [id |-> request.id + 1, size |-> size,
                 traced |-> IF interlaced THEN {phase} ELSE Fields]
  /\ phase' = IF interlaced THEN 1 - phase ELSE phase
  /\ pending' = TRUE
  /\ ui' = "ring"
  /\ UNCHANGED <<buffers, job, ready, rendering, running, stop, worker, records>>

Wake == worker' = IF worker = "asleep" THEN "wait" ELSE worker

(* notify_one.                                                               *)
Ring ==
  /\ ui = "ring" /\ ui' = "run"
  /\ Wake
  /\ UNCHANGED <<buffers, request, job, flags, phase, records>>

(* swap_display_framebuffer.                                                 *)
SwapDisplay ==
  /\ ui = "run" /\ MutexFree /\ ready
  /\ display' = front /\ front' = display
  /\ shown' = published
  /\ ready' = FALSE
  /\ UNCHANGED <<back, request, job, pending, rendering, cancel, running, stop, worker, ui, phase,
                 published, failed, captured>>

(* copy_framebuffer, for a real-time capture: the frame, if it has the       *)
(* dimensions of the one published last.                                     *)
Newest(b) == Max(b.rows[0] \cup b.rows[1])
CopyFramebuffer ==
  /\ ui = "run" /\ MutexFree /\ front.size = published.size
  /\ captured' = Newest(front)
  /\ UNCHANGED <<buffers, request, job, flags, worker, ui, phase, published, shown, failed>>

(* The destructor, which does not take mutex_.                               *)
StoreStopped ==
  /\ ui = "run" /\ ui' = "stored"
  /\ running' = FALSE
  /\ UNCHANGED <<buffers, request, job, pending, ready, rendering, cancel, stop, worker, phase,
                 records>>
StoreCancel ==
  /\ ui = "stored" /\ ui' = "cancelled"
  /\ cancel' = TRUE
  /\ UNCHANGED <<buffers, request, job, pending, ready, rendering, running, stop, worker, phase,
                 records>>
NotifyAll ==
  /\ ui = "cancelled" /\ ui' = "notified"
  /\ Wake
  /\ UNCHANGED <<buffers, request, job, flags, phase, records>>
RequestStop ==
  /\ ui = "notified" /\ ui' = "joining"
  /\ stop' = TRUE
  /\ UNCHANGED <<buffers, request, job, pending, ready, rendering, cancel, running, worker, phase,
                 records>>
Join ==
  /\ ui = "joining" /\ worker = "done" /\ ui' = "gone"
  /\ UNCHANGED <<buffers, request, job, flags, worker, phase, records>>
Destroy == StoreStopped \/ StoreCancel \/ NotifyAll \/ RequestStop \/ Join

-----------------------------------------------------------------------------

Next ==
  \/ Worker \/ SpuriousWakeup
  \/ \E size \in Sizes, interlaced \in Interlacing, preserve \in BOOLEAN :
       Dispatch(size, interlaced, preserve)
  \/ Ring \/ SwapDisplay \/ CopyFramebuffer
  \/ Destroy

Spec == Init /\ [][Next]_vars

(* The worker runs, and the UI thread goes on drawing: after a dispatch it   *)
(* notifies, and in every turn it takes the frame that is ready.             *)
FairSpec == Spec /\ WF_vars(Worker) /\ WF_vars(Ring) /\ SF_vars(SwapDisplay)

-----------------------------------------------------------------------------

TypeOK ==
  /\ front \in Buffers /\ back \in Buffers /\ display \in Buffers
  /\ request \in Requests /\ job \in Requests /\ published \in Requests /\ shown \in Requests
  /\ pending \in BOOLEAN /\ ready \in BOOLEAN /\ rendering \in BOOLEAN /\ cancel \in BOOLEAN
  /\ running \in BOOLEAN /\ stop \in BOOLEAN
  /\ worker \in {"top", "wait", "dozing", "asleep", "allocate", "clear", "render", "check",
                 "publish", "done"}
  /\ ui \in {"run", "ring", "stored", "cancelled", "notified", "joining", "gone"}
  /\ phase \in Fields /\ failed \in Ids

(* What is displayed is a frame of the size it is said to have, and every    *)
(* row its request traces is that request's: no row of an abandoned render,  *)
(* of an older frame or of a buffer of another resolution, although the      *)
(* three buffers go round and a render may be cancelled at any time.         *)
ShownWhole ==
  /\ display.size = shown.size
  /\ \A r \in shown.traced : display.rows[r] = {shown.id}

(* The newest request is shown in the end, unless it cannot be rendered, a   *)
(* newer one comes or the pipeline is destroyed: a cancellation meant for    *)
(* the frame before it never hits it, and no wake-up is lost.                *)
NewestShown ==
  \A n \in 1 .. MaxRequests :
    (request.id = n) ~> \/ shown.id = n \/ request.id > n
                        \/ n = failed \/ ~running

(* A worker that sleeps over a request is about to be notified of it.        *)
NoSleepOverRequest == worker \in {"dozing", "asleep"} /\ pending => ui # "run"

(* performance_settings_window.hpp: an interlaced frame keeps the previous   *)
(* frame's data for the rows it does not trace.  No run checks it: three     *)
(* framebuffers take turns, and the rows are those of an older frame.        *)
KeepsPreviousRows ==
  [][shown' # shown /\ display'.size = display.size =>
       \A r \in Fields \ shown'.traced : display'.rows[r] = display.rows[r]]_vars

(* docs/ARCHITECTURE.md: a real-time capture copies the front framebuffer at *)
(* the frame interval; late ones are dropped, or the last is repeated.  No   *)
(* run checks it: front may be older than what was copied before.            *)
CapturedInOrder == [][captured' >= captured]_vars

(* The destructor's join returns.                                            *)
DestructorReturns == ui = "joining" ~> ui = "gone"
=============================================================================
