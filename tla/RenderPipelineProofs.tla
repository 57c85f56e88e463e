------------------------ MODULE RenderPipelineProofs ------------------------
(* What RenderPipeline promises for any resolutions and any number of        *)
(* requests: what is displayed is whole, no request is slept over, the       *)
(* newest is never dropped, and the display never goes back.                 *)
EXTENDS RenderPipeline, TLAPS

(* A buffer holds the frame of a request: its size, and its rows where the   *)
(* request traces them.                                                      *)
Holds(b, j) == b.size = j.size /\ \A r \in j.traced : b.rows[r] = {j.id}

(* From the allocation on, back has the size of the job.  A render that gave *)
(* up has seen cancel, which stays set until the worker's next frame; so     *)
(* what passes the check is whole, and so is what is published, until it is  *)
(* displayed.                                                                *)
BackFits == worker \in {"clear", "render", "check", "publish"} => back.size = job.size
BackWhole ==
  /\ worker = "check" /\ ~cancel => Holds(back, job)
  /\ worker = "publish" => Holds(back, job)
FrontWhole == ready => Holds(front, published)
NoDozeOverRequest == worker = "dozing" => ~pending

IInv == TypeOK /\ BackFits /\ BackWhole /\ FrontWhole /\ ShownWhole
          /\ NoDozeOverRequest /\ NoSleepOverRequest

-----------------------------------------------------------------------------

(* The rows a renderer writes are rows of requests.                          *)
LEMMA RenderedTyped ==
  ASSUME NEW b \in Buffers, NEW j \in Requests
  PROVE  /\ Whole(b, j) \in Buffers /\ Whole(b, j).size = b.size
         /\ \A r \in j.traced : Whole(b, j).rows[r] = {j.id}
         /\ Partly(b, j) \in Buffers /\ Partly(b, j).size = b.size
<1> DEFINE whole == [r \in Fields |-> IF r \in j.traced THEN {j.id} ELSE b.rows[r]]
           partly == [r \in Fields |-> IF r \in j.traced THEN b.rows[r] \cup {j.id} ELSE b.rows[r]]
<1>1. j.id \in Ids /\ j.traced \subseteq Fields /\ b.rows \in [Fields -> SUBSET Ids]
  BY DEF Buffers, Requests
<1>2. whole \in [Fields -> SUBSET Ids] /\ partly \in [Fields -> SUBSET Ids]
  BY <1>1
<1>3. Whole(b, j) = [b EXCEPT !.rows = whole] /\ Partly(b, j) = [b EXCEPT !.rows = partly]
  BY DEF Whole, Partly, Buffers
<1>4. \A r \in j.traced : whole[r] = {j.id}
  BY <1>1
<1> HIDE DEF whole, partly
<1> QED BY <1>2, <1>3, <1>4 DEF Buffers

(* The initial frame is of request 0, which traces nothing.                  *)
LEMMA Initially == Init => IInv
<1> SUFFICES ASSUME Init PROVE IInv OBVIOUS
<1>1. 0 \in Ids BY MaxRequestsAssumption DEF Ids
<1>2. Black \in [Fields -> SUBSET Ids] BY <1>1 DEF Black
<1>3. Nothing \in Requests BY <1>1 DEF Nothing, Requests
<1>4. front \in Buffers /\ back \in Buffers /\ display \in Buffers
  BY <1>2 DEF Init, Buffers
<1>5. TypeOK BY <1>1, <1>3, <1>4 DEF Init, TypeOK, Fields
<1>6. ShownWhole BY DEF Init, ShownWhole, Nothing
<1> QED
  BY <1>5, <1>6 DEF Init, IInv, BackFits, BackWhole, FrontWhole, NoDozeOverRequest,
                    NoSleepOverRequest

(* Steps that touch neither a buffer nor a request.                          *)
LEMMA QuietStep ==
  ASSUME IInv, UNCHANGED <<buffers, request, job, published, shown, phase, failed>>,
         UNCHANGED <<pending, ready>>,
         rendering' \in BOOLEAN, cancel' \in BOOLEAN, running' \in BOOLEAN, stop' \in BOOLEAN,
         cancel => cancel' \/ worker' = "render",
         \/ worker' \in {"top", "wait", "done"} \/ worker' = worker
         \/ worker' = "dozing" /\ ~pending
         \/ worker' = "asleep" /\ worker = "dozing"
         \/ worker' = "render" /\ worker = "clear"
         \/ worker' = "publish" /\ worker = "check" /\ ~cancel,
         ui' \in {"run", "ring", "stored", "cancelled", "notified", "joining", "gone"},
         ui' = "run" => ui = "run" \/ worker' # "asleep"
  PROVE  IInv'
<1>1. TypeOK' BY DEF IInv, TypeOK, buffers
<1>2. BackFits' BY DEF IInv, BackFits, buffers
<1>3. BackWhole' BY DEF IInv, BackWhole, BackFits, Holds, buffers
<1>4. FrontWhole' /\ ShownWhole' BY DEF IInv, FrontWhole, ShownWhole, Holds, buffers
<1>5. NoDozeOverRequest' /\ NoSleepOverRequest'
  BY DEF IInv, NoDozeOverRequest, NoSleepOverRequest
<1> QED BY <1>1, <1>2, <1>3, <1>4, <1>5 DEF IInv

(* The worker takes a request, and a buffer of the right size for it.        *)
LEMMA TakeStep == IInv /\ Take => IInv'
<1> SUFFICES ASSUME IInv, Take PROVE IInv' OBVIOUS
<1>1. /\ worker = "wait" /\ worker' = "allocate" /\ pending' = FALSE /\ rendering' = TRUE
      /\ job' = request
      /\ UNCHANGED <<front, back, display, request, published, shown, failed, phase, ui,
                     ready, cancel, running, stop>>
  BY DEF Take, Go, buffers, records
<1>2. TypeOK' BY <1>1 DEF IInv, TypeOK
<1>3. BackFits' /\ BackWhole' BY <1>1 DEF BackFits, BackWhole
<1>4. FrontWhole' /\ ShownWhole' BY <1>1 DEF IInv, FrontWhole, ShownWhole, Holds
<1>5. NoDozeOverRequest' /\ NoSleepOverRequest' BY <1>1 DEF NoDozeOverRequest, NoSleepOverRequest
<1> QED BY <1>2, <1>3, <1>4, <1>5 DEF IInv

(* Steps of a frame in which the worker changes back, and does not go to     *)
(* sleep; failed may change.                                                 *)
LEMMA BackStep ==
  ASSUME IInv,
         UNCHANGED <<front, display, request, job, published, shown, phase, ui,
                     pending, ready, cancel, running, stop>>,
         rendering' \in BOOLEAN, failed' \in Ids, back' \in Buffers,
         \/ worker' = "top"
         \/ worker' = "clear" /\ back'.size = job.size
         \/ worker' = "check" /\ back'.size = job.size /\ (~cancel => Holds(back', job))
         \/ worker' = "publish" /\ Holds(back', job)
  PROVE  IInv'
<1>1. TypeOK' BY DEF IInv, TypeOK
<1>2. BackFits' BY DEF BackFits, Holds
<1>3. BackWhole' BY DEF BackWhole, Holds
<1>4. FrontWhole' /\ ShownWhole' BY DEF IInv, FrontWhole, ShownWhole, Holds
<1>5. NoDozeOverRequest' /\ NoSleepOverRequest' BY DEF NoDozeOverRequest, NoSleepOverRequest
<1> QED BY <1>1, <1>2, <1>3, <1>4, <1>5 DEF IInv

(* The worker's buffer and its job while it has one.                         *)
LEMMA FrameTyped ==
  ASSUME IInv
  PROVE  /\ back \in Buffers /\ job \in Requests /\ failed \in Ids /\ job.id \in Ids
         /\ rendering \in BOOLEAN
BY DEF IInv, TypeOK, Requests

LEMMA AllocateStep == IInv /\ Allocate => IInv'
<1> SUFFICES ASSUME IInv, Allocate PROVE IInv' OBVIOUS
<1>1. /\ worker' = "clear"
      /\ UNCHANGED <<front, display, request, job, published, shown, failed, phase, ui,
                     pending, ready, rendering, cancel, running, stop>>
  BY DEF Allocate, Go, records, flags
<1>2. Black \in [Fields -> SUBSET Ids] BY MaxRequestsAssumption DEF Black, Ids
<1>3. back' \in Buffers /\ back'.size = job.size
  BY <1>2, FrameTyped DEF Allocate, Buffers, Requests
<1> QED BY <1>1, <1>3, FrameTyped, BackStep

LEMMA RenderStep == IInv /\ (RenderOnGpu \/ Render) => IInv'
<1> SUFFICES ASSUME IInv, RenderOnGpu \/ Render PROVE IInv' OBVIOUS
<1>1. /\ worker = "render"
      /\ UNCHANGED <<front, display, request, job, published, shown, failed, phase, ui,
                     pending, ready, rendering, cancel, running, stop>>
  BY DEF RenderOnGpu, Render, Go, records, flags
<1>2. back.size = job.size BY <1>1 DEF IInv, BackFits
<1>3. /\ Whole(back, job) \in Buffers /\ Holds(Whole(back, job), job)
      /\ Partly(back, job) \in Buffers /\ Partly(back, job).size = job.size
  BY <1>2, FrameTyped, RenderedTyped DEF Holds
<1>4. CASE RenderOnGpu
  <2>1. worker' = "publish" /\ back' = Whole(back, job) BY <1>4 DEF RenderOnGpu, Go
  <2> QED BY <1>1, <1>3, <2>1, FrameTyped, BackStep
<1>5. CASE Render
  <2>1. /\ worker' = "check"
        /\ back' = Whole(back, job) \/ (cancel /\ back' = Partly(back, job))
    BY <1>5 DEF Render, Go
  <2>2. back' \in Buffers /\ back'.size = job.size /\ (~cancel => Holds(back', job))
    BY <1>3, <2>1 DEF Holds
  <2> QED BY <1>1, <2>1, <2>2, FrameTyped, BackStep
<1> QED BY <1>4, <1>5

(* A frame that comes to nothing leaves back in any state.                   *)
LEMMA NoFrameStep == IInv /\ (AllocationFails \/ RenderThrows) => IInv'
<1> SUFFICES ASSUME IInv, AllocationFails \/ RenderThrows PROVE IInv' OBVIOUS
<1>1. /\ worker' = "top" /\ rendering' = FALSE /\ failed' = job.id
      /\ UNCHANGED <<front, display, request, job, published, shown, phase, ui,
                     pending, ready, cancel, running, stop>>
  BY DEF AllocationFails, RenderThrows, NoFrame
<1>2. back' \in Buffers
  BY FrameTyped, RenderedTyped DEF AllocationFails, RenderThrows
<1> QED BY <1>1, <1>2, FrameTyped, BackStep

(* Buffers change hands.                                                     *)
LEMMA PublishStep == IInv /\ Publish => IInv'
<1> SUFFICES ASSUME IInv, Publish PROVE IInv' OBVIOUS
<1>1. /\ worker = "publish" /\ worker' = "top" /\ front' = back /\ back' = front
      /\ published' = job /\ ready' = TRUE /\ rendering' = FALSE
      /\ UNCHANGED <<display, request, job, shown, failed, phase, ui, pending, cancel, running, stop>>
  BY DEF Publish, Go
<1>2. TypeOK' BY <1>1 DEF IInv, TypeOK
<1>3. BackFits' /\ BackWhole' BY <1>1 DEF BackFits, BackWhole
<1>4. FrontWhole' BY <1>1 DEF IInv, BackWhole, FrontWhole, Holds
<1>5. ShownWhole' BY <1>1 DEF IInv, ShownWhole
<1>6. NoDozeOverRequest' /\ NoSleepOverRequest' BY <1>1 DEF NoDozeOverRequest, NoSleepOverRequest
<1> QED BY <1>2, <1>3, <1>4, <1>5, <1>6 DEF IInv

LEMMA SwapDisplayStep == IInv /\ SwapDisplay => IInv'
<1> SUFFICES ASSUME IInv, SwapDisplay PROVE IInv' OBVIOUS
<1>1. /\ ready /\ display' = front /\ front' = display /\ shown' = published /\ ready' = FALSE
      /\ UNCHANGED <<back, request, job, published, failed, phase, ui, worker,
                     pending, rendering, cancel, running, stop>>
  BY DEF SwapDisplay
<1>2. TypeOK' BY <1>1 DEF IInv, TypeOK
<1>3. BackFits' /\ BackWhole' BY <1>1 DEF IInv, BackFits, BackWhole, Holds
<1>4. FrontWhole' BY <1>1 DEF FrontWhole
<1>5. ShownWhole' BY <1>1 DEF IInv, FrontWhole, ShownWhole, Holds
<1>6. NoDozeOverRequest' /\ NoSleepOverRequest'
  BY <1>1 DEF IInv, NoDozeOverRequest, NoSleepOverRequest
<1> QED BY <1>2, <1>3, <1>4, <1>5, <1>6 DEF IInv

(* A request comes: it may stop a frame, which can only set cancel.          *)
LEMMA DispatchStep ==
  ASSUME IInv, NEW size \in Sizes, NEW interlaced \in Interlacing, NEW preserve \in BOOLEAN,
         Dispatch(size, interlaced, preserve)
  PROVE  IInv'
<1> DEFINE posted == [id |-> request.id + 1, size |-> size,
                      traced |-> IF interlaced THEN {phase} ELSE Fields]
<1>1. /\ worker # "dozing" /\ request.id < MaxRequests /\ ui' = "ring" /\ pending' = TRUE
      /\ request' = posted
      /\ cancel' = (cancel \/ (rendering /\ ~preserve))
      /\ phase' = IF interlaced THEN 1 - phase ELSE phase
      /\ UNCHANGED <<front, back, display, job, published, shown, failed, worker,
                     ready, rendering, running, stop>>
  BY DEF Dispatch, MutexFree, buffers, records
<1>2. posted \in Requests
  BY <1>1, MaxRequestsAssumption DEF IInv, TypeOK, Requests, Ids, Fields
<1> HIDE DEF posted
<1>3. TypeOK' BY <1>1, <1>2, InterlacingAssumption DEF IInv, TypeOK, Fields
<1>4. BackFits' /\ BackWhole' BY <1>1 DEF IInv, BackFits, BackWhole, Holds
<1>5. FrontWhole' /\ ShownWhole' BY <1>1 DEF IInv, FrontWhole, ShownWhole, Holds
<1>6. NoDozeOverRequest' /\ NoSleepOverRequest'
  BY <1>1 DEF IInv, NoDozeOverRequest, NoSleepOverRequest
<1> QED BY <1>3, <1>4, <1>5, <1>6 DEF IInv

(* Every other step of the worker, and of the UI thread, is a quiet one.     *)
LEMMA WorkerQuiet ==
  ASSUME IInv,
         Exit \/ Enter \/ Doze \/ Sleep \/ SpuriousWakeup \/ ClearCancel \/ Abandon \/ Keep
  PROVE  IInv'
<1>1. TypeOK BY DEF IInv
<1>2. /\ UNCHANGED <<buffers, request, job, published, shown, phase, failed, pending, ready, ui>>
      /\ rendering' \in BOOLEAN /\ cancel' \in BOOLEAN /\ running' \in BOOLEAN /\ stop' \in BOOLEAN
  BY <1>1 DEF TypeOK, Exit, Enter, Doze, Sleep, SpuriousWakeup, ClearCancel, Abandon, Keep,
              flags, records
<1>3. cancel => cancel' \/ worker' = "render"
  BY DEF Exit, Enter, Doze, Sleep, SpuriousWakeup, ClearCancel, Abandon, Keep, Go, flags
<1>4. \/ worker' \in {"top", "wait", "done"} \/ worker' = worker
      \/ worker' = "dozing" /\ ~pending
      \/ worker' = "asleep" /\ worker = "dozing"
      \/ worker' = "render" /\ worker = "clear"
      \/ worker' = "publish" /\ worker = "check" /\ ~cancel
  BY DEF Exit, Enter, Doze, Sleep, SpuriousWakeup, ClearCancel, Abandon, Keep, Go
<1>5. ui' \in {"run", "ring", "stored", "cancelled", "notified", "joining", "gone"}
  BY <1>1, <1>2 DEF TypeOK
<1> QED BY <1>2, <1>3, <1>4, <1>5, QuietStep

LEMMA UiQuiet ==
  ASSUME IInv, Ring \/ CopyFramebuffer \/ Destroy
  PROVE  IInv'
<1>1. TypeOK BY DEF IInv
<1>2. /\ UNCHANGED <<buffers, request, job, published, shown, phase, failed, pending, ready>>
      /\ rendering' \in BOOLEAN /\ cancel' \in BOOLEAN /\ running' \in BOOLEAN /\ stop' \in BOOLEAN
  BY <1>1 DEF TypeOK, Ring, CopyFramebuffer, Destroy, StoreStopped, StoreCancel, NotifyAll,
              RequestStop, Join, flags, records
<1>3. cancel => cancel'
  BY DEF Ring, CopyFramebuffer, Destroy, StoreStopped, StoreCancel, NotifyAll,
         RequestStop, Join, flags
<1>4. worker' = "wait" \/ worker' = worker
  BY DEF Ring, CopyFramebuffer, Destroy, StoreStopped, StoreCancel, NotifyAll,
         RequestStop, Join, Wake
<1>5. ui' \in {"run", "ring", "stored", "cancelled", "notified", "joining", "gone"}
  BY <1>1 DEF TypeOK, Ring, CopyFramebuffer, Destroy, StoreStopped, StoreCancel, NotifyAll,
              RequestStop, Join
<1>6. ui' = "run" => ui = "run" \/ worker' # "asleep"
  BY DEF Ring, CopyFramebuffer, Destroy, StoreStopped, StoreCancel, NotifyAll,
         RequestStop, Join, Wake
<1> QED BY <1>2, <1>3, <1>4, <1>5, <1>6, QuietStep

LEMMA Inductive == IInv /\ [Next]_vars => IInv'
<1> SUFFICES ASSUME IInv, [Next]_vars PROVE IInv' OBVIOUS
<1>1. CASE UNCHANGED vars
  BY <1>1 DEF vars, buffers, flags, records, IInv, TypeOK, BackFits, BackWhole, FrontWhole,
              ShownWhole, NoDozeOverRequest, NoSleepOverRequest, Holds
<1>2. CASE Worker \/ SpuriousWakeup
  BY <1>2, TakeStep, AllocateStep, RenderStep, NoFrameStep, PublishStep, WorkerQuiet DEF Worker
<1>3. CASE \E size \in Sizes, interlaced \in Interlacing, preserve \in BOOLEAN :
             Dispatch(size, interlaced, preserve)
  BY <1>3, DispatchStep
<1>4. CASE Ring \/ SwapDisplay \/ CopyFramebuffer \/ Destroy
  BY <1>4, SwapDisplayStep, UiQuiet
<1> QED BY <1>1, <1>2, <1>3, <1>4 DEF Next

LEMMA Invariant == Spec => []IInv
BY Initially, Inductive, PTL DEF Spec

-----------------------------------------------------------------------------

(* Every variable of geodesic_compute_pipeline.hpp keeps its type.           *)
THEOREM TypeCorrect == Spec => []TypeOK
<1>1. IInv => TypeOK BY DEF IInv
<1> QED BY <1>1, Invariant, PTL

(* However requests, cancellations, failures and buffer swaps interleave,    *)
(* the UI thread displays the frame of one request, whole and of its size    *)
(* (swap_display_framebuffer, worker_loop).                                  *)
THEOREM DisplayedIsWhole == Spec => []ShownWhole
<1>1. IInv => ShownWhole BY DEF IInv
<1> QED BY <1>1, Invariant, PTL

(* The worker sleeps over a request only until dispatch notifies it.         *)
THEOREM NoRequestSleptOver == Spec => []NoSleepOverRequest
<1>1. IInv => NoSleepOverRequest BY DEF IInv
<1> QED BY <1>1, Invariant, PTL

-----------------------------------------------------------------------------
(* The newest request.                                                       *)

Working == worker \in {"allocate", "clear", "render", "check", "publish"}

(* A frame passes from the request to the job, to front and to the display,  *)
(* and each of them is older than the one before it while a frame is on the  *)
(* way between the two.                                                      *)
InTurn ==
  /\ job.id <= request.id /\ (pending <=> job.id < request.id)
  /\ published.id <= job.id /\ (Working => published.id < job.id)
  /\ shown.id <= published.id /\ (ready => shown.id < published.id)

(* A cancellation is meant for a frame that a newer request has made old, or *)
(* comes from the destructor; what was set before a frame is cleared.        *)
NotHit ==
  /\ ui \in {"stored", "cancelled", "notified", "joining", "gone"} => ~running
  /\ running /\ worker \in {"render", "check"} /\ job.id = request.id => ~cancel

(* The newest request waits, is being rendered, waits to be displayed, is    *)
(* displayed, or could not be rendered.                                      *)
NewestKept ==
  running => \/ pending \/ (Working /\ job.id = request.id)
             \/ (ready /\ published.id = request.id)
             \/ shown.id = request.id \/ failed = request.id

NewestInv == InTurn /\ NotHit /\ NewestKept

LEMMA NumbersTyped ==
  ASSUME TypeOK
  PROVE  /\ request.id \in Nat /\ job.id \in Nat /\ published.id \in Nat /\ shown.id \in Nat
         /\ failed \in Nat
BY MaxRequestsAssumption DEF TypeOK, Requests, Ids

LEMMA NewestStep == IInv /\ NewestInv /\ [Next]_vars => NewestInv'
<1> SUFFICES ASSUME IInv, NewestInv, [Next]_vars PROVE NewestInv' OBVIOUS
<1>1. /\ request.id \in Nat /\ job.id \in Nat /\ published.id \in Nat /\ shown.id \in Nat
      /\ failed \in Nat /\ pending \in BOOLEAN /\ ready \in BOOLEAN /\ running \in BOOLEAN
      /\ cancel \in BOOLEAN
  BY NumbersTyped DEF IInv, TypeOK
(* The worker goes its way and leaves requests and frames alone.             *)
<1>2. CASE Exit \/ Enter \/ Doze \/ Sleep \/ SpuriousWakeup
  <2>1. /\ ~Working /\ ~Working'
        /\ UNCHANGED <<request, job, published, shown, failed, pending, ready, running, cancel, ui>>
    BY <1>2 DEF Exit, Enter, Doze, Sleep, SpuriousWakeup, Go, Working, flags, records
  <2>2. ~(worker' \in {"render", "check"}) BY <2>1 DEF Working
  <2> QED BY <2>1, <2>2 DEF NewestInv, InTurn, NotHit, NewestKept
<1>3. CASE Take
  <2>1. /\ ~Working /\ Working' /\ pending /\ pending' = FALSE /\ job' = request
        /\ worker' = "allocate"
        /\ UNCHANGED <<request, published, shown, failed, ready, running, cancel, ui>>
    BY <1>3 DEF Take, Go, Working, records
  <2>2. InTurn' BY <1>1, <2>1 DEF NewestInv, InTurn
  <2>3. NotHit' /\ NewestKept' BY <2>1 DEF NewestInv, NotHit, NewestKept
  <2> QED BY <2>2, <2>3 DEF NewestInv
<1>4. CASE Allocate \/ ClearCancel \/ RenderOnGpu \/ Render \/ Keep
  <2>1. /\ Working /\ Working' /\ (cancel' = cancel \/ cancel' = FALSE)
        /\ worker' = "clear" \/ worker' = "publish" \/ (worker' = "render" /\ cancel' = FALSE)
           \/ (worker = "render" /\ worker' = "check")
        /\ UNCHANGED <<request, job, published, shown, failed, pending, ready, running, ui>>
    BY <1>4 DEF Allocate, ClearCancel, RenderOnGpu, Render, Keep, Go, Working, flags, records
  <2>2. InTurn' BY <2>1 DEF NewestInv, InTurn
  <2>3. NotHit' BY <1>1, <2>1 DEF NewestInv, NotHit
  <2>4. NewestKept' BY <2>1 DEF NewestInv, NewestKept
  <2> QED BY <2>2, <2>3, <2>4 DEF NewestInv
(* A frame comes to nothing: it failed, or it was old.                       *)
<1>5. CASE AllocationFails \/ RenderThrows \/ Abandon
  <2>1. /\ Working /\ ~Working' /\ worker' = "top"
        /\ failed' = job.id \/ (cancel /\ worker = "check" /\ failed' = failed)
        /\ UNCHANGED <<request, job, published, shown, pending, ready, running, cancel, ui>>
    BY <1>5 DEF AllocationFails, RenderThrows, Abandon, NoFrame, Go, Working, records
  <2>2. InTurn' BY <2>1 DEF NewestInv, InTurn
  <2>3. NotHit' BY <2>1 DEF NewestInv, NotHit
  <2>4. NewestKept'
    <3>1. CASE job.id # request.id
      <4>1. pending BY <1>1, <3>1 DEF NewestInv, InTurn
      <4> QED BY <2>1, <4>1 DEF NewestKept
    <3>2. CASE job.id = request.id /\ running
      <4>1. failed' = request.id BY <2>1, <3>2 DEF NewestInv, NotHit
      <4> QED BY <2>1, <4>1 DEF NewestKept
    <3> QED BY <2>1, <3>1, <3>2 DEF NewestKept
  <2> QED BY <2>2, <2>3, <2>4 DEF NewestInv
<1>6. CASE Publish
  <2>1. /\ Working /\ ~Working' /\ worker' = "top" /\ published' = job /\ ready' = TRUE
        /\ UNCHANGED <<request, job, shown, failed, pending, running, cancel, ui>>
    BY <1>6 DEF Publish, Go, Working
  <2>2. InTurn' BY <1>1, <2>1 DEF NewestInv, InTurn
  <2>3. NotHit' BY <2>1 DEF NewestInv, NotHit
  <2>4. NewestKept'
    <3>1. ready /\ published.id = request.id => FALSE BY <1>1, <2>1 DEF NewestInv, InTurn
    <3> QED BY <2>1, <3>1 DEF NewestInv, NewestKept
  <2> QED BY <2>2, <2>3, <2>4 DEF NewestInv
<1>7. ASSUME NEW size \in Sizes, NEW interlaced \in Interlacing, NEW preserve \in BOOLEAN,
             Dispatch(size, interlaced, preserve)
      PROVE  NewestInv'
  <2>1. /\ pending' = TRUE /\ ui = "run" /\ ui' = "ring"
        /\ UNCHANGED <<job, published, shown, failed, worker, ready, running>>
    BY <1>7 DEF Dispatch, buffers, records
  <2>2. request'.id = request.id + 1 BY <1>7 DEF Dispatch
  <2>3. InTurn' BY <1>1, <2>1, <2>2 DEF NewestInv, InTurn, Working
  <2>4. job'.id # request'.id BY <1>1, <2>1, <2>2 DEF NewestInv, InTurn
  <2>5. NotHit' BY <2>1, <2>4 DEF NotHit
  <2>6. NewestKept' BY <2>1 DEF NewestKept
  <2> QED BY <2>3, <2>5, <2>6 DEF NewestInv
<1>8. CASE SwapDisplay
  <2>1. /\ shown' = published /\ ready /\ ready' = FALSE
        /\ UNCHANGED <<request, job, published, failed, pending, running, cancel, worker, ui>>
    BY <1>8 DEF SwapDisplay
  <2>2. InTurn' BY <1>1, <2>1 DEF NewestInv, InTurn, Working
  <2>3. NotHit' BY <2>1 DEF NewestInv, NotHit
  <2>4. NewestKept'
    <3>1. shown.id # request.id BY <1>1, <2>1 DEF NewestInv, InTurn
    <3> QED BY <2>1, <3>1 DEF NewestInv, NewestKept, Working
  <2> QED BY <2>2, <2>3, <2>4 DEF NewestInv
<1>9. CASE Ring \/ CopyFramebuffer \/ Destroy
  <2>1. /\ UNCHANGED <<request, job, published, shown, failed, pending, ready>>
        /\ running' = running \/ running' = FALSE
        /\ worker' = worker \/ (worker = "asleep" /\ worker' = "wait")
    BY <1>9 DEF Ring, CopyFramebuffer, Destroy, StoreStopped, StoreCancel, NotifyAll, RequestStop,
                Join, Wake, flags, records
  <2>2. /\ cancel' = cancel \/ ui = "stored"
        /\ ui' \in {"stored", "cancelled", "notified", "joining", "gone"} =>
             ~running' \/ ui \in {"stored", "cancelled", "notified", "joining", "gone"}
    BY <1>9 DEF Ring, CopyFramebuffer, Destroy, StoreStopped, StoreCancel, NotifyAll, RequestStop,
                Join, flags
  <2>3. Working' <=> Working BY <2>1 DEF Working
  <2>4. InTurn' BY <2>1, <2>3 DEF NewestInv, InTurn
  <2>5. NotHit' BY <1>1, <2>1, <2>2 DEF NewestInv, NotHit
  <2>6. NewestKept' BY <1>1, <2>1, <2>3 DEF NewestInv, NewestKept
  <2> QED BY <2>4, <2>5, <2>6 DEF NewestInv
<1>10. CASE UNCHANGED vars
  BY <1>10 DEF vars, flags, records, NewestInv, InTurn, NotHit, NewestKept, Working
<1> QED
  BY <1>2, <1>3, <1>4, <1>5, <1>6, <1>7, <1>8, <1>9, <1>10 DEF Next, Worker

LEMMA NewestInvariant == Spec => []NewestInv
<1>1. Init => NewestInv
  BY DEF Init, NewestInv, InTurn, NotHit, NewestKept, Nothing, Working
<1> QED BY <1>1, NewestStep, Invariant, PTL DEF Spec

(* The newest request is never dropped, neither by a cancellation, which may *)
(* be set and cleared at any moment, nor by an older frame that is published *)
(* or taken after it.  Under fairness it is shown: NewestShown.              *)
THEOREM NewestNeverDropped == Spec => []NewestKept
<1>1. NewestInv => NewestKept BY DEF NewestInv
<1> QED BY <1>1, NewestInvariant, PTL

(* The display never goes back to an older frame: swap_display_framebuffer   *)
(* exchanges it for one that a later request asked for.                      *)
ShowsNewer == [][shown' = shown \/ shown.id < shown'.id]_vars

(* It holds since a frame is ready only while it is newer than what is shown. *)
THEOREM DisplayGoesForward == Spec => ShowsNewer
<1>1. NewestInv /\ [Next]_vars => [shown' = shown \/ shown.id < shown'.id]_vars
  <2> SUFFICES ASSUME NewestInv, Next PROVE shown' = shown \/ shown.id < shown'.id
    BY DEF vars, records
  <2>1. CASE Worker \/ SpuriousWakeup
    BY <2>1 DEF Worker, SpuriousWakeup, Exit, Enter, Doze, Sleep, Take, Allocate, AllocationFails,
                ClearCancel, RenderOnGpu, Render, RenderThrows, NoFrame, Abandon, Keep, Publish,
                records
  <2>2. CASE \E size \in Sizes, interlaced \in Interlacing, preserve \in BOOLEAN :
               Dispatch(size, interlaced, preserve)
    BY <2>2 DEF Dispatch, records
  <2>3. CASE SwapDisplay BY <2>3 DEF SwapDisplay, NewestInv, InTurn
  <2>4. CASE Ring \/ CopyFramebuffer \/ Destroy
    BY <2>4 DEF Ring, CopyFramebuffer, Destroy, StoreStopped, StoreCancel, NotifyAll, RequestStop,
                Join, records
  <2> QED BY <2>1, <2>2, <2>3, <2>4 DEF Next
<1> QED BY <1>1, NewestInvariant, PTL DEF Spec, ShowsNewer

=============================================================================
