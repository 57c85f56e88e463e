--------------------------- MODULE CaptureSession ---------------------------
(* CaptureCoordinator: the UI thread starts captures, prepares their frames  *)
(* in update and ends them; one worker writes the frames and calls ffmpeg.   *)
(*                                                                           *)
(* A deterministic sequence steps the world and renders its own frames; a    *)
(* real-time one copies what is displayed; a screenshot is a single frame.   *)
(* A frame is its number in its capture, its content is left out.            *)
EXTENDS CaptureOutcome, Sequences, FiniteSets

CONSTANTS Totals,       \* frames_total of the sequences; 0: until stopped
          Depth,        \* max(realtime_queue_depth, 1)
          Missed,       \* intervals that have passed when a frame is copied
          MaxCaptures,  \* bound of the model: captures
          MaxFrames,    \* bound of the model: frames of one sequence
          MaxStills     \* stills that the events of a script can ask for

ASSUME TotalsAssumption == Totals \subseteq Nat
ASSUME DepthAssumption == Depth \in Nat \ {0}
ASSUME MissedAssumption == Missed \subseteq Nat \ {0}
ASSUME BoundsAssumption == MaxCaptures \in Nat /\ MaxFrames \in Nat /\ MaxStills \in Nat

MaxQueued == 2

VARIABLES
  copies,       \* copies submit_realtime_frame has still to queue
  tasks, current,         \* tasks_ and the task the worker runs
  failed,       \* sequence_failed_
  cancel,       \* cancel_requested_ of progress_
  paused,       \* is_paused_ of the scheduler
  ui, worker,   \* where the threads are
  captures      \* captures begun

capture == <<captures, asked, files, video, thrown>>
vars == <<session, copies, tasks, current, unfinished, failed, phase, cancel, paused, ui, worker,
          capture>>

None == [kind |-> "none", frame |-> 0]
Closed == [active |-> FALSE, realtime |-> FALSE, manual |-> FALSE, assembles |-> FALSE,
           deletes |-> FALSE, script |-> FALSE, total |-> 0, prepared |-> 0, requests |-> 0,
           stills |-> 0, stopping |-> FALSE, cancelled |-> FALSE, pausedBy |-> FALSE, found |-> FALSE]

Init ==
  /\ session = Closed /\ copies = 0
  /\ tasks = <<>> /\ current = None /\ unfinished = 0 /\ failed = FALSE
  /\ phase = "idle" /\ cancel = FALSE /\ paused \in BOOLEAN
  /\ ui = "run" /\ worker = "wait"
  /\ captures = 0 /\ asked = 0 /\ files = {} /\ video = {} /\ thrown = FALSE

LimitReached == session.total > 0 /\ session.prepared >= session.total

Enqueue(new) == tasks' = tasks \o new /\ unfinished' = unfinished + Len(new)
Frame(kind, n) == [kind |-> kind, frame |-> n]

-----------------------------------------------------------------------------
(* Captures, on the UI thread.                                               *)

(* begin of the progress.                                                    *)
Begin ==
  /\ captures < MaxCaptures /\ captures' = captures + 1
  /\ phase' = "rendering" /\ cancel' = FALSE /\ failed' = FALSE
  /\ files' = {} /\ video' = {} /\ thrown' = FALSE

(* request_screenshot, with a frame to derive the capture state from.        *)
RequestScreenshot ==
  /\ ui = "run" /\ ~Busy
  /\ Begin /\ asked' = 1
  /\ Enqueue(<<Frame("single", 1)>>)
  /\ UNCHANGED <<session, copies, current, paused, ui, worker>>

(* start_sequence.  found is what the pause state was: the end restores it.  *)
StartSequence(total, pauses, s) ==
  /\ ui = "run" /\ ~Busy
  /\ Begin /\ asked' = 0
  /\ session' = [Closed EXCEPT !.active = TRUE, !.total = total, !.realtime = s.realtime,
                               !.manual = s.manual, !.assembles = s.assembles,
                               !.deletes = s.deletes, !.script = s.script,
                               !.pausedBy = ~s.realtime /\ pauses /\ ~paused,
                               !.found = paused]
  /\ paused' = (paused \/ (~s.realtime /\ pauses))
  /\ UNCHANGED <<copies, tasks, current, unfinished, ui, worker>>

StopSequence ==
  /\ ui = "run" /\ session.active
  /\ session' = [session EXCEPT !.stopping = TRUE]
  /\ UNCHANGED <<copies, tasks, current, unfinished, failed, phase, cancel, paused, ui, worker,
                 capture>>

CancelAll ==
  /\ ui = "run"
  /\ cancel' = TRUE
  /\ session' = IF session.active THEN [session EXCEPT !.stopping = TRUE, !.cancelled = TRUE]
                                  ELSE session
  /\ UNCHANGED <<copies, tasks, current, unfinished, failed, phase, paused, ui, worker, capture>>

(* request_manual_frame; 64 requests are more than the bound of the frames.  *)
RequestManualFrame ==
  /\ ui = "run" /\ session.active /\ ~session.realtime /\ session.manual
  /\ session.requests + asked < MaxFrames
  /\ session' = [session EXCEPT !.requests = @ + 1]
  /\ UNCHANGED <<copies, tasks, current, unfinished, failed, phase, cancel, paused, ui, worker,
                 capture>>

(* The user pauses or resumes the simulation between two sequences.          *)
TogglePause ==
  /\ ui = "run" /\ ~session.active /\ paused' = ~paused
  /\ UNCHANGED <<session, copies, tasks, current, unfinished, failed, phase, cancel, ui, worker,
                 capture>>

-----------------------------------------------------------------------------
(* update, once in every frame of the user interface.                        *)

Updating == ui = "run" /\ session.active

SeeCancel ==
  /\ Updating /\ cancel /\ ui' = "ending"
  /\ session' = [session EXCEPT !.stopping = TRUE, !.cancelled = TRUE]
  /\ UNCHANGED <<copies, tasks, current, unfinished, failed, phase, cancel, paused, worker,
                 capture>>

Goes == Updating /\ ~cancel /\ ~session.stopping /\ ~LimitReached
Ready ==
  /\ Goes /\ ~session.realtime /\ unfinished < MaxQueued
  /\ session.manual => session.requests > 0

(* Nothing to prepare: the session ends, the worker has enough to do, no     *)
(* frame was requested, or the interval of a real-time frame has not passed. *)
Skip ==
  /\ Updating /\ ~cancel /\ ~Ready /\ ui' = "ending"
  /\ UNCHANGED <<session, copies, tasks, current, unfinished, failed, phase, cancel, paused, worker,
                 capture>>

(* prepare_deterministic_frame: a tick leaves the scheduler paused           *)
(* (step_one_tick); a still of the script is queued before the frame.        *)
Count(still) == IF still THEN session.stills + 1 ELSE session.stills
Stills(still) == IF still THEN <<Frame("still", 0)>> ELSE <<>>
Consumed == IF session.manual THEN session.requests - 1 ELSE session.requests
PrepareFrame(ticks, still) ==
  /\ Ready /\ asked < MaxFrames /\ ui' = "ending"
  /\ paused' = (paused \/ ticks)
  /\ session' = [session EXCEPT !.prepared = @ + 1, !.requests = Consumed,
                              !.stills = Count(still)]
  /\ asked' = asked + 1
  /\ still => session.script /\ session.stills < MaxStills
  /\ Enqueue(Stills(still) \o <<Frame("frame", asked')>>)
  /\ UNCHANGED <<copies, current, failed, phase, cancel, worker, captures, files, video, thrown>>

(* The renderer has no valid frame to derive the capture state from.         *)
FailToPrepare(ticks) ==
  /\ Ready /\ ui' = "ending"
  /\ paused' = (paused \/ ticks)
  /\ session' = [session EXCEPT !.stopping = TRUE, !.requests = Consumed]
  /\ failed' = TRUE
  /\ UNCHANGED <<copies, tasks, current, unfinished, phase, cancel, worker, capture>>

(* update_realtime: events of the script may pause or resume the simulation, *)
(* also in a turn in which no frame is due.                                  *)
RunEvents ==
  /\ Updating /\ ~cancel /\ ~session.stopping /\ session.realtime /\ session.script
  /\ paused' \in BOOLEAN /\ paused' # paused
  /\ UNCHANGED <<session, copies, tasks, current, unfinished, failed, phase, cancel, ui, worker,
                 capture>>

(* A frame is due, or several: the last is copied once, or for each of them  *)
(* (DuplicateToFill).                                                        *)
FramesDue(missed, still) ==
  /\ Goes /\ session.realtime /\ asked < MaxFrames /\ ui' = "copying"
  /\ copies' = missed
  /\ still => session.script /\ session.stills < MaxStills
  /\ session' = [session EXCEPT !.stills = Count(still)]
  /\ Enqueue(Stills(still))
  /\ UNCHANGED <<current, failed, phase, cancel, paused, worker, capture>>

(* submit_realtime_frame.                                                    *)
QueueCopy ==
  /\ ui = "copying" /\ copies > 0 /\ unfinished < Depth
  /\ copies' = copies - 1
  /\ session' = [session EXCEPT !.prepared = @ + 1]
  /\ asked' = asked + 1
  /\ Enqueue(<<Frame("copy", asked')>>)
  /\ UNCHANGED <<current, failed, phase, cancel, paused, ui, worker, captures, files, video, thrown>>
DropCopy ==
  /\ ui = "copying" /\ copies > 0 /\ unfinished >= Depth
  /\ copies' = copies - 1
  /\ UNCHANGED <<session, tasks, current, unfinished, failed, phase, cancel, paused, ui, worker,
                 capture>>
AllCopied ==
  /\ ui = "copying" /\ copies = 0 /\ ui' = "ending"
  /\ UNCHANGED <<session, copies, tasks, current, unfinished, failed, phase, cancel, paused, worker,
                 capture>>

(* A mistake: a session ends when no task is left to be taken.               *)
QueueEmpty == tasks = <<>>

(* The session ends once its last task is finished.                          *)
TasksFinished == unfinished = 0
Ends == (session.stopping \/ LimitReached) /\ TasksFinished
GoOn ==
  /\ ui = "ending" /\ ~Ends /\ ui' = "run"
  /\ UNCHANGED <<session, copies, tasks, current, unfinished, failed, phase, cancel, paused, worker,
                 capture>>

(* finalize_session, with restore_session_state.                             *)
Outcome == IF session.cancelled THEN "cancelled" ELSE IF failed THEN "failed" ELSE "completed"
Assembles == Outcome = "completed" /\ session.assembles /\ files # {}
FinalizeSession ==
  /\ ui = "ending" /\ Ends /\ ui' = "run"
  /\ session' = [session EXCEPT !.active = FALSE]
  /\ paused' = (paused /\ ~session.pausedBy)
  /\ IF Assembles THEN phase' = "assembling" /\ Enqueue(<<Frame("assembly", 0)>>)
                  ELSE phase' = Outcome /\ UNCHANGED <<tasks, unfinished>>
  /\ UNCHANGED <<copies, current, failed, cancel, worker, capture>>

Update ==
  \/ SeeCancel \/ Skip
  \/ \E ticks, still \in BOOLEAN : PrepareFrame(ticks, still)
  \/ \E ticks \in BOOLEAN : FailToPrepare(ticks)
  \/ \E missed \in Missed, still \in BOOLEAN : FramesDue(missed, still)
  \/ QueueCopy \/ DropCopy \/ AllCopied \/ GoOn \/ FinalizeSession

(* shutdown: cancels, asks the worker to stop and joins it.                  *)
Shutdown ==
  /\ ui = "run" /\ ui' = "joining"
  /\ cancel' = TRUE
  /\ UNCHANGED <<session, copies, tasks, current, unfinished, failed, phase, paused, worker,
                 capture>>
Join ==
  /\ ui = "joining" /\ worker = "done" /\ ui' = "gone"
  /\ UNCHANGED <<session, copies, tasks, current, unfinished, failed, phase, cancel, paused, worker,
                 capture>>

-----------------------------------------------------------------------------
(* worker_loop.                                                              *)

TakeTask ==
  /\ worker = "wait" /\ tasks # <<>> /\ worker' = "task"
  /\ current' = Head(tasks) /\ tasks' = Tail(tasks)
  /\ UNCHANGED <<session, copies, unfinished, failed, phase, cancel, paused, ui, capture>>

(* A stop is obeyed when no task is left.                                    *)
Exit ==
  /\ worker = "wait" /\ tasks = <<>> /\ ui = "joining" /\ worker' = "done"
  /\ UNCHANGED <<session, copies, tasks, current, unfinished, failed, phase, cancel, paused, ui,
                 capture>>

Doing(kinds) == worker = "task" /\ current.kind \in kinds /\ worker' = "finish"

Write ==
  /\ Doing({"single", "frame", "copy"})
  /\ files' = files \cup {current.frame}
  /\ phase' = IF current.kind = "single" THEN "completed" ELSE phase
  /\ UNCHANGED <<session, copies, tasks, current, unfinished, failed, cancel, paused, ui, captures,
                 asked, video, thrown>>

(* A mistake: a cancelled screenshot is left without an outcome.             *)
LeaveScreenshot ==
  /\ cancel /\ Doing({"single", "frame"})
  /\ UNCHANGED <<session, copies, tasks, current, unfinished, failed, phase, cancel, paused, ui,
                 capture>>

(* The frame is cancelled, or cannot be rendered or written.                 *)
GiveUp ==
  /\ cancel /\ Doing({"single", "frame"})
  /\ phase' = IF current.kind = "single" THEN "cancelled" ELSE phase
  /\ UNCHANGED <<session, copies, tasks, current, unfinished, failed, cancel, paused, ui, capture>>
Fail ==
  /\ \/ ~cancel /\ Doing({"single", "frame"})
     \/ Doing({"copy"})
  /\ phase' = IF current.kind = "single" THEN "failed" ELSE phase
  /\ failed' = (failed \/ current.kind # "single")
  /\ UNCHANGED <<session, copies, tasks, current, unfinished, cancel, paused, ui, capture>>

(* A still of a script is written or not: its outcome is not recorded.       *)
Still ==
  /\ Doing({"still"})
  /\ UNCHANGED <<session, copies, tasks, current, unfinished, failed, phase, cancel, paused, ui,
                 capture>>

(* ffmpeg makes a video of the files; they are deleted if it succeeds.       *)
Assemble ==
  /\ Doing({"assembly"})
  /\ video' = files
  /\ files' = IF session.deletes THEN {} ELSE files
  /\ phase' = "completed"
  /\ UNCHANGED <<session, copies, tasks, current, unfinished, failed, cancel, paused, ui, captures,
                 asked, thrown>>
FailToAssemble ==
  /\ Doing({"assembly"})
  /\ phase' = "failed"
  /\ UNCHANGED <<session, copies, tasks, current, unfinished, failed, cancel, paused, ui, capture>>

(* A task throws: record_failure.                                            *)
Throw ==
  /\ Doing({"single", "frame", "copy", "still", "assembly"})
  /\ failed' = TRUE /\ thrown' = TRUE
  /\ UNCHANGED <<session, copies, tasks, current, unfinished, phase, cancel, paused, ui, captures,
                 asked, files, video>>

(* A mistake: a task that has failed is not counted off.                     *)
FinishGood ==
  /\ worker = "finish" /\ worker' = "wait"
  /\ unfinished' = IF thrown THEN unfinished ELSE unfinished - 1
  /\ current' = None
  /\ UNCHANGED <<session, copies, tasks, failed, phase, cancel, paused, ui, capture>>

FinishTask ==
  /\ worker = "finish" /\ worker' = "wait"
  /\ unfinished' = unfinished - 1
  /\ current' = None
  /\ UNCHANGED <<session, copies, tasks, failed, phase, cancel, paused, ui, capture>>

Worker ==
  \/ TakeTask \/ Exit \/ Write \/ GiveUp \/ Fail \/ Still \/ Assemble \/ FailToAssemble \/ Throw
  \/ FinishTask

-----------------------------------------------------------------------------

(* Settings of a sequence, those that mean nothing beside the others off.    *)
Settings ==
  {s \in [realtime : BOOLEAN, manual : BOOLEAN, assembles : BOOLEAN, deletes : BOOLEAN,
          script : BOOLEAN] : (s.manual => ~s.realtime) /\ (s.deletes => s.assembles)}

Next ==
  \/ RequestScreenshot
  \/ \E total \in Totals, pauses \in BOOLEAN, s \in Settings : StartSequence(total, pauses, s)
  \/ StopSequence \/ CancelAll \/ RequestManualFrame \/ TogglePause
  \/ RunEvents \/ Update
  \/ Shutdown \/ Join
  \/ Worker

Spec == Init /\ [][Next]_vars

(* The user interface goes on drawing and the worker has the processor.      *)
FairSpec == Spec /\ WF_vars(Update) /\ WF_vars(Worker) /\ WF_vars(Join)

-----------------------------------------------------------------------------

(* A sequence that is stopped, cancelled or has its frames comes to its end, *)
(* whatever fails on the way, and lets the next capture in.                  *)
SessionEnds ==
  session.active /\ (session.stopping \/ LimitReached) ~> ~Busy \/ ui \in {"joining", "gone"}

(* docs/ARCHITECTURE.md: at the end of a session the pause state is          *)
(* restored.                                                                 *)
PauseRestored ==
  [][session.active /\ ~session'.active => paused' = session.found]_vars
=============================================================================
