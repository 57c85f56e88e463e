--------------------------- MODULE CaptureOutcome ---------------------------
(* What a capture promises to whom it reports its progress.  CaptureSession  *)
(* is how CaptureCoordinator makes captures.                                 *)
EXTENDS Integers

VARIABLES
  session,      \* session_
  unfinished,   \* pending_tasks_
  phase,        \* phase_ of progress_
  asked,        \* frames queued in the capture begun last
  files, video, \* frames of it on the disk, and in the video
  thrown        \* a task of it has ended in an exception

(* is_busy.                                                                  *)
Busy == session.active \/ unfinished > 0

(* A capture that is said to be completed is complete: every frame that was  *)
(* queued for it is on the disk, or in the video when the files have been    *)
(* deleted; no frame that failed, was cancelled or still waits.              *)
CompletedIsComplete ==
  phase = "completed" => files \cup video = 1 .. asked

(* When no capture is under way none is said to be, unless a task threw an   *)
(* exception: a screenshot then stays "Capturing" until the next capture.    *)
PhaseSettles == ~Busy /\ phase \in {"rendering", "assembling"} => thrown
=============================================================================
