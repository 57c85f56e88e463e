----------------------------- MODULE ComputeJob -----------------------------
(* ClusterOrchestrator::run_compute_job: the units of a job are computed by  *)
(* remote workers and by local threads, and whoever finishes a unit first    *)
(* applies its result to the caller's array.                                 *)
(*                                                                           *)
(*   dispatcher    the caller; compute_run_mutex_ lets one remote job in     *)
(*   Workers       the threads of execute_compute_units_locally              *)
(*   Pump          pump_loop: it may hold a job that is over (shared_ptr)    *)
(*                 and complete one of its units                             *)
(*                                                                           *)
(* A worker or the pump inside complete_compute_unit is an applier.  Each of *)
(* its atomic accesses is a step: active_applies is raised before closed is  *)
(* read, which is what lets finish() wait for it.  The arrays of a job die   *)
(* with the call; what survives in the pump's hands is its closed flag and   *)
(* its counter of appliers, hence kept per job.                              *)
EXTENDS Integers, FiniteSets

CONSTANTS Units,        \* the units of a job
          Nodes,        \* remote workers
          Local,        \* kLocalNodeIdentifier
          Workers,      \* local threads
          Pump,         \* the pump thread
          MaxJobs       \* bound of the model: calls of run_compute_job

ASSUME UnitsAssumption == IsFiniteSet(Units) /\ Units # {}
ASSUME ThreadsAssumption == Pump \notin Workers
ASSUME LocalAssumption == Local \notin Nodes
ASSUME MaxJobsAssumption == MaxJobs \in Nat \ {0}

Jobs == 1 .. MaxJobs
Threads == Workers \cup {Pump}

VARIABLES
  job,                  \* job_id of the call under way or of the last one
  dpc,                  \* dispatcher: where it stands
  result,               \* what the last call returned
  cancel,               \* the caller's cancel flag
  published,            \* active_compute_ holds the job
  status, expired,      \* unit -> 0 open, 1 remote, 2 done; its deadline passed
  owner,                \* unit -> node it was sent to
  completed, failed,    \* counters of the current job
  closed,               \* job -> closed
  applies,              \* job -> the threads counted in active_applies
  todo,                 \* units the local threads have still to take
  reclaimed,            \* units the dispatcher's scan has taken back
  pc, myJob, unit,      \* thread -> where it stands, and on what
  tasks,                \* <<job, unit, node>> sent whose result may still come
  applied               \* history: unit -> successful applications

dispatcher == <<job, dpc, result, cancel, published, closed, todo, reclaimed, owner, tasks>>
units == <<status, expired, completed, failed>>
threads == <<pc, myJob, unit, applies>>
vars == <<dispatcher, units, threads, applied>>

Idle(t) == pc[t] = "idle"
PumpMutexFree == Idle(Pump)
Joined == (todo = {} \/ cancel) /\ \A w \in Workers : Idle(w)

TypeOK ==
  /\ job \in 0 .. MaxJobs
  /\ dpc \in {"idle", "enter", "dispatch", "local", "scan", "close", "drain"}
  /\ result \in BOOLEAN /\ cancel \in BOOLEAN /\ published \in BOOLEAN
  /\ status \in [Units -> {0, 1, 2}] /\ expired \in [Units -> BOOLEAN]
  /\ owner \in [Units -> Nodes \cup {Local}]
  /\ completed \in Nat /\ failed \in BOOLEAN
  /\ closed \in [Jobs -> BOOLEAN] /\ applies \in [Jobs -> SUBSET Threads]
  /\ todo \subseteq Units /\ reclaimed \subseteq Units
  /\ pc \in [Threads -> {"idle", "execute", "enter", "check", "claim", "apply", "undo", "reopen",
                         "count", "leave", "throw"}]
  /\ myJob \in [Threads -> 0 .. MaxJobs] /\ unit \in [Threads -> Units]
  /\ tasks \subseteq (0 .. MaxJobs) \X Units \X Nodes
  /\ applied \in [Units -> Nat]

Init ==
  /\ job = 0 /\ dpc = "idle" /\ result = FALSE /\ cancel = FALSE /\ published = FALSE
  /\ status = [u \in Units |-> 0] /\ expired = [u \in Units |-> FALSE]
  /\ owner = [u \in Units |-> Local] /\ completed = 0 /\ failed = FALSE
  /\ closed = [j \in Jobs |-> FALSE] /\ applies = [j \in Jobs |-> {}]
  /\ todo = {} /\ reclaimed = {}
  /\ pc = [t \in Threads |-> "idle"]
  /\ myJob = [t \in Threads |-> 1] /\ unit \in [Threads -> Units]
  /\ tasks = {} /\ applied = [u \in Units |-> 0]

-----------------------------------------------------------------------------
(* The dispatcher.                                                           *)

Call ==
  /\ dpc = "idle" /\ job < MaxJobs
  /\ dpc' = "enter"
  /\ result' = FALSE /\ cancel' = FALSE
  /\ UNCHANGED <<job, published, closed, todo, reclaimed, owner, tasks, units, threads, applied>>

NewJob ==
  /\ dpc = "enter" /\ job < MaxJobs
  /\ job' = job + 1
  /\ status' = [u \in Units |-> 0] /\ expired' = [u \in Units |-> FALSE]
  /\ owner' = [u \in Units |-> Local] /\ completed' = 0 /\ failed' = FALSE
  /\ applied' = [u \in Units |-> 0]
  /\ reclaimed' = {}
  /\ UNCHANGED <<result, cancel, closed, threads, tasks>>

(* No cluster, no worker, or routing switched off: everything is local, and  *)
(* active_compute_ is left alone.                                            *)
StartLocal ==
  /\ NewJob
  /\ todo' = Units
  /\ dpc' = "local"
  /\ UNCHANGED published

StartRemote ==
  /\ NewJob
  /\ published' = TRUE
  /\ todo' = {}
  /\ dpc' = "dispatch"

(* Under pump_mutex_ the units are shared out; a unit whose node cannot be   *)
(* reached, whose task is empty or whose send fails stays local.             *)
Dispatch(plan) ==
  LET remote == {u \in Units : plan[u] # Local}
  IN
  /\ dpc = "dispatch" /\ PumpMutexFree
  /\ owner' = plan
  /\ status' = [u \in Units |-> IF u \in remote THEN 1 ELSE 0]
  /\ tasks' = tasks \cup {<<job, u, plan[u]>> : u \in remote}
  /\ todo' = Units \ remote
  /\ dpc' = "local"
  /\ UNCHANGED <<job, result, cancel, published, closed, reclaimed, expired, completed, failed,
                 threads, applied>>

(* The local threads are joined.  A local job is finished; a remote one goes *)
(* on looking for units whose deadline has passed.                           *)
LocalDone ==
  /\ dpc = "local" /\ Joined
  /\ reclaimed' = {} /\ todo' = {}
  /\ IF published
       THEN /\ dpc' = "scan"
            /\ UNCHANGED closed
       ELSE /\ closed' = [closed EXCEPT ![job] = TRUE]
            /\ dpc' = "drain"
  /\ UNCHANGED <<job, result, cancel, published, owner, tasks, units, threads, applied>>

(* One turn of the scan's loop: a compare-and-swap from 1 to 0.              *)
ReclaimUnit(u) ==
  /\ dpc = "scan" /\ expired[u] /\ status[u] = 1
  /\ status' = [status EXCEPT ![u] = 0]
  /\ reclaimed' = reclaimed \cup {u}
  /\ UNCHANGED <<job, dpc, result, cancel, published, closed, todo, owner, tasks, expired, completed,
                 failed, threads, applied>>

RunReclaimed ==
  /\ dpc = "scan" /\ reclaimed # {}
  /\ todo' = reclaimed
  /\ dpc' = "local"
  /\ UNCHANGED <<job, result, cancel, published, closed, reclaimed, owner, tasks, units, threads,
                 applied>>

(* A mistake: the first counted unit is taken for the last.                  *)
AnyCounted == completed > 0

AllCounted == completed = Cardinality(Units)

(* The loop's condition is read with nothing reclaimed in hand.  The job is  *)
(* withdrawn and closed, in this order.                                      *)
Release ==
  /\ dpc = "scan" /\ reclaimed = {}
  /\ AllCounted \/ cancel
  /\ published' = FALSE
  /\ dpc' = "close"
  /\ UNCHANGED <<job, result, cancel, closed, todo, reclaimed, owner, tasks, units, threads,
                 applied>>

CloseJob ==
  /\ dpc = "close"
  /\ closed' = [closed EXCEPT ![job] = TRUE]
  /\ dpc' = "drain"
  /\ UNCHANGED <<job, result, cancel, published, todo, reclaimed, owner, tasks, units, threads, applied>>

(* A mistake: the array is given back with appliers still inside.            *)
FinishAtOnce ==
  /\ dpc = "drain"
  /\ result' = (AllCounted /\ ~failed)
  /\ dpc' = "idle"
  /\ UNCHANGED <<job, cancel, published, closed, todo, reclaimed, owner, tasks, units, threads, applied>>

(* finish(): the caller's array is given back once nobody is inside          *)
(* complete_compute_unit any more.                                           *)
Finish ==
  /\ dpc = "drain" /\ applies[job] = {}
  /\ result' = (AllCounted /\ ~failed)
  /\ dpc' = "idle"
  /\ UNCHANGED <<job, cancel, published, closed, todo, reclaimed, owner, tasks, units, threads, applied>>

-----------------------------------------------------------------------------
(* The local threads share a cursor over the units of the batch.             *)

TakeUnit(w, u) ==
  /\ dpc = "local" /\ Idle(w) /\ u \in todo
  /\ todo' = todo \ {u}
  /\ IF status[u] = 2
       THEN UNCHANGED <<pc, myJob, unit>>
       ELSE /\ pc' = [pc EXCEPT ![w] = "execute"]
            /\ myJob' = [myJob EXCEPT ![w] = job]
            /\ unit' = [unit EXCEPT ![w] = u]
  /\ UNCHANGED <<job, dpc, result, cancel, published, closed, reclaimed, owner, tasks, units, applies,
                 applied>>

Goto(t, from, to) ==
  /\ pc[t] = from
  /\ pc' = [pc EXCEPT ![t] = to]
  /\ UNCHANGED <<myJob, unit>>

Executed(w) ==
  /\ Goto(w, "execute", "enter")
  /\ UNCHANGED <<dispatcher, units, applies, applied>>

(* execute_local throws: the job has failed, and the unit is counted as done *)
(* unless somebody else did it.                                              *)
ExecuteThrows(w) ==
  /\ Goto(w, "execute", "throw")
  /\ failed' = TRUE
  /\ UNCHANGED <<dispatcher, status, expired, completed, applies, applied>>

GiveUpUnit(w) ==
  /\ IF status[unit[w]] = 2 THEN Goto(w, "throw", "idle") ELSE Goto(w, "throw", "count")
  /\ status' = [status EXCEPT ![unit[w]] = 2]
  /\ UNCHANGED <<dispatcher, expired, completed, failed, applies, applied>>

-----------------------------------------------------------------------------
(* complete_compute_unit, by a local thread or by the pump.                  *)

Enter(t) ==
  /\ Goto(t, "enter", "check")
  /\ applies' = [applies EXCEPT ![myJob[t]] = @ \cup {t}]
  /\ UNCHANGED <<dispatcher, units, applied>>

Check(t) ==
  /\ IF closed[myJob[t]] THEN Goto(t, "check", "leave") ELSE Goto(t, "check", "claim")
  /\ UNCHANGED <<dispatcher, units, applies, applied>>

(* The exchange that makes one thread the applier of a unit; a mistake would *)
(* be to trust the check made before the unit was executed.                  *)
ClaimUnchecked(t) ==
  /\ Goto(t, "claim", "apply")
  /\ status' = [status EXCEPT ![unit[t]] = 2]
  /\ UNCHANGED <<dispatcher, expired, completed, failed, applies, applied>>

Claim(t) ==
  /\ IF status[unit[t]] = 2 THEN Goto(t, "claim", "leave") ELSE Goto(t, "claim", "apply")
  /\ status' = [status EXCEPT ![unit[t]] = 2]
  /\ UNCHANGED <<dispatcher, expired, completed, failed, applies, applied>>

(* apply_result validates the whole result before it writes any of it.       *)
ApplySucceeds(t) ==
  /\ Goto(t, "apply", "count")
  /\ applied' = [applied EXCEPT ![unit[t]] = @ + 1]
  /\ UNCHANGED <<dispatcher, units, applies>>

(* A malformed remote result gives the unit back, already expired; a local   *)
(* one fails the job.                                                        *)
ApplyFails(t) ==
  /\ IF t = Pump THEN Goto(t, "apply", "undo") ELSE Goto(t, "apply", "count")
  /\ failed' = (failed \/ t # Pump)
  /\ UNCHANGED <<dispatcher, status, expired, completed, applies, applied>>

ExpireNow(t) ==
  /\ Goto(t, "undo", "reopen")
  /\ expired' = [expired EXCEPT ![unit[t]] = TRUE]
  /\ UNCHANGED <<dispatcher, status, completed, failed, applies, applied>>

(* A mistake: given back as a unit nobody has, which no scan looks for.      *)
ReopenUnowned(t) ==
  /\ Goto(t, "reopen", "leave")
  /\ status' = [status EXCEPT ![unit[t]] = 0]
  /\ UNCHANGED <<dispatcher, expired, completed, failed, applies, applied>>

Reopen(t) ==
  /\ Goto(t, "reopen", "leave")
  /\ status' = [status EXCEPT ![unit[t]] = 1]
  /\ UNCHANGED <<dispatcher, expired, completed, failed, applies, applied>>

Count(t) ==
  /\ Goto(t, "count", "leave")
  /\ completed' = completed + 1
  /\ UNCHANGED <<dispatcher, status, expired, failed, applies, applied>>

Leave(t) ==
  /\ Goto(t, "leave", "idle")
  /\ applies' = [applies EXCEPT ![myJob[t]] = @ \ {t}]
  /\ UNCHANGED <<dispatcher, units, applied>>

Complete(t) ==
  \/ Enter(t) \/ Check(t) \/ Claim(t)
  \/ ApplySucceeds(t) \/ ApplyFails(t) \/ ExpireNow(t) \/ Reopen(t)
  \/ Count(t) \/ Leave(t)

-----------------------------------------------------------------------------
(* handle_compute_result: the job is looked up under compute_mutex_, and a   *)
(* result of another job, or of a node the unit was not sent to, is dropped. *)
ResultArrives(j, u, n) ==
  /\ PumpMutexFree
  /\ <<j, u, n>> \in tasks
  /\ tasks' = tasks \ {<<j, u, n>>}
  /\ IF published /\ j = job /\ owner[u] = n
       THEN /\ pc' = [pc EXCEPT ![Pump] = "enter"]
            /\ myJob' = [myJob EXCEPT ![Pump] = j]
            /\ unit' = [unit EXCEPT ![Pump] = u]
       ELSE UNCHANGED <<pc, myJob, unit>>
  /\ UNCHANGED <<job, dpc, result, cancel, published, closed, todo, reclaimed, owner, units, applies,
                 applied>>

(* The clock, and the caller's cancel flag.                                  *)
DeadlinePasses(u) ==
  /\ status[u] = 1 /\ ~expired[u]
  /\ expired' = [expired EXCEPT ![u] = TRUE]
  /\ UNCHANGED <<dispatcher, status, completed, failed, threads, applied>>

RequestCancel ==
  /\ dpc # "idle" /\ ~cancel
  /\ cancel' = TRUE
  /\ UNCHANGED <<job, dpc, result, published, closed, todo, reclaimed, owner, tasks, units, threads,
                 applied>>

-----------------------------------------------------------------------------

SomeDispatch == \E plan \in [Units -> Nodes \cup {Local}] : Dispatch(plan)

Dispatcher ==
  \/ StartLocal \/ StartRemote \/ SomeDispatch \/ LocalDone
  \/ \E u \in Units : ReclaimUnit(u)
  \/ RunReclaimed \/ Release \/ CloseJob \/ Finish

LocalThread(w) ==
  \/ \E u \in Units : TakeUnit(w, u)
  \/ Executed(w) \/ ExecuteThrows(w) \/ GiveUpUnit(w)

Next ==
  \/ Call \/ Dispatcher
  \/ \E w \in Workers : LocalThread(w)
  \/ \E t \in Threads : Complete(t)
  \/ \E x \in tasks : ResultArrives(x[1], x[2], x[3])
  \/ \E u \in Units : DeadlinePasses(u)
  \/ RequestCancel

Spec == Init /\ [][Next]_vars

(* Threads run and the clock goes on; nobody owes a call, a result or a      *)
(* cancellation.                                                             *)
FairSpec == /\ Spec
            /\ WF_vars(Dispatcher)
            /\ \A w \in Workers : WF_vars(LocalThread(w))
            /\ \A t \in Threads : WF_vars(Complete(t))
            /\ \A u \in Units : WF_vars(DeadlinePasses(u))

-----------------------------------------------------------------------------

Holding == {"apply", "undo", "reopen", "count"}
Inside == Holding \cup {"claim"}

(* Once run_compute_job has returned, and even during the next job, nobody   *)
(* is inside a unit of the old one: the pump may still hold the old job, but *)
(* raises its counter before it reads closed.                                *)
NoApplyAfterReturn ==
  \A t \in Threads : pc[t] \in Inside => myJob[t] = job /\ dpc # "idle"

(* A unit has at most one applier, although a late remote result and a local *)
(* thread may both hold its result.                                          *)
OneApplier ==
  \A s, t \in Threads :
    s # t /\ unit[s] = unit[t] => ~(pc[s] \in Holding /\ pc[t] \in Holding)

(* completed counts the units that are done and not in the hands of their    *)
(* applier, which may still give them back.                                  *)
Settled(u) == status[u] = 2 /\ \A t \in Threads : unit[t] = u => pc[t] \notin Holding
CompletedExact == completed = Cardinality({u \in Units : Settled(u)})

(* run_compute_job returns true only if every unit's result was applied.     *)
SuccessMeansApplied == (dpc = "idle" /\ result) => \A u \in Units : applied[u] = 1

(* A call that was not cancelled ends with every unit accounted for.         *)
UncancelledCompletes == (dpc = "drain" /\ ~cancel) => AllCounted

(* While the dispatcher waits, a unit that is not done has a deadline that   *)
(* will bring it back.                                                       *)
NoUnitStranded ==
  (dpc = "scan" /\ ~cancel) => \A u \in Units : status[u] = 0 => u \in reclaimed

(* Every call returns, even if no worker ever answers.                       *)
JobReturns == (dpc # "idle") ~> (dpc = "idle")

Contract == INSTANCE WorkContract
              WITH Items <- Units, open <- dpc # "idle",
                   wanted <- IF job = 0 THEN {} ELSE Units,
                   delivered <- {u \in Units : applied[u] > 0},
                   result <- result

(* run_compute_job implements the contract.                                  *)
ImplementsContract == Contract!Spec
==============================================================================
