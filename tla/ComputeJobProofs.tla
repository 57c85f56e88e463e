-------------------------- MODULE ComputeJobProofs --------------------------
(* Proofs about ComputeJob for every number of units, workers, local threads *)
(* and jobs.                                                                 *)
EXTENDS ComputeJob, FiniteSetTheorems, TLAPS

-----------------------------------------------------------------------------
(* The inductive invariant, in parts.                                        *)

Applying == {"apply", "undo", "reopen"}
Pending == {"execute", "enter", "check", "claim", "throw"}
Registered == {"check", "claim", "leave"} \cup Holding

(* Local threads live inside the local batch of their job; the pump may lag  *)
(* behind, but past the closed check it is in the job under way, and that    *)
(* call has not returned.                                                    *)
StageOK ==
  /\ dpc \notin {"idle", "enter"} => job \in Jobs
  /\ published => dpc \in {"dispatch", "local", "scan"}
  /\ dpc \in {"dispatch", "scan"} => published
  /\ todo # {} => dpc = "local"
  /\ \A j \in Jobs : closed[j] <=> j < job \/ (j = job /\ dpc \in {"drain", "idle", "enter"})
  /\ \A w \in Workers : /\ pc[w] # "idle" => dpc = "local" /\ myJob[w] = job
                        /\ pc[w] \notin {"undo", "reopen"}
                        /\ pc[w] = "throw" => failed
  /\ pc[Pump] \notin {"execute", "throw"}
  /\ pc[Pump] # "idle" => myJob[Pump] \in 1 .. job
  /\ pc[Pump] \in Registered => Pump \in applies[myJob[Pump]]
  /\ pc[Pump] \in Inside => myJob[Pump] = job /\ dpc \in {"local", "scan", "close", "drain"}

(* No result of the job under way is on its way before its dispatch, or when *)
(* it is a local one.                                                        *)
TasksOK ==
  /\ \A x \in tasks : x[1] <= job
  /\ dpc = "dispatch" \/ (dpc = "local" /\ ~published) =>
       /\ \A x \in tasks : x[1] < job
       /\ pc[Pump] # "idle" => myJob[Pump] < job
       /\ \A u \in Units : status[u] # 1
  /\ dpc = "dispatch" => completed = 0 /\ \A u \in Units : status[u] = 0 /\ applied[u] = 0

(* A unit in somebody's hands is marked done, and is in one pair of hands.   *)
HoldOK ==
  /\ \A t \in Threads : pc[t] \in Holding => status[unit[t]] = 2
  /\ \A s, t \in Threads : pc[s] \in Holding /\ pc[t] \in Holding /\ unit[s] = unit[t] => s = t

SettledUnits == {u \in Units : Settled(u)}
CountOK == completed = Cardinality(SettledUnits)

(* A done unit that no applier still works on has been applied once, unless  *)
(* the job has failed.                                                       *)
Free(u) == status[u] = 2 /\ \A t \in Threads : unit[t] = u => pc[t] \notin Applying
AppliedOK ==
  \A u \in Units : /\ applied[u] \in {0, 1}
                   /\ applied[u] = 1 => Free(u)
                   /\ ~failed /\ Free(u) => applied[u] = 1

(* What is open is about to be done by somebody.                             *)
CoverOK ==
  ~cancel =>
    /\ dpc = "local" => \A u \in Units : status[u] = 0 =>
         u \in todo \/ \E w \in Workers : unit[w] = u /\ pc[w] \in Pending
    /\ dpc = "scan" => \A u \in Units : status[u] = 0 => u \in reclaimed
    /\ dpc \in {"close", "drain"} => \A u \in Units : Settled(u)

ResultOK == result => dpc = "idle" /\ \A u \in Units : applied[u] = 1

IInv == TypeOK /\ StageOK /\ TasksOK /\ HoldOK /\ CountOK /\ AppliedOK /\ CoverOK /\ ResultOK

-----------------------------------------------------------------------------

LEMMA TypeInit == Init => TypeOK
<1> SUFFICES ASSUME Init PROVE TypeOK
  OBVIOUS
<1>1. /\ status \in [Units -> {0, 1, 2}] /\ expired \in [Units -> BOOLEAN]
      /\ owner \in [Units -> Nodes \cup {Local}] /\ applied \in [Units -> Nat]
  BY DEF Init
<1>2. /\ closed \in [Jobs -> BOOLEAN] /\ applies \in [Jobs -> SUBSET Threads]
      /\ myJob \in [Threads -> 0 .. MaxJobs]
  BY MaxJobsAssumption DEF Init
<1>3. pc \in [Threads -> {"idle", "execute", "enter", "check", "claim", "apply", "undo", "reopen",
                          "count", "leave", "throw"}]
  BY DEF Init
<1>4. job \in 0 .. MaxJobs
  BY MaxJobsAssumption DEF Init
<1> QED
  BY <1>1, <1>2, <1>3, <1>4 DEF Init, TypeOK

(* The steps of one thread.                                                  *)
LEMMA TypeThread ==
  ASSUME TypeOK, NEW t \in Threads,
         Complete(t) \/ Executed(t) \/ ExecuteThrows(t) \/ GiveUpUnit(t)
  PROVE  TypeOK'
<1> USE DEF TypeOK, dispatcher, units, Goto
<1>1. unit[t] \in Units /\ myJob[t] \in 0 .. MaxJobs
  OBVIOUS
<1>2. CASE Enter(t)
  BY <1>1, <1>2 DEF Enter
<1>3. CASE Check(t)
  BY <1>1, <1>3 DEF Check
<1>4. CASE Claim(t)
  BY <1>1, <1>4 DEF Claim
<1>5. CASE ApplySucceeds(t)
  BY <1>1, <1>5 DEF ApplySucceeds
<1>6. CASE ApplyFails(t)
  BY <1>1, <1>6 DEF ApplyFails
<1>7. CASE ExpireNow(t)
  BY <1>1, <1>7 DEF ExpireNow
<1>8. CASE Reopen(t)
  BY <1>1, <1>8 DEF Reopen
<1>9. CASE Count(t)
  BY <1>1, <1>9 DEF Count
<1>10. CASE Leave(t)
  BY <1>1, <1>10 DEF Leave
<1>11. CASE Executed(t)
  BY <1>1, <1>11 DEF Executed
<1>12. CASE ExecuteThrows(t)
  BY <1>1, <1>12 DEF ExecuteThrows
<1>13. CASE GiveUpUnit(t)
  BY <1>1, <1>13 DEF GiveUpUnit
<1> QED
  BY <1>2, <1>3, <1>4, <1>5, <1>6, <1>7, <1>8, <1>9, <1>10, <1>11, <1>12, <1>13 DEF Complete

LEMMA TypeStep == TypeOK /\ [Next]_vars => TypeOK'
<1> SUFFICES ASSUME TypeOK, [Next]_vars PROVE TypeOK'
  OBVIOUS
<1> USE DEF TypeOK, dispatcher, units, threads
<1>1. CASE Call
  BY <1>1 DEF Call
<1>2. CASE StartLocal
  <2>1. job + 1 \in 0 .. MaxJobs
    BY <1>2, MaxJobsAssumption DEF StartLocal, NewJob
  <2> QED
    BY <1>2, <2>1 DEF StartLocal, NewJob
<1>3. CASE StartRemote
  <2>1. job + 1 \in 0 .. MaxJobs
    BY <1>3, MaxJobsAssumption DEF StartRemote, NewJob
  <2> QED
    BY <1>3, <2>1 DEF StartRemote, NewJob
<1>4. CASE LocalDone
  BY <1>4 DEF LocalDone
<1>5. CASE RunReclaimed
  BY <1>5 DEF RunReclaimed
<1>6. CASE Release
  BY <1>6 DEF Release
<1>7. CASE CloseJob
  BY <1>7 DEF CloseJob
<1>8. CASE Finish
  BY <1>8 DEF Finish
<1>9. ASSUME NEW plan \in [Units -> Nodes \cup {Local}], Dispatch(plan) PROVE TypeOK'
  <2>1. tasks' \subseteq (0 .. MaxJobs) \X Units \X Nodes
    BY <1>9 DEF Dispatch
  <2> QED
    BY <1>9, <2>1 DEF Dispatch
<1>10. ASSUME NEW u \in Units, ReclaimUnit(u) \/ DeadlinePasses(u) PROVE TypeOK'
  BY <1>10 DEF ReclaimUnit, DeadlinePasses
<1>11. ASSUME NEW w \in Workers, NEW u \in Units, TakeUnit(w, u) PROVE TypeOK'
  <2>1. CASE status[u] = 2
    BY <1>11, <2>1 DEF TakeUnit
  <2>2. CASE status[u] # 2
    BY <1>11, <2>2 DEF TakeUnit, Threads
  <2> QED
    BY <2>1, <2>2
<1>12. ASSUME NEW x \in tasks, ResultArrives(x[1], x[2], x[3]) PROVE TypeOK'
  BY <1>12 DEF ResultArrives
<1>13. CASE RequestCancel
  BY <1>13 DEF RequestCancel
<1>14. CASE UNCHANGED vars
  BY <1>14 DEF vars
<1> QED
  <2>1. CASE Dispatcher
    BY <2>1, <1>2, <1>3, <1>4, <1>5, <1>6, <1>7, <1>8, <1>9, <1>10 DEF Dispatcher, SomeDispatch
  <2>2. ASSUME NEW w \in Workers, LocalThread(w) PROVE TypeOK'
    BY <2>2, <1>11, TypeThread DEF LocalThread, Threads
  <2> QED
    BY <2>1, <2>2, TypeThread, <1>1, <1>10, <1>12, <1>13, <1>14 DEF Next

(* Every variable keeps its type.                                            *)
THEOREM TypeCorrect == Spec => []TypeOK
BY TypeInit, TypeStep, PTL DEF Spec

-----------------------------------------------------------------------------

LEMMA SettledFinite ==
  /\ IsFiniteSet(SettledUnits) /\ Cardinality(SettledUnits) \in Nat
  /\ Cardinality(SettledUnits) <= Cardinality(Units) /\ Cardinality(Units) \in Nat
  /\ Cardinality(SettledUnits) = Cardinality(Units) => SettledUnits = Units
<1>1. SettledUnits \subseteq Units
  BY DEF SettledUnits
<1> QED
  BY <1>1, FS_Subset, FS_CardinalityType, UnitsAssumption

(* The counter has reached the number of units exactly when all are settled. *)
LEMMA CounterReached == ASSUME CountOK PROVE AllCounted <=> \A u \in Units : Settled(u)
<1>1. AllCounted => SettledUnits = Units
  BY SettledFinite DEF CountOK, AllCounted
<1>2. (\A u \in Units : Settled(u)) => SettledUnits = Units
  BY DEF SettledUnits
<1>3. SettledUnits = Units => \A u \in Units : Settled(u)
  BY DEF SettledUnits
<1> QED
  BY <1>1, <1>2, <1>3 DEF CountOK, AllCounted

LEMMA SameCount ==
  ASSUME CountOK, completed' = completed, \A u \in Units : Settled(u)' <=> Settled(u)
  PROVE  CountOK'
<1>1. SettledUnits' = SettledUnits
  BY DEF SettledUnits
<1> QED
  BY <1>1 DEF CountOK

LEMMA InvInit == Init => IInv
<1> SUFFICES ASSUME Init PROVE IInv
  OBVIOUS
<1>1. TypeOK
  BY TypeInit
<1>2. \A t \in Threads : pc[t] = "idle"
  BY DEF Init
<1>3. StageOK
  BY <1>2, MaxJobsAssumption DEF Init, StageOK, Threads, Jobs, Registered, Holding, Inside
<1>4. TasksOK /\ CoverOK /\ ResultOK
  BY DEF Init, TasksOK, CoverOK, ResultOK
<1>5. HoldOK
  BY <1>2 DEF HoldOK, Holding
<1>6. CountOK
  <2>1. SettledUnits = {}
    BY DEF Init, SettledUnits, Settled
  <2> QED
    BY <2>1, FS_EmptySet DEF Init, CountOK
<1>7. AppliedOK
  BY DEF Init, AppliedOK, Free
<1> QED
  BY <1>1, <1>3, <1>4, <1>5, <1>6, <1>7 DEF IInv

-----------------------------------------------------------------------------
(* The steps of a thread.                                                    *)

LEMMA GotoFacts ==
  ASSUME TypeOK, NEW t \in Threads, NEW from, NEW to, Goto(t, from, to)
  PROVE  /\ pc[t] = from /\ pc'[t] = to
         /\ \A s \in Threads \ {t} : pc'[s] = pc[s]
         /\ UNCHANGED <<myJob, unit>>
BY DEF Goto, TypeOK

(* Steps that take no unit into or out of anybody's hands.                   *)
LEMMA QuietInv ==
  ASSUME IInv, TypeOK', NEW t \in Threads, NEW from, NEW to, Goto(t, from, to),
         from \in Holding <=> to \in Holding, to \in Applying => from \in Applying,
         from \in Applying => to \in Applying \/ failed',
         t \in Workers /\ from \in Pending => to \in Pending \/ status[unit[t]] # 0,
         from # "idle", failed => failed',
         UNCHANGED <<job, dpc, result, cancel, published, todo, reclaimed, tasks, status, completed,
                     applied>>
  PROVE  TasksOK' /\ HoldOK' /\ CountOK' /\ AppliedOK' /\ CoverOK' /\ ResultOK'
<1>1. /\ pc[t] = from /\ pc'[t] = to
      /\ \A s \in Threads \ {t} : pc'[s] = pc[s]
      /\ UNCHANGED <<myJob, unit>>
  BY GotoFacts DEF IInv
<1>2. \A s \in Threads : pc'[s] \in Holding <=> pc[s] \in Holding
  BY <1>1
<1>3. \A u \in Units : Settled(u)' <=> Settled(u)
  BY <1>1, <1>2 DEF Settled
<1>4. HoldOK'
  BY <1>1, <1>2 DEF IInv, HoldOK
<1>5. CountOK'
  BY <1>3, SameCount DEF IInv
<1>6. AppliedOK'
  BY <1>1 DEF IInv, AppliedOK, Free
<1>7. CoverOK'
  <2>1. \A w \in Workers : pc[w] \in Pending /\ status[unit[w]] = 0 => pc'[w] \in Pending
    BY <1>1 DEF Threads
  <2> QED
    BY <1>1, <1>3, <2>1 DEF IInv, CoverOK
<1>8. ResultOK'
  BY DEF IInv, ResultOK
<1>9. TasksOK'
  <2>1. pc'[Pump] # "idle" => pc[Pump] # "idle"
    BY <1>1 DEF Threads
  <2> QED
    BY <1>1, <2>1 DEF IInv, TasksOK
<1> QED
  BY <1>4, <1>5, <1>6, <1>7, <1>8, <1>9

LEMMA StageThread ==
  ASSUME IInv, TypeOK', NEW t \in Threads, NEW from, NEW to, Goto(t, from, to), from # "idle",
         t = Pump => /\ to \notin {"execute", "throw"}
                     /\ to \in Registered => Pump \in applies'[myJob[Pump]]
                     /\ to \in Inside => myJob[Pump] = job /\ dpc \in {"local", "scan", "close", "drain"},
         t # Pump => /\ to \notin {"undo", "reopen"}
                     /\ to = "throw" => failed'
                     /\ Pump \in applies[myJob[Pump]] => Pump \in applies'[myJob[Pump]],
         failed => failed',
         UNCHANGED <<job, dpc, published, todo, closed>>
  PROVE  StageOK'
<1>1. /\ pc[t] = from /\ pc'[t] = to
      /\ \A s \in Threads \ {t} : pc'[s] = pc[s]
      /\ UNCHANGED <<myJob, unit>>
  BY GotoFacts DEF IInv
<1>2. StageOK
  BY DEF IInv
<1>3. \A w \in Workers : w \in Threads /\ w # Pump
  BY ThreadsAssumption DEF Threads
<1>4. \A w \in Workers : /\ pc'[w] # "idle" => dpc' = "local" /\ myJob'[w] = job'
                         /\ pc'[w] \notin {"undo", "reopen"}
                         /\ pc'[w] = "throw" => failed'
  BY <1>1, <1>2, <1>3 DEF StageOK
<1>5. /\ pc'[Pump] \notin {"execute", "throw"}
      /\ pc'[Pump] # "idle" => myJob'[Pump] \in 1 .. job'
      /\ pc'[Pump] \in Registered => Pump \in applies'[myJob'[Pump]]
      /\ pc'[Pump] \in Inside => myJob'[Pump] = job' /\ dpc' \in {"local", "scan", "close", "drain"}
  <2>1. CASE t = Pump
    BY <1>1, <1>2, <2>1 DEF StageOK
  <2>2. CASE t # Pump
    BY <1>1, <1>2, <2>2 DEF StageOK, Threads
  <2> QED
    BY <2>1, <2>2
<1> QED
  BY <1>2, <1>4, <1>5 DEF StageOK

(* Where a thread that is in a job can be.                                   *)
LEMMA WhereInside ==
  ASSUME IInv, NEW t \in Threads, pc[t] \in Inside \/ (t \in Workers /\ pc[t] # "idle")
  PROVE  /\ myJob[t] = job /\ job \in Jobs
         /\ dpc \in {"local", "scan", "close", "drain"}
BY ThreadsAssumption DEF IInv, StageOK, Threads, Inside, Holding

LEMMA EnterInv == ASSUME IInv, TypeOK', NEW t \in Threads, Enter(t) PROVE IInv'
<1> USE DEF Enter, dispatcher, units
<1>1. TasksOK' /\ HoldOK' /\ CountOK' /\ AppliedOK' /\ CoverOK' /\ ResultOK'
  BY QuietInv DEF Holding, Applying, Pending
<1>2. /\ t \in applies'[myJob[t]]
      /\ Pump \in applies[myJob[Pump]] => Pump \in applies'[myJob[Pump]]
  <2>1. myJob[t] \in Jobs
    <3>1. pc[t] = "enter"
      BY DEF Goto
    <3>2. CASE t = Pump
      BY <3>1, <3>2 DEF IInv, StageOK, TypeOK, Jobs, Threads
    <3>3. CASE t \in Workers
      BY <3>1, <3>3, WhereInside
    <3> QED
      BY <3>2, <3>3 DEF Threads
  <2> QED
    BY <2>1 DEF IInv, TypeOK
<1>3. StageOK'
  BY <1>2, StageThread DEF Inside, Holding
<1> QED
  BY <1>1, <1>3 DEF IInv

LEMMA CheckInv == ASSUME IInv, TypeOK', NEW t \in Threads, Check(t) PROVE IInv'
<1> USE DEF Check, dispatcher, units
<1>0. pc[t] = "check"
  BY DEF Goto
<1>1. CASE closed[myJob[t]]
  <2>1. t \in Workers => FALSE
    <3> SUFFICES ASSUME t \in Workers PROVE FALSE
      OBVIOUS
    <3>1. myJob[t] = job /\ dpc = "local"
      BY <1>0 DEF IInv, StageOK
    <3>2. job \in Jobs /\ job \in Int
      BY <3>1, MaxJobsAssumption DEF IInv, StageOK, TypeOK
    <3> QED
      BY <1>1, <3>1, <3>2 DEF IInv, StageOK
  <2>2. TasksOK' /\ HoldOK' /\ CountOK' /\ AppliedOK' /\ CoverOK' /\ ResultOK'
    BY <1>1, <2>1, QuietInv DEF Holding, Applying, Pending
  <2>3. StageOK'
    <3>1. t = Pump
      BY <2>1 DEF Threads
    <3>2. Pump \in applies[myJob[Pump]]
      BY <3>1, <1>0 DEF IInv, StageOK, Registered
    <3> QED
      BY <1>1, <3>1, <3>2, StageThread DEF Inside, Holding
  <2> QED
    BY <2>2, <2>3 DEF IInv
<1>2. CASE ~closed[myJob[t]]
  <2>2. TasksOK' /\ HoldOK' /\ CountOK' /\ AppliedOK' /\ CoverOK' /\ ResultOK'
    BY <1>2, QuietInv DEF Holding, Applying, Pending
  <2>3. t = Pump => /\ Pump \in applies[myJob[Pump]]
                    /\ myJob[Pump] = job /\ dpc \in {"local", "scan", "close", "drain"}
    <3> SUFFICES ASSUME t = Pump PROVE /\ Pump \in applies[myJob[Pump]]
                                       /\ myJob[Pump] = job /\ dpc \in {"local", "scan", "close", "drain"}
      OBVIOUS
    <3>1. myJob[Pump] \in 1 .. job /\ Pump \in applies[myJob[Pump]]
      BY <1>0 DEF IInv, StageOK, Registered
    <3>2. myJob[Pump] \in Jobs /\ job \in 0 .. MaxJobs
      BY <3>1, MaxJobsAssumption DEF IInv, TypeOK, Jobs
    <3>3. ~closed[myJob[Pump]]
      BY <1>2
    <3>4. myJob[Pump] = job /\ dpc \notin {"drain", "idle", "enter"}
      BY <3>1, <3>2, <3>3 DEF IInv, StageOK
    <3>5. dpc # "dispatch"
      <4>1. pc[Pump] # "idle" /\ job \in Int
        BY <1>0, MaxJobsAssumption DEF IInv, TypeOK
      <4>2. dpc = "dispatch" => myJob[Pump] < job
        BY <4>1 DEF IInv, TasksOK
      <4> QED
        BY <4>1, <4>2, <3>4
    <3> QED
      BY <3>1, <3>4, <3>5 DEF IInv, TypeOK
  <2>4. StageOK'
    BY <1>2, <2>3, StageThread
  <2> QED
    BY <2>2, <2>4 DEF IInv
<1> QED
  BY <1>1, <1>2

LEMMA ExecutedInv ==
  ASSUME IInv, TypeOK', NEW w \in Workers, Executed(w) \/ ExecuteThrows(w) PROVE IInv'
<1> USE DEF dispatcher, units
<1>1. w \in Threads /\ w # Pump
  BY ThreadsAssumption DEF Threads
<1>2. CASE Executed(w)
  <2>1. TasksOK' /\ HoldOK' /\ CountOK' /\ AppliedOK' /\ CoverOK' /\ ResultOK'
    BY <1>1, <1>2, QuietInv DEF Executed, Holding, Applying, Pending
  <2>2. StageOK'
    BY <1>1, <1>2, StageThread DEF Executed
  <2> QED
    BY <2>1, <2>2 DEF IInv
<1>3. CASE ExecuteThrows(w)
  <2>1. TasksOK' /\ HoldOK' /\ CountOK' /\ AppliedOK' /\ CoverOK' /\ ResultOK'
    BY <1>1, <1>3, QuietInv DEF ExecuteThrows, Holding, Applying, Pending
  <2>2. StageOK'
    BY <1>1, <1>3, StageThread DEF ExecuteThrows
  <2> QED
    BY <2>1, <2>2 DEF IInv
<1> QED
  BY <1>2, <1>3

LEMMA ExpireNowInv == ASSUME IInv, TypeOK', NEW t \in Threads, ExpireNow(t) PROVE IInv'
<1> USE DEF ExpireNow, dispatcher, units
<1>0. pc[t] = "undo"
  BY DEF Goto
<1>1. TasksOK' /\ HoldOK' /\ CountOK' /\ AppliedOK' /\ CoverOK' /\ ResultOK'
  BY QuietInv DEF Holding, Applying, Pending
<1>2. t = Pump
  BY <1>0 DEF IInv, StageOK, Threads
<1>3. /\ Pump \in applies[myJob[Pump]]
      /\ myJob[Pump] = job /\ dpc \in {"local", "scan", "close", "drain"}
  BY <1>0, <1>2 DEF IInv, StageOK, Registered, Inside, Holding
<1>4. StageOK'
  BY <1>2, <1>3, StageThread
<1> QED
  BY <1>1, <1>4 DEF IInv

LEMMA LeaveInv == ASSUME IInv, TypeOK', NEW t \in Threads, Leave(t) PROVE IInv'
<1> USE DEF Leave, dispatcher, units
<1>1. TasksOK' /\ HoldOK' /\ CountOK' /\ AppliedOK' /\ CoverOK' /\ ResultOK'
  BY QuietInv DEF Holding, Applying, Pending
<1>2. t # Pump => (Pump \in applies[myJob[Pump]] => Pump \in applies'[myJob[Pump]])
  <2> SUFFICES ASSUME t # Pump, Pump \in applies[myJob[Pump]] PROVE Pump \in applies'[myJob[Pump]]
    OBVIOUS
  <2>1. CASE myJob[Pump] \in Jobs
    BY <2>1 DEF IInv, TypeOK
  <2>2. CASE myJob[Pump] \notin Jobs
    BY <2>2 DEF IInv, TypeOK
  <2> QED
    BY <2>1, <2>2
<1>3. StageOK'
  BY <1>2, StageThread DEF Inside, Holding, Registered
<1> QED
  BY <1>1, <1>3 DEF IInv

-----------------------------------------------------------------------------
(* The steps that take a unit into somebody's hands, work on it, give it     *)
(* back or count it.                                                         *)

LEMMA TakeHold ==
  ASSUME IInv, TypeOK', NEW t \in Threads, NEW from \in Pending, NEW to \in {"apply", "count"},
         Goto(t, from, to), status[unit[t]] # 2, to = "count" => failed,
         pc[t] \in Inside \/ t \in Workers,
         status' = [status EXCEPT ![unit[t]] = 2],
         UNCHANGED <<dispatcher, expired, completed, failed, applies, applied>>
  PROVE  TasksOK' /\ HoldOK' /\ CountOK' /\ AppliedOK' /\ CoverOK' /\ ResultOK'
<1> USE DEF dispatcher
<1>1. /\ pc[t] = from /\ pc'[t] = to
      /\ \A s \in Threads \ {t} : pc'[s] = pc[s]
      /\ UNCHANGED <<myJob, unit>>
  BY GotoFacts DEF IInv
<1>2. /\ unit[t] \in Units /\ status'[unit[t]] = 2
      /\ \A u \in Units \ {unit[t]} : status'[u] = status[u]
      /\ \A s \in Threads : unit[s] \in Units
  BY DEF IInv, TypeOK
<1>3. \A s \in Threads : unit[s] = unit[t] => pc[s] \notin Holding
  BY <1>2 DEF IInv, HoldOK
<1>4. to \in Holding /\ from \notin Holding /\ from \notin Applying /\ from # "idle"
  BY DEF Holding, Pending, Applying
<1>5. dpc \in {"local", "scan", "close", "drain"}
  BY <1>1, <1>4, WhereInside
<1>6. HoldOK'
  BY <1>1, <1>2, <1>3 DEF IInv, HoldOK
<1>7. \A u \in Units : Settled(u)' <=> Settled(u)
  <2> SUFFICES ASSUME NEW u \in Units PROVE Settled(u)' <=> Settled(u)
    OBVIOUS
  <2>1. CASE u = unit[t]
    BY <2>1, <1>1, <1>4 DEF Settled
  <2>2. CASE u # unit[t]
    BY <2>2, <1>1, <1>2 DEF Settled
  <2> QED
    BY <2>1, <2>2
<1>8. CountOK'
  BY <1>7, SameCount DEF IInv
<1>9. AppliedOK'
  <2> SUFFICES ASSUME NEW u \in Units
               PROVE  /\ applied'[u] \in {0, 1}
                      /\ applied'[u] = 1 => Free(u)'
                      /\ ~failed' /\ Free(u)' => applied'[u] = 1
    BY DEF AppliedOK
  <2>0. /\ applied[u] \in {0, 1}
        /\ applied[u] = 1 => Free(u)
        /\ ~failed /\ Free(u) => applied[u] = 1
    BY DEF IInv, AppliedOK
  <2>1. CASE u = unit[t]
    <3>1. applied[u] = 0
      BY <2>0, <2>1 DEF Free
    <3>2. to = "apply" => ~Free(u)'
      BY <1>1, <2>1 DEF Free, Applying
    <3> QED
      BY <3>1, <3>2, <1>1
  <2>2. CASE u # unit[t]
    <3>1. Free(u)' <=> Free(u)
      BY <2>2, <1>1, <1>2 DEF Free
    <3> QED
      BY <3>1, <2>0
  <2> QED
    BY <2>1, <2>2
<1>10. CoverOK'
  <2>1. \A u \in Units : status'[u] = 0 => status[u] = 0 /\ u # unit[t]
    BY <1>2
  <2>2. \A w \in Workers : unit[w] # unit[t] => pc'[w] = pc[w]
    BY <1>1 DEF Threads
  <2> QED
    BY <1>1, <1>7, <2>1, <2>2 DEF IInv, CoverOK
<1>11. TasksOK'
  <2>1. pc'[Pump] # "idle" => pc[Pump] # "idle"
    BY <1>1, <1>4 DEF Threads
  <2>2. \A u \in Units : status'[u] = 1 => status[u] = 1
    BY <1>2
  <2> QED
    BY <1>1, <1>5, <2>1, <2>2 DEF IInv, TasksOK
<1>12. ResultOK'
  BY DEF IInv, ResultOK
<1> QED
  BY <1>6, <1>8, <1>9, <1>10, <1>11, <1>12

LEMMA ClaimInv == ASSUME IInv, TypeOK', NEW t \in Threads, Claim(t) PROVE IInv'
<1> USE DEF Claim
<1>0. pc[t] = "claim" /\ unit[t] \in Units
  BY DEF Goto, IInv, TypeOK
<1>1. t = Pump => /\ Pump \in applies[myJob[Pump]]
                  /\ myJob[Pump] = job /\ dpc \in {"local", "scan", "close", "drain"}
  BY <1>0 DEF IInv, StageOK, Registered, Inside
<1>2. CASE status[unit[t]] = 2
  <2>1. status' = status
    BY <1>0, <1>2 DEF IInv, TypeOK
  <2>2. TasksOK' /\ HoldOK' /\ CountOK' /\ AppliedOK' /\ CoverOK' /\ ResultOK'
    BY <1>2, <2>1, QuietInv DEF Holding, Applying, Pending, dispatcher
  <2>3. StageOK'
    BY <1>1, <1>2, StageThread DEF dispatcher
  <2> QED
    BY <2>2, <2>3 DEF IInv
<1>3. CASE status[unit[t]] # 2
  <2>1. Goto(t, "claim", "apply") /\ "claim" \in Pending /\ "apply" \in {"apply", "count"}
    BY <1>3 DEF Pending
  <2>2. pc[t] \in Inside
    BY <1>0 DEF Inside
  <2>3. TasksOK' /\ HoldOK' /\ CountOK' /\ AppliedOK' /\ CoverOK' /\ ResultOK'
    BY <1>3, <2>1, <2>2, TakeHold
  <2>4. StageOK'
    BY <1>1, <2>1, StageThread DEF dispatcher
  <2> QED
    BY <2>3, <2>4 DEF IInv
<1> QED
  BY <1>2, <1>3

LEMMA GiveUpInv == ASSUME IInv, TypeOK', NEW w \in Workers, GiveUpUnit(w) PROVE IInv'
<1> USE DEF GiveUpUnit
<1>0. pc[w] = "throw" /\ unit[w] \in Units /\ w \in Threads /\ w # Pump
  BY ThreadsAssumption DEF Goto, IInv, TypeOK, Threads
<1>1. failed
  BY <1>0 DEF IInv, StageOK
<1>2. CASE status[unit[w]] = 2
  <2>1. status' = status
    BY <1>0, <1>2 DEF IInv, TypeOK
  <2>2. TasksOK' /\ HoldOK' /\ CountOK' /\ AppliedOK' /\ CoverOK' /\ ResultOK'
    BY <1>0, <1>2, <2>1, QuietInv DEF Holding, Applying, Pending, dispatcher
  <2>3. StageOK'
    BY <1>0, <1>2, StageThread DEF dispatcher
  <2> QED
    BY <2>2, <2>3 DEF IInv
<1>3. CASE status[unit[w]] # 2
  <2>1. Goto(w, "throw", "count") /\ "throw" \in Pending /\ "count" \in {"apply", "count"}
    BY <1>3 DEF Pending
  <2>3. TasksOK' /\ HoldOK' /\ CountOK' /\ AppliedOK' /\ CoverOK' /\ ResultOK'
    BY <1>0, <1>1, <1>3, <2>1, TakeHold
  <2>4. StageOK'
    BY <1>0, <2>1, StageThread DEF dispatcher
  <2> QED
    BY <2>3, <2>4 DEF IInv
<1> QED
  BY <1>2, <1>3

(* An applier that works on its unit.                                        *)
LEMMA HolderFacts ==
  ASSUME IInv, NEW t \in Threads, pc[t] \in Holding
  PROVE  /\ unit[t] \in Units /\ status[unit[t]] = 2
         /\ \A s \in Threads \ {t} : unit[s] = unit[t] => pc[s] \notin Holding /\ pc[s] \notin Applying
         /\ myJob[t] = job /\ job \in Jobs
         /\ dpc \in {"local", "scan", "close", "drain"}
         /\ t = Pump => Pump \in applies[myJob[Pump]]
         /\ ~Settled(unit[t])
<1>1. unit[t] \in Units /\ status[unit[t]] = 2
  BY DEF IInv, TypeOK, HoldOK
<1>2. \A s \in Threads \ {t} : unit[s] = unit[t] => pc[s] \notin Holding
  BY DEF IInv, HoldOK
<1>3. \A s \in Threads : pc[s] \notin Holding => pc[s] \notin Applying
  BY DEF Holding, Applying
<1>4. pc[t] \in Inside /\ pc[t] \in Registered
  BY DEF Inside, Registered
<1>5. t = Pump => Pump \in applies[myJob[Pump]]
  BY <1>4 DEF IInv, StageOK
<1>6. ~Settled(unit[t])
  BY DEF Settled
<1> QED
  BY <1>1, <1>2, <1>3, <1>4, <1>5, <1>6, WhereInside

LEMMA ApplyFailsInv == ASSUME IInv, TypeOK', NEW t \in Threads, ApplyFails(t) PROVE IInv'
<1> USE DEF ApplyFails
<1>0. pc[t] = "apply"
  BY DEF Goto
<1>1. t = Pump => /\ Pump \in applies[myJob[Pump]]
                  /\ myJob[Pump] = job /\ dpc \in {"local", "scan", "close", "drain"}
  BY <1>0, HolderFacts DEF Holding
<1>2. CASE t = Pump
  <2>1. Goto(t, "apply", "undo") /\ failed' = failed
    BY <1>2, Zenon DEF IInv, TypeOK
  <2>2. TasksOK' /\ HoldOK' /\ CountOK' /\ AppliedOK' /\ CoverOK' /\ ResultOK'
    BY <2>1, QuietInv DEF Holding, Applying, Pending, dispatcher
  <2>3. StageOK'
    BY <1>1, <1>2, <2>1, StageThread DEF dispatcher
  <2> QED
    BY <2>2, <2>3 DEF IInv
<1>3. CASE t # Pump
  <2>1. Goto(t, "apply", "count") /\ failed'
    BY <1>3
  <2>2. TasksOK' /\ HoldOK' /\ CountOK' /\ AppliedOK' /\ CoverOK' /\ ResultOK'
    BY <2>1, QuietInv DEF Holding, Applying, Pending, dispatcher
  <2>3. StageOK'
    BY <1>3, <2>1, StageThread DEF dispatcher
  <2> QED
    BY <2>2, <2>3 DEF IInv
<1> QED
  BY <1>2, <1>3

LEMMA ApplySucceedsInv == ASSUME IInv, TypeOK', NEW t \in Threads, ApplySucceeds(t) PROVE IInv'
<1> USE DEF ApplySucceeds, dispatcher, units
<1>0. pc[t] = "apply" /\ pc[t] \in Holding
  BY DEF Goto, Holding
<1>1. /\ pc'[t] = "count"
      /\ \A s \in Threads \ {t} : pc'[s] = pc[s]
      /\ UNCHANGED <<myJob, unit>>
  BY GotoFacts DEF IInv
<1>2. /\ applied'[unit[t]] = applied[unit[t]] + 1
      /\ \A u \in Units \ {unit[t]} : applied'[u] = applied[u]
  BY HolderFacts, <1>0 DEF IInv, TypeOK
<1>3. /\ \A s \in Threads : pc'[s] \in Holding <=> pc[s] \in Holding
      /\ \A s \in Threads : pc'[s] = "idle" <=> pc[s] = "idle"
      /\ \A s \in Threads : pc'[s] \in Pending <=> pc[s] \in Pending
  BY <1>0, <1>1 DEF Holding, Pending
<1>4. \A u \in Units : Settled(u)' <=> Settled(u)
  BY <1>1, <1>3 DEF Settled
<1>5. CountOK'
  BY <1>4, SameCount DEF IInv
<1>6. HoldOK'
  BY <1>1, <1>3 DEF IInv, HoldOK
<1>7. AppliedOK'
  <2> SUFFICES ASSUME NEW u \in Units
               PROVE  /\ applied'[u] \in {0, 1}
                      /\ applied'[u] = 1 => Free(u)'
                      /\ ~failed' /\ Free(u)' => applied'[u] = 1
    BY DEF AppliedOK
  <2>0. /\ applied[u] \in {0, 1}
        /\ applied[u] = 1 => Free(u)
        /\ ~failed /\ Free(u) => applied[u] = 1
    BY DEF IInv, AppliedOK
  <2>1. CASE u = unit[t]
    <3>1. applied[u] = 0
      BY <1>0, <2>0, <2>1 DEF Free, Applying
    <3>2. applied'[u] = 1
      BY <1>2, <2>1, <3>1
    <3>3. pc'[t] \notin Applying
      BY <1>1 DEF Applying
    <3>4. Free(u)'
      BY <1>0, <1>1, <2>1, <3>3, HolderFacts DEF Free
    <3> QED
      BY <3>2, <3>4
  <2>2. CASE u # unit[t]
    <3>1. Free(u)' <=> Free(u)
      BY <2>2, <1>1 DEF Free
    <3> QED
      BY <3>1, <2>0, <2>2, <1>2
  <2> QED
    BY <2>1, <2>2
<1>8. CoverOK'
  BY <1>1, <1>3, <1>4 DEF IInv, CoverOK, Threads
<1>9. TasksOK'
  BY <1>0, <1>1, <1>3, HolderFacts DEF IInv, TasksOK, Threads
<1>10. ResultOK'
  BY <1>0, HolderFacts DEF IInv, ResultOK
<1>11. StageOK'
  BY <1>0, HolderFacts, StageThread
<1> QED
  BY <1>5, <1>6, <1>7, <1>8, <1>9, <1>10, <1>11 DEF IInv

LEMMA ReopenInv == ASSUME IInv, TypeOK', NEW t \in Threads, Reopen(t) PROVE IInv'
<1> USE DEF Reopen, dispatcher
<1>0. pc[t] = "reopen" /\ pc[t] \in Holding
  BY DEF Goto, Holding
<1>1. /\ pc'[t] = "leave"
      /\ \A s \in Threads \ {t} : pc'[s] = pc[s]
      /\ UNCHANGED <<myJob, unit>>
  BY GotoFacts DEF IInv
<1>2. /\ status'[unit[t]] = 1
      /\ \A u \in Units \ {unit[t]} : status'[u] = status[u]
  BY HolderFacts, <1>0 DEF IInv, TypeOK
<1>3. t = Pump /\ myJob[Pump] = job
  BY <1>0, HolderFacts DEF IInv, StageOK, Threads
<1>4. \A u \in Units : Settled(u)' <=> Settled(u)
  <2> SUFFICES ASSUME NEW u \in Units PROVE Settled(u)' <=> Settled(u)
    OBVIOUS
  <2>1. CASE u = unit[t]
    BY <2>1, <1>0, <1>2, HolderFacts DEF Settled
  <2>2. CASE u # unit[t]
    BY <2>2, <1>1, <1>2 DEF Settled
  <2> QED
    BY <2>1, <2>2
<1>5. CountOK'
  BY <1>4, SameCount DEF IInv
<1>6. HoldOK'
  <2>1. \A s \in Threads : pc'[s] \in Holding => s # t /\ pc[s] \in Holding /\ unit[s] # unit[t]
    BY <1>0, <1>1, HolderFacts DEF Holding
  <2>2. \A s \in Threads : unit[s] \in Units
    BY DEF IInv, TypeOK
  <2> QED
    BY <1>1, <1>2, <2>1, <2>2 DEF IInv, HoldOK
<1>7. AppliedOK'
  <2> SUFFICES ASSUME NEW u \in Units
               PROVE  /\ applied'[u] \in {0, 1}
                      /\ applied'[u] = 1 => Free(u)'
                      /\ ~failed' /\ Free(u)' => applied'[u] = 1
    BY DEF AppliedOK
  <2>0. /\ applied[u] \in {0, 1}
        /\ applied[u] = 1 => Free(u)
        /\ ~failed /\ Free(u) => applied[u] = 1
    BY DEF IInv, AppliedOK
  <2>1. CASE u = unit[t]
    BY <2>0, <2>1, <1>0, <1>2 DEF Free, Applying
  <2>2. CASE u # unit[t]
    <3>1. Free(u)' <=> Free(u)
      BY <2>2, <1>1, <1>2 DEF Free
    <3> QED
      BY <3>1, <2>0, <2>2
  <2> QED
    BY <2>1, <2>2
<1>8. CoverOK'
  <2>1. \A u \in Units : status'[u] = 0 => status[u] = 0
    BY <1>2
  <2>2. \A w \in Workers : pc'[w] = pc[w]
    BY <1>1, <1>3, ThreadsAssumption DEF Threads
  <2> QED
    BY <1>1, <1>4, <2>1, <2>2 DEF IInv, CoverOK
<1>9. TasksOK'
  <2>1. dpc # "dispatch" /\ ~(dpc = "local" /\ ~published)
    <3>1. pc[Pump] # "idle" /\ ~(myJob[Pump] < job)
      BY <1>0, <1>3, HolderFacts, MaxJobsAssumption DEF Jobs
    <3> QED
      BY <3>1 DEF IInv, TasksOK
  <2> QED
    BY <2>1 DEF IInv, TasksOK
<1>10. ResultOK'
  BY DEF IInv, ResultOK
<1>11. StageOK'
  BY <1>0, <1>3, HolderFacts, StageThread DEF Inside, Holding
<1> QED
  BY <1>5, <1>6, <1>7, <1>8, <1>9, <1>10, <1>11 DEF IInv

LEMMA CountInv == ASSUME IInv, TypeOK', NEW t \in Threads, Count(t) PROVE IInv'
<1> USE DEF Count, dispatcher
<1>0. pc[t] = "count" /\ pc[t] \in Holding
  BY DEF Goto, Holding
<1>1. /\ pc'[t] = "leave"
      /\ \A s \in Threads \ {t} : pc'[s] = pc[s]
      /\ UNCHANGED <<myJob, unit>>
  BY GotoFacts DEF IInv
<1>2. /\ \A s \in Threads \ {t} : pc'[s] \in Holding <=> pc[s] \in Holding
      /\ \A s \in Threads : pc'[s] \in Applying <=> pc[s] \in Applying
      /\ pc'[t] \notin Holding
  BY <1>0, <1>1 DEF Holding, Applying
<1>3. \A u \in Units : u = unit[t] => Settled(u)'
  BY <1>0, <1>1, <1>2, HolderFacts DEF Settled
<1>4. \A u \in Units \ {unit[t]} : Settled(u)' <=> Settled(u)
  BY <1>1 DEF Settled
<1>5. CountOK'
  <2>1. SettledUnits' = SettledUnits \cup {unit[t]}
    BY <1>0, <1>1, <1>3, <1>4, HolderFacts DEF SettledUnits
  <2>2. unit[t] \notin SettledUnits
    BY <1>0, HolderFacts DEF SettledUnits
  <2>3. Cardinality(SettledUnits') = Cardinality(SettledUnits) + 1
    BY <2>1, <2>2, SettledFinite, FS_AddElement
  <2> QED
    BY <2>3 DEF IInv, CountOK
<1>6. HoldOK'
  BY <1>1, <1>2 DEF IInv, HoldOK
<1>7. AppliedOK'
  BY <1>1, <1>2 DEF IInv, AppliedOK, Free
<1>8. CoverOK'
  <2>1. \A w \in Workers : pc[w] \in Pending => pc'[w] = pc[w]
    BY <1>0, <1>1 DEF Pending, Threads
  <2>2. \A u \in Units : Settled(u) => Settled(u)'
    BY <1>3, <1>4
  <2> QED
    BY <1>1, <2>1, <2>2 DEF IInv, CoverOK
<1>9. TasksOK'
  <2>1. pc'[Pump] # "idle" => pc[Pump] # "idle"
    BY <1>0, <1>1 DEF Threads
  <2>2. dpc # "dispatch"
    BY <1>0, HolderFacts
  <2> QED
    BY <1>1, <2>1, <2>2 DEF IInv, TasksOK
<1>10. ResultOK'
  BY DEF IInv, ResultOK
<1>11. StageOK'
  <2>1. t = Pump => Pump \in applies[myJob[Pump]]
    BY <1>0, HolderFacts
  <2> QED
    BY <2>1, StageThread DEF Inside, Holding
<1> QED
  BY <1>5, <1>6, <1>7, <1>8, <1>9, <1>10, <1>11 DEF IInv

(* An idle thread that begins with a unit.                                   *)
LEMMA BeginFacts ==
  ASSUME TypeOK, NEW t \in Threads, NEW to \in {"execute", "enter"}, NEW j, NEW u \in Units,
         pc[t] = "idle",
         pc' = [pc EXCEPT ![t] = to], myJob' = [myJob EXCEPT ![t] = j],
         unit' = [unit EXCEPT ![t] = u]
  PROVE  /\ pc'[t] = to /\ myJob'[t] = j /\ unit'[t] = u
         /\ \A s \in Threads \ {t} : pc'[s] = pc[s] /\ myJob'[s] = myJob[s] /\ unit'[s] = unit[s]
         /\ \A s \in Threads : pc'[s] \in Holding => unit'[s] = unit[s]
         /\ \A s \in Threads : pc'[s] \in Holding <=> pc[s] \in Holding
         /\ \A s \in Threads : pc'[s] \in Applying <=> pc[s] \in Applying
BY DEF TypeOK, Holding, Applying

LEMMA BeginInv ==
  ASSUME IInv, TypeOK', NEW t \in Threads, NEW to \in {"execute", "enter"}, NEW j, NEW u \in Units,
         pc[t] = "idle",
         pc' = [pc EXCEPT ![t] = to], myJob' = [myJob EXCEPT ![t] = j],
         unit' = [unit EXCEPT ![t] = u],
         UNCHANGED <<job, dpc, result, cancel, published, closed, reclaimed, owner, units, applies,
                     applied>>
  PROVE  HoldOK' /\ CountOK' /\ AppliedOK' /\ ResultOK' /\ \A v \in Units : Settled(v)' <=> Settled(v)
<1> USE DEF units
<1>1. /\ pc'[t] = to
      /\ \A s \in Threads \ {t} : pc'[s] = pc[s] /\ unit'[s] = unit[s]
      /\ \A s \in Threads : pc'[s] \in Holding <=> pc[s] \in Holding
      /\ \A s \in Threads : pc'[s] \in Applying <=> pc[s] \in Applying
  BY BeginFacts DEF IInv
<1>2. pc[t] \notin Holding /\ pc[t] \notin Applying
  BY DEF Holding, Applying
<1>3. \A v \in Units : Settled(v)' <=> Settled(v)
  BY <1>1, <1>2 DEF Settled
<1>4. \A v \in Units : Free(v)' <=> Free(v)
  BY <1>1, <1>2 DEF Free
<1>5. HoldOK'
  BY <1>1, <1>2 DEF IInv, HoldOK
<1>6. CountOK'
  BY <1>3, SameCount DEF IInv
<1>7. AppliedOK'
  BY <1>4 DEF IInv, AppliedOK
<1> QED
  BY <1>3, <1>5, <1>6, <1>7 DEF IInv, ResultOK

LEMMA TakeUnitInv ==
  ASSUME IInv, TypeOK', NEW w \in Workers, NEW u \in Units, TakeUnit(w, u) PROVE IInv'
<1> USE DEF TakeUnit
<1>0. w \in Threads /\ w # Pump /\ dpc = "local" /\ pc[w] = "idle"
  BY ThreadsAssumption DEF Threads, Idle
<1>1. CASE status[u] = 2
  <2>1. UNCHANGED <<pc, myJob, unit>>
    BY <1>1
  <2>2. StageOK' /\ TasksOK' /\ HoldOK' /\ AppliedOK' /\ ResultOK'
    BY <1>0, <2>1 DEF IInv, StageOK, TasksOK, HoldOK, AppliedOK, Free, ResultOK, units
  <2>3. CountOK'
    BY <2>1, SameCount DEF IInv, Settled, units
  <2>4. CoverOK'
    BY <1>0, <1>1, <2>1 DEF IInv, CoverOK, units
  <2> QED
    BY <2>2, <2>3, <2>4 DEF IInv
<1>2. CASE status[u] # 2
  <2>1. /\ pc' = [pc EXCEPT ![w] = "execute"] /\ myJob' = [myJob EXCEPT ![w] = job]
        /\ unit' = [unit EXCEPT ![w] = u]
    BY <1>2
  <2>2. /\ pc'[w] = "execute" /\ myJob'[w] = job /\ unit'[w] = u
        /\ \A s \in Threads \ {w} : pc'[s] = pc[s] /\ myJob'[s] = myJob[s] /\ unit'[s] = unit[s]
    BY <1>0, <2>1, BeginFacts DEF IInv
  <2>3. HoldOK' /\ CountOK' /\ AppliedOK' /\ ResultOK' /\ \A v \in Units : Settled(v)' <=> Settled(v)
    BY <1>0, <2>1, BeginInv
  <2>4. pc'[Pump] = pc[Pump] /\ myJob'[Pump] = myJob[Pump]
    BY <1>0, <2>2 DEF Threads
  <2>5. CoverOK'
    <3>1. \A v \in Units : v \in todo => v \in todo' \/ v = u
      OBVIOUS
    <3>2. \A s \in Workers : pc[s] \in Pending => pc'[s] = pc[s] /\ unit'[s] = unit[s]
      BY <1>0, <2>2 DEF Pending, Threads
    <3>3. pc'[w] \in Pending
      BY <2>2 DEF Pending
    <3> QED
      BY <1>0, <2>2, <2>3, <3>1, <3>2, <3>3 DEF IInv, CoverOK, units
  <2>6. TasksOK'
    BY <1>0, <2>4 DEF IInv, TasksOK, units
  <2>7. StageOK'
    <3>1. \A s \in Workers : /\ pc'[s] # "idle" => dpc' = "local" /\ myJob'[s] = job'
                             /\ pc'[s] \notin {"undo", "reopen"}
                             /\ pc'[s] = "throw" => failed'
      BY <1>0, <2>2 DEF IInv, StageOK, Threads, units
    <3> QED
      BY <1>0, <2>4, <3>1 DEF IInv, StageOK
  <2> QED
    BY <2>3, <2>5, <2>6, <2>7 DEF IInv
<1> QED
  BY <1>1, <1>2

LEMMA ResultArrivesInv ==
  ASSUME IInv, TypeOK', NEW x \in tasks, ResultArrives(x[1], x[2], x[3]) PROVE IInv'
<1> USE DEF ResultArrives
<1>0. Pump \in Threads /\ pc[Pump] = "idle" /\ x[2] \in Units /\ tasks' \subseteq tasks
  BY DEF Threads, PumpMutexFree, Idle, IInv, TypeOK
<1>1. CASE published /\ x[1] = job /\ owner[x[2]] = x[3]
  <2>1. /\ pc' = [pc EXCEPT ![Pump] = "enter"] /\ myJob' = [myJob EXCEPT ![Pump] = x[1]]
        /\ unit' = [unit EXCEPT ![Pump] = x[2]]
    BY <1>1
  <2>2. /\ pc'[Pump] = "enter" /\ myJob'[Pump] = job
        /\ \A s \in Threads \ {Pump} : pc'[s] = pc[s] /\ myJob'[s] = myJob[s] /\ unit'[s] = unit[s]
    BY ZenonT(40), <1>0, <1>1, <2>1, BeginFacts DEF IInv
  <2>3. HoldOK' /\ CountOK' /\ AppliedOK' /\ ResultOK' /\ \A v \in Units : Settled(v)' <=> Settled(v)
    BY <1>0, <2>1, BeginInv
  <2>4. \A w \in Workers : pc'[w] = pc[w] /\ myJob'[w] = myJob[w] /\ unit'[w] = unit[w]
    BY <2>2, ThreadsAssumption DEF Threads
  <2>5. CoverOK'
    BY <2>3, <2>4 DEF IInv, CoverOK, units
  <2>6. job \in Jobs /\ dpc \in {"dispatch", "local", "scan"}
    BY <1>1 DEF IInv, StageOK
  <2>7. TasksOK'
    <3>1. dpc # "dispatch"
      BY <1>1, <2>6, MaxJobsAssumption DEF IInv, TasksOK, Jobs
    <3> QED
      BY <1>0, <1>1, <2>2, <3>1 DEF IInv, TasksOK, units
  <2>8. StageOK'
    <3>1. job \in 1 .. job
      BY <2>6, MaxJobsAssumption DEF Jobs
    <3> QED
      BY <2>2, <2>4, <3>1 DEF IInv, StageOK, Registered, Inside, Holding, units
  <2> QED
    BY <2>3, <2>5, <2>7, <2>8 DEF IInv
<1>2. CASE ~(published /\ x[1] = job /\ owner[x[2]] = x[3])
  <2>1. UNCHANGED <<pc, myJob, unit>>
    BY <1>2
  <2>2. StageOK' /\ HoldOK' /\ AppliedOK' /\ ResultOK' /\ CoverOK'
    BY <2>1 DEF IInv, StageOK, HoldOK, AppliedOK, Free, ResultOK, CoverOK, Settled, units
  <2>3. CountOK'
    BY <2>1, SameCount DEF IInv, Settled, units
  <2>4. TasksOK'
    BY <1>0, <2>1 DEF IInv, TasksOK, units
  <2> QED
    BY <2>2, <2>3, <2>4 DEF IInv
<1> QED
  BY <1>1, <1>2

-----------------------------------------------------------------------------
(* The steps of the dispatcher and of the environment.                       *)

(* Outside a batch no thread holds a unit.                                   *)
LEMMA NobodyInside ==
  ASSUME IInv, dpc \in {"idle", "enter", "dispatch"}
  PROVE  /\ \A w \in Workers : pc[w] = "idle"
         /\ \A t \in Threads : pc[t] \notin Inside /\ pc[t] \notin Holding
<1>1. \A w \in Workers : pc[w] = "idle"
  BY DEF IInv, StageOK
<1>2. pc[Pump] \notin Inside
  BY DEF IInv, StageOK
<1>3. "idle" \notin Inside /\ Holding \subseteq Inside
  BY DEF Inside, Holding
<1> QED
  BY <1>1, <1>2, <1>3 DEF Threads

LEMMA NewJobInv ==
  ASSUME IInv, TypeOK', NewJob
  PROVE  /\ HoldOK' /\ CountOK' /\ AppliedOK'
         /\ ~result' /\ \A x \in tasks' : x[1] < job'
         /\ pc'[Pump] # "idle" => myJob'[Pump] < job'
         /\ \A w \in Workers : pc'[w] = "idle"
         /\ job' \in Jobs /\ ~published
         /\ \A j \in Jobs : closed'[j] <=> j < job'
<1> USE DEF NewJob, threads
<1>1. \A t \in Threads : pc'[t] \notin Holding
  BY NobodyInside
<1>2. HoldOK'
  BY <1>1 DEF HoldOK
<1>3. CountOK'
  <2>1. SettledUnits' = {}
    BY DEF SettledUnits, Settled
  <2> QED
    BY <2>1, FS_EmptySet DEF CountOK
<1>4. AppliedOK'
  BY DEF AppliedOK, Free
<1>5. job \in Int /\ job' = job + 1 /\ job' \in Jobs
  BY MaxJobsAssumption DEF IInv, TypeOK, Jobs
<1>6. \A x \in tasks' : x[1] < job'
  <2>1. \A x \in tasks : x[1] \in Int /\ x[1] <= job
    BY MaxJobsAssumption DEF IInv, TypeOK, TasksOK
  <2> QED
    BY <1>5, <2>1
<1>7. pc'[Pump] # "idle" => myJob'[Pump] < job'
  BY <1>5 DEF IInv, StageOK
<1>8. \A w \in Workers : pc'[w] = "idle"
  BY NobodyInside
<1>9. \A j \in Jobs : closed'[j] <=> j < job'
  BY <1>5, MaxJobsAssumption DEF IInv, StageOK, Jobs
<1>10. ~result' /\ ~published
  BY DEF IInv, ResultOK, StageOK
<1> QED
  BY <1>2, <1>3, <1>4, <1>5, <1>6, <1>7, <1>8, <1>9, <1>10

LEMMA StartInv == ASSUME IInv, TypeOK', StartLocal \/ StartRemote PROVE IInv'
<1> USE DEF threads
<1>1. NewJob
  BY DEF StartLocal, StartRemote
<1>2. /\ HoldOK' /\ CountOK' /\ AppliedOK'
      /\ ~result' /\ \A x \in tasks' : x[1] < job'
      /\ pc'[Pump] # "idle" => myJob'[Pump] < job'
      /\ \A w \in Workers : pc'[w] = "idle"
      /\ job' \in Jobs /\ ~published
      /\ \A j \in Jobs : closed'[j] <=> j < job'
  BY <1>1, NewJobInv
<1>3. ResultOK'
  BY <1>2 DEF ResultOK
<1>4. TasksOK'
  <2>1. \A x \in tasks' : x[1] \in Int /\ job' \in Int
    BY <1>2, MaxJobsAssumption DEF TypeOK, Jobs
  <2>2. completed' = 0 /\ \A u \in Units : status'[u] = 0 /\ applied'[u] = 0
    BY <1>1 DEF NewJob
  <2> QED
    BY <1>2, <2>1, <2>2 DEF TasksOK
<1>5. /\ myJob' = myJob /\ applies' = applies /\ job' = job + 1 /\ job \in Int
  BY <1>1, MaxJobsAssumption DEF NewJob, IInv, TypeOK
<1>6. pc' = pc /\ pc[Pump] \notin Inside
  BY <1>1, NobodyInside DEF NewJob, Threads
<1>7. /\ pc'[Pump] \notin {"execute", "throw"}
      /\ pc'[Pump] # "idle" => myJob'[Pump] \in 1 .. job'
      /\ pc'[Pump] \in Registered => Pump \in applies'[myJob'[Pump]]
  BY <1>5, <1>6 DEF IInv, StageOK
<1>8. \A w \in Workers : /\ pc'[w] \notin {"undo", "reopen", "throw"}
  BY <1>2
<1>9. CASE StartLocal
  <2>1. dpc' = "local" /\ todo' = Units /\ ~published'
    BY <1>2, <1>9 DEF StartLocal
  <2>2. StageOK'
    BY <1>2, <1>6, <1>7, <1>8, <2>1 DEF StageOK
  <2>3. CoverOK'
    BY <2>1 DEF CoverOK
  <2> QED
    BY <1>2, <1>3, <1>4, <2>2, <2>3 DEF IInv
<1>10. CASE StartRemote
  <2>1. dpc' = "dispatch" /\ todo' = {} /\ published'
    BY <1>10 DEF StartRemote
  <2>2. StageOK'
    BY <1>2, <1>6, <1>7, <1>8, <2>1 DEF StageOK
  <2>3. CoverOK'
    BY <2>1 DEF CoverOK
  <2> QED
    BY <1>2, <1>3, <1>4, <2>2, <2>3 DEF IInv
<1> QED
  BY <1>9, <1>10

LEMMA DispatchInv ==
  ASSUME IInv, TypeOK', NEW plan \in [Units -> Nodes \cup {Local}], Dispatch(plan) PROVE IInv'
<1> USE DEF threads
<1> DEFINE remote == {u \in Units : plan[u] # Local}
<1>1. /\ dpc = "dispatch" /\ pc[Pump] = "idle" /\ dpc' = "local"
      /\ status' = [u \in Units |-> IF u \in remote THEN 1 ELSE 0]
      /\ todo' = Units \ remote
      /\ UNCHANGED <<job, result, cancel, published, closed, completed, failed, pc, myJob, unit,
                     applies, applied>>
      /\ published /\ \A t \in Threads : pc[t] \notin Holding
      /\ \A w \in Workers : pc[w] = "idle"
  BY NobodyInside DEF Dispatch, PumpMutexFree, Idle, IInv, StageOK
<1>2. \A x \in tasks' : x[1] <= job'
  <2>1. job <= job
    BY DEF IInv, TypeOK
  <2>2. \A x \in tasks' : x \in tasks \/ x[1] = job
    BY DEF Dispatch
  <2> QED
    BY <1>1, <2>1, <2>2 DEF IInv, TasksOK
<1>3. \A u \in Units : status'[u] # 2 /\ applied'[u] = 0
  BY <1>1 DEF IInv, TasksOK
<1>4. TasksOK'
  BY <1>1, <1>2 DEF TasksOK
<1>5. HoldOK' /\ ResultOK'
  BY <1>1 DEF IInv, HoldOK, ResultOK
<1>6. CountOK'
  <2>1. SettledUnits' = {}
    BY <1>3 DEF SettledUnits, Settled
  <2> QED
    BY <1>1, <2>1, FS_EmptySet DEF IInv, CountOK, TasksOK
<1>7. AppliedOK'
  BY <1>3 DEF AppliedOK, Free
<1>8. CoverOK'
  BY <1>1 DEF CoverOK
<1>9. StageOK'
  BY <1>1 DEF IInv, StageOK, Inside, Holding, Registered
<1> QED
  BY <1>4, <1>5, <1>6, <1>7, <1>8, <1>9 DEF IInv

(* Steps of the dispatcher that leave the units and the threads alone.       *)
LEMMA SameUnits ==
  ASSUME IInv, UNCHANGED <<units, pc, unit, applied>>
  PROVE  HoldOK' /\ CountOK' /\ AppliedOK' /\ \A u \in Units : Settled(u)' <=> Settled(u)
<1>1. \A u \in Units : Settled(u)' <=> Settled(u)
  BY DEF Settled, units
<1>2. CountOK'
  BY <1>1, SameCount DEF IInv, units
<1> QED
  BY <1>1, <1>2 DEF IInv, HoldOK, AppliedOK, Free, units

LEMMA LocalDoneInv == ASSUME IInv, TypeOK', LocalDone PROVE IInv'
<1> USE DEF threads
<1>1. /\ dpc = "local" /\ reclaimed' = {} /\ todo' = {} /\ Joined
      /\ UNCHANGED <<job, result, cancel, published, tasks, units, pc, myJob, unit, applies, applied>>
  BY DEF LocalDone
<1>2. HoldOK' /\ CountOK' /\ AppliedOK' /\ \A u \in Units : Settled(u)' <=> Settled(u)
  BY <1>1, SameUnits
<1>3. \A w \in Workers : pc[w] = "idle"
  BY <1>1 DEF Joined, Idle
<1>4. job \in Jobs /\ job \in Int
  BY <1>1, MaxJobsAssumption DEF IInv, StageOK, TypeOK
<1>5. ~cancel => \A u \in Units : status[u] # 0
  BY <1>1, <1>3 DEF IInv, CoverOK, Joined, Pending
<1>6. ResultOK'
  BY <1>1 DEF IInv, ResultOK
<1>7. CASE published
  <2>1. dpc' = "scan" /\ closed' = closed
    BY <1>7 DEF LocalDone
  <2>2. StageOK'
    BY <1>1, <1>3, <1>4, <1>7, <2>1 DEF IInv, StageOK
  <2>3. TasksOK' /\ CoverOK'
    BY <1>1, <1>5, <2>1 DEF IInv, TasksOK, CoverOK, units
  <2> QED
    BY <1>2, <1>6, <2>2, <2>3 DEF IInv
<1>8. CASE ~published
  <2>1. dpc' = "drain" /\ closed' = [closed EXCEPT ![job] = TRUE]
    BY <1>8 DEF LocalDone
  <2>2. \A j \in Jobs : closed'[j] <=> j < job \/ j = job
    BY <1>1, <1>4, <2>1 DEF IInv, StageOK, TypeOK
  <2>3. StageOK'
    BY <1>1, <1>3, <1>4, <1>8, <2>1, <2>2 DEF IInv, StageOK
  <2>4. TasksOK'
    BY <1>1, <2>1 DEF IInv, TasksOK
  <2>5. pc[Pump] \notin Holding
    <3>1. pc[Pump] \in Inside => myJob[Pump] = job /\ pc[Pump] # "idle"
      BY DEF IInv, StageOK, Inside, Holding
    <3>2. pc[Pump] # "idle" => myJob[Pump] < job
      BY <1>1, <1>8 DEF IInv, TasksOK
    <3> QED
      BY <1>4, <3>1, <3>2 DEF Inside
  <2>6. \A t \in Threads : pc[t] \notin Holding
    BY <1>3, <2>5 DEF Threads, Holding
  <2>7. ~cancel => \A u \in Units : Settled(u)
    <3>1. \A u \in Units : status[u] # 1 /\ status[u] \in {0, 1, 2}
      BY <1>1, <1>8 DEF IInv, TasksOK, TypeOK
    <3> QED
      BY <1>5, <2>6, <3>1 DEF Settled
  <2>8. CoverOK'
    BY <1>1, <1>2, <2>1, <2>7 DEF CoverOK
  <2> QED
    BY <1>2, <1>6, <2>3, <2>4, <2>8 DEF IInv
<1> QED
  BY <1>7, <1>8

LEMMA ReclaimInv == ASSUME IInv, TypeOK', NEW u \in Units, ReclaimUnit(u) PROVE IInv'
<1> USE DEF ReclaimUnit, threads
<1>1. /\ dpc = "scan" /\ status[u] = 1 /\ status'[u] = 0
      /\ \A v \in Units \ {u} : status'[v] = status[v]
  BY DEF IInv, TypeOK
<1>2. \A v \in Units : Settled(v)' <=> Settled(v)
  BY <1>1 DEF Settled
<1>3. CountOK'
  BY <1>2, SameCount DEF IInv
<1>4. HoldOK'
  <2>1. \A t \in Threads : pc[t] \in Holding => unit[t] # u /\ unit[t] \in Units
    BY <1>1 DEF IInv, HoldOK, TypeOK
  <2> QED
    BY <1>1, <2>1 DEF IInv, HoldOK
<1>5. AppliedOK'
  <2>1. \A v \in Units : Free(v)' <=> Free(v)
    BY <1>1 DEF Free
  <2> QED
    BY <2>1 DEF IInv, AppliedOK
<1>6. StageOK' /\ TasksOK' /\ ResultOK'
  BY <1>1 DEF IInv, StageOK, TasksOK, ResultOK
<1>7. CoverOK'
  BY <1>1 DEF IInv, CoverOK
<1> QED
  BY <1>3, <1>4, <1>5, <1>6, <1>7 DEF IInv

LEMMA LoopInv ==
  ASSUME IInv, TypeOK', RunReclaimed \/ Release \/ CloseJob \/ Call \/ RequestCancel
  PROVE  IInv'
<1> USE DEF threads
<1>1. UNCHANGED <<job, tasks, units, pc, myJob, unit, applies, applied>>
  BY DEF RunReclaimed, Release, CloseJob, Call, RequestCancel, dispatcher
<1>2. HoldOK' /\ CountOK' /\ AppliedOK' /\ \A u \in Units : Settled(u)' <=> Settled(u)
  BY <1>1, SameUnits
<1>3. CASE RunReclaimed
  <2>1. StageOK'
    BY <1>1, <1>3 DEF RunReclaimed, IInv, StageOK
  <2>2. CoverOK' /\ TasksOK' /\ ResultOK'
    BY <1>1, <1>3 DEF RunReclaimed, IInv, StageOK, TasksOK, ResultOK, CoverOK, units
  <2> QED
    BY <1>2, <2>1, <2>2 DEF IInv
<1>4. CASE Release
  <2>1. StageOK'
    BY <1>1, <1>4 DEF Release, IInv, StageOK
  <2>2. TasksOK' /\ ResultOK'
    BY <1>1, <1>4 DEF Release, IInv, TasksOK, ResultOK
  <2>3. CoverOK'
    BY <1>1, <1>2, <1>4, CounterReached DEF Release, IInv, CoverOK
  <2> QED
    BY <1>2, <2>1, <2>2, <2>3 DEF IInv
<1>5. CASE CloseJob
  <2>0. job \in Jobs /\ job \in Int
    BY <1>5, MaxJobsAssumption DEF CloseJob, IInv, StageOK, TypeOK
  <2>1. \A j \in Jobs : closed'[j] <=> j < job \/ j = job
    BY <1>5, <2>0 DEF CloseJob, IInv, StageOK, TypeOK
  <2>2. StageOK'
    BY <1>1, <1>5, <2>0, <2>1 DEF CloseJob, IInv, StageOK
  <2>3. TasksOK' /\ ResultOK'
    BY <1>1, <1>5 DEF CloseJob, IInv, TasksOK, ResultOK
  <2>4. CoverOK'
    BY <1>1, <1>2, <1>5 DEF CloseJob, IInv, CoverOK
  <2> QED
    BY <1>2, <2>2, <2>3, <2>4 DEF IInv
<1>6. CASE Call
  <2>1. StageOK'
    BY <1>1, <1>6 DEF Call, IInv, StageOK
  <2>2. TasksOK' /\ ResultOK' /\ CoverOK'
    BY <1>1, <1>6 DEF Call, IInv, TasksOK, ResultOK, CoverOK
  <2> QED
    BY <1>2, <2>1, <2>2 DEF IInv
<1>7. CASE RequestCancel
  <2>1. StageOK' /\ TasksOK' /\ ResultOK' /\ CoverOK'
    BY <1>1, <1>7 DEF RequestCancel, IInv, StageOK, TasksOK, ResultOK, CoverOK, units
  <2> QED
    BY <1>2, <2>1 DEF IInv
<1> QED
  BY <1>3, <1>4, <1>5, <1>6, <1>7

(* When the call returns nobody is inside, and a success means that every    *)
(* unit was settled, hence applied.                                          *)
LEMMA FinishFacts ==
  ASSUME IInv, Finish
  PROVE  /\ \A t \in Threads : pc[t] \notin Inside
         /\ result' => \A u \in Units : applied[u] = 1
<1>1. dpc = "drain" /\ \A w \in Workers : pc[w] = "idle"
  BY DEF Finish, IInv, StageOK
<1>2. pc[Pump] \notin Inside
  <2>1. pc[Pump] \in Inside => pc[Pump] \in Registered /\ Pump \in applies[job]
    BY DEF IInv, StageOK, Inside, Registered
  <2> QED
    BY <2>1 DEF Finish
<1>3. \A t \in Threads : pc[t] \notin Inside
  BY <1>1, <1>2 DEF Threads, Inside, Holding
<1>4. result' => \A u \in Units : applied[u] = 1
  <2> SUFFICES ASSUME AllCounted, ~failed, NEW u \in Units PROVE applied[u] = 1
    BY DEF Finish
  <2>1. Settled(u)
    BY CounterReached DEF IInv
  <2>2. Free(u)
    BY <2>1, <1>3 DEF Settled, Free, Applying, Inside, Holding
  <2> QED
    BY <2>2 DEF IInv, AppliedOK
<1> QED
  BY <1>3, <1>4

LEMMA FinishInv == ASSUME IInv, TypeOK', Finish PROVE IInv'
<1> USE DEF Finish, threads
<1>1. HoldOK' /\ CountOK' /\ AppliedOK'
  BY SameUnits
<1>2. StageOK'
  <2>1. pc'[Pump] \notin Inside
    BY FinishFacts DEF Threads
  <2> QED
    BY <2>1 DEF IInv, StageOK
<1>3. ResultOK'
  BY FinishFacts DEF ResultOK
<1>4. TasksOK' /\ CoverOK'
  BY DEF IInv, TasksOK, CoverOK
<1> QED
  BY <1>1, <1>2, <1>3, <1>4 DEF IInv

LEMMA DeadlineInv == ASSUME IInv, TypeOK', NEW u \in Units, DeadlinePasses(u) PROVE IInv'
<1> USE DEF DeadlinePasses, threads, dispatcher
<1>1. \A v \in Units : Settled(v)' <=> Settled(v)
  BY DEF Settled
<1>2. CountOK'
  BY <1>1, SameCount DEF IInv
<1>3. StageOK' /\ TasksOK' /\ HoldOK'
  BY DEF IInv, StageOK, TasksOK, HoldOK
<1>4. AppliedOK' /\ ResultOK' /\ CoverOK'
  BY <1>1 DEF IInv, AppliedOK, Free, ResultOK, CoverOK
<1> QED
  BY <1>2, <1>3, <1>4 DEF IInv

LEMMA StutterInv == ASSUME IInv, UNCHANGED vars PROVE IInv'
<1> USE DEF vars, threads, dispatcher, units
<1>1. HoldOK' /\ CountOK' /\ AppliedOK' /\ \A u \in Units : Settled(u)' <=> Settled(u)
  BY SameUnits
<1>2. TypeOK' /\ StageOK' /\ TasksOK'
  BY DEF IInv, TypeOK, StageOK, TasksOK
<1>3. ResultOK' /\ CoverOK'
  BY <1>1 DEF IInv, ResultOK, CoverOK
<1> QED
  BY <1>1, <1>2, <1>3 DEF IInv

-----------------------------------------------------------------------------

LEMMA InvStep == IInv /\ [Next]_vars => IInv'
<1> SUFFICES ASSUME IInv, [Next]_vars PROVE IInv'
  OBVIOUS
<1>0. TypeOK'
  BY TypeStep DEF IInv
<1>1. ASSUME NEW t \in Threads, Complete(t) PROVE IInv'
  BY <1>0, <1>1, EnterInv, CheckInv, ClaimInv, ApplySucceedsInv, ApplyFailsInv, ExpireNowInv,
     ReopenInv, CountInv, LeaveInv DEF Complete
<1>2. ASSUME NEW w \in Workers, LocalThread(w) PROVE IInv'
  BY <1>0, <1>2, TakeUnitInv, ExecutedInv, GiveUpInv DEF LocalThread
<1>3. CASE Dispatcher
  BY <1>0, <1>3, StartInv, DispatchInv, LocalDoneInv, ReclaimInv, LoopInv, FinishInv
  DEF Dispatcher, SomeDispatch
<1>4. CASE Call \/ RequestCancel
  BY <1>0, <1>4, LoopInv
<1>5. ASSUME NEW u \in Units, DeadlinePasses(u) PROVE IInv'
  BY <1>0, <1>5, DeadlineInv
<1>6. ASSUME NEW x \in tasks, ResultArrives(x[1], x[2], x[3]) PROVE IInv'
  BY <1>0, <1>6, ResultArrivesInv
<1>7. CASE UNCHANGED vars
  BY <1>7, StutterInv
<1> QED
  BY <1>1, <1>2, <1>3, <1>4, <1>5, <1>6, <1>7 DEF Next

(* The invariant of the job holds in every state.                            *)
THEOREM Inductive == Spec => []IInv
BY InvInit, InvStep, PTL DEF Spec

(* When run_compute_job has returned, and during the next call, no thread is *)
(* between the closed check and the count of a unit of the old job.          *)
THEOREM NothingAppliedAfterReturn == Spec => []NoApplyAfterReturn
<1>1. IInv => NoApplyAfterReturn
  BY WhereInside DEF NoApplyAfterReturn
<1> QED
  BY <1>1, Inductive, PTL

(* No unit is in the hands of two appliers.                                  *)
THEOREM OneApplierPerUnit == Spec => []OneApplier
<1>1. IInv => OneApplier
  BY DEF IInv, HoldOK, OneApplier
<1> QED
  BY <1>1, Inductive, PTL

(* The counter the dispatcher waits for is exact.                            *)
THEOREM CounterExact == Spec => []CompletedExact
<1>1. IInv => CompletedExact
  BY DEF IInv, CountOK, SettledUnits, CompletedExact
<1> QED
  BY <1>1, Inductive, PTL

(* A call that returns true has applied each of its results exactly once.    *)
THEOREM SuccessIsComplete == Spec => []SuccessMeansApplied
<1>1. IInv => SuccessMeansApplied
  BY DEF IInv, ResultOK, SuccessMeansApplied
<1> QED
  BY <1>1, Inductive, PTL

(* A call nobody cancelled leaves its loops only when all units are done.    *)
THEOREM CompletesUnlessCancelled == Spec => []UncancelledCompletes
<1>1. IInv => UncancelledCompletes
  BY CounterReached DEF IInv, CoverOK, UncancelledCompletes
<1> QED
  BY <1>1, Inductive, PTL

(* While the dispatcher waits no unit is open and forgotten.                 *)
THEOREM NobodyStranded == Spec => []NoUnitStranded
<1>1. IInv => NoUnitStranded
  BY DEF IInv, CoverOK, NoUnitStranded
<1> QED
  BY <1>1, Inductive, PTL

-----------------------------------------------------------------------------
(* Refinement: a call opens the contract, a new job plans all the units, a   *)
(* successful application delivers, and Finish returns.                      *)

delivered == {u \in Units : applied[u] > 0}

LEMMA StaysOpen ==
  ASSUME UNCHANGED <<job, applied, result>>, (dpc # "idle") <=> (dpc' # "idle")
  PROVE  UNCHANGED Contract!vars
BY DEF Contract!vars

LEMMA ThreadImplements ==
  ASSUME IInv, IInv', NEW t \in Threads, Complete(t) PROVE [Contract!Next]_(Contract!vars)
<1>1. CASE ApplySucceeds(t)
  <2>1. pc[t] = "apply" /\ pc[t] \in Holding
    BY <1>1 DEF ApplySucceeds, Goto, Holding
  <2>2. /\ unit[t] \in Units /\ job \in Jobs /\ dpc # "idle"
    BY <2>1, HolderFacts
  <2>3. applied[unit[t]] = 0
    BY <2>1, <2>2 DEF IInv, AppliedOK, Free, Applying
  <2>4. /\ applied'[unit[t]] = 1
        /\ \A u \in Units \ {unit[t]} : applied'[u] = applied[u]
    BY <1>1, <2>2, <2>3 DEF ApplySucceeds, IInv, TypeOK
  <2>5. delivered' = delivered \cup {unit[t]} /\ unit[t] \notin delivered
    BY <2>2, <2>3, <2>4 DEF delivered
  <2>6. job # 0
    BY <2>2 DEF Jobs
  <2>7. UNCHANGED <<job, dpc, result>>
    BY <1>1 DEF ApplySucceeds, dispatcher
  <2>8. PICK i \in Units : i = unit[t]
    BY <2>2
  <2>9. Contract!Deliver(i)
    BY <2>2, <2>5, <2>6, <2>7, <2>8 DEF Contract!Deliver, delivered
  <2> QED
    BY <2>9 DEF Contract!Next
<1>2. CASE ~ApplySucceeds(t)
  <2>1. UNCHANGED <<job, applied, result, dpc>>
    BY <1>2 DEF Complete, Enter, Check, Claim, ApplyFails, ExpireNow, Reopen, Count, Leave, dispatcher
  <2> QED
    BY <2>1, StaysOpen
<1> QED
  BY <1>1, <1>2

LEMMA PlanImplements ==
  ASSUME IInv, IInv', StartLocal \/ StartRemote PROVE Contract!Next
<1>1. dpc = "enter" /\ dpc' # "idle" /\ job' = job + 1 /\ result' = result
  BY DEF StartLocal, StartRemote, NewJob
<1>2. job' # 0
  BY <1>1, MaxJobsAssumption DEF IInv, TypeOK
<1>3. {u \in Units : applied'[u] > 0} = {}
  BY DEF StartLocal, StartRemote, NewJob
<1>4. Contract!Plan(Units)
  BY <1>1, <1>2, <1>3 DEF Contract!Plan
<1> QED
  BY <1>4 DEF Contract!Next

LEMMA FinishImplements == ASSUME IInv, IInv', Finish PROVE Contract!Next
<1>1. /\ dpc = "drain" /\ dpc' = "idle" /\ UNCHANGED <<job, applied>> /\ result' \in BOOLEAN
  BY DEF Finish, IInv, TypeOK
<1>2. job # 0
  BY <1>1 DEF IInv, StageOK, Jobs
<1>3. result' => delivered = Units
  BY FinishFacts DEF delivered
<1>4. Contract!Return
  BY <1>1, <1>2, <1>3 DEF Contract!Return, delivered
<1> QED
  BY <1>4 DEF Contract!Next

LEMMA StepImplements ==
  IInv /\ IInv' /\ [Next]_vars => [Contract!Next]_(Contract!vars)
<1> SUFFICES ASSUME IInv, IInv', [Next]_vars PROVE [Contract!Next]_(Contract!vars)
  OBVIOUS
<1>1. CASE Call
  <2>1. Contract!Open
    BY <1>1 DEF Call, Contract!Open, IInv, threads
  <2> QED
    BY <2>1 DEF Contract!Next
<1>2. CASE Dispatcher
  <2>1. CASE LocalDone \/ RunReclaimed \/ Release \/ CloseJob \/ SomeDispatch
    <3>1. UNCHANGED <<job, applied, result>> /\ dpc # "idle" /\ dpc' # "idle"
      BY <2>1 DEF LocalDone, RunReclaimed, Release, CloseJob, SomeDispatch, Dispatch
    <3> QED
      BY <3>1, StaysOpen
  <2>2. ASSUME NEW u \in Units, ReclaimUnit(u) PROVE [Contract!Next]_(Contract!vars)
    BY <2>2, StaysOpen DEF ReclaimUnit
  <2> QED
    BY <1>2, <2>1, <2>2, PlanImplements, FinishImplements DEF Dispatcher
<1>3. ASSUME NEW w \in Workers, LocalThread(w) PROVE [Contract!Next]_(Contract!vars)
  <2>1. UNCHANGED <<job, applied, result, dpc>>
    BY <1>3 DEF LocalThread, TakeUnit, Executed, ExecuteThrows, GiveUpUnit, dispatcher
  <2> QED
    BY <2>1, StaysOpen
<1>4. ASSUME NEW x \in tasks, ResultArrives(x[1], x[2], x[3]) PROVE [Contract!Next]_(Contract!vars)
  BY <1>4, StaysOpen DEF ResultArrives
<1>5. ASSUME NEW u \in Units, DeadlinePasses(u) PROVE [Contract!Next]_(Contract!vars)
  BY <1>5, StaysOpen DEF DeadlinePasses, dispatcher
<1>6. CASE RequestCancel
  BY <1>6, StaysOpen DEF RequestCancel
<1>7. CASE UNCHANGED vars
  BY <1>7, StaysOpen DEF vars, dispatcher
<1> QED
  BY <1>1, <1>2, <1>3, <1>4, <1>5, <1>6, <1>7, ThreadImplements DEF Next

(* run_compute_job implements the contract, for every number of units, nodes *)
(* and threads.                                                              *)
THEOREM ComputeImplementsContract == Spec => ImplementsContract
<1>1. Init => Contract!Init
  <2>1. Init => {u \in Units : applied[u] > 0} = {}
    BY DEF Init
  <2> QED
    BY <2>1 DEF Init, Contract!Init
<1> QED
  BY <1>1, StepImplements, Inductive, PTL DEF Spec, ImplementsContract, Contract!Spec
==============================================================================
