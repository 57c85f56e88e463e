----------------------------- MODULE ThreadPool -----------------------------
(* Core::ThreadPool: workers that sleep on cv_task_ until a task is queued,  *)
(* parallel_for, which shares the chunks of a loop between its caller and    *)
(* the workers, wait_idle, which helps until nothing is left, and shutdown.  *)
(*                                                                           *)
(* Each atomic access outside queue_mutex_ is a step; what is done under it  *)
(* is one step, except that a worker which found nothing to do still holds   *)
(* the mutex (doze) before the condition variable puts it to sleep:          *)
(* shutdown, which does not take the mutex, can come in between.             *)
EXTENDS Integers, Sequences, FiniteSets

CONSTANTS Workers,      \* the jthreads
          Callers,      \* threads that use the pool
          Loopers,      \* bound of the model: callers that use parallel_for
          Sizes,        \* the loops they run: pairs <<total_items, min_chunk>>
          NoTask,       \* a thread that has had no task yet
          MaxCalls      \* bound of the model: calls of each caller

ASSUME ThreadsAssumption ==
  Workers \cap Callers = {} /\ IsFiniteSet(Workers) /\ IsFiniteSet(Callers)
ASSUME SizesAssumption == Sizes \subseteq (Nat \ {0}) \X (Nat \ {0})
ASSUME MaxCallsAssumption == MaxCalls \in Nat \ {0}

Threads == Workers \cup Callers
Tasks == [owner : Callers, call : 1 .. MaxCalls, loop : BOOLEAN]
ASSUME NoTaskAssumption == NoTask \notin Tasks

VARIABLES
  tasks,                \* tasks_, the queue
  active,               \* active_tasks_
  stop, asked, spc,     \* stop_; the workers asked to stop; where shutdown stands
  pc, task, at, last,   \* thread -> where it stands, its task, its chunk [at, last)
  mode, calls,          \* caller -> the call under way; how many it has made
  total, chunk,         \* caller -> size and chunk_size of its last loop
  index, remaining,     \* caller -> current_index and remaining_tasks of it
  done,                 \* history: caller -> how often each item was processed
  kept, ran             \* history: the tasks queued by enqueue, and those that have run

queue == <<tasks, active, kept>>
shut == <<stop, asked, spc>>
run == <<task, at, last>>
call == <<mode, calls>>
loop == <<total, chunk, index, remaining, done>>
vars == <<queue, shut, pc, run, call, loop, ran>>

Larger(a, b) == IF a > b THEN a ELSE b
Smaller(a, b) == IF a < b THEN a ELSE b

(* workers_ is empty once the pool has been shut down.                       *)
ThreadCount == IF spc = "down" THEN 0 ELSE Cardinality(Workers)
ChunkSize(n, minChunk) == Larger(minChunk, Larger(1, n \div (4 * Larger(ThreadCount, 1))))
TasksNeeded(n, size) == Smaller(ThreadCount, (n + size - 1) \div size)

QueueMutexFree == \A w \in Workers : pc[w] # "doze"
ItemsOf(c) == 0 .. total[c] - 1
AllItems == UNION {0 .. s[1] - 1 : s \in Sizes}
Inline(t) == t \in Callers /\ mode[t] = "loop"

Executing == {"fetch", "body", "finish", "signal", "run"}

TypeOK ==
  /\ tasks \in Seq(Tasks) /\ active \in Nat
  /\ stop \in BOOLEAN /\ asked \subseteq Workers
  /\ spc \in {"up", "notify", "ask", "join", "down"}
  /\ pc \in [Threads -> Executing \cup
               {"top", "test", "doze", "asleep", "exit", "idle", "setup", "push", "ring", "await",
                "rest", "help", "drowse", "recheck", "count", "notify", "lost"}]
  /\ mode \in [Callers -> {"none", "loop", "enqueue", "wait"}]
  /\ calls \in [Callers -> 0 .. MaxCalls]
  /\ remaining \in [Callers -> Nat]
  /\ \A t \in Threads : pc[t] = "body" => at[t] < last[t] /\ last[t] <= total[task[t].owner]

Init ==
  /\ tasks = <<>> /\ active = 0 /\ kept = {} /\ ran = {}
  /\ stop = FALSE /\ asked = {} /\ spc = "up"
  /\ pc = [t \in Threads |-> IF t \in Workers THEN "top" ELSE "idle"]
  /\ task = [t \in Threads |-> NoTask]
  /\ at = [t \in Threads |-> 0] /\ last = [t \in Threads |-> 0]
  /\ mode = [c \in Callers |-> "none"] /\ calls = [c \in Callers |-> 0]
  /\ total = [c \in Callers |-> 0] /\ chunk = [c \in Callers |-> 1]
  /\ index = [c \in Callers |-> 0] /\ remaining = [c \in Callers |-> 0]
  /\ done = [c \in Callers |-> <<>>]

Goto(t, from, to) == pc[t] = from /\ pc' = [pc EXCEPT ![t] = to]

-----------------------------------------------------------------------------
(* worker_loop.                                                              *)

Top(w) ==
  /\ Goto(w, "top", IF w \in asked THEN "exit" ELSE "test")
  /\ UNCHANGED <<queue, shut, run, call, loop, ran>>

(* The next task is taken under the lock.                                    *)
Take(t) ==
  /\ task' = [task EXCEPT ![t] = Head(tasks)]
  /\ tasks' = Tail(tasks)
  /\ pc' = [pc EXCEPT ![t] = IF Head(tasks).loop THEN "fetch" ELSE "run"]
  /\ UNCHANGED <<active, kept, at, last>>

(* The predicate of cv_task_, and what follows it.                           *)
Test(w) ==
  /\ QueueMutexFree /\ pc[w] = "test"
  /\ IF tasks # <<>>
       THEN Take(w)
       ELSE /\ Goto(w, "test", IF w \in asked \/ stop THEN "exit" ELSE "doze")
            /\ UNCHANGED <<queue, run>>
  /\ UNCHANGED <<shut, call, loop, ran>>

Sleep(w) ==
  /\ Goto(w, "doze", "asleep")
  /\ UNCHANGED <<queue, shut, run, call, loop, ran>>

(* A condition variable may wake up without a notification.                  *)
SpuriousWakeup(w) ==
  /\ Goto(w, "asleep", "test")
  /\ UNCHANGED <<queue, shut, run, call, loop, ran>>

Run(t) ==
  /\ Goto(t, "run", "count")
  /\ ran' = ran \cup {task[t]}
  /\ UNCHANGED <<queue, shut, run, call, loop>>

(* The end of a task taken from the queue: the last one tells wait_idle.     *)
After(t) == IF t \in Workers THEN "top" ELSE "help"

(* A mistake: fetch_sub taken to return the new value.                       *)
CountDownLate(t) ==
  /\ Goto(t, "count", IF active = 0 THEN "notify" ELSE After(t))
  /\ active' = active - 1
  /\ UNCHANGED <<tasks, kept, shut, run, call, loop, ran>>

CountDown(t) ==
  /\ Goto(t, "count", IF active = 1 THEN "notify" ELSE After(t))
  /\ active' = active - 1
  /\ UNCHANGED <<tasks, kept, shut, run, call, loop, ran>>

NotifyFinished(t) ==
  /\ QueueMutexFree /\ pc[t] = "notify"
  /\ pc' = [s \in Threads |-> IF s = t THEN After(t)
                              ELSE IF pc[s] = "drowse" THEN "recheck" ELSE pc[s]]
  /\ UNCHANGED <<queue, shut, run, call, loop, ran>>

-----------------------------------------------------------------------------
(* worker_task: the body that the caller of parallel_for and its helpers     *)
(* share.                                                                    *)

(* A mistake: the last chunk is not cut at the end of the range.             *)
FetchWhole(t) ==
  LET c == task[t].owner IN
  /\ pc[t] = "fetch"
  /\ index' = [index EXCEPT ![c] = @ + chunk[c]]
  /\ IF index[c] >= total[c]
       THEN /\ Goto(t, "fetch", "finish")
            /\ UNCHANGED run
       ELSE /\ Goto(t, "fetch", "body")
            /\ at' = [at EXCEPT ![t] = index[c]]
            /\ last' = [last EXCEPT ![t] = index[c] + chunk[c]]
            /\ UNCHANGED task
  /\ UNCHANGED <<queue, shut, call, total, chunk, remaining, done, ran>>

Fetch(t) ==
  LET c == task[t].owner IN
  /\ pc[t] = "fetch"
  /\ index' = [index EXCEPT ![c] = @ + chunk[c]]
  /\ IF index[c] >= total[c]
       THEN /\ Goto(t, "fetch", "finish")
            /\ UNCHANGED run
       ELSE /\ Goto(t, "fetch", "body")
            /\ at' = [at EXCEPT ![t] = index[c]]
            /\ last' = [last EXCEPT ![t] = Smaller(index[c] + chunk[c], total[c])]
            /\ UNCHANGED task
  /\ UNCHANGED <<queue, shut, call, total, chunk, remaining, done, ran>>

Body(t) ==
  LET c == task[t].owner IN
  /\ Goto(t, "body", IF at[t] + 1 < last[t] THEN "body" ELSE "fetch")
  /\ at' = [at EXCEPT ![t] = @ + 1]
  /\ done' = [done EXCEPT ![c][at[t]] = @ + 1]
  /\ UNCHANGED <<queue, shut, task, last, call, total, chunk, index, remaining, ran>>

(* Where a thread goes from the end of worker_task.                          *)
Leave(t) == IF Inline(t) THEN "await" ELSE "count"

(* A mistake: fetch_sub taken to return the new value.                       *)
FinishLate(t) ==
  LET c == task[t].owner IN
  /\ Goto(t, "finish", IF remaining[c] = 0 THEN "signal" ELSE Leave(t))
  /\ remaining' = [remaining EXCEPT ![c] = @ - 1]
  /\ UNCHANGED <<queue, shut, run, call, total, chunk, index, done, ran>>

Finish(t) ==
  LET c == task[t].owner IN
  /\ Goto(t, "finish", IF remaining[c] = 1 THEN "signal" ELSE Leave(t))
  /\ remaining' = [remaining EXCEPT ![c] = @ - 1]
  /\ UNCHANGED <<queue, shut, run, call, total, chunk, index, done, ran>>

(* completion_mutex and completion_cv live in the caller's frame.  If the    *)
(* caller has returned, locking them is undefined: the thread goes on, or is *)
(* lost.                                                                     *)
FrameAlive(t) == mode[task[t].owner] = "loop" /\ calls[task[t].owner] = task[t].call

Signal(t) ==
  LET c == task[t].owner IN
  /\ pc[t] = "signal"
  /\ \/ /\ FrameAlive(t)
        /\ pc' = [pc EXCEPT ![t] = Leave(t), ![c] = IF c = t THEN "await"
                                                    ELSE IF @ = "rest" THEN "await" ELSE @]
     \/ /\ ~FrameAlive(t)
        /\ \E to \in {Leave(t), "lost"} : pc' = [pc EXCEPT ![t] = to]
  /\ UNCHANGED <<queue, shut, run, call, loop, ran>>

-----------------------------------------------------------------------------
(* The callers.  A pool is used until it is shut down, and after that.       *)

Begin(c, m) ==
  /\ pc[c] = "idle" /\ calls[c] < MaxCalls /\ spc \in {"up", "down"}
  /\ mode' = [mode EXCEPT ![c] = m]
  /\ calls' = [calls EXCEPT ![c] = @ + 1]
  /\ UNCHANGED <<shut, run, loop, ran>>

BeginLoop(c) ==
  c \in Loopers /\ Begin(c, "loop") /\ Goto(c, "idle", "setup") /\ UNCHANGED queue
BeginWait(c) == Begin(c, "wait") /\ Goto(c, "idle", "help") /\ UNCHANGED queue

(* enqueue: nothing is accepted once stop_ is set.                           *)
Enqueue(c) ==
  LET new == [owner |-> c, call |-> calls[c] + 1, loop |-> FALSE] IN
  /\ QueueMutexFree
  /\ Begin(c, "enqueue")
  /\ Goto(c, "idle", "ring")
  /\ IF stop
       THEN UNCHANGED queue
       ELSE /\ active' = active + 1
            /\ tasks' = Append(tasks, new)
            /\ kept' = kept \cup {new}

(* parallel_for works out its chunks.                                        *)
Setup(c) ==
  /\ Goto(c, "setup", "push")
  /\ \E s \in Sizes :
       LET n == s[1]
           size == ChunkSize(n, s[2])
       IN  /\ total' = [total EXCEPT ![c] = n]
           /\ chunk' = [chunk EXCEPT ![c] = size]
           /\ remaining' = [remaining EXCEPT ![c] = Larger(TasksNeeded(n, size), 1)]
           /\ done' = [done EXCEPT ![c] = [i \in 0 .. n - 1 |-> 0]]
  /\ index' = [index EXCEPT ![c] = 0]
  /\ task' = [task EXCEPT ![c] = [owner |-> c, call |-> calls[c], loop |-> TRUE]]
  /\ UNCHANGED <<queue, shut, at, last, call, ran>>

(* It queues its helpers, if it needs any and the pool is not stopping.      *)
Push(c) ==
  LET helpers == TasksNeeded(total[c], chunk[c]) - 1 IN
  /\ pc[c] = "push"
  /\ helpers > 0 => QueueMutexFree
  /\ IF helpers > 0 /\ ~stop
       THEN /\ active' = active + helpers
            /\ tasks' = tasks \o [i \in 1 .. helpers |-> task[c]]
            /\ Goto(c, "push", "ring")
            /\ UNCHANGED remaining
       ELSE /\ Goto(c, "push", "fetch")
            /\ remaining' = [remaining EXCEPT ![c] = @ - Larger(helpers, 0)]
            /\ UNCHANGED <<tasks, active>>
  /\ UNCHANGED <<kept, shut, run, call, total, chunk, index, done, ran>>

(* notify_all for a loop, which goes on with its own share of the work, and  *)
(* notify_one for a task.                                                    *)
RingAll(c) ==
  /\ pc[c] = "ring" /\ mode[c] = "loop"
  /\ pc' = [t \in Threads |-> IF t = c THEN "fetch"
                              ELSE IF pc[t] = "asleep" THEN "test" ELSE pc[t]]
  /\ UNCHANGED <<queue, shut, run, call, loop, ran>>

(* A mistake: a task is queued and nobody told.                              *)
RingNobody(c) ==
  /\ pc[c] = "ring" /\ mode[c] = "enqueue"
  /\ pc' = [pc EXCEPT ![c] = "idle"]
  /\ mode' = [mode EXCEPT ![c] = "none"]
  /\ UNCHANGED <<queue, shut, run, calls, loop, ran>>

RingOne(c) ==
  LET sleepers == {w \in Workers : pc[w] = "asleep"} IN
  /\ pc[c] = "ring" /\ mode[c] = "enqueue"
  /\ IF sleepers = {} THEN pc' = [pc EXCEPT ![c] = "idle"]
     ELSE \E w \in sleepers : pc' = [pc EXCEPT ![c] = "idle", ![w] = "test"]
  /\ mode' = [mode EXCEPT ![c] = "none"]
  /\ UNCHANGED <<queue, shut, run, calls, loop, ran>>

Return(c) ==
  /\ pc' = [pc EXCEPT ![c] = "idle"]
  /\ mode' = [mode EXCEPT ![c] = "none"]
  /\ UNCHANGED <<queue, shut, run, calls, loop, ran>>

(* A mistake: all chunks are handed out, hence done.                         *)
AwaitChunks(c) ==
  /\ pc[c] = "await"
  /\ IF index[c] >= total[c]
       THEN Return(c)
       ELSE /\ pc' = [pc EXCEPT ![c] = "rest"]
            /\ UNCHANGED <<queue, shut, run, call, loop, ran>>

(* The predicate of completion_cv, under completion_mutex.                   *)
Await(c) ==
  /\ pc[c] = "await"
  /\ IF remaining[c] = 0
       THEN Return(c)
       ELSE /\ pc' = [pc EXCEPT ![c] = "rest"]
            /\ UNCHANGED <<queue, shut, run, call, loop, ran>>

(* A mistake: an empty queue is taken for an idle pool.                      *)
HelpOnly(c) ==
  /\ QueueMutexFree /\ pc[c] = "help"
  /\ IF tasks # <<>>
       THEN Take(c) /\ UNCHANGED <<shut, call, loop, ran>>
       ELSE Return(c)

(* wait_idle runs what is queued, then waits for what is running.            *)
Help(c) ==
  /\ QueueMutexFree /\ pc[c] = "help"
  /\ \/ /\ tasks # <<>> /\ Take(c)
        /\ UNCHANGED <<shut, call, loop, ran>>
     \/ tasks = <<>> /\ active = 0 /\ Return(c)
     \/ /\ tasks = <<>> /\ active # 0
        /\ pc' = [pc EXCEPT ![c] = "drowse"]
        /\ UNCHANGED <<queue, shut, run, call, loop, ran>>

(* The predicate of cv_finished_ after a notification.                       *)
Recheck(c) ==
  /\ QueueMutexFree /\ pc[c] = "recheck"
  /\ IF tasks = <<>> /\ active = 0
       THEN Return(c)
       ELSE /\ pc' = [pc EXCEPT ![c] = "drowse"]
            /\ UNCHANGED <<queue, shut, run, call, loop, ran>>

-----------------------------------------------------------------------------
(* shutdown, by the owner of the pool when nobody is inside a call.          *)

StoreStop ==
  /\ spc = "up" /\ \A c \in Callers : mode[c] = "none"
  /\ stop' = TRUE /\ spc' = "notify"
  /\ UNCHANGED <<queue, asked, pc, run, call, loop, ran>>

NotifyStop ==
  /\ spc = "notify"
  /\ pc' = [t \in Threads |-> IF pc[t] = "asleep" THEN "test" ELSE pc[t]]
  /\ spc' = IF Workers = {} THEN "join" ELSE "ask"
  /\ UNCHANGED <<queue, stop, asked, run, call, loop, ran>>

RequestStop(w) ==
  /\ spc = "ask" /\ w \notin asked
  /\ asked' = asked \cup {w}
  /\ spc' = IF asked' = Workers THEN "join" ELSE "ask"
  /\ UNCHANGED <<queue, stop, pc, run, call, loop, ran>>

Join ==
  /\ spc = "join" /\ \A w \in Workers : pc[w] = "exit"
  /\ spc' = "down"
  /\ UNCHANGED <<queue, stop, asked, pc, run, call, loop, ran>>

-----------------------------------------------------------------------------

Execute(t) ==
  \/ Run(t) \/ CountDown(t) \/ NotifyFinished(t)
  \/ Fetch(t) \/ Body(t) \/ Finish(t) \/ Signal(t)
Work(w) == Top(w) \/ Test(w) \/ Sleep(w) \/ Execute(w)
Proceed(c) ==
  \/ Setup(c) \/ Push(c) \/ RingAll(c) \/ RingOne(c) \/ Await(c)
  \/ Help(c) \/ Recheck(c) \/ Execute(c)
Shutdown == StoreStop \/ NotifyStop \/ Join \/ \E w \in Workers : RequestStop(w)
ShutdownGoesOn == NotifyStop \/ Join \/ \E w \in Workers : RequestStop(w)

Next ==
  \/ \E w \in Workers : Work(w) \/ SpuriousWakeup(w)
  \/ \E c \in Callers : Proceed(c) \/ BeginLoop(c) \/ BeginWait(c) \/ Enqueue(c)
  \/ Shutdown

Spec == Init /\ [][Next]_vars

(* Every thread runs, and obtains the mutex although wake-ups without a      *)
(* notification may take it again and again.                                 *)
FairSpec == /\ Spec
            /\ \A w \in Workers : SF_vars(Work(w))
            /\ \A c \in Callers : SF_vars(Proceed(c))
            /\ WF_vars(ShutdownGoesOn)

-----------------------------------------------------------------------------

(* When parallel_for has returned, every item of its range has been          *)
(* processed exactly once, whoever took which chunk.                         *)
LoopCovers ==
  \A c \in Callers : mode[c] # "loop" => \A i \in ItemsOf(c) : done[c][i] = 1

(* active_tasks_ counts the queued tasks and those being executed, which is  *)
(* what wait_idle goes by.                                                   *)
Unfinished ==
  {t \in Threads : ~Inline(t) /\ pc[t] \in Executing \cup {"count", "lost"}}
ActiveExact == active = Len(tasks) + Cardinality(Unfinished)

(* When wait_idle returns, every task enqueued so far has run, whoever       *)
(* enqueued it, and none is in the hands of a worker.                        *)
WaitIdleMeansDone ==
  [][\A c \in Callers : mode[c] = "wait" /\ mode'[c] = "none" => kept \subseteq ran]_vars

(* Nobody sleeps on a queue that has work and no one to ring for it: if all  *)
(* workers sleep, whoever queued the task is about to wake one.              *)
NoSleepOverWork ==
  (tasks # <<>> /\ spc = "up" /\ \A w \in Workers : pc[w] = "asleep") =>
    \E c \in Callers : pc[c] = "ring"

(* parallel_for and wait_idle return.  A thread that was lost in a frame     *)
(* that is gone may keep others waiting.                                     *)
NobodyLost == \A t \in Threads : pc[t] # "lost"
LoopReturns == \A c \in Callers : mode[c] = "loop" ~> (mode[c] # "loop" \/ ~NobodyLost)
WaitReturns == \A c \in Callers : mode[c] = "wait" ~> (mode[c] # "wait" \/ ~NobodyLost)

(* parallel_for implements the contract of a call that borrows memory.       *)
Contract(c) == INSTANCE WorkContract
                 WITH Items <- AllItems, open <- mode[c] = "loop", wanted <- ItemsOf(c),
                      delivered <- {i \in ItemsOf(c) : done[c][i] > 0},
                      result <- mode[c] # "loop" /\ total[c] > 0
ImplementsContract ==
  /\ \A c \in Callers : Contract(c)!Init
  /\ [][\A c \in Callers : [Contract(c)!Next]_(Contract(c)!vars)]_vars

(* What does not hold.  The results of the pool's tests are said not to      *)
(* depend on the scheduling order.                                           *)

(* Shutting the pool down ends.                                              *)
ShutdownReturns == (spc # "up") ~> (spc = "down")

(* The mutex of a loop is locked only while its caller is in parallel_for.   *)
NoTouchAfterReturn == \A t \in Threads : pc[t] = "signal" => FrameAlive(t)
==============================================================================
