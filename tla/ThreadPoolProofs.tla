--------------------------- MODULE ThreadPoolProofs ---------------------------
(* Proofs about ThreadPool for every number of workers and callers, every    *)
(* loop and every number of calls.                                           *)
EXTENDS ThreadPool, FiniteSetTheorems, TLAPS

-----------------------------------------------------------------------------
(* The inductive invariant, in parts.                                        *)

Places == Executing \cup
  {"top", "test", "doze", "asleep", "exit", "idle", "setup", "push", "ring", "await", "rest", "help",
   "drowse", "recheck", "count", "notify", "lost"}
Sharing == {"fetch", "body", "finish"}
Inside == {"fetch", "body", "finish", "signal", "await", "rest"}
Unowned == {"top", "test", "doze", "asleep", "exit", "notify"}
Waiting == {"help", "drowse", "recheck", "notify"}

(* The types, but for the two counters: that they never become negative is   *)
(* what is to be shown.                                                      *)
ShapeOK ==
  /\ tasks \in Seq(Tasks) /\ active \in Int
  /\ stop \in BOOLEAN /\ asked \subseteq Workers
  /\ spc \in {"up", "notify", "ask", "join", "down"}
  /\ pc \in [Threads -> Places]
  /\ task \in [Threads -> Tasks \cup {NoTask}]
  /\ at \in [Threads -> Nat] /\ last \in [Threads -> Nat]
  /\ mode \in [Callers -> {"none", "loop", "enqueue", "wait"}]
  /\ calls \in [Callers -> 0 .. MaxCalls]
  /\ total \in [Callers -> Nat] /\ chunk \in [Callers -> Nat \ {0}]
  /\ index \in [Callers -> Nat] /\ remaining \in [Callers -> Int]
  /\ DOMAIN done = Callers /\ \A c \in Callers : done[c] \in [ItemsOf(c) -> Nat]

(* Where a thread can stand, and with what in its hands.                     *)
WorkerOK(w) == pc[w] \in Unowned \cup Executing \cup {"count", "lost"}
CallerOK(c) ==
  /\ mode[c] = "none" => pc[c] = "idle"
  /\ mode[c] = "enqueue" => pc[c] = "ring"
  /\ mode[c] = "loop" => pc[c] \in Inside \cup {"setup", "push", "ring"}
  /\ mode[c] = "wait" => pc[c] \in Waiting \cup Executing \cup {"count", "lost"}
  /\ mode[c] = "loop" /\ pc[c] # "setup" =>
       /\ task[c] = [owner |-> c, call |-> calls[c], loop |-> TRUE]
       /\ \E s \in Sizes : total[c] = s[1]
  /\ mode[c] # "none" => calls[c] \in 1 .. MaxCalls
HandOK(t) ==
  /\ pc[t] \in Sharing \cup {"signal"} => task[t] \in Tasks /\ task[t].loop
  /\ pc[t] = "run" => task[t] \in Tasks /\ ~task[t].loop
StopOK ==
  /\ stop <=> spc # "up"
  /\ (\E c \in Callers : mode[c] # "none") => spc \in {"up", "down"}
PlaceOK ==
  /\ \A w \in Workers : WorkerOK(w)
  /\ \A c \in Callers : CallerOK(c)
  /\ \A t \in Threads : HandOK(t)
  /\ StopOK

(* A helper that is queued or at work belongs to the call its owner is in.   *)
Open(k) ==
  /\ mode[k.owner] = "loop" /\ calls[k.owner] = k.call
  /\ pc[k.owner] \notin {"setup", "push"}
HelpersOK ==
  /\ \A i \in 1 .. Len(tasks) : tasks[i].loop => Open(tasks[i])
  /\ \A t \in Threads : pc[t] \in Sharing => Open(task[t])

(* remaining_tasks is exact: the helpers still queued, those at work, and    *)
(* the caller itself.                                                        *)
Positions(s, c) == {i \in 1 .. Len(s) : s[i].loop /\ s[i].owner = c}
Sharers(c) == {t \in Threads : \/ pc[t] \in Sharing /\ task[t].owner = c
                               \/ pc[t] = "ring" /\ t = c}
RemainingOK ==
  \A c \in Callers : mode[c] = "loop" =>
    /\ pc[c] = "push" => remaining[c] = Larger(TasksNeeded(total[c], chunk[c]), 1)
    /\ pc[c] \notin {"setup", "push"} =>
         remaining[c] = Cardinality(Positions(tasks, c)) + Cardinality(Sharers(c))

(* The chunks handed out are disjoint, and an item below the index has been  *)
(* processed unless somebody holds it.                                       *)
Holds(t, c) == pc[t] = "body" /\ task[t].owner = c
ChunksOK ==
  /\ \A c \in Callers : \A t \in Threads : Holds(t, c) =>
       /\ at[t] < last[t] /\ last[t] <= total[c] /\ last[t] <= index[c]
       /\ \A u \in Threads \ {t} : Holds(u, c) => last[t] <= at[u] \/ last[u] <= at[t]
  /\ \A c \in Callers : \A i \in ItemsOf(c) :
       done[c][i] = IF i < index[c] /\ ~\E t \in Threads : Holds(t, c) /\ i \in at[t] .. last[t] - 1
                      THEN 1 ELSE 0

(* Nobody stops fetching before the range is exhausted.                      *)
ExhaustedOK ==
  \A c \in Callers :
    mode[c] # "loop" \/ pc[c] \in {"setup", "finish", "signal", "await", "rest"}
      => index[c] >= total[c]

(* A task that enqueue accepted has run, is queued, or is about to run.      *)
KeptOK ==
  \A k \in kept :
    /\ k \in Tasks /\ ~k.loop
    /\ \/ k \in ran
       \/ \E i \in 1 .. Len(tasks) : tasks[i] = k
       \/ \E t \in Threads : pc[t] = "run" /\ task[t] = k

(* A worker on its way to sleep has seen an empty queue, and holds the mutex *)
(* so that it stays empty.                                                   *)
SleepOK == (\E w \in Workers : pc[w] = "doze") => tasks = <<>>

IInv ==
  /\ ShapeOK /\ PlaceOK /\ HelpersOK /\ RemainingOK /\ ChunksOK /\ ExhaustedOK
  /\ ActiveExact /\ KeptOK /\ SleepOK

-----------------------------------------------------------------------------
(* Arithmetic of the chunks.                                                 *)

LEMMA ThreadCountType == ThreadCount \in Nat
BY ThreadsAssumption, FS_CardinalityType DEF ThreadCount

LEMMA ChunkSizeType ==
  ASSUME NEW n \in Nat, NEW m \in Nat \ {0} PROVE ChunkSize(n, m) \in Nat \ {0}
<1>1. Larger(ThreadCount, 1) \in Nat \ {0}
  BY ThreadCountType DEF Larger
<1>2. 4 * Larger(ThreadCount, 1) \in Nat \ {0}
  BY <1>1
<1>3. n \div (4 * Larger(ThreadCount, 1)) \in Nat
  BY <1>2
<1> QED
  BY <1>3 DEF ChunkSize, Larger

LEMMA TasksNeededType ==
  ASSUME NEW n \in Nat, NEW size \in Nat \ {0}
  PROVE  TasksNeeded(n, size) \in Nat
<1>1. (n + size - 1) \div size \in Nat
  OBVIOUS
<1> QED
  BY <1>1, ThreadCountType DEF TasksNeeded, Smaller

-----------------------------------------------------------------------------
(* Shapes.                                                                   *)

LEMMA SizesShape == ASSUME NEW s \in Sizes PROVE s[1] \in Nat \ {0} /\ s[2] \in Nat \ {0}
BY SizesAssumption

LEMMA TakeShape ==
  ASSUME ShapeOK, NEW t \in Threads, Take(t), tasks # <<>>, UNCHANGED <<shut, call, loop>>
  PROVE  ShapeOK'
<1>1. tasks' \in Seq(Tasks) /\ Head(tasks) \in Tasks
  BY DEF ShapeOK, Take
<1>2. task' \in [Threads -> Tasks \cup {NoTask}] /\ pc' \in [Threads -> Places]
  BY <1>1 DEF ShapeOK, Take, Places, Executing
<1>3. UNCHANGED <<active, kept, at, last, stop, asked, spc, mode, calls, total, chunk, index,
                  remaining, done>>
  BY DEF Take, shut, call, loop
<1> QED
  BY <1>1, <1>2, <1>3 DEF ShapeOK, ItemsOf

(* An action that leaves alone all but pc, and what a thread may count.      *)
LEMMA PcShape ==
  ASSUME ShapeOK, UNCHANGED <<tasks, stop, task, at, last, total, chunk, index, remaining, done>>,
         pc' \in [Threads -> Places], active' \in Int, asked' \subseteq Workers,
         spc' \in {"up", "notify", "ask", "join", "down"},
         mode' \in [Callers -> {"none", "loop", "enqueue", "wait"}],
         calls' \in [Callers -> 0 .. MaxCalls]
  PROVE  ShapeOK'
BY DEF ShapeOK, ItemsOf

LEMMA WorkerShape ==
  ASSUME ShapeOK, NEW w \in Workers, Top(w) \/ Test(w) \/ Sleep(w) \/ SpuriousWakeup(w)
  PROVE  ShapeOK'
<1>0. w \in Threads
  BY DEF Threads
<1>1. CASE tasks # <<>> /\ Test(w)
  BY <1>0, <1>1, TakeShape DEF Test
<1>2. CASE ~(tasks # <<>> /\ Test(w))
  <2>1. UNCHANGED <<queue, shut, run, call, loop, ran>> /\ \E x \in Places : pc' = [pc EXCEPT ![w] = x]
    BY <1>2 DEF Test, Top, Sleep, SpuriousWakeup, Goto, Places, Executing
  <2>2. pc' \in [Threads -> Places]
    BY <2>1 DEF ShapeOK, Places, Executing
  <2> QED
    BY <2>1, <2>2, PcShape DEF ShapeOK, queue, shut, run, call, loop
<1> QED
  BY <1>1, <1>2

LEMMA OneMore ==
  ASSUME NEW S, NEW f \in [S -> Nat], NEW x PROVE [f EXCEPT ![x] = @ + 1] \in [S -> Nat]
<1>1. CASE x \in S
  BY <1>1
<1>2. CASE x \notin S
  BY <1>2
<1> QED
  BY <1>1, <1>2

LEMMA ExecuteShape ==
  ASSUME ShapeOK, PlaceOK, NEW t \in Threads, Execute(t) PROVE ShapeOK'
<1> DEFINE c == task[t].owner
<1>1. CASE Run(t) \/ CountDown(t) \/ NotifyFinished(t)
  <2>1. /\ UNCHANGED <<tasks, kept, shut, run, call, loop>> /\ active' \in Int
    BY <1>1 DEF Run, CountDown, NotifyFinished, queue, ShapeOK
  <2>2. pc' \in [Threads -> Places]
    BY <1>1 DEF Run, CountDown, NotifyFinished, Goto, After, ShapeOK, Places, Executing
  <2> QED
    BY <2>1, <2>2, PcShape DEF ShapeOK, shut, run, call, loop
<1>2. CASE Fetch(t)
  <2>0. c \in Callers
    BY <1>2 DEF Fetch, PlaceOK, HandOK, Sharing, Tasks
  <2>1. /\ UNCHANGED <<tasks, active, stop, asked, spc, task, mode, calls, total, chunk, remaining, done>>
    BY <1>2 DEF Fetch, queue, shut, call, run
  <2>2. pc' \in [Threads -> Places]
    BY <1>2 DEF Fetch, Goto, ShapeOK, Places, Executing
  <2>3. index[c] \in Nat /\ chunk[c] \in Nat /\ total[c] \in Nat
    BY <2>0 DEF ShapeOK
  <2>4. index' = [index EXCEPT ![c] = index[c] + chunk[c]]
    BY <1>2 DEF Fetch
  <2>5. index' \in [Callers -> Nat]
    <3>1. \A x \in Nat : [index EXCEPT ![c] = x] \in [Callers -> Nat]
      BY DEF ShapeOK
    <3> QED
      BY <2>3, <2>4, <3>1
  <2>6. \/ at' = at /\ last' = last
        \/ /\ at' = [at EXCEPT ![t] = index[c]]
           /\ last' = [last EXCEPT ![t] = Smaller(index[c] + chunk[c], total[c])]
    BY <1>2 DEF Fetch, run
  <2>7. Smaller(index[c] + chunk[c], total[c]) \in Nat
    BY <2>3 DEF Smaller
  <2>8. at' \in [Threads -> Nat] /\ last' \in [Threads -> Nat]
    BY ZenonT(40), <2>3, <2>6, <2>7 DEF ShapeOK
  <2> QED
    BY <2>1, <2>2, <2>5, <2>8 DEF ShapeOK, ItemsOf
<1>3. CASE Body(t)
  <2>0. c \in Callers
    BY <1>3 DEF Body, Goto, PlaceOK, HandOK, Sharing, Tasks
  <2>1. /\ UNCHANGED <<tasks, active, stop, asked, spc, task, last, mode, calls, total, chunk, index, remaining>>
    BY <1>3 DEF Body, queue, shut, call
  <2>2. pc' \in [Threads -> Places] /\ at' \in [Threads -> Nat]
    BY <1>3 DEF Body, Goto, ShapeOK, Places, Executing
  <2>3. done' = [done EXCEPT ![c][at[t]] = @ + 1]
    BY <1>3 DEF Body
  <2>4. done[c] \in [ItemsOf(c) -> Nat] /\ DOMAIN done = Callers
    BY <2>0 DEF ShapeOK
  <2>5. /\ done' = [done EXCEPT ![c] = [done[c] EXCEPT ![at[t]] = @ + 1]]
        /\ [done[c] EXCEPT ![at[t]] = @ + 1] \in [ItemsOf(c) -> Nat]
    BY <2>0, <2>3, <2>4, OneMore
  <2>6. DOMAIN done' = Callers /\ \A d \in Callers : done'[d] \in [ItemsOf(d) -> Nat]
    BY <2>4, <2>5 DEF ShapeOK
  <2> QED
    BY <2>1, <2>2, <2>6 DEF ShapeOK, ItemsOf
<1>4. CASE Finish(t)
  <2>0. c \in Callers
    BY <1>4 DEF Finish, Goto, PlaceOK, HandOK, Sharing, Tasks
  <2>1. /\ UNCHANGED <<tasks, active, stop, asked, spc, task, at, last, mode, calls, total, chunk, index, done>>
    BY <1>4 DEF Finish, queue, shut, call, run
  <2>2. pc' \in [Threads -> Places] /\ remaining' \in [Callers -> Int]
    BY <1>4, <2>0 DEF Finish, Goto, Leave, ShapeOK, Places, Executing
  <2> QED
    BY <2>1, <2>2 DEF ShapeOK, ItemsOf
<1>5. CASE Signal(t)
  <2>1. pc' \in [Threads -> Places]
    BY <1>5 DEF Signal, Leave, ShapeOK, Places, Executing
  <2> QED
    BY <1>5, <2>1, PcShape DEF Signal, ShapeOK, queue, shut, run, call, loop
<1> QED
  BY <1>1, <1>2, <1>3, <1>4, <1>5 DEF Execute

LEMMA BeginShape ==
  ASSUME ShapeOK, NEW c \in Callers, BeginLoop(c) \/ BeginWait(c) \/ Enqueue(c) PROVE ShapeOK'
<1>1. PICK m \in {"loop", "enqueue", "wait"} : Begin(c, m)
  BY DEF BeginLoop, BeginWait, Enqueue
<1>2. /\ mode' \in [Callers -> {"none", "loop", "enqueue", "wait"}]
      /\ UNCHANGED <<stop, asked, spc, task, at, last, total, chunk, index, remaining, done>>
  BY <1>1 DEF Begin, ShapeOK, shut, run, loop
<1>3. calls' \in [Callers -> 0 .. MaxCalls]
  <2>1. calls[c] \in 0 .. MaxCalls /\ calls[c] < MaxCalls /\ calls' = [calls EXCEPT ![c] = @ + 1]
    BY <1>1 DEF Begin, ShapeOK
  <2>2. calls[c] + 1 \in 0 .. MaxCalls
    BY <2>1, MaxCallsAssumption
  <2> QED
    BY <2>1, <2>2 DEF ShapeOK
<1>4. pc' \in [Threads -> Places]
  BY DEF BeginLoop, BeginWait, Enqueue, Goto, ShapeOK, Places, Executing
<1>5. tasks' \in Seq(Tasks) /\ active' \in Int
  <2>1. CASE Enqueue(c) /\ ~stop
    <3> DEFINE new == [owner |-> c, call |-> calls[c] + 1, loop |-> FALSE]
    <3>1. calls[c] + 1 \in 1 .. MaxCalls
      BY <1>1, MaxCallsAssumption DEF Begin, ShapeOK
    <3>2. new \in Tasks
      BY <3>1 DEF Tasks
    <3>3. tasks' = Append(tasks, new) /\ active' = active + 1
      BY <2>1 DEF Enqueue
    <3> HIDE DEF new
    <3> QED
      BY <3>2, <3>3 DEF ShapeOK
  <2>2. CASE ~(Enqueue(c) /\ ~stop)
    BY <2>2 DEF BeginLoop, BeginWait, Enqueue, queue, ShapeOK
  <2> QED
    BY <2>1, <2>2
<1> QED
  BY <1>2, <1>3, <1>4, <1>5 DEF ShapeOK, ItemsOf

LEMMA SetupShape == ASSUME ShapeOK, PlaceOK, NEW c \in Callers, Setup(c) PROVE ShapeOK'
<1>1. PICK s \in Sizes :
        /\ total' = [total EXCEPT ![c] = s[1]]
        /\ chunk' = [chunk EXCEPT ![c] = ChunkSize(s[1], s[2])]
        /\ remaining' = [remaining EXCEPT ![c] = Larger(TasksNeeded(s[1], ChunkSize(s[1], s[2])), 1)]
        /\ done' = [done EXCEPT ![c] = [i \in 0 .. s[1] - 1 |-> 0]]
  BY DEF Setup
<1>2. s[1] \in Nat /\ ChunkSize(s[1], s[2]) \in Nat \ {0}
  BY SizesShape, ChunkSizeType
<1>3. Larger(TasksNeeded(s[1], ChunkSize(s[1], s[2])), 1) \in Int
  BY <1>2, TasksNeededType DEF Larger
<1>4. /\ total' \in [Callers -> Nat] /\ chunk' \in [Callers -> Nat \ {0}]
      /\ remaining' \in [Callers -> Int]
  BY <1>1, <1>2, <1>3 DEF ShapeOK
<1>5. /\ UNCHANGED <<tasks, active, stop, asked, spc, at, last, mode, calls>>
      /\ pc' \in [Threads -> Places] /\ index' \in [Callers -> Nat]
  BY DEF Setup, Goto, ShapeOK, queue, shut, call, Places, Executing
<1>6. task' \in [Threads -> Tasks \cup {NoTask}]
  <2>1. pc[c] = "setup"
    BY DEF Setup, Goto
  <2>2. calls[c] \in 1 .. MaxCalls
    BY <2>1 DEF PlaceOK, CallerOK, ShapeOK
  <2> DEFINE k == [owner |-> c, call |-> calls[c], loop |-> TRUE]
  <2>3. k \in Tasks
    BY <2>2 DEF Tasks
  <2>4. task' = [task EXCEPT ![c] = k]
    BY DEF Setup
  <2> HIDE DEF k
  <2> QED
    BY <2>3, <2>4 DEF ShapeOK
<1>7. DOMAIN done' = Callers /\ \A d \in Callers : done'[d] \in [ItemsOf(d)' -> Nat]
  BY <1>1, <1>2 DEF ShapeOK, ItemsOf
<1> QED
  BY <1>4, <1>5, <1>6, <1>7 DEF ShapeOK

LEMMA HelpersNeeded ==
  ASSUME ShapeOK, NEW c \in Callers
  PROVE  TasksNeeded(total[c], chunk[c]) \in Nat
BY TasksNeededType DEF ShapeOK

LEMMA PushShape == ASSUME ShapeOK, PlaceOK, NEW c \in Callers, Push(c) PROVE ShapeOK'
<1> DEFINE h == TasksNeeded(total[c], chunk[c]) - 1
<1>0. h \in Int
  BY HelpersNeeded
<1>1. /\ UNCHANGED <<stop, asked, spc, task, at, last, mode, calls, total, chunk, index, done>>
      /\ pc' \in [Threads -> Places]
  BY DEF Push, Goto, ShapeOK, shut, run, call, Places, Executing
<1>2. CASE h > 0 /\ ~stop
  <2>1. /\ active' = active + h /\ remaining' = remaining
        /\ tasks' = tasks \o [i \in 1 .. h |-> task[c]]
    BY <1>2 DEF Push
  <2>2. task[c] \in Tasks
    <3>1. pc[c] = "push"
      BY <1>2 DEF Push, Goto
    <3>2. mode[c] = "loop" /\ task[c] = [owner |-> c, call |-> calls[c], loop |-> TRUE]
      BY <3>1 DEF PlaceOK, CallerOK, ShapeOK, Waiting, Executing
    <3>3. calls[c] \in 1 .. MaxCalls
      BY <3>2 DEF PlaceOK, CallerOK
    <3> QED
      BY <3>2, <3>3 DEF Tasks
  <2>3. [i \in 1 .. h |-> task[c]] \in Seq(Tasks)
    BY <1>0, <1>2, <2>2
  <2> HIDE DEF h
  <2>4. tasks' \in Seq(Tasks) /\ active' \in Int
    BY <1>0, <2>1, <2>3 DEF ShapeOK
  <2> QED
    BY <1>1, <2>1, <2>4 DEF ShapeOK, ItemsOf
<1>3. CASE ~(h > 0 /\ ~stop)
  <2>1. tasks' = tasks /\ active' = active /\ remaining' = [remaining EXCEPT ![c] = @ - Larger(h, 0)]
    BY <1>3 DEF Push
  <2>2. remaining' \in [Callers -> Int]
    BY <1>0, <2>1 DEF ShapeOK, Larger
  <2> QED
    BY <1>1, <2>1, <2>2 DEF ShapeOK, ItemsOf
<1> QED
  BY <1>2, <1>3

LEMMA CallerShape ==
  ASSUME ShapeOK, NEW c \in Callers,
         RingAll(c) \/ RingOne(c) \/ Await(c) \/ Help(c) \/ Recheck(c)
  PROVE  ShapeOK'
<1>0. c \in Threads
  BY DEF Threads
<1>1. CASE tasks # <<>> /\ Help(c)
  BY <1>0, <1>1, TakeShape DEF Help
<1>2. CASE ~(tasks # <<>> /\ Help(c))
  <2>1. UNCHANGED <<queue, shut, run, calls, loop, ran>>
    BY <1>2 DEF RingAll, RingOne, Await, Help, Recheck, Return, call
  <2>2. mode' \in [Callers -> {"none", "loop", "enqueue", "wait"}]
    BY <1>2 DEF RingAll, RingOne, Await, Help, Recheck, Return, call, ShapeOK
  <2>3. pc' \in [Threads -> Places]
    <3>1. CASE RingAll(c)
      BY <3>1 DEF RingAll, ShapeOK, Places, Executing
    <3>2. CASE RingOne(c)
      BY ZenonT(40), <3>2 DEF RingOne, ShapeOK, Places, Executing
    <3>3. CASE Await(c) \/ Help(c) \/ Recheck(c)
      BY <1>2, <3>3 DEF Await, Help, Recheck, Return, ShapeOK, Places, Executing
    <3> QED
      BY <3>1, <3>2, <3>3
  <2> QED
    BY <2>1, <2>2, <2>3, PcShape DEF ShapeOK, queue, shut, run, loop
<1> QED
  BY <1>1, <1>2

LEMMA ShutdownShape == ASSUME ShapeOK, Shutdown PROVE ShapeOK'
<1>1. UNCHANGED <<queue, run, call, loop, ran>>
  BY DEF Shutdown, StoreStop, NotifyStop, Join, RequestStop
<1>2. /\ pc' \in [Threads -> Places] /\ asked' \subseteq Workers
      /\ stop' \in BOOLEAN
  BY DEF Shutdown, StoreStop, NotifyStop, Join, RequestStop, ShapeOK, Places, Executing
<1>3. spc' \in {"up", "notify", "ask", "join", "down"}
  BY DEF Shutdown, StoreStop, NotifyStop, Join, RequestStop, ShapeOK
<1> QED
  BY <1>1, <1>2, <1>3 DEF ShapeOK, queue, run, call, loop, ItemsOf

LEMMA ShapeStep == ASSUME ShapeOK, PlaceOK, [Next]_vars PROVE ShapeOK'
<1>1. ASSUME NEW w \in Workers, Work(w) \/ SpuriousWakeup(w) PROVE ShapeOK'
  <2>1. w \in Threads
    BY DEF Threads
  <2> QED
    BY <1>1, <2>1, WorkerShape, ExecuteShape DEF Work
<1>2. ASSUME NEW c \in Callers, Proceed(c) \/ BeginLoop(c) \/ BeginWait(c) \/ Enqueue(c)
      PROVE  ShapeOK'
  <2>1. c \in Threads
    BY DEF Threads
  <2> QED
    BY <1>2, <2>1, SetupShape, PushShape, CallerShape, ExecuteShape, BeginShape DEF Proceed
<1>3. CASE Shutdown
  BY <1>3, ShutdownShape
<1>4. CASE UNCHANGED vars
  BY <1>4 DEF vars, queue, shut, run, call, loop, ShapeOK, ItemsOf
<1> QED
  BY <1>1, <1>2, <1>3, <1>4 DEF Next

-----------------------------------------------------------------------------
(* Places.                                                                   *)

LEMMA TwoKinds ==
  /\ \A t \in Threads : t \in Workers \/ t \in Callers
  /\ \A t \in Workers : t \notin Callers /\ t \in Threads
  /\ \A t \in Callers : t \notin Workers /\ t \in Threads
BY ThreadsAssumption DEF Threads

(* What one thread may do to the place of another: wake it up.               *)
Woken(u) ==
  \/ pc'[u] = pc[u]
  \/ pc[u] = "asleep" /\ pc'[u] = "test"
  \/ pc[u] = "drowse" /\ pc'[u] = "recheck"
  \/ pc[u] = "rest" /\ pc'[u] = "await"

LEMMA PlaceOthers ==
  ASSUME PlaceOK, ShapeOK, NEW t \in Threads,
         \A u \in Threads \ {t} : task'[u] = task[u] /\ Woken(u),
         \A c \in Callers \ {t} : mode'[c] = mode[c] /\ calls'[c] = calls[c] /\ total'[c] = total[c],
         t \in Workers => WorkerOK(t)', t \in Callers => CallerOK(t)', HandOK(t)', StopOK'
  PROVE  PlaceOK'
<1>1. ASSUME NEW w \in Workers PROVE WorkerOK(w)'
  <2>1. CASE w = t
    BY <2>1
  <2>2. CASE w # t
    <3>1. WorkerOK(w) /\ Woken(w)
      BY <2>2, TwoKinds DEF PlaceOK
    <3> QED
      BY <3>1 DEF WorkerOK, Woken, Unowned, Executing
  <2> QED
    BY <2>1, <2>2
<1>2. ASSUME NEW c \in Callers PROVE CallerOK(c)'
  <2>1. CASE c = t
    BY <2>1
  <2>2. CASE c # t
    <3>1. /\ CallerOK(c) /\ Woken(c) /\ task'[c] = task[c]
          /\ mode'[c] = mode[c] /\ calls'[c] = calls[c] /\ total'[c] = total[c]
          /\ mode[c] \in {"none", "loop", "enqueue", "wait"}
      BY <2>2, TwoKinds DEF PlaceOK, ShapeOK
    <3> QED
      BY <3>1 DEF CallerOK, Woken, Inside, Waiting, Executing
  <2> QED
    BY <2>1, <2>2
<1>3. ASSUME NEW u \in Threads PROVE HandOK(u)'
  <2>1. CASE u = t
    BY <2>1
  <2>2. CASE u # t
    <3>1. HandOK(u) /\ Woken(u) /\ task'[u] = task[u]
      BY <2>2 DEF PlaceOK
    <3> QED
      BY <3>1 DEF HandOK, Woken, Sharing
  <2> QED
    BY <2>1, <2>2
<1> QED
  BY <1>1, <1>2, <1>3 DEF PlaceOK

(* A step of one thread that begins or ends no call.                         *)
LEMMA PlaceWithin ==
  ASSUME PlaceOK, ShapeOK, NEW t \in Threads,
         \A u \in Threads \ {t} : task'[u] = task[u] /\ Woken(u),
         UNCHANGED <<mode, calls, total, stop, spc>>,
         t \in Workers => pc'[t] \in Unowned \cup Executing \cup {"count", "lost"},
         t \in Callers /\ mode[t] = "loop" =>
           pc[t] # "setup" /\ pc'[t] \in Inside \cup {"ring"} /\ task'[t] = task[t],
         t \in Callers /\ mode[t] # "loop" =>
           mode[t] = "wait" /\ pc'[t] \in Waiting \cup Executing \cup {"count", "lost"},
         HandOK(t)'
  PROVE  PlaceOK'
<1>1. t \in Workers => WorkerOK(t)'
  BY DEF WorkerOK
<1>2. t \in Callers => CallerOK(t)'
  <2>1. t \in Callers => CallerOK(t)
    BY DEF PlaceOK
  <2>2. CASE t \in Callers /\ mode[t] = "loop"
    BY <2>1, <2>2 DEF CallerOK
  <2>3. CASE t \in Callers /\ mode[t] # "loop"
    BY <2>1, <2>3 DEF CallerOK
  <2> QED
    BY <2>2, <2>3
<1>3. StopOK'
  BY DEF PlaceOK, StopOK
<1> QED
  BY <1>1, <1>2, <1>3, PlaceOthers

LEMMA TakePlace ==
  ASSUME IInv, NEW t \in Threads, Take(t), tasks # <<>>, UNCHANGED <<shut, call, loop>>,
         t \in Callers => mode[t] = "wait"
  PROVE  PlaceOK'
<1>1. /\ UNCHANGED <<mode, calls, total, stop, spc>>
      /\ \A u \in Threads \ {t} : task'[u] = task[u] /\ pc'[u] = pc[u]
      /\ task'[t] = Head(tasks) /\ pc'[t] = IF Head(tasks).loop THEN "fetch" ELSE "run"
      /\ Head(tasks) \in Tasks
  BY DEF Take, shut, call, loop, IInv, ShapeOK
<1>2. HandOK(t)'
  BY <1>1 DEF HandOK, Sharing, Tasks
<1>3. \A u \in Threads \ {t} : Woken(u)
  BY <1>1 DEF Woken
<1>4. pc'[t] \in Executing
  BY <1>1 DEF Executing
<1> QED
  BY <1>1, <1>2, <1>3, <1>4, PlaceWithin DEF IInv

LEMMA WorkerPlace ==
  ASSUME IInv, NEW w \in Workers, Top(w) \/ Test(w) \/ Sleep(w) \/ SpuriousWakeup(w)
  PROVE  PlaceOK'
<1>0. w \in Threads /\ w \notin Callers
  BY TwoKinds
<1>1. CASE tasks # <<>> /\ Test(w)
  BY <1>0, <1>1, TakePlace DEF Test
<1>2. CASE ~(tasks # <<>> /\ Test(w))
  <2>1. /\ UNCHANGED <<shut, run, call, loop>>
        /\ \A u \in Threads \ {w} : pc'[u] = pc[u]
        /\ pc'[w] \in {"exit", "test", "doze", "asleep"}
    BY <1>0, <1>2 DEF Test, Top, Sleep, SpuriousWakeup, Goto, IInv, ShapeOK
  <2>2. HandOK(w)'
    BY <2>1 DEF HandOK, Sharing
  <2> QED
    BY <1>0, <2>1, <2>2, PlaceWithin DEF IInv, Woken, Unowned, shut, run, call, loop
<1> QED
  BY <1>1, <1>2

(* The places from which a thread executes a task.                           *)
LEMMA ExecutePlaces ==
  ASSUME IInv, NEW t \in Threads, pc[t] \in Executing \cup {"count", "notify"}
  PROVE  /\ t \in Callers /\ mode[t] # "loop" => mode[t] = "wait"
         /\ t \in Callers /\ mode[t] = "loop" =>
              /\ pc[t] \in Sharing \cup {"signal"}
              /\ task[t].owner = t /\ task[t].call = calls[t]
<1>1. ASSUME t \in Callers PROVE CallerOK(t) /\ mode[t] \in {"none", "loop", "enqueue", "wait"}
  BY <1>1 DEF IInv, PlaceOK, ShapeOK
<1>2. ASSUME t \in Callers, mode[t] # "loop" PROVE mode[t] = "wait"
  BY <1>1, <1>2 DEF CallerOK, Executing
<1>3. ASSUME t \in Callers, mode[t] = "loop"
      PROVE  /\ pc[t] \in Sharing \cup {"signal"}
             /\ task[t] = [owner |-> t, call |-> calls[t], loop |-> TRUE]
  <2>1. pc[t] \in Sharing \cup {"signal"}
    BY <1>1, <1>3 DEF CallerOK, Executing, Inside, Sharing
  <2> QED
    BY <1>1, <1>3, <2>1 DEF CallerOK, Sharing
<1> QED
  BY <1>2, <1>3

LEMMA ExecutePlace ==
  ASSUME IInv, NEW t \in Threads, Execute(t) PROVE PlaceOK'
<1>1. /\ UNCHANGED <<mode, calls, total, stop, spc, task>>
      /\ pc[t] \in Executing \cup {"count", "notify"}
  BY DEF Execute, Run, CountDown, NotifyFinished, Fetch, Body, Finish, Signal, Goto, run, shut, call,
         loop, Executing
<1>2. /\ t \in Callers /\ mode[t] # "loop" => mode[t] = "wait"
      /\ t \in Callers /\ mode[t] = "loop" =>
           /\ pc[t] \in Sharing \cup {"signal"}
           /\ task[t].owner = t /\ task[t].call = calls[t]
  BY <1>1, ExecutePlaces
<1>3. pc[t] \in Sharing \cup {"signal"} => task[t] \in Tasks /\ task[t].loop
  BY DEF IInv, PlaceOK, HandOK
<1>4. CASE Run(t) \/ CountDown(t)
  <2>1. /\ \A u \in Threads \ {t} : Woken(u)
        /\ pc[t] \in {"run", "count"} /\ pc'[t] \in {"count", "notify", "top", "help"}
        /\ t \in Workers => pc'[t] # "help"
        /\ t \notin Workers => pc'[t] # "top"
    BY <1>4 DEF Run, CountDown, Goto, After, Woken, IInv, ShapeOK
  <2>2. HandOK(t)'
    BY <2>1 DEF HandOK, Sharing
  <2> QED
    BY <1>1, <1>2, <2>1, <2>2, PlaceWithin, TwoKinds DEF IInv, Unowned, Sharing, Waiting
<1>5. CASE NotifyFinished(t)
  <2>1. /\ \A u \in Threads \ {t} : Woken(u)
        /\ pc[t] = "notify" /\ pc'[t] \in {"top", "help"}
        /\ t \in Workers => pc'[t] # "help"
        /\ t \notin Workers => pc'[t] # "top"
    BY <1>5 DEF NotifyFinished, After, Woken, IInv, ShapeOK
  <2>2. HandOK(t)'
    BY <2>1 DEF HandOK, Sharing
  <2> QED
    BY <1>1, <1>2, <2>1, <2>2, PlaceWithin, TwoKinds DEF IInv, Unowned, Sharing, Waiting
<1>6. CASE Fetch(t) \/ Body(t)
  <2>1. /\ \A u \in Threads \ {t} : Woken(u)
        /\ pc[t] \in Sharing /\ pc'[t] \in Sharing
    BY <1>6 DEF Fetch, Body, Goto, Woken, IInv, ShapeOK, Sharing
  <2>2. HandOK(t)'
    BY <1>1, <1>3, <2>1 DEF HandOK, Sharing
  <2> QED
    BY <1>1, <1>2, <2>1, <2>2, PlaceWithin DEF IInv, Sharing, Executing, Inside
<1>7. CASE Finish(t)
  <2>1. /\ \A u \in Threads \ {t} : Woken(u)
        /\ pc[t] = "finish"
        /\ pc'[t] = "signal" \/ pc'[t] = Leave(t)
    BY <1>7 DEF Finish, Goto, Woken, IInv, ShapeOK
  <2>2. Leave(t) = IF t \in Callers /\ mode[t] = "loop" THEN "await" ELSE "count"
    BY DEF Leave, Inline
  <2>3. HandOK(t)'
    BY <1>1, <1>3, <2>1, <2>2 DEF HandOK, Sharing
  <2> QED
    BY <1>1, <1>2, <2>1, <2>2, <2>3, PlaceWithin, TwoKinds DEF IInv, Executing, Inside
<1>8. CASE Signal(t)
  <2> DEFINE c == task[t].owner
  <2>0. c \in Threads /\ pc[t] = "signal"
    BY <1>3, <1>8, TwoKinds DEF Signal, Sharing, Tasks
  <2>1. Leave(t) = IF t \in Callers /\ mode[t] = "loop" THEN "await" ELSE "count"
    BY DEF Leave, Inline
  <2>2. t \in Callers /\ mode[t] = "loop" => FrameAlive(t) /\ c = t
    BY <1>2 DEF FrameAlive
  <2>3. /\ \A u \in Threads \ {t} : Woken(u)
        /\ \/ pc'[t] = "lost" /\ ~FrameAlive(t)
           \/ pc'[t] = Leave(t)
           \/ pc'[t] = "await" /\ c = t /\ FrameAlive(t)
    <3>1. CASE /\ FrameAlive(t)
               /\ pc' = [pc EXCEPT ![t] = Leave(t), ![c] = IF c = t THEN "await"
                                                    ELSE IF @ = "rest" THEN "await" ELSE @]
      <4>1. CASE c = t
        BY <3>1, <4>1, <2>0 DEF Woken, IInv, ShapeOK
      <4>2. CASE c # t
        BY <3>1, <4>2, <2>0 DEF Woken, IInv, ShapeOK
      <4> QED
        BY <4>1, <4>2
    <3>2. CASE ~FrameAlive(t) /\ \E to \in {Leave(t), "lost"} : pc' = [pc EXCEPT ![t] = to]
      BY <3>2, <2>0 DEF Woken, IInv, ShapeOK
    <3> QED
      BY <1>8, <3>1, <3>2 DEF Signal
  <2>4. c = t /\ FrameAlive(t) => t \in Callers /\ mode[t] = "loop"
    BY <1>3, <2>0 DEF FrameAlive, Tasks
  <2>5. HandOK(t)'
    BY <2>1, <2>3 DEF HandOK, Sharing
  <2> HIDE DEF c
  <2> QED
    BY <1>1, <2>0, <2>1, <2>2, <2>3, <2>4, <2>5, <1>2, PlaceWithin, TwoKinds DEF IInv, Inside
<1> QED
  BY <1>4, <1>5, <1>6, <1>7, <1>8 DEF Execute

LEMMA BeginPlace ==
  ASSUME IInv, NEW c \in Callers, BeginLoop(c) \/ BeginWait(c) \/ Enqueue(c)
  PROVE  PlaceOK'
<1>1. PICK m \in {"loop", "enqueue", "wait"} :
        /\ Begin(c, m)
        /\ pc' = [pc EXCEPT ![c] = CASE m = "loop" -> "setup" [] m = "wait" -> "help"
                                        [] m = "enqueue" -> "ring"]
  BY DEF BeginLoop, BeginWait, Enqueue, Goto
<1>2. c \in Threads
  BY TwoKinds
<1>3. /\ UNCHANGED <<task, total, stop, spc>> /\ spc \in {"up", "down"}
      /\ mode'[c] = m /\ calls'[c] = calls[c] + 1 /\ calls[c] < MaxCalls
      /\ \A d \in Callers \ {c} : mode'[d] = mode[d] /\ calls'[d] = calls[d]
      /\ \A u \in Threads \ {c} : pc'[u] = pc[u]
      /\ pc'[c] = CASE m = "loop" -> "setup" [] m = "wait" -> "help" [] m = "enqueue" -> "ring"
  BY <1>1, <1>2 DEF Begin, shut, run, loop, IInv, ShapeOK
<1>4. calls'[c] \in 1 .. MaxCalls
  BY <1>3, MaxCallsAssumption DEF IInv, ShapeOK
<1>5. CallerOK(c)'
  BY <1>3, <1>4 DEF CallerOK, Waiting
<1>6. HandOK(c)'
  BY <1>3 DEF HandOK, Sharing
<1>7. StopOK'
  BY <1>3 DEF IInv, PlaceOK, StopOK
<1> QED
  BY <1>2, <1>3, <1>5, <1>6, <1>7, TwoKinds, PlaceOthers DEF IInv, Woken

LEMMA SetupPlace == ASSUME IInv, NEW c \in Callers, Setup(c) PROVE PlaceOK'
<1>1. c \in Threads
  BY TwoKinds
<1>2. /\ UNCHANGED <<mode, calls, stop, spc>>
      /\ pc[c] = "setup" /\ pc'[c] = "push"
      /\ task'[c] = [owner |-> c, call |-> calls[c], loop |-> TRUE]
      /\ \A u \in Threads \ {c} : pc'[u] = pc[u] /\ task'[u] = task[u]
      /\ \A d \in Callers \ {c} : total'[d] = total[d]
      /\ \E s \in Sizes : total'[c] = s[1]
  BY <1>1 DEF Setup, Goto, call, shut, IInv, ShapeOK
<1>3. CallerOK(c) /\ mode[c] \in {"none", "loop", "enqueue", "wait"}
  BY DEF IInv, PlaceOK, ShapeOK
<1>4. mode[c] = "loop"
  BY <1>2, <1>3 DEF CallerOK, Waiting, Executing
<1>5. CallerOK(c)'
  BY <1>2, <1>3, <1>4 DEF CallerOK
<1>6. HandOK(c)'
  BY <1>2 DEF HandOK, Sharing
<1>7. StopOK'
  BY <1>2 DEF IInv, PlaceOK, StopOK
<1> QED
  BY <1>1, <1>2, <1>5, <1>6, <1>7, TwoKinds, PlaceOthers DEF IInv, Woken

(* The places that belong to parallel_for alone.                             *)
LEMMA LoopPlaces ==
  ASSUME IInv, NEW c \in Callers
  PROVE  /\ pc[c] \in {"setup", "push", "await", "rest"} => mode[c] = "loop"
         /\ pc[c] \in {"help", "drowse", "recheck", "count", "run"} => mode[c] = "wait"
         /\ pc[c] = "idle" => mode[c] = "none"
         /\ mode[c] = "loop" /\ pc[c] # "setup" =>
              task[c] = [owner |-> c, call |-> calls[c], loop |-> TRUE]
<1>1. CallerOK(c) /\ mode[c] \in {"none", "loop", "enqueue", "wait"}
  BY DEF IInv, PlaceOK, ShapeOK
<1> QED
  BY <1>1 DEF CallerOK, Waiting, Executing, Inside

LEMMA PushPlace == ASSUME IInv, NEW c \in Callers, Push(c) \/ RingAll(c) PROVE PlaceOK'
<1>1. c \in Threads /\ c \notin Workers
  BY TwoKinds
<1>2. /\ UNCHANGED <<mode, calls, total, stop, spc, task>>
      /\ pc[c] \in {"push", "ring"} /\ pc'[c] \in {"ring", "fetch"}
      /\ \A u \in Threads \ {c} : Woken(u)
  BY <1>1 DEF Push, RingAll, Goto, shut, run, call, loop, IInv, ShapeOK, Woken
<1>3. mode[c] = "loop"
  BY <1>2, LoopPlaces DEF Push, Goto, RingAll
<1>4. task[c] = [owner |-> c, call |-> calls[c], loop |-> TRUE] /\ calls[c] \in 1 .. MaxCalls
  BY <1>2, <1>3, LoopPlaces DEF IInv, PlaceOK, CallerOK
<1>5. HandOK(c)'
  BY <1>2, <1>4 DEF HandOK, Sharing, Tasks
<1> QED
  BY <1>1, <1>2, <1>3, <1>5, PlaceWithin DEF IInv, Inside

LEMMA ReturnPlace ==
  ASSUME IInv, NEW c \in Callers, UNCHANGED <<shut, run, calls, loop>>,
         pc'[c] = "idle", mode' = [mode EXCEPT ![c] = "none"],
         \A u \in Threads \ {c} : Woken(u)
  PROVE  PlaceOK'
<1>1. c \in Threads /\ c \notin Workers
  BY TwoKinds
<1>2. CallerOK(c)'
  BY DEF CallerOK, IInv, ShapeOK
<1>3. HandOK(c)'
  BY DEF HandOK, Sharing
<1>4. StopOK'
  BY DEF IInv, PlaceOK, StopOK, ShapeOK, shut
<1>5. \A d \in Callers \ {c} : mode'[d] = mode[d]
  BY DEF IInv, ShapeOK
<1> QED
  BY <1>1, <1>2, <1>3, <1>4, <1>5, PlaceOthers DEF IInv, run, loop

LEMMA CallerPlace ==
  ASSUME IInv, NEW c \in Callers, RingOne(c) \/ Await(c) \/ Help(c) \/ Recheck(c)
  PROVE  PlaceOK'
<1>0. c \in Threads /\ c \notin Workers
  BY TwoKinds
<1>1. CASE tasks # <<>> /\ Help(c)
  BY <1>0, <1>1, TakePlace, LoopPlaces DEF Help
<1>2. CASE RingOne(c)
  <2>1. pc'[c] = "idle" /\ \A u \in Threads \ {c} : Woken(u)
    BY <1>0, <1>2, TwoKinds DEF RingOne, IInv, ShapeOK, Woken
  <2> QED
    BY <1>2, <2>1, ReturnPlace DEF RingOne
<1>3. CASE Return(c)
  <2>1. pc'[c] = "idle" /\ \A u \in Threads \ {c} : Woken(u)
    BY <1>0, <1>3 DEF Return, IInv, ShapeOK, Woken
  <2> QED
    BY <1>3, <2>1, ReturnPlace DEF Return
<1>4. CASE /\ pc[c] \in {"await", "help", "recheck"}
           /\ pc' = [pc EXCEPT ![c] = IF pc[c] = "await" THEN "rest" ELSE "drowse"]
           /\ UNCHANGED <<shut, run, call, loop>>
  <2>1. /\ \A u \in Threads \ {c} : Woken(u)
        /\ pc'[c] = IF pc[c] = "await" THEN "rest" ELSE "drowse"
    BY <1>0, <1>4 DEF IInv, ShapeOK, Woken
  <2>2. pc[c] = "await" => mode[c] = "loop"
    BY LoopPlaces
  <2>3. pc[c] \in {"help", "recheck"} => mode[c] = "wait"
    BY LoopPlaces
  <2>4. HandOK(c)'
    BY <1>4, <2>1 DEF HandOK, Sharing
  <2> QED
    BY <1>0, <1>4, <2>1, <2>2, <2>3, <2>4, PlaceWithin DEF IInv, shut, run, call, loop, Inside, Waiting
<1> QED
  BY <1>1, <1>2, <1>3, <1>4 DEF Await, Help, Recheck

LEMMA ShutdownPlace == ASSUME IInv, Shutdown PROVE PlaceOK'
<1>1. /\ UNCHANGED <<task, mode, calls, total>>
      /\ \A u \in Threads : Woken(u)
  BY DEF Shutdown, StoreStop, NotifyStop, Join, RequestStop, run, call, loop, Woken
<1>2. \A w \in Workers : WorkerOK(w)'
  <2> SUFFICES ASSUME NEW w \in Workers PROVE WorkerOK(w)'
    OBVIOUS
  <2>1. WorkerOK(w) /\ Woken(w)
    BY <1>1, TwoKinds DEF IInv, PlaceOK
  <2> QED
    BY <2>1 DEF WorkerOK, Woken, Unowned, Executing
<1>3. \A c \in Callers : CallerOK(c)'
  <2> SUFFICES ASSUME NEW c \in Callers PROVE CallerOK(c)'
    OBVIOUS
  <2>1. CallerOK(c) /\ Woken(c) /\ mode[c] \in {"none", "loop", "enqueue", "wait"}
    BY <1>1, TwoKinds DEF IInv, PlaceOK, ShapeOK
  <2> QED
    BY <1>1, <2>1 DEF CallerOK, Woken, Inside, Waiting, Executing
<1>4. \A t \in Threads : HandOK(t)'
  <2> SUFFICES ASSUME NEW t \in Threads PROVE HandOK(t)'
    OBVIOUS
  <2>1. HandOK(t) /\ Woken(t)
    BY <1>1 DEF IInv, PlaceOK
  <2> QED
    BY <1>1, <2>1 DEF HandOK, Woken, Sharing
<1>5. StopOK'
  <2>1. StopOK
    BY DEF IInv, PlaceOK
  <2>2. CASE StoreStop
    BY <1>1, <2>1, <2>2 DEF StoreStop, StopOK
  <2>3. CASE NotifyStop
    BY <1>1, <2>1, <2>3 DEF NotifyStop, StopOK
  <2>4. CASE Join
    BY <1>1, <2>1, <2>4 DEF Join, StopOK
  <2>5. ASSUME NEW w \in Workers, RequestStop(w) PROVE StopOK'
    BY <1>1, <2>1, <2>5 DEF RequestStop, StopOK
  <2> QED
    BY <2>2, <2>3, <2>4, <2>5 DEF Shutdown
<1> QED
  BY <1>2, <1>3, <1>4, <1>5 DEF PlaceOK

LEMMA PlaceStep == ASSUME IInv, [Next]_vars PROVE PlaceOK'
<1>1. ASSUME NEW w \in Workers, Work(w) \/ SpuriousWakeup(w) PROVE PlaceOK'
  BY <1>1, TwoKinds, WorkerPlace, ExecutePlace DEF Work
<1>2. ASSUME NEW c \in Callers, Proceed(c) \/ BeginLoop(c) \/ BeginWait(c) \/ Enqueue(c)
      PROVE  PlaceOK'
  BY <1>2, TwoKinds, SetupPlace, PushPlace, CallerPlace, ExecutePlace, BeginPlace DEF Proceed
<1>3. CASE Shutdown
  BY <1>3, ShutdownPlace
<1>4. CASE UNCHANGED vars
  BY <1>4 DEF vars, queue, shut, run, call, loop, IInv, PlaceOK, WorkerOK, CallerOK, HandOK, StopOK
<1> QED
  BY <1>1, <1>2, <1>3, <1>4 DEF Next

-----------------------------------------------------------------------------
(* Counting helpers in the queue and threads at work.                        *)

LEMMA ThreadsFinite ==
  /\ IsFiniteSet(Threads)
  /\ IsFiniteSet(Unfinished) /\ Cardinality(Unfinished) \in Nat
  /\ \A c : IsFiniteSet(Sharers(c)) /\ Cardinality(Sharers(c)) \in Nat
<1>1. IsFiniteSet(Threads)
  BY ThreadsAssumption, FS_Union DEF Threads
<1>2. Unfinished \in SUBSET Threads /\ \A c : Sharers(c) \in SUBSET Threads
  BY DEF Unfinished, Sharers
<1> QED
  BY <1>1, <1>2, FS_Subset, FS_CardinalityType

LEMMA QueuedTasks == ASSUME IInv PROVE \A i \in 1 .. Len(tasks) : tasks[i] \in Tasks
<1>1. tasks \in Seq(Tasks)
  BY DEF IInv, ShapeOK
<1> QED
  BY <1>1

LEMMA PositionsFinite ==
  ASSUME NEW s \in Seq(Tasks), NEW c
  PROVE  IsFiniteSet(Positions(s, c)) /\ Cardinality(Positions(s, c)) \in Nat
<1>1. Positions(s, c) \in SUBSET (1 .. Len(s)) /\ Len(s) \in Nat
  BY DEF Positions
<1>2. IsFiniteSet(1 .. Len(s))
  BY <1>1, FS_Interval
<1>3. IsFiniteSet(Positions(s, c))
  BY <1>1, <1>2, FS_Subset
<1> QED
  BY <1>3, FS_CardinalityType

(* Taking the first task leaves the others, one place further on.            *)
LEMMA TailPositions ==
  ASSUME NEW s \in Seq(Tasks), s # <<>>, NEW c
  PROVE  Cardinality(Positions(Tail(s), c)) =
           Cardinality(Positions(s, c)) - (IF Head(s).loop /\ Head(s).owner = c THEN 1 ELSE 0)
<1> DEFINE P == Positions(s, c)
           Q == Positions(Tail(s), c)
           f == [i \in Q |-> i + 1]
<1>1. /\ Len(s) \in Nat \ {0} /\ Len(Tail(s)) = Len(s) - 1 /\ Head(s) = s[1]
      /\ \A i \in 1 .. Len(s) - 1 : Tail(s)[i] = s[i + 1]
  OBVIOUS
<1>2. Q = {i \in 1 .. Len(s) - 1 : s[i + 1].loop /\ s[i + 1].owner = c}
  BY <1>1 DEF Positions
<1>3. P \ {1} = {i \in 2 .. Len(s) : s[i].loop /\ s[i].owner = c}
  BY <1>1 DEF Positions
<1>4. f \in Bijection(Q, P \ {1})
  <2>1. \A i \in Q : i \in Int /\ i + 1 \in P \ {1}
    BY <1>1, <1>2, <1>3
  <2>2. \A j \in P \ {1} : j - 1 \in Q /\ (j - 1) + 1 = j
    BY <1>1, <1>2, <1>3
  <2> HIDE DEF P, Q
  <2>3. f \in [Q -> P \ {1}]
    BY <2>1
  <2>4. \A a, b \in Q : f[a] = f[b] => a = b
    BY <2>1
  <2>5. \A j \in P \ {1} : \E i \in Q : f[i] = j
    BY <2>2
  <2> HIDE DEF f
  <2> QED
    BY <2>3, <2>4, <2>5 DEF Bijection, Injection, Surjection, IsInjective
<1>5. IsFiniteSet(P) /\ IsFiniteSet(Q) /\ Cardinality(P) \in Nat
  <2>1. Tail(s) \in Seq(Tasks)
    OBVIOUS
  <2> QED
    BY <2>1, PositionsFinite
<1>6. 1 \in P <=> Head(s).loop /\ Head(s).owner = c
  BY <1>1 DEF Positions
<1> HIDE DEF P, Q, f
<1>7. Cardinality(P \ {1}) = Cardinality(Q)
  BY <1>4, <1>5, FS_Bijection DEF ExistsBijection
<1>8. Cardinality(P \ {1}) = IF 1 \in P THEN Cardinality(P) - 1 ELSE Cardinality(P)
  BY <1>5, FS_RemoveElement
<1> QED
  BY <1>5, <1>6, <1>7, <1>8 DEF P, Q

(* Helpers are queued all at once.                                           *)
LEMMA PushPositions ==
  ASSUME NEW s \in Seq(Tasks), NEW h \in Nat, NEW k \in Tasks, k.loop, NEW c
  PROVE  Cardinality(Positions(s \o [i \in 1 .. h |-> k], c)) =
           Cardinality(Positions(s, c)) + (IF k.owner = c THEN h ELSE 0)
<1> DEFINE r == [i \in 1 .. h |-> k]
           n == Len(s)
<1>1. n \in Nat /\ r \in Seq(Tasks) /\ Len(r) = h
  OBVIOUS
<1>2. /\ Len(s \o r) = n + h
      /\ \A i \in 1 .. n : (s \o r)[i] = s[i]
      /\ \A i \in n + 1 .. n + h : (s \o r)[i] = k
  <2>1. Len(s \o r) = n + h /\ \A i \in 1 .. n + h : (s \o r)[i] = IF i <= n THEN s[i] ELSE r[i - n]
    BY <1>1
  <2> QED
    BY <1>1, <2>1
<1> HIDE DEF r, n
<1>3. Positions(s \o r, c) = Positions(s, c) \cup (IF k.owner = c THEN n + 1 .. n + h ELSE {})
  BY <1>1, <1>2 DEF Positions, n
<1>4. Positions(s, c) \cap (n + 1 .. n + h) = {}
  BY <1>1 DEF Positions, n
<1>5. IsFiniteSet(n + 1 .. n + h) /\ Cardinality(n + 1 .. n + h) = h
  <2> DEFINE a == n + 1
             b == n + h
  <2>1. a \in Int /\ b \in Int /\ (IF a > b THEN 0 ELSE b - a + 1) = h
    BY <1>1
  <2> HIDE DEF a, b
  <2>2. IsFiniteSet(a .. b) /\ Cardinality(a .. b) = IF a > b THEN 0 ELSE b - a + 1
    BY <2>1, FS_Interval
  <2> QED
    BY <2>1, <2>2 DEF a, b
<1>6. IsFiniteSet(Positions(s, c)) /\ Cardinality(Positions(s, c)) \in Nat
  BY PositionsFinite
<1>7. CASE k.owner = c
  <2> DEFINE A == Positions(s, c)
             B == n + 1 .. n + h
  <2>1. /\ IsFiniteSet(A) /\ IsFiniteSet(B) /\ A \cap B = {}
        /\ Cardinality(A) \in Nat /\ Cardinality(B) = h
    BY <1>4, <1>5, <1>6
  <2>2. Positions(s \o r, c) = A \cup B
    BY <1>3, <1>7
  <2> HIDE DEF A, B
  <2>3. Cardinality(A \cup B) = Cardinality(A) + Cardinality(B) - Cardinality(A \cap B)
    BY <2>1, FS_Union
  <2>4. Cardinality(A \cap B) = 0
    BY <2>1, FS_EmptySet
  <2>5. Cardinality(A \cup B) = Cardinality(A) + h
    BY <2>1, <2>3, <2>4
  <2> QED
    BY <1>7, <2>2, <2>5 DEF r, A
<1>8. CASE k.owner # c
  <2>1. Positions(s \o r, c) = Positions(s, c)
    BY <1>3, <1>8
  <2> QED
    BY <1>6, <1>8, <2>1 DEF r
<1> QED
  BY <1>7, <1>8

(* A task that is not a helper is not counted.                               *)
LEMMA AppendPositions ==
  ASSUME NEW s \in Seq(Tasks), NEW k \in Tasks, ~k.loop, NEW c
  PROVE  Positions(Append(s, k), c) = Positions(s, c)
<1>1. /\ Len(s) \in Nat /\ Len(Append(s, k)) = Len(s) + 1
      /\ Append(s, k)[Len(s) + 1] = k
      /\ \A i \in 1 .. Len(s) : Append(s, k)[i] = s[i]
  OBVIOUS
<1> QED
  BY <1>1 DEF Positions

(* When nothing is left of a loop, nobody is inside it.                      *)
LEMMA NobodyLeft ==
  ASSUME IInv, NEW c \in Callers, mode[c] = "loop", pc[c] \notin {"setup", "push"}, remaining[c] = 0
  PROVE  /\ \A i \in 1 .. Len(tasks) : ~(tasks[i].loop /\ tasks[i].owner = c)
         /\ \A t \in Threads : ~(pc[t] \in Sharing /\ task[t].owner = c)
<1>1. 0 = Cardinality(Positions(tasks, c)) + Cardinality(Sharers(c))
  BY DEF IInv, RemainingOK
<1>2. /\ IsFiniteSet(Positions(tasks, c)) /\ Cardinality(Positions(tasks, c)) \in Nat
      /\ IsFiniteSet(Sharers(c)) /\ Cardinality(Sharers(c)) \in Nat
  BY PositionsFinite, ThreadsFinite DEF IInv, ShapeOK
<1>3. Cardinality(Positions(tasks, c)) = 0 /\ Cardinality(Sharers(c)) = 0
  BY <1>1, <1>2
<1>4. Positions(tasks, c) = {} /\ Sharers(c) = {}
  BY <1>2, <1>3, FS_EmptySet
<1> QED
  BY <1>4 DEF Positions, Sharers

(* A thread at work belongs to an open call whose counter it holds up.       *)
LEMMA SharerOpen ==
  ASSUME IInv, NEW t \in Threads, pc[t] \in Sharing
  PROVE  /\ task[t] \in Tasks /\ task[t].owner \in Callers /\ task[t].loop
         /\ mode[task[t].owner] = "loop" /\ calls[task[t].owner] = task[t].call
         /\ pc[task[t].owner] \notin {"setup", "push"}
         /\ t \in Callers /\ mode[t] = "loop" => task[t].owner = t
<1>1. task[t] \in Tasks /\ task[t].owner \in Callers /\ task[t].loop
  BY DEF IInv, PlaceOK, HandOK, Tasks
<1>2. Open(task[t])
  BY DEF IInv, HelpersOK
<1>3. ASSUME t \in Callers, mode[t] = "loop" PROVE task[t].owner = t
  <2>1. task[t] = [owner |-> t, call |-> calls[t], loop |-> TRUE]
    BY <1>3, LoopPlaces DEF Sharing
  <2> QED
    BY <2>1
<1> QED
  BY <1>1, <1>2, <1>3 DEF Open

-----------------------------------------------------------------------------
(* Steps that change no loop: neither who is at work on one, nor its counter,*)
(* nor its chunks.                                                           *)

Steady ==
  /\ tasks' = tasks \/ \E k \in Tasks : ~k.loop /\ tasks' = Append(tasks, k)
  /\ UNCHANGED <<task, at, last, loop>>
  /\ \A c \in Callers : mode'[c] = "loop" <=> mode[c] = "loop"
  /\ \A c \in Callers : mode[c] = "loop" => calls'[c] = calls[c]
  /\ \A t \in Threads : pc'[t] # pc[t] =>
       /\ pc[t] \notin Sharing /\ pc'[t] \notin Sharing
       /\ t \in Callers /\ mode[t] = "loop" =>
            pc[t] \notin {"ring", "setup", "push"} /\ pc'[t] \notin {"ring", "setup", "push"}
  /\ spc' = spc \/ \A c \in Callers : mode[c] # "loop"

(* Open in the next state.                                                   *)
StaysOpen(k) ==
  /\ mode'[k.owner] = "loop" /\ calls'[k.owner] = k.call
  /\ pc'[k.owner] \notin {"setup", "push"}

LEMMA HelpersNext ==
  ASSUME \A i \in 1 .. Len(tasks') : tasks'[i].loop => StaysOpen(tasks'[i]),
         \A t \in Threads : pc'[t] \in Sharing => StaysOpen(task'[t])
  PROVE  HelpersOK'
BY DEF HelpersOK, StaysOpen, Open

LEMMA SteadyLoops ==
  ASSUME IInv, PlaceOK', Steady
  PROVE  HelpersOK' /\ RemainingOK' /\ ChunksOK' /\ ExhaustedOK'
<1> USE DEF loop
<1>1. /\ UNCHANGED <<task, at, last, total, chunk, index, remaining, done>>
      /\ \A c \in Callers : mode'[c] = "loop" <=> mode[c] = "loop"
      /\ \A c \in Callers : mode[c] = "loop" => calls'[c] = calls[c]
      /\ \A t \in Threads : pc'[t] \in Sharing <=> pc[t] \in Sharing
      /\ \A t \in Threads : pc'[t] = "body" <=> pc[t] = "body"
      /\ \A c \in Callers : mode[c] = "loop" =>
           /\ \A p \in {"ring", "setup", "push"} : pc'[c] = p <=> pc[c] = p
  BY TwoKinds DEF Steady, Sharing
<1>2. \A k : k.owner \in Callers /\ Open(k) => StaysOpen(k)
  BY <1>1, TwoKinds DEF Open, StaysOpen
<1>3. HelpersOK'
  <2>1. \A i \in 1 .. Len(tasks') : tasks'[i].loop => i \in 1 .. Len(tasks) /\ tasks'[i] = tasks[i]
    BY DEF Steady, IInv, ShapeOK
  <2>2. \A i \in 1 .. Len(tasks) : tasks[i].owner \in Callers
    BY QueuedTasks DEF Tasks
  <2>3. \A t \in Threads : pc[t] \in Sharing => task[t].owner \in Callers
    BY SharerOpen
  <2>4. \A i \in 1 .. Len(tasks') : tasks'[i].loop => StaysOpen(tasks'[i])
    BY <1>2, <2>1, <2>2 DEF IInv, HelpersOK
  <2>5. \A t \in Threads : pc'[t] \in Sharing => StaysOpen(task'[t])
    BY <1>1, <1>2, <2>3 DEF IInv, HelpersOK
  <2> QED
    BY <2>4, <2>5, HelpersNext
<1>4. RemainingOK'
  <2>1. \A c \in Callers : mode[c] = "loop" => Sharers(c)' = Sharers(c)
    BY <1>1 DEF Sharers
  <2>2. \A c \in Callers : Positions(tasks', c) = Positions(tasks, c)
    <3>1. tasks \in Seq(Tasks)
      BY DEF IInv, ShapeOK
    <3>2. \A k \in Tasks : ~k.loop =>
            \A c \in Callers : Positions(Append(tasks, k), c) = Positions(tasks, c)
      BY <3>1, AppendPositions
    <3> QED
      BY <3>2, Zenon DEF Steady
  <2>3. (\E c \in Callers : mode[c] = "loop") => ThreadCount' = ThreadCount
    BY DEF Steady, ThreadCount
  <2>4. \A c \in Callers : mode[c] = "loop" =>
          TasksNeeded(total[c], chunk[c])' = TasksNeeded(total[c], chunk[c])
    BY <1>1, <2>3 DEF TasksNeeded
  <2>5. ASSUME NEW c \in Callers, mode'[c] = "loop"
        PROVE  /\ pc'[c] = "push" => remaining'[c] = Larger(TasksNeeded(total[c], chunk[c])', 1)
               /\ pc'[c] \notin {"setup", "push"} =>
                    remaining'[c] = Cardinality(Positions(tasks', c)) + Cardinality(Sharers(c)')
    BY <1>1, <2>1, <2>2, <2>4, <2>5 DEF IInv, RemainingOK
  <2> QED
    BY <2>5 DEF RemainingOK
<1>5. ChunksOK'
  <2>1. \A t \in Threads : \A c : Holds(t, c)' <=> Holds(t, c)
    BY <1>1 DEF Holds
  <2> QED
    BY <1>1, <2>1 DEF IInv, ChunksOK, ItemsOf
<1>6. ExhaustedOK'
  <2> SUFFICES ASSUME NEW c \in Callers,
                      mode'[c] # "loop" \/ pc'[c] \in {"setup", "finish", "signal", "await", "rest"}
               PROVE  index[c] >= total[c]
    BY <1>1 DEF ExhaustedOK
  <2>1. mode[c] # "loop" \/ pc[c] \in {"setup", "finish", "signal", "await", "rest"}
    <3>1. CASE pc'[c] = pc[c]
      BY <1>1, <3>1
    <3>2. CASE pc'[c] # pc[c] /\ mode[c] = "loop"
      <4>1. pc[c] \notin Sharing \cup {"ring", "setup", "push"}
        BY <3>2, TwoKinds DEF Steady
      <4> QED
        BY <3>2, <4>1 DEF IInv, PlaceOK, CallerOK, Inside, Sharing
    <3> QED
      BY <3>1, <3>2
  <2> QED
    BY <2>1 DEF IInv, ExhaustedOK
<1> QED
  BY <1>3, <1>4, <1>5, <1>6

(* The counter of active tasks and the history of the accepted ones depend   *)
(* on who holds a task.                                                      *)
LEMMA SameHands ==
  ASSUME IInv, UNCHANGED <<tasks, active, kept, task>>, ran \subseteq ran',
         \A t \in Threads : pc[t] = "run" => pc'[t] = "run" \/ task[t] \in ran',
         \A t \in Threads :
           ~Inline(t)' /\ pc'[t] \in Executing \cup {"count", "lost"} <=>
             ~Inline(t) /\ pc[t] \in Executing \cup {"count", "lost"}
  PROVE  ActiveExact' /\ KeptOK'
<1>1. Unfinished' = Unfinished
  BY DEF Unfinished
<1>2. ActiveExact'
  BY <1>1 DEF IInv, ActiveExact
<1>3. KeptOK'
  BY DEF IInv, KeptOK
<1> QED
  BY <1>2, <1>3

RestOK == HelpersOK /\ RemainingOK /\ ChunksOK /\ ExhaustedOK /\ ActiveExact /\ KeptOK

LEMMA WorkerRest ==
  ASSUME IInv, PlaceOK', NEW w \in Workers,
         Top(w) \/ Sleep(w) \/ SpuriousWakeup(w) \/ (Test(w) /\ tasks = <<>>)
  PROVE  RestOK'
<1>1. /\ UNCHANGED <<queue, shut, run, call, loop, ran>>
      /\ w \in Threads /\ w \notin Callers
      /\ \A u \in Threads \ {w} : pc'[u] = pc[u]
      /\ pc[w] \in {"top", "test", "doze", "asleep"} /\ pc'[w] \in {"exit", "test", "doze", "asleep"}
  BY TwoKinds DEF Top, Sleep, SpuriousWakeup, Test, Goto, IInv, ShapeOK
<1>2. Steady
  BY <1>1 DEF Steady, Sharing, queue, shut, run, call
<1>3. ActiveExact' /\ KeptOK'
  BY <1>1, SameHands DEF Inline, Executing, queue, run, call
<1> QED
  BY <1>2, <1>3, SteadyLoops DEF RestOK

LEMMA RunRest ==
  ASSUME IInv, PlaceOK', NEW t \in Threads, Run(t) \/ NotifyFinished(t) PROVE RestOK'
<1>1. /\ UNCHANGED <<queue, shut, run, call, loop>> /\ ran \subseteq ran'
      /\ \A u \in Threads \ {t} :
           pc'[u] = pc[u] \/ (pc[u] = "drowse" /\ pc'[u] = "recheck")
      /\ \/ pc[t] = "run" /\ pc'[t] = "count" /\ task[t] \in ran'
         \/ pc[t] = "notify" /\ pc'[t] \in {"top", "help"}
  BY DEF Run, NotifyFinished, After, Goto, IInv, ShapeOK
<1>2. t \in Callers => mode[t] # "loop"
  BY <1>1, ExecutePlaces DEF Executing, Sharing
<1>3. Steady
  BY <1>1, <1>2 DEF Steady, Sharing, queue, shut, run, call
<1>4. ActiveExact' /\ KeptOK'
  BY <1>1, <1>2, SameHands DEF Inline, Executing, queue, run, call
<1> QED
  BY <1>3, <1>4, SteadyLoops DEF RestOK

LEMMA CountDownRest ==
  ASSUME IInv, PlaceOK', NEW t \in Threads, CountDown(t) PROVE RestOK'
<1>1. /\ UNCHANGED <<tasks, kept, shut, run, call, loop, ran>> /\ active' = active - 1
      /\ \A u \in Threads \ {t} : pc'[u] = pc[u]
      /\ pc[t] = "count" /\ pc'[t] \in {"top", "help", "notify"}
  BY DEF CountDown, After, Goto, IInv, ShapeOK
<1>2. t \in Callers => mode[t] # "loop"
  BY <1>1, ExecutePlaces DEF Executing, Sharing
<1>3. Steady
  BY <1>1, <1>2 DEF Steady, Sharing, shut, run, call
<1>4. ActiveExact'
  <2>1. Unfinished' = Unfinished \ {t} /\ t \in Unfinished
    BY <1>1, <1>2 DEF Unfinished, Inline, Executing, call
  <2>2. Cardinality(Unfinished)' = Cardinality(Unfinished) - 1
    BY <2>1, ThreadsFinite, FS_RemoveElement
  <2>3. Len(tasks) \in Nat /\ active \in Int /\ Cardinality(Unfinished) \in Nat
    BY ThreadsFinite DEF IInv, ShapeOK
  <2> QED
    BY <1>1, <2>2, <2>3 DEF IInv, ActiveExact
<1>5. KeptOK'
  BY <1>1 DEF IInv, KeptOK, run
<1> QED
  BY <1>3, <1>4, <1>5, SteadyLoops DEF RestOK

LEMMA SignalRest ==
  ASSUME IInv, PlaceOK', NEW t \in Threads, Signal(t) PROVE RestOK'
<1> DEFINE c == task[t].owner
<1>0. c \in Threads /\ c \in Callers /\ pc[t] = "signal"
  BY TwoKinds DEF Signal, IInv, PlaceOK, HandOK, Tasks
<1>1. Leave(t) = IF t \in Callers /\ mode[t] = "loop" THEN "await" ELSE "count"
  BY DEF Leave, Inline
<1>2. t \in Callers /\ mode[t] = "loop" => FrameAlive(t) /\ c = t
  BY <1>0, ExecutePlaces DEF FrameAlive, Executing
<1>3. c = t /\ FrameAlive(t) => t \in Callers /\ mode[t] = "loop"
  BY <1>0 DEF FrameAlive
<1>4. /\ \A u \in Threads \ {t} : pc'[u] = pc[u] \/ (pc[u] = "rest" /\ pc'[u] = "await")
      /\ pc'[t] = IF t \in Callers /\ mode[t] = "loop" THEN "await" ELSE pc'[t]
      /\ ~(t \in Callers /\ mode[t] = "loop") => pc'[t] \in {"count", "lost"}
  <2>1. CASE /\ FrameAlive(t)
             /\ pc' = [pc EXCEPT ![t] = Leave(t), ![c] = IF c = t THEN "await"
                                                  ELSE IF @ = "rest" THEN "await" ELSE @]
    <3>1. CASE c = t
      BY <2>1, <3>1, <1>0, <1>1, <1>3 DEF IInv, ShapeOK
    <3>2. CASE c # t
      BY <2>1, <3>2, <1>0, <1>1, <1>2 DEF IInv, ShapeOK
    <3> QED
      BY <3>1, <3>2
  <2>2. CASE ~FrameAlive(t) /\ \E to \in {Leave(t), "lost"} : pc' = [pc EXCEPT ![t] = to]
    BY <2>2, <1>0, <1>1, <1>2 DEF IInv, ShapeOK
  <2> QED
    BY <2>1, <2>2 DEF Signal
<1>5. UNCHANGED <<queue, shut, run, call, loop, ran>>
  BY DEF Signal
<1> HIDE DEF c
<1>6. Steady
  BY <1>0, <1>4, <1>5 DEF Steady, Sharing, queue, shut, run, call
<1>7. ActiveExact' /\ KeptOK'
  <2>1. \A u \in Threads : ~Inline(u)' /\ pc'[u] \in Executing \cup {"count", "lost"} <=>
                           ~Inline(u) /\ pc[u] \in Executing \cup {"count", "lost"}
    BY <1>0, <1>4, <1>5 DEF Inline, Executing, call
  <2>2. \A u \in Threads : pc[u] = "run" => pc'[u] = "run"
    BY <1>0, <1>4
  <2> QED
    BY <1>5, <2>1, <2>2, SameHands DEF queue, run
<1> QED
  BY <1>6, <1>7, SteadyLoops DEF RestOK

LEMMA BeginRest ==
  ASSUME IInv, PlaceOK', NEW c \in Callers, BeginWait(c) \/ Enqueue(c) PROVE RestOK'
<1>1. PICK m \in {"enqueue", "wait"} : Begin(c, m)
  BY DEF BeginWait, Enqueue
<1>2. /\ UNCHANGED <<spc, task, at, last, loop, ran>>
      /\ mode'[c] = m /\ \A d \in Callers \ {c} : mode'[d] = mode[d] /\ calls'[d] = calls[d]
      /\ pc[c] = "idle" /\ calls[c] \in 0 .. MaxCalls /\ calls[c] < MaxCalls
  BY <1>1 DEF Begin, shut, run, IInv, ShapeOK
<1>3. mode[c] = "none"
  BY <1>2, LoopPlaces
<1>4. pc'[c] \in {"help", "ring"} /\ \A u \in Threads \ {c} : pc'[u] = pc[u]
  BY TwoKinds DEF BeginWait, Enqueue, Goto, IInv, ShapeOK
<1> DEFINE new == [owner |-> c, call |-> calls[c] + 1, loop |-> FALSE]
<1>5. \/ UNCHANGED queue
      \/ active' = active + 1 /\ tasks' = Append(tasks, new) /\ kept' = kept \cup {new}
  <2>1. CASE Enqueue(c) /\ ~stop
    BY <2>1 DEF Enqueue
  <2>2. CASE ~(Enqueue(c) /\ ~stop)
    BY <2>2 DEF BeginWait, Enqueue
  <2> QED
    BY <2>1, <2>2
<1>6. new \in Tasks /\ ~new.loop
  BY <1>2, MaxCallsAssumption DEF Tasks
<1>7. \A u \in Threads : ~Inline(u)' /\ pc'[u] \in Executing \cup {"count", "lost"} <=>
                         ~Inline(u) /\ pc[u] \in Executing \cup {"count", "lost"}
  BY <1>1, <1>2, <1>3, <1>4 DEF Inline, Executing
<1>8. \A u \in Threads : pc[u] = "run" => pc'[u] = "run"
  BY <1>2, <1>4
<1> HIDE DEF new
<1>9. Steady
  BY <1>1, <1>2, <1>3, <1>4, <1>5, <1>6 DEF Steady, Sharing, queue
<1>10. ActiveExact' /\ KeptOK'
  <2>1. CASE UNCHANGED queue
    BY <1>2, <1>7, <1>8, <2>1, SameHands DEF queue
  <2>2. CASE active' = active + 1 /\ tasks' = Append(tasks, new) /\ kept' = kept \cup {new}
    <3>1. /\ Len(tasks') = Len(tasks) + 1 /\ Len(tasks) \in Nat
          /\ tasks'[Len(tasks) + 1] = new
          /\ \A i \in 1 .. Len(tasks) : tasks'[i] = tasks[i]
      BY <1>6, <2>2 DEF IInv, ShapeOK
    <3>2. Unfinished' = Unfinished
      BY <1>7 DEF Unfinished
    <3>3. ActiveExact'
      BY <2>2, <3>1, <3>2, ThreadsFinite DEF IInv, ActiveExact, ShapeOK
    <3>4. KeptOK'
      <4>1. ASSUME NEW k \in kept'
            PROVE  /\ k \in Tasks /\ ~k.loop
                   /\ \/ k \in ran
                      \/ \E i \in 1 .. Len(tasks') : tasks'[i] = k
                      \/ \E u \in Threads : pc'[u] = "run" /\ task[u] = k
        <5>1. CASE k = new
          BY <1>6, <3>1, <5>1
        <5>2. CASE k \in kept
          BY <1>8, <3>1, <5>2 DEF IInv, KeptOK
        <5> QED
          BY <2>2, <4>1, <5>1, <5>2
      <4> QED
        BY <1>2, <4>1 DEF KeptOK
    <3> QED
      BY <3>3, <3>4
  <2> QED
    BY <1>5, <2>1, <2>2
<1> QED
  BY <1>9, <1>10, SteadyLoops DEF RestOK

(* The callers' waits and returns, but for the return from a loop.           *)
LEMMA CallerRest ==
  ASSUME IInv, PlaceOK', NEW c \in Callers,
         \/ RingOne(c) \/ Recheck(c) \/ (Help(c) /\ tasks = <<>>)
         \/ Await(c) /\ remaining[c] # 0
  PROVE  RestOK'
<1>1. /\ UNCHANGED <<queue, shut, run, calls, loop, ran>>
      /\ pc[c] \in {"ring", "help", "recheck", "await"} /\ pc'[c] \in {"idle", "drowse", "rest"}
      /\ \A u \in Threads \ {c} : pc'[u] = pc[u] \/ (pc[u] = "asleep" /\ pc'[u] = "test")
  <2>1. CASE RingOne(c)
    BY <2>1, TwoKinds DEF RingOne, IInv, ShapeOK
  <2>2. CASE ~RingOne(c)
    BY <2>2, TwoKinds DEF Recheck, Help, Await, Return, call, IInv, ShapeOK
  <2> QED
    BY <2>1, <2>2
<1>2. \/ mode[c] = "loop" /\ mode' = mode /\ pc[c] = "await" /\ pc'[c] = "rest"
      \/ mode[c] # "loop" /\ (mode' = mode \/ mode' = [mode EXCEPT ![c] = "none"])
  <2>1. CASE RingOne(c)
    BY <2>1 DEF RingOne
  <2>2. CASE Await(c) /\ remaining[c] # 0
    BY <2>2, TwoKinds, LoopPlaces DEF Await, call, IInv, ShapeOK
  <2>3. CASE Recheck(c) \/ Help(c)
    <3>1. mode[c] = "wait"
      BY <2>3, LoopPlaces DEF Recheck, Help
    <3>2. mode' = mode \/ mode' = [mode EXCEPT ![c] = "none"]
      BY <2>3 DEF Recheck, Help, Return, call
    <3> QED
      BY <3>1, <3>2
  <2> QED
    BY <2>1, <2>2, <2>3
<1>3. \A d \in Callers : mode'[d] = "loop" <=> mode[d] = "loop"
  BY <1>2 DEF IInv, ShapeOK
<1>4. Steady
  BY <1>1, <1>2, <1>3 DEF Steady, Sharing, queue, shut, run
<1>5. ActiveExact' /\ KeptOK'
  <2>1. \A u \in Threads : ~Inline(u)' /\ pc'[u] \in Executing \cup {"count", "lost"} <=>
                           ~Inline(u) /\ pc[u] \in Executing \cup {"count", "lost"}
    BY <1>1, <1>3 DEF Inline, Executing
  <2>2. \A u \in Threads : pc[u] = "run" => pc'[u] = "run"
    BY <1>1
  <2> QED
    BY <1>1, <2>1, <2>2, SameHands DEF queue, run
<1> QED
  BY <1>4, <1>5, SteadyLoops DEF RestOK

LEMMA ShutdownRest == ASSUME IInv, PlaceOK', Shutdown PROVE RestOK'
<1>1. /\ UNCHANGED <<queue, run, call, loop, ran>>
      /\ \A u \in Threads : pc'[u] = pc[u] \/ (pc[u] = "asleep" /\ pc'[u] = "test")
  BY DEF Shutdown, StoreStop, NotifyStop, Join, RequestStop
<1>2. \A c \in Callers : mode[c] = "none"
  <2>1. StoreStop \/ spc \in {"notify", "ask", "join"}
    BY DEF Shutdown, NotifyStop, Join, RequestStop
  <2> QED
    BY <2>1 DEF StoreStop, IInv, PlaceOK, StopOK, ShapeOK
<1>3. Steady
  BY <1>1, <1>2 DEF Steady, Sharing, queue, run, call
<1>4. ActiveExact' /\ KeptOK'
  BY <1>1, SameHands DEF Inline, Executing, queue, run, call
<1> QED
  BY <1>3, <1>4, SteadyLoops DEF RestOK

-----------------------------------------------------------------------------
(* Steps that change who is at work.                                         *)

(* The number of workers changes when the pool is shut down, not before.     *)
LEMMA SameCount ==
  ASSUME shut' = shut
  PROVE  ThreadCount' = ThreadCount
BY DEF shut, ThreadCount

LEMMA TakeRest ==
  ASSUME IInv, NEW t \in Threads, Take(t), tasks # <<>>, UNCHANGED <<shut, call, loop, ran>>,
         pc[t] \in {"test", "help"}, t \in Callers => mode[t] = "wait"
  PROVE  RestOK'
<1> DEFINE k == Head(tasks)
<1>1. /\ UNCHANGED <<active, kept, ran, at, last, spc, mode, calls, total, chunk, index, remaining, done>>
      /\ \A u \in Threads \ {t} : task'[u] = task[u] /\ pc'[u] = pc[u]
      /\ task'[t] = k /\ pc'[t] = IF k.loop THEN "fetch" ELSE "run"
      /\ tasks \in Seq(Tasks) /\ tasks' = Tail(tasks)
  BY DEF Take, shut, call, loop, IInv, ShapeOK
<1>2. /\ k \in Tasks /\ k = tasks[1] /\ Len(tasks) \in Nat \ {0} /\ Len(tasks') = Len(tasks) - 1
      /\ \A i \in 1 .. Len(tasks) - 1 : tasks'[i] = tasks[i + 1]
  BY <1>1
<1>3. \A i \in 1 .. Len(tasks) : tasks[i] \in Tasks
  BY QueuedTasks
<1> HIDE DEF k
<1>4. \A h \in Tasks : Open(h) => StaysOpen(h)
  BY <1>1, TwoKinds DEF Open, StaysOpen, Tasks
<1>5. HelpersOK'
  <2>1. \A i \in 1 .. Len(tasks') : tasks'[i].loop => StaysOpen(tasks'[i])
    <3> SUFFICES ASSUME NEW i \in 1 .. Len(tasks'), tasks'[i].loop PROVE StaysOpen(tasks'[i])
      OBVIOUS
    <3>1. tasks'[i] = tasks[i + 1] /\ i + 1 \in 1 .. Len(tasks)
      BY <1>2
    <3> QED
      BY <3>1, <1>3, <1>4 DEF IInv, HelpersOK
  <2>2. k.loop => Open(k)
    BY <1>2 DEF IInv, HelpersOK
  <2>3. \A u \in Threads : pc[u] \in Sharing => task[u] \in Tasks /\ Open(task[u])
    BY SharerOpen DEF IInv, HelpersOK
  <2>4. \A u \in Threads : pc'[u] \in Sharing => StaysOpen(task'[u])
    BY <1>1, <1>2, <1>4, <2>2, <2>3 DEF Sharing
  <2> QED
    BY <2>1, <2>4, HelpersNext
<1>6. RemainingOK'
  <2> SUFFICES ASSUME NEW c \in Callers, mode'[c] = "loop"
               PROVE  /\ pc'[c] = "push" =>
                           remaining'[c] = Larger(TasksNeeded(total[c], chunk[c])', 1)
                      /\ pc'[c] \notin {"setup", "push"} =>
                           remaining'[c] = Cardinality(Positions(tasks', c)) + Cardinality(Sharers(c)')
    BY DEF RemainingOK
  <2>1. c # t /\ c \in Threads /\ pc'[c] = pc[c] /\ mode[c] = "loop"
    BY <1>1, TwoKinds
  <2>2. TasksNeeded(total[c], chunk[c])' = TasksNeeded(total[c], chunk[c])
    BY <1>1, SameCount DEF TasksNeeded
  <2>3. Cardinality(Positions(tasks', c)) =
          Cardinality(Positions(tasks, c)) - (IF k.loop /\ k.owner = c THEN 1 ELSE 0)
    BY <1>1, TailPositions DEF k
  <2>4. Sharers(c)' = IF k.loop /\ k.owner = c THEN Sharers(c) \cup {t} ELSE Sharers(c)
    BY <1>1, <2>1 DEF Sharers, Sharing
  <2>5. t \notin Sharers(c)
    BY DEF Sharers, Sharing
  <2>6. /\ IsFiniteSet(Sharers(c)) /\ Cardinality(Sharers(c)) \in Nat
        /\ Cardinality(Positions(tasks, c)) \in Nat
    BY <1>1, ThreadsFinite, PositionsFinite
  <2>7. Cardinality(Sharers(c) \cup {t}) = Cardinality(Sharers(c)) + 1
    BY <2>5, <2>6, FS_AddElement
  <2>8. Cardinality(Sharers(c)') =
          Cardinality(Sharers(c)) + (IF k.loop /\ k.owner = c THEN 1 ELSE 0)
    BY <2>4, <2>6, <2>7
  <2>9. /\ pc[c] = "push" => remaining[c] = Larger(TasksNeeded(total[c], chunk[c]), 1)
        /\ pc[c] \notin {"setup", "push"} =>
             remaining[c] = Cardinality(Positions(tasks, c)) + Cardinality(Sharers(c))
    BY <2>1 DEF IInv, RemainingOK
  <2>10. Cardinality(Positions(tasks', c)) + Cardinality(Sharers(c)')
           = Cardinality(Positions(tasks, c)) + Cardinality(Sharers(c))
    BY <2>3, <2>6, <2>8
  <2> QED
    BY <1>1, <2>1, <2>2, <2>9, <2>10
<1>7. ChunksOK'
  <2>1. \A u \in Threads : \A c : Holds(u, c)' <=> Holds(u, c)
    BY <1>1 DEF Holds
  <2> QED
    BY <1>1, <2>1 DEF IInv, ChunksOK, ItemsOf
<1>8. ExhaustedOK'
  BY <1>1, TwoKinds DEF IInv, ExhaustedOK
<1>9. ActiveExact'
  <2>1. t \notin Unfinished /\ Unfinished' = Unfinished \cup {t}
    BY <1>1 DEF Unfinished, Inline, Executing
  <2>2. Cardinality(Unfinished)' = Cardinality(Unfinished) + 1
    BY <2>1, ThreadsFinite, FS_AddElement
  <2>3. active \in Int /\ Cardinality(Unfinished) \in Nat
    BY ThreadsFinite DEF IInv, ShapeOK
  <2> QED
    BY <1>1, <1>2, <2>2, <2>3 DEF IInv, ActiveExact
<1>10. KeptOK'
  <2> SUFFICES ASSUME NEW h \in kept
               PROVE  /\ h \in Tasks /\ ~h.loop
                      /\ \/ h \in ran
                         \/ \E i \in 1 .. Len(tasks') : tasks'[i] = h
                         \/ \E u \in Threads : pc'[u] = "run" /\ task'[u] = h
    BY <1>1 DEF KeptOK
  <2>1. h \in Tasks /\ ~h.loop
    BY DEF IInv, KeptOK
  <2>2. CASE h \in ran
    BY <2>1, <2>2
  <2>3. ASSUME NEW i \in 1 .. Len(tasks), tasks[i] = h
        PROVE  \/ \E j \in 1 .. Len(tasks') : tasks'[j] = h
               \/ \E u \in Threads : pc'[u] = "run" /\ task'[u] = h
    <3>1. CASE i = 1
      BY <1>1, <1>2, <2>1, <2>3, <3>1
    <3>2. CASE i # 1
      <4>1. i - 1 \in 1 .. Len(tasks') /\ tasks'[i - 1] = h
        BY <1>2, <2>3, <3>2
      <4> QED
        BY <4>1
    <3> QED
      BY <3>1, <3>2
  <2>4. ASSUME NEW u \in Threads, pc[u] = "run", task[u] = h
        PROVE  \E v \in Threads : pc'[v] = "run" /\ task'[v] = h
    BY <1>1, <2>4
  <2> QED
    BY <2>1, <2>2, <2>3, <2>4 DEF IInv, KeptOK
<1> QED
  BY <1>5, <1>6, <1>7, <1>8, <1>9, <1>10 DEF RestOK

(* A thread that stays at work.                                              *)
LEMMA StaysAtWork ==
  ASSUME IInv, NEW t \in Threads, pc[t] \in Sharing, pc'[t] \in Sharing,
         \A u \in Threads \ {t} : pc'[u] = pc[u],
         UNCHANGED <<queue, shut, task, call, total, chunk, remaining, ran>>
  PROVE  HelpersOK' /\ RemainingOK' /\ ActiveExact' /\ KeptOK'
<1>1. UNCHANGED <<tasks, active, kept, stop, asked, spc, task, mode, calls, total, chunk, remaining, ran>>
  BY DEF queue, shut, call
<1>2. \A k \in Tasks : Open(k) => StaysOpen(k)
  BY <1>1, TwoKinds DEF Open, StaysOpen, Tasks, Sharing
<1>3. HelpersOK'
  <2>1. \A i \in 1 .. Len(tasks') : tasks'[i].loop => StaysOpen(tasks'[i])
    BY <1>1, <1>2, QueuedTasks DEF IInv, HelpersOK
  <2>2. \A u \in Threads : pc[u] \in Sharing => task[u] \in Tasks /\ Open(task[u])
    BY SharerOpen DEF IInv, HelpersOK
  <2>3. \A u \in Threads : pc'[u] \in Sharing => StaysOpen(task'[u])
    BY <1>1, <1>2, <2>2
  <2> QED
    BY <2>1, <2>3, HelpersNext
<1>4. RemainingOK'
  <2>1. \A c \in Callers : Sharers(c)' = Sharers(c)
    BY <1>1 DEF Sharers, Sharing
  <2>2. \A c \in Callers : TasksNeeded(total[c], chunk[c])' = TasksNeeded(total[c], chunk[c])
    BY <1>1, SameCount DEF TasksNeeded
  <2>3. \A c \in Callers : \A p \in {"push", "setup"} : pc'[c] = p <=> pc[c] = p
    BY TwoKinds DEF Sharing
  <2>4. \A c \in Callers : Positions(tasks, c)' = Positions(tasks, c)
    BY <1>1 DEF Positions
  <2> SUFFICES ASSUME NEW c \in Callers, mode'[c] = "loop"
               PROVE  /\ pc'[c] = "push" =>
                           remaining'[c] = Larger(TasksNeeded(total[c], chunk[c])', 1)
                      /\ pc'[c] \notin {"setup", "push"} =>
                           remaining'[c] = Cardinality(Positions(tasks', c)) + Cardinality(Sharers(c)')
    BY DEF RemainingOK
  <2> QED
    BY <1>1, <2>1, <2>2, <2>3, <2>4 DEF IInv, RemainingOK
<1>5. ActiveExact' /\ KeptOK'
  <2>1. \A u \in Threads : ~Inline(u)' /\ pc'[u] \in Executing \cup {"count", "lost"} <=>
                           ~Inline(u) /\ pc[u] \in Executing \cup {"count", "lost"}
    BY <1>1 DEF Inline, Executing, Sharing
  <2>2. \A u \in Threads : pc[u] = "run" => pc'[u] = "run"
    BY DEF Sharing
  <2> QED
    BY <1>1, <2>1, <2>2, SameHands
<1> QED
  BY <1>3, <1>4, <1>5

LEMMA FetchRest == ASSUME IInv, NEW t \in Threads, Fetch(t) PROVE RestOK'
<1>0. PICK c \in Callers : c = task[t].owner
  BY SharerOpen DEF Fetch, Sharing
<1> DEFINE end == Smaller(index[c] + chunk[c], total[c])
<1>1. /\ pc[t] = "fetch" /\ UNCHANGED <<queue, shut, task, call, total, chunk, remaining, ran, done>>
      /\ index' = [index EXCEPT ![c] = index[c] + chunk[c]]
  BY <1>0 DEF Fetch, run
<1>3. /\ index[c] \in Nat /\ chunk[c] \in Nat \ {0} /\ total[c] \in Nat
      /\ index'[c] = index[c] + chunk[c] /\ \A d \in Callers \ {c} : index'[d] = index[d]
  BY <1>1 DEF IInv, ShapeOK
<1>4. \/ index[c] >= total[c] /\ pc'[t] = "finish" /\ UNCHANGED <<at, last>>
      \/ /\ index[c] < total[c] /\ pc'[t] = "body"
         /\ at'[t] = index[c] /\ last'[t] = end
         /\ \A u \in Threads \ {t} : at'[u] = at[u] /\ last'[u] = last[u]
  BY <1>0, <1>3 DEF Fetch, Goto, run, IInv, ShapeOK
<1>5. \A u \in Threads \ {t} : pc'[u] = pc[u]
  BY DEF Fetch, Goto, IInv, ShapeOK
<1>6. end \in Nat /\ end <= total[c] /\ end <= index[c] + chunk[c] /\
      (end = total[c] \/ end = index[c] + chunk[c])
  BY <1>3 DEF Smaller
<1> HIDE DEF end
<1>7. HelpersOK' /\ RemainingOK' /\ ActiveExact' /\ KeptOK'
  BY <1>1, <1>4, <1>5, StaysAtWork DEF Sharing
<1>8. ChunksOK'
  <2>1. \A u \in Threads \ {t} : \A d : Holds(u, d)' <=> Holds(u, d)
    BY <1>1, <1>5 DEF Holds
  <2>2. \A d : ~Holds(t, d)
    BY <1>1 DEF Holds
  <2>3. \A d : Holds(t, d)' <=> pc'[t] = "body" /\ d = c
    BY <1>0, <1>1 DEF Holds
  <2>4. \A u \in Threads : at[u] \in Nat /\ last[u] \in Nat
    BY DEF IInv, ShapeOK
  <2>5. \A d \in Callers : index[d] \in Nat /\ total[d] \in Nat
    BY DEF IInv, ShapeOK
  <2>6. \A d \in Callers : \A u \in Threads : Holds(u, d) =>
           /\ at[u] < last[u] /\ last[u] <= total[d] /\ last[u] <= index[d]
           /\ \A v \in Threads \ {u} : Holds(v, d) => last[u] <= at[v] \/ last[v] <= at[u]
    BY DEF IInv, ChunksOK
  <2>7. \A u \in Threads \ {t} : at'[u] = at[u] /\ last'[u] = last[u]
    BY <1>4
  <2>8. ASSUME NEW d \in Callers, NEW u \in Threads, Holds(u, d)'
        PROVE  /\ at'[u] < last'[u] /\ last'[u] <= total'[d] /\ last'[u] <= index'[d]
               /\ \A v \in Threads \ {u} : Holds(v, d)' => last'[u] <= at'[v] \/ last'[v] <= at'[u]
    <3>1. CASE u = t
      <4>1. /\ d = c /\ at'[t] = index[c] /\ last'[t] = end /\ index[c] < total[c]
        BY <1>4, <2>3, <2>8, <3>1
      <4>2. \A v \in Threads \ {t} : Holds(v, c)' => last'[v] <= index[c]
        BY <2>1, <2>6, <2>7
      <4> QED
        BY <1>1, <1>3, <1>6, <3>1, <4>1, <4>2
    <3>2. CASE u # t
      <4>1. Holds(u, d) /\ at'[u] = at[u] /\ last'[u] = last[u]
        BY <2>1, <2>7, <2>8, <3>2
      <4>2. /\ at[u] < last[u] /\ last[u] <= total[d] /\ last[u] <= index[d]
            /\ \A v \in Threads \ {u, t} : Holds(v, d)' => last[u] <= at'[v] \/ last'[v] <= at[u]
        BY <2>1, <2>6, <2>7, <4>1
      <4>3. Holds(t, d)' => d = c /\ at'[t] = index[c]
        BY <1>4, <2>3
      <4>4. index'[d] >= index[d] /\ total'[d] = total[d]
        <5>1. CASE d = c
          BY <1>1, <1>3, <5>1
        <5>2. CASE d # c
          BY <1>1, <1>3, <2>5, <5>2
        <5> QED
          BY <5>1, <5>2
      <4>5. index'[d] \in Nat
        BY <1>3, <2>5
      <4>6. last[u] <= index'[d]
        BY <2>4, <2>5, <4>2, <4>4, <4>5
      <4>7. Holds(t, d)' => last[u] <= at'[t]
        BY <4>2, <4>3
      <4>8. \A v \in Threads \ {u} : Holds(v, d)' => last[u] <= at'[v] \/ last'[v] <= at[u]
        BY <4>2, <4>7
      <4> QED
        BY <4>1, <4>2, <4>4, <4>6, <4>8
    <3> QED
      BY <3>1, <3>2
  <2>9. ASSUME NEW d \in Callers, NEW i \in ItemsOf(d)
        PROVE  done[d][i] = IF i < index'[d] /\ ~\E u \in Threads : Holds(u, d)' /\ i \in at'[u] .. last'[u] - 1
                              THEN 1 ELSE 0
    <3>0. i \in Nat /\ i < total[d]
      BY <2>5 DEF ItemsOf
    <3>1. done[d][i] = IF i < index[d] /\ ~\E u \in Threads : Holds(u, d) /\ i \in at[u] .. last[u] - 1
                         THEN 1 ELSE 0
      BY DEF IInv, ChunksOK
    <3>2. \A u \in Threads \ {t} : (Holds(u, d)' /\ i \in at'[u] .. last'[u] - 1)
                                     <=> (Holds(u, d) /\ i \in at[u] .. last[u] - 1)
      BY <2>1, <2>7
    <3>3. (\E u \in Threads : Holds(u, d) /\ i \in at[u] .. last[u] - 1)
            <=> \E u \in Threads \ {t} : Holds(u, d)' /\ i \in at'[u] .. last'[u] - 1
      BY <2>2, <3>2
    <3>4. (\E u \in Threads : Holds(u, d)' /\ i \in at'[u] .. last'[u] - 1)
            <=> \/ \E u \in Threads \ {t} : Holds(u, d)' /\ i \in at'[u] .. last'[u] - 1
                \/ Holds(t, d)' /\ i \in at'[t] .. last'[t] - 1
      OBVIOUS
    <3>5. (\E u \in Threads \ {t} : Holds(u, d)' /\ i \in at'[u] .. last'[u] - 1) => i < index[d]
      <4> SUFFICES ASSUME NEW u \in Threads \ {t}, Holds(u, d)', i \in at'[u] .. last'[u] - 1
                   PROVE  i < index[d]
        OBVIOUS
      <4>1. Holds(u, d) /\ i \in at[u] .. last[u] - 1
        BY <3>2
      <4> QED
        BY <2>4, <2>5, <2>6, <3>0, <4>1
    <3>6. CASE d # c
      BY <1>3, <2>3, <3>1, <3>3, <3>4, <3>6
    <3>7. CASE d = c /\ pc'[t] = "finish"
      BY <1>3, <1>4, <2>3, <3>0, <3>1, <3>3, <3>4, <3>7
    <3>8. CASE d = c /\ pc'[t] = "body"
      <4>1. Holds(t, d)' /\ at'[t] = index[c] /\ last'[t] = end
        BY <1>4, <2>3, <3>8
      <4>2. i < index'[d] <=> i < index[d] \/ i \in at'[t] .. last'[t] - 1
        BY <1>3, <1>6, <3>0, <3>8, <4>1
      <4>3. ~(i < index[d] /\ i \in at'[t] .. last'[t] - 1)
        BY <1>3, <1>6, <3>0, <3>8, <4>1
      <4> QED
        BY <3>1, <3>3, <3>4, <4>1, <4>2, <4>3
    <3> QED
      BY <1>4, <3>6, <3>7, <3>8
  <2> QED
    BY <1>1, <2>8, <2>9 DEF ChunksOK, ItemsOf
<1>9. ExhaustedOK'
  <2> SUFFICES ASSUME NEW d \in Callers,
                      mode[d] # "loop" \/ pc'[d] \in {"setup", "finish", "signal", "await", "rest"}
               PROVE  index'[d] >= total[d]
    BY <1>1 DEF ExhaustedOK, call
  <2>1. index[d] \in Nat /\ total[d] \in Nat /\ index'[d] \in Nat /\ index'[d] >= index[d]
    <3>1. index[d] \in Nat /\ total[d] \in Nat
      BY DEF IInv, ShapeOK
    <3>2. CASE d = c
      BY <1>3, <3>1, <3>2
    <3>3. CASE d # c
      BY <1>3, <3>1, <3>3
    <3> QED
      BY <3>1, <3>2, <3>3
  <2>2. CASE mode[d] # "loop" \/ pc[d] \in {"setup", "finish", "signal", "await", "rest"}
    BY <2>1, <2>2 DEF IInv, ExhaustedOK
  <2>3. CASE mode[d] = "loop" /\ pc[d] \notin {"setup", "finish", "signal", "await", "rest"}
    <3>1. d = t
      BY <1>5, <2>3, TwoKinds
    <3>2. c = t
      BY <1>0, <1>1, <2>3, <3>1, SharerOpen DEF Sharing
    <3> QED
      BY <1>4, <2>1, <2>3, <3>1, <3>2
  <2> QED
    BY <2>2, <2>3
<1> QED
  BY <1>7, <1>8, <1>9 DEF RestOK

LEMMA BodyRest == ASSUME IInv, NEW t \in Threads, Body(t) PROVE RestOK'
<1> DEFINE c == task[t].owner
<1>1. /\ pc[t] = "body"
      /\ UNCHANGED <<queue, shut, task, call, total, chunk, index, remaining, ran, last>>
  BY DEF Body, Goto
<1>2. c \in Callers
  BY <1>1, SharerOpen DEF Sharing
<1>3. /\ \A u \in Threads \ {t} : pc'[u] = pc[u] /\ at'[u] = at[u]
      /\ at'[t] = at[t] + 1 /\ pc'[t] = IF at[t] + 1 < last[t] THEN "body" ELSE "fetch"
      /\ at[t] \in Nat /\ last[t] \in Nat
  BY DEF Body, Goto, IInv, ShapeOK
<1>4. Holds(t, c) /\ \A d : Holds(t, d) <=> d = c
  BY <1>1 DEF Holds
<1>5. \A d \in Callers : index[d] \in Nat /\ total[d] \in Nat
  BY DEF IInv, ShapeOK
<1>6. \A u \in Threads : at[u] \in Nat /\ last[u] \in Nat
  BY DEF IInv, ShapeOK
<1>7. at[t] < last[t] /\ last[t] <= total[c] /\ last[t] <= index[c]
  BY <1>2, <1>4 DEF IInv, ChunksOK
<1>8. at[t] \in ItemsOf(c)
  BY <1>2, <1>3, <1>5, <1>7 DEF ItemsOf
<1>9. done' = [done EXCEPT ![c][at[t]] = @ + 1]
  BY DEF Body
<1>10. /\ DOMAIN done = Callers /\ \A d \in Callers : done[d] \in [ItemsOf(d) -> Nat]
  BY DEF IInv, ShapeOK
<1>11. \A d \in Callers : \A i \in ItemsOf(d) :
         done'[d][i] = IF d = c /\ i = at[t] THEN done[d][i] + 1 ELSE done[d][i]
  BY <1>2, <1>8, <1>9, <1>10
<1> HIDE DEF c
<1>12. HelpersOK' /\ RemainingOK' /\ ActiveExact' /\ KeptOK'
  BY <1>1, <1>3, StaysAtWork DEF Sharing
<1>13. ChunksOK'
  <2>1. \A u \in Threads \ {t} : \A d : Holds(u, d)' <=> Holds(u, d)
    BY <1>1, <1>3 DEF Holds
  <2>2. \A d : Holds(t, d)' <=> d = c /\ at[t] + 1 < last[t]
    BY <1>1, <1>3 DEF Holds, c
  <2>3. \A d \in Callers : \A u \in Threads : Holds(u, d) =>
           /\ at[u] < last[u] /\ last[u] <= total[d] /\ last[u] <= index[d]
           /\ \A v \in Threads \ {u} : Holds(v, d) => last[u] <= at[v] \/ last[v] <= at[u]
    BY DEF IInv, ChunksOK
  <2>4. \A d \in Callers : \A u \in Threads : Holds(u, d)' =>
           Holds(u, d) /\ at'[u] < last[u] /\ at'[u] >= at[u] /\ at'[u] \in Nat
    BY <1>3, <1>4, <1>6, <2>1, <2>2, <2>3
  <2>5. ASSUME NEW d \in Callers, NEW u \in Threads, Holds(u, d)'
        PROVE  /\ at'[u] < last'[u] /\ last'[u] <= total'[d] /\ last'[u] <= index'[d]
               /\ \A v \in Threads \ {u} : Holds(v, d)' => last'[u] <= at'[v] \/ last'[v] <= at'[u]
    BY <1>1, <1>6, <2>3, <2>4, <2>5
  <2>6. ASSUME NEW d \in Callers, NEW i \in ItemsOf(d)
        PROVE  done'[d][i] = IF i < index[d] /\ ~\E u \in Threads : Holds(u, d)' /\ i \in at'[u] .. last[u] - 1
                               THEN 1 ELSE 0
    <3>0. i \in Nat
      BY <1>5 DEF ItemsOf
    <3>1. done[d][i] = IF i < index[d] /\ ~\E u \in Threads : Holds(u, d) /\ i \in at[u] .. last[u] - 1
                         THEN 1 ELSE 0
      BY DEF IInv, ChunksOK
    <3>2. \A u \in Threads \ {t} : (Holds(u, d)' /\ i \in at'[u] .. last[u] - 1)
                                     <=> (Holds(u, d) /\ i \in at[u] .. last[u] - 1)
      BY <1>3, <2>1
    <3>3. CASE d = c /\ i = at[t]
      <4>1. done[d][i] = 0
        BY <1>3, <1>4, <1>7, <3>1, <3>3
      <4>2. ASSUME NEW u \in Threads, Holds(u, d)', i \in at'[u] .. last[u] - 1 PROVE FALSE
        <5>1. u # t
          BY <1>3, <3>0, <3>3, <4>2
        <5>2. Holds(u, c) /\ i \in at[u] .. last[u] - 1
          BY <3>2, <3>3, <4>2, <5>1
        <5>3. last[t] <= at[u] \/ last[u] <= at[t]
          BY <1>2, <1>4, <2>3, <5>1, <5>2
        <5> QED
          BY <1>6, <1>7, <3>3, <5>2, <5>3
      <4>3. i < index[d]
        BY <1>3, <1>5, <1>7, <3>3
      <4> QED
        BY <1>11, <3>3, <4>1, <4>2, <4>3
    <3>4. CASE ~(d = c /\ i = at[t])
      <4>1. (Holds(t, d)' /\ i \in at'[t] .. last[t] - 1) <=> (Holds(t, d) /\ i \in at[t] .. last[t] - 1)
        BY <1>3, <1>4, <2>2, <3>0, <3>4
      <4>2. (\E u \in Threads : Holds(u, d)' /\ i \in at'[u] .. last[u] - 1)
              <=> (\E u \in Threads : Holds(u, d) /\ i \in at[u] .. last[u] - 1)
        BY <3>2, <4>1
      <4> QED
        BY <1>11, <3>1, <3>4, <4>2
    <3> QED
      BY <3>3, <3>4
  <2> QED
    BY <1>1, <2>5, <2>6 DEF ChunksOK, ItemsOf
<1>14. ExhaustedOK'
  <2>1. UNCHANGED <<mode, index, total>>
    BY <1>1 DEF call
  <2> QED
    BY <1>1, <1>3, <2>1, TwoKinds DEF IInv, ExhaustedOK
<1> QED
  BY <1>12, <1>13, <1>14 DEF RestOK

LEMMA FinishRest == ASSUME IInv, PlaceOK', NEW t \in Threads, Finish(t) PROVE RestOK'
<1>0. PICK c \in Callers : c = task[t].owner
  BY SharerOpen DEF Finish, Goto, Sharing
<1>1. /\ pc[t] = "finish" /\ UNCHANGED <<queue, shut, run, call, total, chunk, index, done, ran>>
      /\ remaining' = [remaining EXCEPT ![c] = remaining[c] - 1]
      /\ pc'[t] = "signal" \/ pc'[t] = Leave(t)
      /\ \A u \in Threads \ {t} : pc'[u] = pc[u]
  BY <1>0 DEF Finish, Goto, IInv, ShapeOK
<1>2. /\ UNCHANGED <<tasks, active, kept, stop, asked, spc, task, at, last, mode, calls>>
      /\ Leave(t) = IF t \in Callers /\ mode[t] = "loop" THEN "await" ELSE "count"
  BY <1>1 DEF queue, shut, run, call, Leave, Inline
<1>3. /\ mode[c] = "loop" /\ pc[c] \notin {"setup", "push"}
      /\ t \in Callers /\ mode[t] = "loop" => t = c
  BY <1>0, <1>1, SharerOpen DEF Sharing
<1>4. pc'[t] \in {"signal", "await", "count"}
  BY <1>1, <1>2
<1>5. HelpersOK'
  <2>1. \A k \in Tasks : Open(k) => StaysOpen(k)
    BY <1>1, <1>2, <1>4, TwoKinds DEF Open, StaysOpen, Tasks
  <2>2. \A i \in 1 .. Len(tasks') : tasks'[i].loop => StaysOpen(tasks'[i])
    BY <1>2, <2>1, QueuedTasks DEF IInv, HelpersOK
  <2>3. \A u \in Threads : pc[u] \in Sharing => task[u] \in Tasks /\ Open(task[u])
    BY SharerOpen DEF IInv, HelpersOK
  <2>4. \A u \in Threads : pc'[u] \in Sharing => StaysOpen(task'[u])
    BY <1>1, <1>2, <1>4, <2>1, <2>3 DEF Sharing
  <2> QED
    BY <2>2, <2>4, HelpersNext
<1>6. RemainingOK'
  <2>1. \A d \in Callers : Sharers(d)' = IF d = c THEN Sharers(c) \ {t} ELSE Sharers(d)
    BY <1>0, <1>1, <1>2, <1>4 DEF Sharers, Sharing
  <2>2. t \in Sharers(c)
    BY <1>0, <1>1 DEF Sharers, Sharing
  <2>3. IsFiniteSet(Sharers(c)) /\ Cardinality(Sharers(c)) \in Nat
    BY ThreadsFinite
  <2>4. Cardinality(Sharers(c) \ {t}) = Cardinality(Sharers(c)) - 1
    BY <2>2, <2>3, FS_RemoveElement
  <2>5. Cardinality(Positions(tasks, c)) \in Nat
    BY PositionsFinite DEF IInv, ShapeOK
  <2>6. \A d \in Callers : TasksNeeded(total[d], chunk[d])' = TasksNeeded(total[d], chunk[d])
    BY <1>1, SameCount DEF TasksNeeded
  <2>7. \A d \in Callers : \A p \in {"push", "setup"} : pc'[d] = p <=> pc[d] = p
    BY <1>1, <1>4, TwoKinds
  <2>8. remaining'[c] = remaining[c] - 1 /\ \A d \in Callers \ {c} : remaining'[d] = remaining[d]
    BY <1>1 DEF IInv, ShapeOK
  <2>9. \A d \in Callers : Positions(tasks, d)' = Positions(tasks, d)
    BY <1>2 DEF Positions
  <2> SUFFICES ASSUME NEW d \in Callers, mode'[d] = "loop"
               PROVE  /\ pc'[d] = "push" =>
                           remaining'[d] = Larger(TasksNeeded(total[d], chunk[d])', 1)
                      /\ pc'[d] \notin {"setup", "push"} =>
                           remaining'[d] = Cardinality(Positions(tasks', d)) + Cardinality(Sharers(d)')
    BY DEF RemainingOK
  <2>10. CASE d = c
    <3>1. remaining[c] = Cardinality(Positions(tasks, c)) + Cardinality(Sharers(c))
      BY <1>3 DEF IInv, RemainingOK
    <3>2. Sharers(d)' = Sharers(c) \ {t} /\ tasks' = tasks
      BY <1>2, <2>1, <2>10
    <3> QED
      BY <1>3, <2>3, <2>4, <2>5, <2>7, <2>8, <2>10, <3>1, <3>2
  <2>11. CASE d # c
    <3>1. /\ pc[d] = "push" => remaining[d] = Larger(TasksNeeded(total[d], chunk[d]), 1)
          /\ pc[d] \notin {"setup", "push"} =>
               remaining[d] = Cardinality(Positions(tasks, d)) + Cardinality(Sharers(d))
      BY <1>2 DEF IInv, RemainingOK
    <3>2. Sharers(d)' = Sharers(d) /\ tasks' = tasks /\ remaining'[d] = remaining[d]
      BY <1>2, <2>1, <2>8, <2>11
    <3> QED
      BY <2>6, <2>7, <3>1, <3>2
  <2> QED
    BY <2>10, <2>11
<1>7. ChunksOK'
  <2>1. \A u \in Threads : \A d : Holds(u, d)' <=> Holds(u, d)
    BY <1>1, <1>2, <1>4 DEF Holds
  <2> QED
    BY <1>1, <1>2, <2>1 DEF IInv, ChunksOK, ItemsOf
<1>8. ExhaustedOK'
  BY <1>1, <1>2, TwoKinds DEF IInv, ExhaustedOK
<1>9. ActiveExact' /\ KeptOK'
  <2>1. \A u \in Threads : ~Inline(u)' /\ pc'[u] \in Executing \cup {"count", "lost"} <=>
                           ~Inline(u) /\ pc[u] \in Executing \cup {"count", "lost"}
    BY <1>1, <1>2, <1>4 DEF Inline, Executing
  <2>2. \A u \in Threads : pc[u] = "run" => pc'[u] = "run"
    BY <1>1
  <2> QED
    BY <1>1, <1>2, <2>1, <2>2, SameHands
<1> QED
  BY <1>5, <1>6, <1>7, <1>8, <1>9 DEF RestOK

-----------------------------------------------------------------------------
(* The steps of parallel_for.                                                *)

(* A step of a caller with whose loop nobody is at work, and which touches   *)
(* no other loop.                                                            *)
Alone(c) ==
  /\ UNCHANGED <<spc, at, last>>
  /\ \A i \in 1 .. Len(tasks) : tasks[i].loop => tasks[i].owner # c
  /\ \A u \in Threads : pc[u] \in Sharing => task[u].owner # c
  /\ \A u \in Threads \ {c} :
       \/ pc'[u] = pc[u] /\ task'[u] = task[u]
       \/ pc[u] = "asleep" /\ pc'[u] = "test"
  /\ pc[c] \notin Sharing
  /\ \A d \in Callers \ {c} :
       /\ mode'[d] = mode[d] /\ calls'[d] = calls[d]
       /\ total'[d] = total[d] /\ chunk'[d] = chunk[d] /\ index'[d] = index[d]
       /\ remaining'[d] = remaining[d] /\ done'[d] = done[d]

LEMMA OtherLoops ==
  ASSUME IInv, NEW c \in Callers, Alone(c)
  PROVE  /\ \A i \in 1 .. Len(tasks) : tasks[i].loop => StaysOpen(tasks[i])
         /\ \A u \in Threads \ {c} : pc'[u] \in Sharing => StaysOpen(task'[u])
         /\ \A d \in Callers \ {c} : Sharers(d) \ {c} = Sharers(d)' \ {c}
         /\ \A d \in Callers \ {c} : c \notin Sharers(d)
         /\ Sharers(c) \ {c} = {} /\ Sharers(c)' \ {c} = {}
         /\ Positions(tasks, c) = {}
         /\ \A u \in Threads \ {c} : \A d : Holds(u, d)' <=> Holds(u, d)
         /\ \A u \in Threads : ~Holds(u, c)
         /\ \A d : ~Holds(c, d)
         /\ \A d \in Callers \ {c} : TasksNeeded(total[d], chunk[d])' = TasksNeeded(total[d], chunk[d])
         /\ \A d \in Callers \ {c} : pc'[d] = pc[d]
<1> USE DEF Alone
<1>2. \A d \in Callers \ {c} : d \in Threads /\ d \notin Workers
  BY TwoKinds
<1>3. \A d \in Callers \ {c} : pc'[d] = pc[d]
  <2>1. \A d \in Callers : pc[d] # "asleep"
    <3> SUFFICES ASSUME NEW d \in Callers PROVE pc[d] # "asleep"
      OBVIOUS
    <3>1. CallerOK(d) /\ mode[d] \in {"none", "loop", "enqueue", "wait"}
      BY DEF IInv, PlaceOK, ShapeOK
    <3> QED
      BY <3>1 DEF CallerOK, Inside, Waiting, Executing
  <2> QED
    BY <1>2, <2>1
<1>4. \A k \in Tasks : k.owner # c /\ Open(k) => StaysOpen(k)
  BY <1>3 DEF Open, StaysOpen, Tasks
<1>5. \A i \in 1 .. Len(tasks) : tasks[i].loop =>
        tasks[i] \in Tasks /\ tasks[i].owner # c /\ Open(tasks[i])
  BY QueuedTasks DEF IInv, HelpersOK
<1>6. \A u \in Threads : pc[u] \in Sharing =>
        task[u] \in Tasks /\ task[u].owner # c /\ Open(task[u])
  BY SharerOpen DEF IInv, HelpersOK
<1>7. \A u \in Threads : pc[u] \in Sharing => u # c /\ task[u].owner # c
  BY <1>6
<1>8. \A u \in Threads \ {c} : /\ pc'[u] \in Sharing <=> pc[u] \in Sharing
                               /\ pc'[u] \in Sharing => task'[u] = task[u] /\ pc'[u] = pc[u]
                               /\ pc'[u] = "ring" <=> pc[u] = "ring"
                               /\ pc'[u] = "body" <=> pc[u] = "body"
  BY DEF Sharing
<1>9. \A u \in Threads \ {c} : pc'[u] \in Sharing => StaysOpen(task'[u])
  BY <1>4, <1>6, <1>8
<1>10. \A d : Sharers(d) \ {c} = Sharers(d)' \ {c}
  BY <1>8 DEF Sharers
<1>11. \A d \in Callers \ {c} : c \notin Sharers(d)
  BY DEF Sharers
<1>12. Sharers(c) \ {c} = {}
  BY <1>7 DEF Sharers
<1>13. Positions(tasks, c) = {}
  BY <1>5 DEF Positions
<1>14. /\ \A u \in Threads \ {c} : \A d : Holds(u, d)' <=> Holds(u, d)
       /\ \A u \in Threads : ~Holds(u, c)
       /\ \A d : ~Holds(c, d)
  BY <1>7, <1>8 DEF Holds, Sharing
<1>15. \A d \in Callers \ {c} : TasksNeeded(total[d], chunk[d])' = TasksNeeded(total[d], chunk[d])
  BY DEF TasksNeeded, ThreadCount
<1> QED
  BY <1>3, <1>4, <1>5, <1>7, <1>9, <1>10, <1>11, <1>12, <1>13, <1>14, <1>15

(* What is left to show is about the caller itself.                          *)
LEMMA Elsewhere ==
  ASSUME IInv, NEW c \in Callers, Alone(c),
         \A d \in Callers \ {c} : Positions(tasks', d) = Positions(tasks, d),
         \A d \in Callers \ {c} : c \notin Sharers(d)',
         mode'[c] = "loop" =>
           /\ pc'[c] = "push" => remaining'[c] = Larger(TasksNeeded(total[c], chunk[c])', 1)
           /\ pc'[c] \notin {"setup", "push"} =>
                remaining'[c] = Cardinality(Positions(tasks', c)) + Cardinality(Sharers(c)'),
         pc'[c] # "body",
         \A i \in ItemsOf(c)' : done'[c][i] = IF i < index'[c] THEN 1 ELSE 0,
         mode'[c] # "loop" \/ pc'[c] \in {"setup", "finish", "signal", "await", "rest"}
           => index'[c] >= total'[c]
  PROVE  RemainingOK' /\ ChunksOK' /\ ExhaustedOK'
<1>1. /\ \A d \in Callers \ {c} : Sharers(d) \ {c} = Sharers(d)' \ {c} /\ c \notin Sharers(d)
      /\ \A u \in Threads \ {c} : \A d : Holds(u, d)' <=> Holds(u, d)
      /\ \A u \in Threads : ~Holds(u, c)
      /\ \A d : ~Holds(c, d)
      /\ \A d \in Callers \ {c} : TasksNeeded(total[d], chunk[d])' = TasksNeeded(total[d], chunk[d])
      /\ \A d \in Callers \ {c} : pc'[d] = pc[d]
  BY OtherLoops
<1>2. /\ UNCHANGED <<spc, at, last>>
      /\ \A d \in Callers \ {c} :
           /\ mode'[d] = mode[d] /\ calls'[d] = calls[d]
           /\ total'[d] = total[d] /\ chunk'[d] = chunk[d] /\ index'[d] = index[d]
           /\ remaining'[d] = remaining[d] /\ done'[d] = done[d]
  BY DEF Alone
<1>3. ASSUME NEW d \in Callers \ {c} PROVE Sharers(d)' = Sharers(d)
  <2> DEFINE A == Sharers(d)
             B == Sharers(d)'
  <2>1. A \ {c} = B \ {c} /\ c \notin A /\ c \notin B
    BY <1>1
  <2> HIDE DEF A, B
  <2>2. A = B
    BY <2>1
  <2> QED
    BY <2>2 DEF A, B
<1>4. \A d : ~Holds(c, d)'
  BY DEF Holds
<1>5. RemainingOK'
  <2> SUFFICES ASSUME NEW d \in Callers, mode'[d] = "loop"
               PROVE  /\ pc'[d] = "push" =>
                           remaining'[d] = Larger(TasksNeeded(total[d], chunk[d])', 1)
                      /\ pc'[d] \notin {"setup", "push"} =>
                           remaining'[d] = Cardinality(Positions(tasks', d)) + Cardinality(Sharers(d)')
    BY DEF RemainingOK
  <2>1. CASE d = c
    BY <2>1
  <2>2. CASE d # c
    <3>1. /\ pc[d] = "push" => remaining[d] = Larger(TasksNeeded(total[d], chunk[d]), 1)
          /\ pc[d] \notin {"setup", "push"} =>
               remaining[d] = Cardinality(Positions(tasks, d)) + Cardinality(Sharers(d))
      BY <1>2, <2>2 DEF IInv, RemainingOK
    <3> QED
      BY <1>1, <1>2, <1>3, <2>2, <3>1
  <2> QED
    BY <2>1, <2>2
<1>6. ChunksOK'
  <2>1. \A u \in Threads : \A d : Holds(u, d)' <=> Holds(u, d)
    BY <1>1, <1>4
  <2>2. ASSUME NEW d \in Callers, NEW u \in Threads, Holds(u, d)'
        PROVE  /\ at'[u] < last'[u] /\ last'[u] <= total'[d] /\ last'[u] <= index'[d]
               /\ \A v \in Threads \ {u} : Holds(v, d)' => last'[u] <= at'[v] \/ last'[v] <= at'[u]
    <3>1. d # c
      BY <1>1, <2>1, <2>2
    <3> QED
      BY <1>2, <2>1, <2>2, <3>1 DEF IInv, ChunksOK
  <2>3. ASSUME NEW d \in Callers, NEW i \in ItemsOf(d)'
        PROVE  done'[d][i] = IF i < index'[d] /\ ~\E u \in Threads : Holds(u, d)' /\ i \in at'[u] .. last'[u] - 1
                               THEN 1 ELSE 0
    <3>1. CASE d = c
      BY <1>1, <2>1, <3>1
    <3>2. CASE d # c
      <4>1. i \in ItemsOf(d)
        BY <1>2, <3>2 DEF ItemsOf
      <4> QED
        BY <1>2, <2>1, <3>2, <4>1 DEF IInv, ChunksOK
    <3> QED
      BY <3>1, <3>2
  <2> QED
    BY <2>2, <2>3 DEF ChunksOK
<1>7. ExhaustedOK'
  BY <1>1, <1>2 DEF IInv, ExhaustedOK
<1> QED
  BY <1>5, <1>6, <1>7

(* Before the helpers are queued nobody is at work.                          *)
LEMMA NotYet ==
  ASSUME IInv, NEW c \in Callers, mode[c] # "loop" \/ pc[c] \in {"setup", "push"}
  PROVE  /\ \A i \in 1 .. Len(tasks) : tasks[i].loop => tasks[i].owner # c
         /\ \A u \in Threads : pc[u] \in Sharing => task[u].owner # c
<1>1. \A k : k.owner = c => ~Open(k)
  BY DEF Open
<1> QED
  BY <1>1 DEF IInv, HelpersOK

LEMMA LoopBegins == ASSUME IInv, NEW c \in Callers, BeginLoop(c) PROVE RestOK'
<1>1. /\ UNCHANGED <<queue, shut, run, loop, ran>>
      /\ mode'[c] = "loop" /\ \A d \in Callers \ {c} : mode'[d] = mode[d] /\ calls'[d] = calls[d]
      /\ pc[c] = "idle" /\ pc'[c] = "setup" /\ \A u \in Threads \ {c} : pc'[u] = pc[u]
  BY TwoKinds DEF BeginLoop, Begin, Goto, IInv, ShapeOK
<1>2. mode[c] = "none"
  BY <1>1, LoopPlaces
<1>3. UNCHANGED <<tasks, active, kept, spc, task, at, last, total, chunk, index, remaining, done>>
  BY <1>1 DEF queue, shut, run, loop
<1>4. Alone(c)
  <2>1. /\ \A i \in 1 .. Len(tasks) : tasks[i].loop => tasks[i].owner # c
        /\ \A u \in Threads : pc[u] \in Sharing => task[u].owner # c
    BY <1>1, <1>2, NotYet
  <2>2. pc[c] \notin Sharing
    BY <1>1 DEF Sharing
  <2> QED
    BY <1>1, <1>2, <1>3, <2>1, <2>2 DEF Alone
<1>5. /\ \A d \in Callers \ {c} : c \notin Sharers(d)'
      /\ \A d : Positions(tasks', d) = Positions(tasks, d)
  BY <1>1, <1>3 DEF Sharers, Sharing
<1>6. index[c] >= total[c] /\ index[c] \in Nat /\ total[c] \in Nat
  BY <1>2 DEF IInv, ExhaustedOK, ShapeOK
<1>7. \A i \in ItemsOf(c) : done[c][i] = IF i < index[c] THEN 1 ELSE 0
  <2>1. \A u \in Threads : ~Holds(u, c)
    BY <1>4, OtherLoops
  <2> QED
    BY <2>1 DEF IInv, ChunksOK
<1>8. RemainingOK' /\ ChunksOK' /\ ExhaustedOK'
  <2>1. \A i \in ItemsOf(c)' : done'[c][i] = IF i < index'[c] THEN 1 ELSE 0
    BY <1>3, <1>7 DEF ItemsOf
  <2> QED
    BY <1>1, <1>3, <1>4, <1>5, <1>6, <2>1, Elsewhere
<1>9. HelpersOK'
  <2>1. /\ \A i \in 1 .. Len(tasks) : tasks[i].loop => StaysOpen(tasks[i])
        /\ \A u \in Threads \ {c} : pc'[u] \in Sharing => StaysOpen(task'[u])
    BY <1>4, OtherLoops
  <2> QED
    BY <1>1, <1>3, <2>1, HelpersNext DEF Sharing
<1>10. ActiveExact' /\ KeptOK'
  <2>1. \A u \in Threads : ~Inline(u)' /\ pc'[u] \in Executing \cup {"count", "lost"} <=>
                           ~Inline(u) /\ pc[u] \in Executing \cup {"count", "lost"}
    BY <1>1 DEF Inline, Executing
  <2>2. \A u \in Threads : pc[u] = "run" => pc'[u] = "run"
    BY <1>1
  <2> QED
    BY <1>1, <1>3, <2>1, <2>2, SameHands
<1> QED
  BY <1>8, <1>9, <1>10 DEF RestOK

LEMMA SetupRest == ASSUME IInv, NEW c \in Callers, Setup(c) PROVE RestOK'
<1>1. /\ UNCHANGED <<queue, shut, at, last, call, ran>>
      /\ pc[c] = "setup" /\ pc'[c] = "push"
      /\ \A u \in Threads \ {c} : pc'[u] = pc[u] /\ task'[u] = task[u]
      /\ index'[c] = 0 /\ \A d \in Callers \ {c} : index'[d] = index[d]
  BY TwoKinds DEF Setup, Goto, IInv, ShapeOK
<1>2. UNCHANGED <<tasks, active, kept, stop, spc, mode, calls>> /\ mode[c] = "loop"
  BY <1>1, LoopPlaces DEF queue, shut, call
<1>3. PICK s \in Sizes :
        /\ total' = [total EXCEPT ![c] = s[1]]
        /\ chunk' = [chunk EXCEPT ![c] = ChunkSize(s[1], s[2])]
        /\ remaining' = [remaining EXCEPT ![c] = Larger(TasksNeeded(s[1], ChunkSize(s[1], s[2])), 1)]
        /\ done' = [done EXCEPT ![c] = [i \in 0 .. s[1] - 1 |-> 0]]
  BY DEF Setup
<1>4. /\ total'[c] = s[1] /\ chunk'[c] = ChunkSize(s[1], s[2])
      /\ remaining'[c] = Larger(TasksNeeded(s[1], ChunkSize(s[1], s[2])), 1)
      /\ done'[c] = [i \in 0 .. s[1] - 1 |-> 0]
      /\ \A d \in Callers \ {c} : /\ total'[d] = total[d] /\ chunk'[d] = chunk[d]
                                  /\ remaining'[d] = remaining[d] /\ done'[d] = done[d]
  BY <1>3 DEF IInv, ShapeOK
<1>5. Alone(c)
  <2>1. /\ \A i \in 1 .. Len(tasks) : tasks[i].loop => tasks[i].owner # c
        /\ \A u \in Threads : pc[u] \in Sharing => task[u].owner # c
    BY <1>1, <1>2, NotYet
  <2>2. pc[c] \notin Sharing
    BY <1>1 DEF Sharing
  <2> QED
    BY <1>1, <1>2, <1>4, <2>1, <2>2 DEF Alone
<1>6. /\ \A d \in Callers \ {c} : c \notin Sharers(d)'
      /\ \A d : Positions(tasks', d) = Positions(tasks, d)
  BY <1>1, <1>2 DEF Sharers, Sharing
<1>7. RemainingOK' /\ ChunksOK' /\ ExhaustedOK'
  <2>1. ThreadCount' = ThreadCount
    BY <1>1, SameCount
  <2>2. remaining'[c] = Larger(TasksNeeded(total[c], chunk[c])', 1)
    BY <1>4, <2>1 DEF TasksNeeded
  <2>3. \A i \in ItemsOf(c)' : done'[c][i] = IF i < index'[c] THEN 1 ELSE 0
    <3>1. s[1] \in Nat
      BY SizesShape
    <3> QED
      BY <1>1, <1>4, <3>1 DEF ItemsOf
  <2> QED
    BY <1>1, <1>2, <1>5, <1>6, <2>2, <2>3, Elsewhere
<1>8. HelpersOK'
  <2>1. /\ \A i \in 1 .. Len(tasks) : tasks[i].loop => StaysOpen(tasks[i])
        /\ \A u \in Threads \ {c} : pc'[u] \in Sharing => StaysOpen(task'[u])
    BY <1>5, OtherLoops
  <2> QED
    BY <1>1, <1>2, <2>1, HelpersNext DEF Sharing
<1>9. ActiveExact'
  <2>1. Unfinished' = Unfinished
    BY <1>1, <1>2 DEF Unfinished, Inline, Executing
  <2> QED
    BY <1>2, <2>1 DEF IInv, ActiveExact
<1>10. KeptOK'
  BY <1>1, <1>2 DEF IInv, KeptOK
<1> QED
  BY <1>7, <1>8, <1>9, <1>10 DEF RestOK

LEMMA PushRest == ASSUME IInv, NEW c \in Callers, Push(c) PROVE RestOK'
<1> DEFINE h == TasksNeeded(total[c], chunk[c]) - 1
           k == task[c]
<1>0. h \in Int /\ h >= -1 /\ TasksNeeded(total[c], chunk[c]) \in Nat
  BY HelpersNeeded DEF IInv
<1>1. /\ UNCHANGED <<kept, shut, run, call, total, chunk, index, done, ran>>
      /\ pc[c] = "push" /\ \A u \in Threads \ {c} : pc'[u] = pc[u]
      /\ \A d \in Callers \ {c} : remaining'[d] = remaining[d]
  BY TwoKinds DEF Push, Goto, IInv, ShapeOK
<1>2. mode[c] = "loop" /\ UNCHANGED <<stop, spc, task, at, last, mode, calls>>
  BY <1>1, LoopPlaces DEF shut, run, call
<1>3. /\ k = [owner |-> c, call |-> calls[c], loop |-> TRUE]
      /\ calls[c] \in 1 .. MaxCalls
  BY <1>1, <1>2, LoopPlaces DEF IInv, PlaceOK, CallerOK
<1>4. k \in Tasks /\ k.loop /\ k.owner = c /\ k.call = calls[c]
  BY <1>3 DEF Tasks
<1>5. \/ /\ h > 0 /\ ~stop /\ pc'[c] = "ring" /\ remaining'[c] = remaining[c]
         /\ active' = active + h /\ tasks' = tasks \o [i \in 1 .. h |-> k]
      \/ /\ ~(h > 0 /\ ~stop) /\ pc'[c] = "fetch" /\ UNCHANGED <<tasks, active>>
         /\ remaining'[c] = remaining[c] - Larger(h, 0)
  BY TwoKinds DEF Push, Goto, IInv, ShapeOK
<1>6. h > 0 => ~stop
  <2> SUFFICES ASSUME h > 0, stop PROVE FALSE
    OBVIOUS
  <2>1. spc = "down"
    BY <1>2 DEF IInv, PlaceOK, StopOK
  <2>2. total[c] \in Nat /\ chunk[c] \in Nat \ {0}
    BY DEF IInv, ShapeOK
  <2>3. (total[c] + chunk[c] - 1) \div chunk[c] \in Nat
    BY <2>2
  <2> QED
    BY <2>1, <2>3 DEF TasksNeeded, ThreadCount, Smaller
<1>7. remaining[c] = Larger(h + 1, 1)
  <2>1. remaining[c] = Larger(TasksNeeded(total[c], chunk[c]), 1)
    BY <1>1, <1>2 DEF IInv, RemainingOK
  <2>2. TasksNeeded(total[c], chunk[c]) = h + 1
    BY <1>0
  <2> QED
    BY <2>1, <2>2
<1>8. Alone(c)
  <2>1. /\ \A i \in 1 .. Len(tasks) : tasks[i].loop => tasks[i].owner # c
        /\ \A u \in Threads : pc[u] \in Sharing => task[u].owner # c
    BY <1>1, <1>2, NotYet
  <2>2. pc[c] \notin Sharing
    BY <1>1 DEF Sharing
  <2> QED
    BY <1>1, <1>2, <2>1, <2>2 DEF Alone
<1> HIDE DEF h, k
<1>9. tasks \in Seq(Tasks) /\ Len(tasks) \in Nat
  BY DEF IInv, ShapeOK
<1>10. /\ Len(tasks') = Len(tasks) + Larger(h, 0) /\ active' = active + Larger(h, 0)
       /\ \A i \in 1 .. Len(tasks') : (i \in 1 .. Len(tasks) /\ tasks'[i] = tasks[i]) \/ tasks'[i] = k
       /\ \A i \in 1 .. Len(tasks) : i \in 1 .. Len(tasks') /\ tasks'[i] = tasks[i]
       /\ \A d : Cardinality(Positions(tasks', d)) =
                   Cardinality(Positions(tasks, d)) + (IF d = c THEN Larger(h, 0) ELSE 0)
       /\ \A d \in Callers \ {c} : Positions(tasks', d) = Positions(tasks, d)
  <2>1. CASE h > 0 /\ ~stop
    <3>1. h \in Nat /\ Larger(h, 0) = h
      BY <1>0, <2>1 DEF Larger
    <3> DEFINE r == [i \in 1 .. h |-> k]
    <3>2. tasks' = tasks \o r /\ active' = active + h
      BY <1>5, <2>1
    <3>3. r \in Seq(Tasks) /\ Len(r) = h /\ \A i \in 1 .. h : r[i] = k
      BY <1>4, <3>1
    <3>4. \A d : Cardinality(Positions(tasks \o r, d)) =
                   Cardinality(Positions(tasks, d)) + (IF d = c THEN h ELSE 0)
      <4>1. \A d : Cardinality(Positions(tasks \o r, d)) =
                   Cardinality(Positions(tasks, d)) + (IF k.owner = d THEN h ELSE 0)
        BY <1>4, <1>9, <3>1, PushPositions
      <4> QED
        BY <1>4, <4>1
    <3> HIDE DEF r
    <3>5. /\ Len(tasks') = Len(tasks) + h
          /\ \A i \in 1 .. Len(tasks) + h : tasks'[i] = IF i <= Len(tasks) THEN tasks[i] ELSE r[i - Len(tasks)]
      <4>1. /\ Len(tasks \o r) = Len(tasks) + Len(r)
            /\ \A i \in 1 .. Len(tasks) + Len(r) :
                 (tasks \o r)[i] = IF i <= Len(tasks) THEN tasks[i] ELSE r[i - Len(tasks)]
        BY <1>9, <3>3
      <4> QED
        BY <3>2, <3>3, <4>1
    <3>6. \A i \in 1 .. Len(tasks') : (i \in 1 .. Len(tasks) /\ tasks'[i] = tasks[i]) \/ tasks'[i] = k
      BY <1>9, <3>1, <3>3, <3>5
    <3>7. \A i \in 1 .. Len(tasks) : i \in 1 .. Len(tasks') /\ tasks'[i] = tasks[i]
      BY <1>9, <3>1, <3>5
    <3>8. \A d \in Callers \ {c} : Positions(tasks', d) = Positions(tasks, d)
      BY <1>4, <3>6, <3>7 DEF Positions
    <3> QED
      BY <3>1, <3>2, <3>4, <3>5, <3>6, <3>7, <3>8
  <2>2. CASE ~(h > 0 /\ ~stop)
    <3>1. tasks' = tasks /\ active' = active /\ Larger(h, 0) = 0
      BY <1>0, <1>5, <1>6, <2>2 DEF Larger
    <3>2. active \in Int /\ \A d : Cardinality(Positions(tasks, d)) \in Nat
      BY <1>9, PositionsFinite DEF IInv, ShapeOK
    <3> QED
      BY <1>9, <3>1, <3>2
  <2> QED
    BY <2>1, <2>2
<1>11. StaysOpen(k)
  BY <1>2, <1>4, <1>5 DEF StaysOpen
<1>12. Sharers(c)' = {c} /\ \A d \in Callers \ {c} : c \notin Sharers(d)'
  <2>1. Sharers(c)' \ {c} = {}
    BY <1>8, OtherLoops
  <2>2. c \in Sharers(c)'
    BY <1>2, <1>4, <1>5, TwoKinds DEF Sharers, Sharing, k
  <2>3. \A d \in Callers \ {c} : c \notin Sharers(d)'
    BY <1>2, <1>4, <1>5 DEF Sharers, Sharing, k
  <2> QED
    BY <2>1, <2>2, <2>3
<1>13. remaining'[c] = Cardinality(Positions(tasks', c)) + Cardinality(Sharers(c)')
  <2>1. Positions(tasks, c) = {}
    BY <1>8, OtherLoops
  <2>2. Cardinality(Positions(tasks, c)) = 0 /\ Cardinality(Sharers(c)') = 1
    BY <1>12, <2>1, FS_EmptySet, FS_Singleton
  <2>3. Cardinality(Positions(tasks', c)) = Larger(h, 0)
    BY <1>0, <1>10, <2>2 DEF Larger
  <2>4. remaining'[c] = Larger(h, 0) + 1
    BY <1>0, <1>5, <1>6, <1>7 DEF Larger
  <2> QED
    BY <1>0, <2>2, <2>3, <2>4 DEF Larger
<1>14. RemainingOK' /\ ChunksOK' /\ ExhaustedOK'
  <2>1. \A i \in ItemsOf(c)' : done'[c][i] = IF i < index'[c] THEN 1 ELSE 0
    <3>1. \A u \in Threads : ~Holds(u, c)
      BY <1>8, OtherLoops
    <3> QED
      BY <1>1, <3>1 DEF IInv, ChunksOK, ItemsOf
  <2>2. pc'[c] \in {"ring", "fetch"} /\ mode'[c] = "loop"
    BY <1>2, <1>5
  <2> QED
    BY <1>8, <1>10, <1>12, <1>13, <2>1, <2>2, Elsewhere
<1>15. HelpersOK'
  <2>1. /\ \A i \in 1 .. Len(tasks) : tasks[i].loop => StaysOpen(tasks[i])
        /\ \A u \in Threads \ {c} : pc'[u] \in Sharing => StaysOpen(task'[u])
    BY <1>8, OtherLoops
  <2>2. \A i \in 1 .. Len(tasks') : tasks'[i].loop => StaysOpen(tasks'[i])
    BY <1>10, <1>11, <2>1
  <2>3. StaysOpen(task'[c])
    BY <1>2, <1>11 DEF k
  <2> QED
    BY <2>1, <2>2, <2>3, HelpersNext
<1>16. ActiveExact'
  <2>1. Unfinished' = Unfinished
    BY <1>1, <1>2, <1>5 DEF Unfinished, Inline, Executing
  <2>2. Cardinality(Unfinished) \in Nat /\ active \in Int /\ Larger(h, 0) \in Int
    BY <1>0, ThreadsFinite DEF IInv, ShapeOK, Larger
  <2> QED
    BY <1>9, <1>10, <2>1, <2>2 DEF IInv, ActiveExact
<1>17. KeptOK'
  <2> SUFFICES ASSUME NEW g \in kept
               PROVE  /\ g \in Tasks /\ ~g.loop
                      /\ \/ g \in ran
                         \/ \E i \in 1 .. Len(tasks') : tasks'[i] = g
                         \/ \E u \in Threads : pc'[u] = "run" /\ task'[u] = g
    BY <1>1 DEF KeptOK
  <2>1. \A u \in Threads : pc[u] = "run" => pc'[u] = "run"
    BY <1>1
  <2> QED
    BY <1>2, <1>10, <2>1 DEF IInv, KeptOK
<1> QED
  BY <1>14, <1>15, <1>16, <1>17 DEF RestOK

LEMMA RingAllRest == ASSUME IInv, PlaceOK', NEW c \in Callers, RingAll(c) PROVE RestOK'
<1>1. /\ UNCHANGED <<queue, shut, run, call, loop, ran>>
      /\ pc[c] = "ring" /\ mode[c] = "loop" /\ pc'[c] = "fetch"
      /\ \A u \in Threads \ {c} : pc'[u] = pc[u] \/ (pc[u] = "asleep" /\ pc'[u] = "test")
  BY TwoKinds DEF RingAll, IInv, ShapeOK
<1>2. /\ UNCHANGED <<tasks, active, kept, spc, task, at, last, mode, calls, total, chunk, index, remaining, done>>
  BY <1>1 DEF queue, shut, run, call, loop
<1>3. task[c] = [owner |-> c, call |-> calls[c], loop |-> TRUE]
  BY <1>1, LoopPlaces
<1>4. \A d \in Callers : pc[d] # "asleep"
  <2> SUFFICES ASSUME NEW d \in Callers PROVE pc[d] # "asleep"
    OBVIOUS
  <2>1. CallerOK(d) /\ mode[d] \in {"none", "loop", "enqueue", "wait"}
    BY DEF IInv, PlaceOK, ShapeOK
  <2> QED
    BY <2>1 DEF CallerOK, Inside, Waiting, Executing
<1>5. \A d \in Callers : d # c => pc'[d] = pc[d]
  BY <1>1, <1>4, TwoKinds
<1>6. HelpersOK'
  <2>1. \A k \in Tasks : Open(k) => StaysOpen(k)
    BY <1>1, <1>2, <1>5 DEF Open, StaysOpen, Tasks
  <2>2. \A i \in 1 .. Len(tasks') : tasks'[i].loop => StaysOpen(tasks'[i])
    BY <1>2, <2>1, QueuedTasks DEF IInv, HelpersOK
  <2>3. \A u \in Threads : pc[u] \in Sharing => task[u] \in Tasks /\ Open(task[u])
    BY SharerOpen DEF IInv, HelpersOK
  <2>4. StaysOpen(task'[c])
    BY <1>1, <1>2, <1>3 DEF StaysOpen
  <2>5. \A u \in Threads : pc'[u] \in Sharing => StaysOpen(task'[u])
    BY <1>1, <1>2, <2>1, <2>3, <2>4 DEF Sharing
  <2> QED
    BY <2>2, <2>5, HelpersNext
<1>7. RemainingOK'
  <2>1. \A d \in Callers : Sharers(d)' = Sharers(d)
    BY <1>1, <1>2, <1>3 DEF Sharers, Sharing
  <2>2. \A d \in Callers : TasksNeeded(total[d], chunk[d])' = TasksNeeded(total[d], chunk[d])
    BY <1>1, <1>2, SameCount DEF TasksNeeded
  <2>3. \A d \in Callers : \A p \in {"push", "setup"} : pc'[d] = p <=> pc[d] = p
    BY <1>1, <1>5
  <2> SUFFICES ASSUME NEW d \in Callers, mode'[d] = "loop"
               PROVE  /\ pc'[d] = "push" =>
                           remaining'[d] = Larger(TasksNeeded(total[d], chunk[d])', 1)
                      /\ pc'[d] \notin {"setup", "push"} =>
                           remaining'[d] = Cardinality(Positions(tasks', d)) + Cardinality(Sharers(d)')
    BY DEF RemainingOK
  <2> QED
    BY <1>2, <2>1, <2>2, <2>3 DEF IInv, RemainingOK
<1>8. ChunksOK'
  <2>1. \A u \in Threads : \A d : Holds(u, d)' <=> Holds(u, d)
    BY <1>1, <1>2 DEF Holds
  <2> QED
    BY <1>2, <2>1 DEF IInv, ChunksOK, ItemsOf
<1>9. ExhaustedOK'
  BY <1>1, <1>2, <1>5 DEF IInv, ExhaustedOK
<1>10. ActiveExact' /\ KeptOK'
  <2>1. \A u \in Threads : ~Inline(u)' /\ pc'[u] \in Executing \cup {"count", "lost"} <=>
                           ~Inline(u) /\ pc[u] \in Executing \cup {"count", "lost"}
    BY <1>1, <1>2 DEF Inline, Executing
  <2>2. \A u \in Threads : pc[u] = "run" => pc'[u] = "run"
    BY <1>1
  <2> QED
    BY <1>1, <1>2, <2>1, <2>2, SameHands
<1> QED
  BY <1>6, <1>7, <1>8, <1>9, <1>10 DEF RestOK

(* The counter is exact: when it is zero the caller leaves nobody behind who *)
(* still takes chunks, and nothing in the queue that would.                  *)
LEMMA LoopEnds ==
  ASSUME IInv, NEW c \in Callers, Await(c), remaining[c] = 0 PROVE RestOK'
<1>1. /\ UNCHANGED <<queue, shut, run, calls, loop, ran>> /\ mode' = [mode EXCEPT ![c] = "none"]
      /\ pc[c] = "await" /\ pc'[c] = "idle" /\ \A u \in Threads \ {c} : pc'[u] = pc[u]
  BY TwoKinds DEF Await, Return, IInv, ShapeOK
<1>2. mode[c] = "loop" /\ mode'[c] = "none" /\ \A d \in Callers \ {c} : mode'[d] = mode[d]
  BY <1>1, LoopPlaces DEF IInv, ShapeOK
<1>3. UNCHANGED <<tasks, active, kept, spc, task, at, last, total, chunk, index, remaining, done>>
  BY <1>1 DEF queue, shut, run, loop
<1>4. Alone(c)
  <2>1. /\ \A i \in 1 .. Len(tasks) : ~(tasks[i].loop /\ tasks[i].owner = c)
        /\ \A t \in Threads : ~(pc[t] \in Sharing /\ task[t].owner = c)
    BY <1>1, <1>2, NobodyLeft
  <2>2. pc[c] \notin Sharing
    BY <1>1 DEF Sharing
  <2> QED
    BY <1>1, <1>2, <1>3, <2>1, <2>2 DEF Alone
<1>5. /\ \A d \in Callers \ {c} : c \notin Sharers(d)'
      /\ \A d : Positions(tasks', d) = Positions(tasks, d)
  BY <1>1, <1>3 DEF Sharers, Sharing
<1>6. RemainingOK' /\ ChunksOK' /\ ExhaustedOK'
  <2>1. \A i \in ItemsOf(c)' : done'[c][i] = IF i < index'[c] THEN 1 ELSE 0
    <3>1. \A u \in Threads : ~Holds(u, c)
      BY <1>4, OtherLoops
    <3> QED
      BY <1>3, <3>1 DEF IInv, ChunksOK, ItemsOf
  <2>2. index'[c] >= total'[c]
    BY <1>1, <1>3 DEF IInv, ExhaustedOK
  <2> QED
    BY <1>1, <1>2, <1>4, <1>5, <2>1, <2>2, Elsewhere
<1>7. HelpersOK'
  <2>1. /\ \A i \in 1 .. Len(tasks) : tasks[i].loop => StaysOpen(tasks[i])
        /\ \A u \in Threads \ {c} : pc'[u] \in Sharing => StaysOpen(task'[u])
    BY <1>4, OtherLoops
  <2> QED
    BY <1>1, <1>3, <2>1, HelpersNext DEF Sharing
<1>8. ActiveExact' /\ KeptOK'
  <2>1. \A u \in Threads : ~Inline(u)' /\ pc'[u] \in Executing \cup {"count", "lost"} <=>
                           ~Inline(u) /\ pc[u] \in Executing \cup {"count", "lost"}
    BY <1>1, <1>2 DEF Inline, Executing
  <2>2. \A u \in Threads : pc[u] = "run" => pc'[u] = "run"
    BY <1>1
  <2> QED
    BY <1>1, <1>3, <2>1, <2>2, SameHands
<1> QED
  BY <1>6, <1>7, <1>8 DEF RestOK

LEMMA RestStep == ASSUME IInv, PlaceOK', [Next]_vars PROVE RestOK'
<1>1. ASSUME NEW t \in Threads, Execute(t) PROVE RestOK'
  BY <1>1, RunRest, CountDownRest, SignalRest, FetchRest, BodyRest, FinishRest DEF Execute
<1>2. ASSUME NEW w \in Workers, Work(w) \/ SpuriousWakeup(w) PROVE RestOK'
  <2>1. w \in Threads /\ w \notin Callers
    BY TwoKinds
  <2>2. CASE Test(w) /\ tasks # <<>>
    <3>1. Take(w) /\ pc[w] = "test" /\ UNCHANGED <<shut, call, loop, ran>>
      BY <2>2 DEF Test
    <3> QED
      BY <2>1, <2>2, <3>1, TakeRest
  <2>3. CASE Top(w) \/ Sleep(w) \/ SpuriousWakeup(w) \/ (Test(w) /\ tasks = <<>>)
    BY <2>3, WorkerRest
  <2> QED
    BY <1>1, <1>2, <2>1, <2>2, <2>3 DEF Work
<1>3. ASSUME NEW c \in Callers, Proceed(c) \/ BeginLoop(c) \/ BeginWait(c) \/ Enqueue(c)
      PROVE  RestOK'
  <2>1. c \in Threads
    BY TwoKinds
  <2>2. CASE Help(c) /\ tasks # <<>>
    <3>1. Take(c) /\ pc[c] = "help" /\ UNCHANGED <<shut, call, loop, ran>>
      BY <2>2 DEF Help
    <3>2. mode[c] = "wait"
      BY <3>1, LoopPlaces
    <3> QED
      BY <2>1, <2>2, <3>1, <3>2, TakeRest
  <2>3. CASE \/ RingOne(c) \/ Recheck(c) \/ (Help(c) /\ tasks = <<>>)
             \/ Await(c) /\ remaining[c] # 0
    BY <2>3, CallerRest
  <2>4. CASE Await(c) /\ remaining[c] = 0
    BY <2>4, LoopEnds
  <2>5. CASE Setup(c) \/ Push(c) \/ RingAll(c) \/ Execute(c)
    BY <1>1, <2>1, <2>5, SetupRest, PushRest, RingAllRest
  <2>6. CASE BeginLoop(c) \/ BeginWait(c) \/ Enqueue(c)
    BY <2>6, LoopBegins, BeginRest
  <2> QED
    BY <1>3, <2>2, <2>3, <2>4, <2>5, <2>6 DEF Proceed
<1>4. CASE Shutdown
  BY <1>4, ShutdownRest
<1>5. CASE UNCHANGED vars
  <2>1. UNCHANGED <<queue, shut, pc, run, call, loop, ran>>
    BY <1>5 DEF vars
  <2>2. Steady
    BY <2>1 DEF Steady, queue, shut, run, call
  <2>3. ActiveExact' /\ KeptOK'
    BY <2>1, SameHands DEF Inline, queue, run, call
  <2> QED
    BY <2>2, <2>3, SteadyLoops DEF RestOK
<1> QED
  BY <1>2, <1>3, <1>4, <1>5 DEF Next

-----------------------------------------------------------------------------
(* The queue changes, and a worker goes to sleep, only under queue_mutex_.   *)
LEMMA QueueSteps ==
  ASSUME IInv, [Next]_vars
  PROVE  /\ tasks' = tasks \/ QueueMutexFree
         /\ \A w \in Workers : pc'[w] = "doze" =>
              tasks' = tasks /\ (pc[w] = "doze" \/ (tasks = <<>> /\ QueueMutexFree))
<1> USE TwoKinds
<1>0. \A t \in Threads : pc[t] \in Places
  BY DEF IInv, ShapeOK
<1>1. ASSUME NEW t \in Threads, Execute(t)
      PROVE  tasks' = tasks /\ \A w \in Workers : pc'[w] = "doze" => pc[w] = "doze"
  <2>1. CASE Run(t) \/ CountDown(t) \/ NotifyFinished(t)
    BY <2>1 DEF Run, CountDown, NotifyFinished, Goto, After, queue, IInv, ShapeOK
  <2>2. CASE Fetch(t) \/ Body(t) \/ Finish(t)
    BY <2>2 DEF Fetch, Body, Finish, Goto, Leave, queue, IInv, ShapeOK
  <2>3. CASE Signal(t)
    BY <2>3 DEF Signal, Leave, queue, IInv, ShapeOK
  <2> QED
    BY <1>1, <2>1, <2>2, <2>3 DEF Execute
<1>2. ASSUME NEW v \in Workers, Work(v) \/ SpuriousWakeup(v)
      PROVE  /\ tasks' = tasks \/ QueueMutexFree
             /\ \A w \in Workers : pc'[w] = "doze" =>
                  tasks' = tasks /\ (pc[w] = "doze" \/ (tasks = <<>> /\ QueueMutexFree))
  <2>1. CASE Test(v) /\ tasks # <<>>
    <3>1. QueueMutexFree /\ pc'[v] \in {"fetch", "run"} /\ \A w \in Workers \ {v} : pc'[w] = pc[w]
      BY <2>1 DEF Test, Take, IInv, ShapeOK
    <3> QED
      BY <3>1 DEF QueueMutexFree
  <2>2. CASE Test(v) /\ tasks = <<>>
    BY <2>2 DEF Test, Goto, queue, IInv, ShapeOK
  <2>3. CASE Top(v) \/ Sleep(v) \/ SpuriousWakeup(v)
    BY <2>3 DEF Top, Sleep, SpuriousWakeup, Goto, queue, IInv, ShapeOK
  <2> QED
    BY <1>1, <1>2, <2>1, <2>2, <2>3 DEF Work
<1>3. ASSUME NEW c \in Callers, Proceed(c) \/ BeginLoop(c) \/ BeginWait(c) \/ Enqueue(c)
      PROVE  /\ tasks' = tasks \/ QueueMutexFree
             /\ \A w \in Workers : pc'[w] = "doze" => tasks' = tasks /\ pc[w] = "doze"
  <2>1. CASE Execute(c)
    BY <1>1, <2>1
  <2>2. CASE Setup(c) \/ Push(c) \/ BeginLoop(c) \/ BeginWait(c) \/ Enqueue(c)
    <3>1. tasks' = tasks \/ QueueMutexFree
      BY <2>2 DEF Setup, Push, BeginLoop, BeginWait, Enqueue, queue
    <3>2. \A w \in Workers : pc'[w] = pc[w]
      BY <2>2 DEF Setup, Push, BeginLoop, BeginWait, Enqueue, Goto, IInv, ShapeOK
    <3> QED
      BY <3>1, <3>2 DEF QueueMutexFree
  <2>3. CASE RingAll(c) \/ RingOne(c) \/ Await(c)
    <3>1. tasks' = tasks
      BY <2>3 DEF RingAll, RingOne, Await, Return, queue
    <3>2. pc \in [Threads -> Places]
      BY DEF IInv, ShapeOK
    <3>3. CASE RingAll(c)
      BY <3>1, <3>2, <3>3 DEF RingAll
    <3>4. CASE RingOne(c)
      BY <3>1, <3>2, <3>4 DEF RingOne
    <3>5. CASE Await(c)
      BY <3>1, <3>2, <3>5 DEF Await, Return
    <3> QED
      BY <2>3, <3>3, <3>4, <3>5
  <2>4. CASE Help(c) \/ Recheck(c)
    <3>1. QueueMutexFree
      BY <2>4 DEF Help, Recheck
    <3>2. \A w \in Workers : pc'[w] = pc[w]
      BY <2>4 DEF Help, Take, Recheck, Return, IInv, ShapeOK
    <3> QED
      BY <3>1, <3>2 DEF QueueMutexFree
  <2> QED
    BY <1>3, <2>1, <2>2, <2>3, <2>4 DEF Proceed
<1>4. CASE Shutdown
  BY <1>4 DEF Shutdown, StoreStop, NotifyStop, Join, RequestStop, queue
<1>5. CASE UNCHANGED vars
  BY <1>5 DEF vars, queue
<1> QED
  BY <1>2, <1>3, <1>4, <1>5 DEF Next

LEMMA SleepStep == ASSUME IInv, [Next]_vars PROVE SleepOK'
<1> SUFFICES ASSUME NEW w \in Workers, pc'[w] = "doze" PROVE tasks' = <<>>
  BY DEF SleepOK
<1>1. tasks' = tasks /\ (pc[w] = "doze" \/ tasks = <<>>)
  BY QueueSteps
<1> QED
  BY <1>1 DEF IInv, SleepOK

LEMMA InvInit == Init => IInv
<1> SUFFICES ASSUME Init PROVE IInv
  OBVIOUS
<1> USE DEF Init
<1>1. ShapeOK
  <2>1. DOMAIN done = Callers /\ \A c \in Callers : done[c] = <<>> /\ ItemsOf(c) = {}
    BY DEF ItemsOf
  <2>2. <<>> \in [{} -> Nat]
    OBVIOUS
  <2>3. \A c \in Callers : done[c] \in [ItemsOf(c) -> Nat]
    BY <2>1, <2>2
  <2>4. pc \in [Threads -> Places] /\ tasks \in Seq(Tasks)
    BY DEF Places
  <2>5. /\ mode \in [Callers -> {"none", "loop", "enqueue", "wait"}]
        /\ calls \in [Callers -> 0 .. MaxCalls]
    BY MaxCallsAssumption
  <2>6. /\ task \in [Threads -> Tasks \cup {NoTask}]
        /\ at \in [Threads -> Nat] /\ last \in [Threads -> Nat]
    OBVIOUS
  <2>7. /\ total \in [Callers -> Nat] /\ chunk \in [Callers -> Nat \ {0}]
        /\ index \in [Callers -> Nat] /\ remaining \in [Callers -> Int]
    OBVIOUS
  <2>8. active \in Int /\ asked \subseteq Workers /\ spc = "up"
    OBVIOUS
  <2>9. stop \in BOOLEAN
    BY Zenon
  <2> QED
    BY <2>1, <2>3, <2>4, <2>5, <2>6, <2>7, <2>8, <2>9 DEF ShapeOK
<1>2. PlaceOK
  BY TwoKinds DEF PlaceOK, WorkerOK, CallerOK, HandOK, StopOK, Unowned, Sharing
<1>3. HelpersOK
  BY TwoKinds DEF HelpersOK, Sharing
<1>4. RemainingOK
  BY DEF RemainingOK
<1>5. ChunksOK
  BY TwoKinds DEF ChunksOK, Holds, ItemsOf
<1>6. ExhaustedOK
  BY DEF ExhaustedOK
<1>7. ActiveExact
  <2>1. Unfinished = {}
    BY TwoKinds DEF Unfinished, Executing
  <2> QED
    BY <2>1, FS_EmptySet DEF ActiveExact
<1>8. KeptOK
  BY DEF KeptOK
<1>9. SleepOK
  BY DEF SleepOK
<1> QED
  BY <1>1, <1>2, <1>3, <1>4, <1>5, <1>6, <1>7, <1>8, <1>9 DEF IInv

LEMMA InvStep == ASSUME IInv, [Next]_vars PROVE IInv'
<1>1. ShapeOK' /\ PlaceOK'
  BY ShapeStep, PlaceStep DEF IInv
<1> QED
  BY <1>1, RestStep, SleepStep DEF IInv, RestOK

(* The inductive invariant holds in every reachable state.                   *)
THEOREM PoolInductive == Spec => []IInv
<1>1. IInv /\ [Next]_vars => IInv'
  BY InvStep
<1> QED
  BY InvInit, <1>1, PTL DEF Spec

-----------------------------------------------------------------------------
(* What follows.                                                             *)

LEMMA Covered == ASSUME IInv PROVE LoopCovers
<1> SUFFICES ASSUME NEW c \in Callers, mode[c] # "loop", NEW i \in ItemsOf(c)
             PROVE  done[c][i] = 1
  BY DEF LoopCovers
<1>1. index[c] >= total[c] /\ index[c] \in Nat /\ total[c] \in Nat
  BY DEF IInv, ExhaustedOK, ShapeOK
<1>2. i < index[c]
  BY <1>1 DEF ItemsOf
<1>3. \A t \in Threads : ~Holds(t, c)
  BY SharerOpen DEF Holds, Sharing
<1> QED
  BY <1>2, <1>3 DEF IInv, ChunksOK

(* When parallel_for has returned, every item of its range has been          *)
(* processed exactly once: for every number of workers, of concurrent        *)
(* callers, of calls, and every size of loop and of chunk.                   *)
THEOREM EveryItemOnce == Spec => []LoopCovers
<1>1. IInv => LoopCovers
  BY Covered
<1> QED
  BY <1>1, PoolInductive, PTL

(* active_tasks_ is the number of tasks queued and under way, so that        *)
(* wait_idle, which goes by it, cannot be misled.                            *)
THEOREM ActiveCounts == Spec => []ActiveExact
<1>1. IInv => ActiveExact
  BY DEF IInv
<1> QED
  BY <1>1, PoolInductive, PTL

(* Whoever takes or works on a chunk of a loop does so while its caller is   *)
(* still inside that very call, whose frame holds the index, the counter and *)
(* the body.  What is left after the caller may have returned is the         *)
(* notification of the last helper.                                          *)
FrameInUse == \A t \in Threads : pc[t] \in {"fetch", "body", "finish"} => FrameAlive(t)
THEOREM FrameOutlivesChunks == Spec => []FrameInUse
<1>1. IInv => FrameInUse
  BY SharerOpen DEF FrameInUse, FrameAlive, Sharing
<1> QED
  BY <1>1, PoolInductive, PTL

(* remaining_tasks is zero between loops.                                    *)
RestsAtZero == \A c \in Callers : mode[c] # "loop" \/ pc[c] = "setup" => remaining[c] = 0

LEMMA RestsStep ==
  ASSUME IInv, IInv', RestsAtZero, [Next]_vars PROVE RestsAtZero'
<1> SUFFICES ASSUME NEW c \in Callers, mode'[c] # "loop" \/ pc'[c] = "setup"
             PROVE  remaining'[c] = 0
  BY DEF RestsAtZero
<1>0. c \in Threads /\ c \notin Workers
  BY TwoKinds
<1>1. ASSUME NEW t \in Threads, Execute(t) PROVE remaining'[c] = 0
  <2>1. mode' = mode /\ (pc'[c] = "setup" => pc[c] = "setup")
    <3>1. CASE Run(t) \/ CountDown(t) \/ NotifyFinished(t)
      BY <1>0, <3>1 DEF Run, CountDown, NotifyFinished, Goto, After, call, IInv, ShapeOK
    <3>2. CASE Fetch(t) \/ Body(t) \/ Finish(t)
      BY ZenonT(40), <1>0, <3>2 DEF Fetch, Body, Finish, Goto, Leave, call, IInv, ShapeOK
    <3>3. CASE Signal(t)
      <4>1. mode' = mode
        BY <3>3 DEF Signal, call
      <4>2. Leave(t) \in {"await", "count"}
        BY DEF Leave
      <4>3. CASE /\ FrameAlive(t)
                 /\ pc' = [pc EXCEPT ![t] = Leave(t),
                                    ![task[t].owner] = IF task[t].owner = t THEN "await"
                                                       ELSE IF @ = "rest" THEN "await" ELSE @]
        <5>1. CASE task[t].owner = c
          BY <1>0, <4>1, <4>2, <4>3, <5>1 DEF IInv, ShapeOK
        <5>2. CASE task[t].owner # c
          BY <1>0, <4>1, <4>2, <4>3, <5>2 DEF IInv, ShapeOK
        <5> QED
          BY <4>1, <5>1, <5>2
      <4>4. CASE \E to \in {Leave(t), "lost"} : pc' = [pc EXCEPT ![t] = to]
        BY <1>0, <4>1, <4>2, <4>4 DEF IInv, ShapeOK
      <4> QED
        BY <3>3, <4>3, <4>4 DEF Signal
    <3> QED
      BY <1>1, <3>1, <3>2, <3>3 DEF Execute
  <2>2. remaining[c] = 0
    BY <2>1 DEF RestsAtZero
  <2>3. CASE Finish(t)
    <3>1. task[t].owner # c
      BY <1>0, <2>1, <2>3, SharerOpen DEF Finish, Goto, Sharing
    <3> QED
      BY <2>2, <2>3, <3>1 DEF Finish, IInv, ShapeOK
  <2>4. CASE ~Finish(t)
    BY <1>1, <2>2, <2>4 DEF Execute, Run, CountDown, NotifyFinished, Fetch, Body, Signal, loop
  <2> QED
    BY <2>3, <2>4
<1>2. ASSUME NEW w \in Workers, Work(w) \/ SpuriousWakeup(w) PROVE remaining'[c] = 0
  <2>1. CASE ~Execute(w)
    <3>1. UNCHANGED <<mode, remaining>> /\ pc'[c] = pc[c]
      BY <1>0, <1>2, <2>1 DEF Work, Top, Test, Take, Sleep, SpuriousWakeup, Goto, call, loop, IInv, ShapeOK
    <3> QED
      BY <3>1 DEF RestsAtZero
  <2> QED
    BY <1>1, <2>1, TwoKinds
<1>3. ASSUME NEW d \in Callers, Proceed(d) \/ BeginLoop(d) \/ BeginWait(d) \/ Enqueue(d)
      PROVE  remaining'[c] = 0
  <2>0. d \in Threads
    BY TwoKinds
  <2>1. CASE Setup(d)
    <3>1. pc[d] = "setup" /\ pc'[d] = "push" /\ mode' = mode /\ \A u \in Threads \ {d} : pc'[u] = pc[u]
      BY <2>0, <2>1 DEF Setup, Goto, call, IInv, ShapeOK
    <3>2. d # c
      BY <3>1, LoopPlaces
    <3>3. remaining'[c] = remaining[c]
      BY <2>1, <3>2 DEF Setup, IInv, ShapeOK
    <3> QED
      BY <1>0, <3>1, <3>2, <3>3 DEF RestsAtZero
  <2>2. CASE Push(d)
    <3>1. pc[d] = "push" /\ pc'[d] \in {"ring", "fetch"} /\ mode' = mode /\ \A u \in Threads \ {d} : pc'[u] = pc[u]
      BY <2>0, <2>2 DEF Push, Goto, call, IInv, ShapeOK
    <3>2. d # c
      BY <3>1, LoopPlaces
    <3>3. remaining'[c] = remaining[c]
      BY <2>2, <3>2 DEF Push, IInv, ShapeOK
    <3> QED
      BY <1>0, <3>1, <3>2, <3>3 DEF RestsAtZero
  <2>3. CASE RingAll(d) \/ RingOne(d) \/ Help(d) \/ Recheck(d) \/ BeginWait(d) \/ Enqueue(d)
    <3>1. /\ remaining' = remaining
          /\ mode'[c] # "loop" => mode[c] # "loop" \/ pc[c] = "setup"
          /\ pc'[c] = "setup" => pc[c] = "setup"
      <4>1. CASE RingAll(d) \/ BeginWait(d) \/ Enqueue(d)
        <5>1. d = c /\ ~RingAll(d) => mode[c] = "none"
          BY <4>1, LoopPlaces DEF BeginWait, Enqueue, Begin
        <5> QED
          BY <1>0, <2>0, <4>1, <5>1 DEF RingAll, BeginWait, Enqueue, Begin, Goto, call, loop, IInv, ShapeOK
      <4>2. CASE RingOne(d)
        <5>1. pc'[c] = pc[c] \/ pc'[c] = "idle"
          <6>1. \/ pc' = [pc EXCEPT ![d] = "idle"]
                \/ \E w \in Workers : pc' = [pc EXCEPT ![d] = "idle", ![w] = "test"]
            BY <4>2 DEF RingOne
          <6> QED
            BY <1>0, <2>0, <6>1 DEF IInv, ShapeOK
        <5>2. remaining' = remaining /\ mode[d] = "enqueue" /\ mode' = [mode EXCEPT ![d] = "none"]
          BY <4>2 DEF RingOne, loop
        <5> QED
          BY <5>1, <5>2 DEF IInv, ShapeOK
      <4>3. CASE Help(d) \/ Recheck(d)
        <5>1. mode[d] = "wait"
          BY <4>3, LoopPlaces DEF Help, Recheck
        <5> QED
          BY <1>0, <2>0, <4>3, <5>1 DEF Help, Recheck, Take, Return, call, loop, IInv, ShapeOK
      <4> QED
        BY <2>3, <4>1, <4>2, <4>3
    <3> QED
      BY <3>1 DEF RestsAtZero
  <2>4. CASE Await(d)
    <3>1. /\ remaining' = remaining /\ pc'[d] \in {"idle", "rest"}
          /\ \A u \in Threads \ {d} : pc'[u] = pc[u]
          /\ \A e \in Callers \ {d} : mode'[e] = mode[e]
          /\ mode'[d] = mode[d] \/ remaining[d] = 0
      BY <2>0, <2>4 DEF Await, Return, call, loop, IInv, ShapeOK
    <3> QED
      BY <1>0, <3>1 DEF RestsAtZero
  <2>5. CASE BeginLoop(d)
    <3>1. /\ remaining' = remaining /\ pc[d] = "idle"
          /\ \A u \in Threads \ {d} : pc'[u] = pc[u]
          /\ \A e \in Callers \ {d} : mode'[e] = mode[e]
      BY <2>0, <2>5 DEF BeginLoop, Begin, Goto, loop, IInv, ShapeOK
    <3>2. mode[d] = "none"
      BY <3>1, LoopPlaces
    <3> QED
      BY <1>0, <3>1, <3>2 DEF RestsAtZero
  <2> QED
    BY <1>1, <1>3, <2>0, <2>1, <2>2, <2>3, <2>4, <2>5 DEF Proceed
<1>4. CASE Shutdown
  <2>1. UNCHANGED <<mode, remaining>> /\ (pc'[c] = "setup" => pc[c] = "setup")
    BY <1>0, <1>4 DEF Shutdown, StoreStop, NotifyStop, Join, RequestStop, call, loop
  <2> QED
    BY <2>1 DEF RestsAtZero
<1>5. CASE UNCHANGED vars
  BY <1>5 DEF vars, call, loop, RestsAtZero
<1> QED
  BY <1>2, <1>3, <1>4, <1>5 DEF Next

LEMMA InvType == ASSUME IInv, RestsAtZero PROVE TypeOK
<1>1. active \in Nat
  <2>1. Len(tasks) \in Nat /\ Cardinality(Unfinished) \in Nat
    BY ThreadsFinite DEF IInv, ShapeOK
  <2> QED
    BY <2>1 DEF IInv, ActiveExact
<1>2. remaining \in [Callers -> Nat]
  <2> SUFFICES ASSUME NEW c \in Callers PROVE remaining[c] \in Nat
    BY DEF IInv, ShapeOK
  <2>1. CASE mode[c] # "loop" \/ pc[c] = "setup"
    BY <2>1 DEF RestsAtZero
  <2>2. CASE mode[c] = "loop" /\ pc[c] = "push"
    BY <2>2, HelpersNeeded DEF IInv, RemainingOK, Larger
  <2>3. CASE mode[c] = "loop" /\ pc[c] \notin {"setup", "push"}
    <3>1. Cardinality(Positions(tasks, c)) \in Nat /\ Cardinality(Sharers(c)) \in Nat
      BY ThreadsFinite, PositionsFinite DEF IInv, ShapeOK
    <3> QED
      BY <2>3, <3>1 DEF IInv, RemainingOK
  <2> QED
    BY <2>1, <2>2, <2>3
<1>3. \A t \in Threads : pc[t] = "body" => at[t] < last[t] /\ last[t] <= total[task[t].owner]
  <2> SUFFICES ASSUME NEW t \in Threads, pc[t] = "body"
               PROVE  at[t] < last[t] /\ last[t] <= total[task[t].owner]
    OBVIOUS
  <2>1. task[t].owner \in Callers
    BY SharerOpen DEF Sharing
  <2>2. Holds(t, task[t].owner)
    BY DEF Holds
  <2> QED
    BY <2>1, <2>2 DEF IInv, ChunksOK
<1> QED
  BY <1>1, <1>2, <1>3 DEF IInv, ShapeOK, TypeOK, Places

(* Every variable keeps its type; the counters, which the code decrements    *)
(* without a test, never become negative, and every chunk lies in its range. *)
THEOREM PoolType == Spec => []TypeOK
<1>1. Init => RestsAtZero
  BY DEF Init, RestsAtZero
<1>2. IInv /\ IInv' /\ RestsAtZero /\ [Next]_vars => RestsAtZero'
  BY RestsStep
<1>3. IInv /\ RestsAtZero => TypeOK
  BY InvType
<1> QED
  BY <1>1, <1>2, <1>3, PoolInductive, PTL DEF Spec

-----------------------------------------------------------------------------
(* Nobody sleeps over work.                                                  *)

LEMMA AwakeStep ==
  ASSUME IInv, NoSleepOverWork, [Next]_vars, Workers # {} PROVE NoSleepOverWork'
<1> USE TwoKinds
<1> SUFFICES ASSUME tasks' # <<>>, spc' = "up", \A w \in Workers : pc'[w] = "asleep"
             PROVE  \E c \in Callers : pc'[c] = "ring"
  BY DEF NoSleepOverWork
<1>0. pc \in [Threads -> Places] /\ tasks \in Seq(Tasks)
  BY DEF IInv, ShapeOK
<1>1. ASSUME NEW t \in Threads, Execute(t),
             NEW c \in Callers, pc[c] = "ring", \A w \in Workers : pc[w] = "asleep"
      PROVE  pc'[c] = "ring"
  <2>1. CASE Run(t) \/ CountDown(t) \/ NotifyFinished(t)
    BY <1>0, <1>1, <2>1 DEF Run, CountDown, NotifyFinished, Goto
  <2>2. CASE Fetch(t) \/ Body(t) \/ Finish(t)
    BY <1>0, <1>1, <2>2 DEF Fetch, Body, Finish, Goto
  <2>3. CASE Signal(t)
    <3>1. t # c
      BY <1>1, <2>3 DEF Signal
    <3>2. CASE /\ FrameAlive(t)
               /\ pc' = [pc EXCEPT ![t] = Leave(t),
                                  ![task[t].owner] = IF task[t].owner = t THEN "await"
                                                     ELSE IF @ = "rest" THEN "await" ELSE @]
      <4>1. CASE task[t].owner = c
        BY <1>0, <1>1, <3>1, <3>2, <4>1
      <4>2. CASE task[t].owner # c
        BY <1>0, <1>1, <3>1, <3>2, <4>2
      <4> QED
        BY <4>1, <4>2
    <3>3. CASE \E to \in {Leave(t), "lost"} : pc' = [pc EXCEPT ![t] = to]
      BY <1>0, <1>1, <3>1, <3>3
    <3> QED
      BY <2>3, <3>2, <3>3 DEF Signal
  <2> QED
    BY <1>1, <2>1, <2>2, <2>3 DEF Execute
<1>2. ASSUME NEW t \in Threads, Execute(t) PROVE tasks' = tasks /\ spc' = spc
  BY <1>2 DEF Execute, Run, CountDown, NotifyFinished, Fetch, Body, Finish, Signal, queue, shut
(* Who was awake, and is now asleep, was about to sleep on an empty queue.   *)
<1>3. ASSUME NEW w \in Workers, Work(w) \/ SpuriousWakeup(w) PROVE FALSE
  <2>1. CASE Sleep(w)
    <3>1. pc[w] = "doze" /\ tasks' = tasks
      BY <2>1 DEF Sleep, Goto, queue
    <3> QED
      BY <3>1 DEF IInv, SleepOK
  <2>2. CASE Top(w) \/ SpuriousWakeup(w)
    BY <1>0, <2>2 DEF Top, SpuriousWakeup, Goto
  <2>3. CASE Test(w)
    BY <1>0, <2>3 DEF Test, Take, Goto
  <2>4. CASE Execute(w)
    <3>1. CASE Run(w) \/ CountDown(w) \/ NotifyFinished(w)
      BY <1>0, <3>1 DEF Run, CountDown, NotifyFinished, Goto, After
    <3>2. CASE Fetch(w) \/ Body(w) \/ Finish(w)
      BY <1>0, <3>2 DEF Fetch, Body, Finish, Goto, Leave
    <3>3. CASE Signal(w)
      <4>1. pc[w] = "signal" /\ Leave(w) \in {"await", "count"}
        BY <3>3 DEF Signal, Leave
      <4>2. CASE /\ FrameAlive(w)
                 /\ pc' = [pc EXCEPT ![w] = Leave(w),
                                    ![task[w].owner] = IF task[w].owner = w THEN "await"
                                                       ELSE IF @ = "rest" THEN "await" ELSE @]
        <5>1. CASE task[w].owner = w
          BY <1>0, <4>2, <5>1
        <5>2. CASE task[w].owner # w
          BY <1>0, <4>1, <4>2, <5>2
        <5> QED
          BY <5>1, <5>2
      <4>3. CASE \E to \in {Leave(w), "lost"} : pc' = [pc EXCEPT ![w] = to]
        BY <1>0, <4>1, <4>3
      <4> QED
        BY <3>3, <4>2, <4>3 DEF Signal
    <3> QED
      BY <2>4, <3>1, <3>2, <3>3 DEF Execute
  <2> QED
    BY <1>3, <2>1, <2>2, <2>3, <2>4 DEF Work
<1>4. ASSUME NEW d \in Callers, Proceed(d) \/ BeginLoop(d) \/ BeginWait(d) \/ Enqueue(d)
      PROVE  \E c \in Callers : pc'[c] = "ring"
  <2>1. PICK w \in Workers : TRUE
    OBVIOUS
  (* The caller that has just queued something rings itself.                 *)
  <2>2. CASE pc'[d] = "ring"
    BY <2>2
  <2>3. CASE pc'[d] # "ring"
    <3>1. tasks # <<>>
      <4>1. CASE Enqueue(d)
        BY <1>0, <2>3, <4>1 DEF Enqueue, Goto
      <4>2. CASE Push(d)
        BY <1>0, <2>3, <4>2 DEF Push, Goto
      <4>3. CASE Help(d)
        BY <4>3 DEF Help, Take, Return, queue
      <4>4. CASE Execute(d)
        BY <1>2, <4>4
      <4>5. CASE BeginLoop(d) \/ BeginWait(d) \/ Setup(d) \/ RingAll(d) \/ RingOne(d) \/ Await(d) \/ Recheck(d)
        BY <4>5 DEF BeginLoop, BeginWait, Setup, RingAll, RingOne, Await, Recheck, Return, queue
      <4> QED
        BY <1>4, <4>1, <4>2, <4>3, <4>4, <4>5 DEF Proceed
    <3>2. spc = "up"
      <4>1. CASE Execute(d)
        BY <1>2, <4>1
      <4>2. CASE ~Execute(d)
        BY <1>4, <4>2 DEF Proceed, BeginLoop, BeginWait, Enqueue, Begin, Setup, Push, RingAll, RingOne,
                          Await, Help, Recheck, Return, shut
      <4> QED
        BY <4>1, <4>2
    <3>3. ASSUME NEW v \in Workers PROVE pc[v] = "asleep" /\ ~RingAll(d) /\ ~RingOne(d)
      <4>1. ~RingAll(d)
        BY <1>0 DEF RingAll
      <4>2. ~RingOne(d)
        <5> SUFFICES ASSUME RingOne(d) PROVE FALSE
          OBVIOUS
        <5>1. CASE {u \in Workers : pc[u] = "asleep"} = {}
          <6>1. pc' = [pc EXCEPT ![d] = "idle"]
            BY <5>1 DEF RingOne
          <6>2. pc[w] = "asleep"
            BY <1>0, <6>1
          <6> QED
            BY <5>1, <6>2
        <5>2. CASE {u \in Workers : pc[u] = "asleep"} # {}
          <6>1. PICK u \in Workers : pc' = [pc EXCEPT ![d] = "idle", ![u] = "test"]
            BY <5>2 DEF RingOne
          <6>2. pc'[u] = "test"
            BY <1>0, <6>1
          <6> QED
            BY <6>2
        <5> QED
          BY <5>1, <5>2
      <4>3. CASE Execute(d)
        <5>1. CASE Run(d) \/ CountDown(d)
          BY <1>0, <4>1, <4>2, <5>1 DEF Run, CountDown, Goto
        <5>2. CASE NotifyFinished(d)
          <6>1. pc'[v] = IF pc[v] = "drowse" THEN "recheck" ELSE pc[v]
            BY <5>2 DEF NotifyFinished
          <6> QED
            BY <4>1, <4>2, <6>1
        <5>3. CASE Fetch(d) \/ Body(d) \/ Finish(d)
          BY <1>0, <4>1, <4>2, <5>3 DEF Fetch, Body, Finish, Goto
        <5>4. CASE Signal(d)
          <6>0. task[d] \in Tasks
            BY <5>4 DEF Signal, IInv, PlaceOK, HandOK
          <6>1. task[d].owner \in Callers
            BY <6>0 DEF Tasks
          <6>2. pc'[v] = pc[v]
            BY <1>0, <5>4, <6>1 DEF Signal
          <6> QED
            BY <4>1, <4>2, <6>2
        <5> QED
          BY <4>1, <4>2, <4>3, <5>1, <5>2, <5>3, <5>4 DEF Execute
      <4>4. CASE ~Execute(d)
        BY <1>0, <1>4, <4>1, <4>2, <4>4 DEF Proceed, BeginLoop, BeginWait, Enqueue, Setup, Push,
                                           Await, Help, Take, Recheck, Return, Goto
      <4> QED
        BY <4>3, <4>4
    <3>4. PICK c \in Callers : pc[c] = "ring"
      BY <3>1, <3>2, <3>3 DEF NoSleepOverWork
    <3>5. pc'[c] = "ring"
      <4>1. CASE Execute(d)
        BY <1>1, <3>3, <3>4, <4>1
      <4>2. CASE ~Execute(d)
        <5>1. ~RingAll(d) /\ ~RingOne(d)
          BY <2>1, <3>3
        <5> QED
          BY <1>0, <1>4, <3>4, <4>2, <5>1 DEF Proceed, BeginLoop, BeginWait, Enqueue, Begin, Setup,
                                           Push, Await, Help, Take, Recheck, Return, Goto
      <4> QED
        BY <4>1, <4>2
    <3> QED
      BY <3>5
  <2> QED
    BY <2>2, <2>3
<1>5. CASE Shutdown
  <2>1. spc # "up" \/ spc' # "up"
    BY <1>5 DEF Shutdown, StoreStop, NotifyStop, Join, RequestStop
  <2>2. spc' # "up"
    BY <1>5 DEF Shutdown, StoreStop, NotifyStop, Join, RequestStop
  <2> QED
    BY <2>2
<1>6. CASE UNCHANGED vars
  BY <1>6 DEF vars, queue, shut, NoSleepOverWork
<1> QED
  BY <1>3, <1>4, <1>5, <1>6 DEF Next

(* As long as the pool is up, the workers never all sleep on a queue with    *)
(* work in it unless whoever queued it is about to ring: no wake-up is lost. *)
(* The constructor makes at least one worker, or none if no thread can be    *)
(* started at all; then there is nobody to wake.                             *)
THEOREM NoLostWakeup == ASSUME Workers # {} PROVE Spec => []NoSleepOverWork
<1>1. Init => NoSleepOverWork
  BY DEF Init, NoSleepOverWork
<1>2. IInv /\ NoSleepOverWork /\ [Next]_vars => NoSleepOverWork'
  BY AwakeStep
<1> QED
  BY <1>1, <1>2, PoolInductive, PTL DEF Spec

-----------------------------------------------------------------------------
(* wait_idle.                                                                *)

LEMMA NothingLeft ==
  ASSUME IInv, tasks = <<>>, active = 0 PROVE kept \subseteq ran
<1>1. /\ IsFiniteSet(Unfinished) /\ Cardinality(Unfinished) = 0
  BY ThreadsFinite DEF IInv, ActiveExact
<1>2. Unfinished = {}
  BY <1>1, FS_EmptySet
<1>3. \A t \in Threads : pc[t] # "run"
  <2> SUFFICES ASSUME NEW t \in Threads, pc[t] = "run" PROVE FALSE
    OBVIOUS
  <2>1. ~Inline(t)
    BY LoopPlaces DEF Inline
  <2> QED
    BY <1>2, <2>1 DEF Unfinished, Executing
<1> QED
  BY <1>3 DEF IInv, KeptOK

LEMMA WaitStep ==
  ASSUME IInv, [Next]_vars, NEW c \in Callers, mode[c] = "wait", mode'[c] = "none"
  PROVE  kept \subseteq ran
<1>0. mode \in [Callers -> {"none", "loop", "enqueue", "wait"}]
  BY DEF IInv, ShapeOK
<1>1. ASSUME NEW t \in Threads, Execute(t) PROVE mode' = mode
  BY <1>1 DEF Execute, Run, CountDown, NotifyFinished, Fetch, Body, Finish, Signal, call
<1>2. ASSUME NEW w \in Workers, Work(w) \/ SpuriousWakeup(w) PROVE FALSE
  <2>1. mode' = mode
    BY <1>1, <1>2, TwoKinds DEF Work, Top, Test, Sleep, SpuriousWakeup, call
  <2> QED
    BY <2>1
<1>3. ASSUME NEW d \in Callers, Proceed(d) \/ BeginLoop(d) \/ BeginWait(d) \/ Enqueue(d)
      PROVE  kept \subseteq ran
  <2>1. CASE (Help(d) \/ Recheck(d)) /\ Return(d)
    <3>1. tasks = <<>> /\ active = 0
      <4>1. CASE Recheck(d)
        <5>1. pc[d] = "recheck" /\ pc'[d] = "idle"
          BY <2>1, <4>1, TwoKinds DEF Recheck, Return, IInv, ShapeOK
        <5> QED
          BY <4>1, <5>1, TwoKinds DEF Recheck, IInv, ShapeOK
      <4>2. CASE Help(d)
        <5>1. pc[d] = "help" /\ pc'[d] = "idle"
          BY <2>1, <4>2, TwoKinds DEF Help, Return, IInv, ShapeOK
        <5> QED
          BY <4>2, <5>1, TwoKinds DEF Help, Take, IInv, ShapeOK
      <4> QED
        BY <2>1, <4>1, <4>2
    <3> QED
      BY <3>1, NothingLeft
  <2>2. CASE (Help(d) \/ Recheck(d)) /\ ~Return(d)
    BY <1>0, <2>2 DEF Help, Recheck, call
  <2>3. CASE RingOne(d) \/ Await(d)
    <3>1. mode[d] # "wait"
      BY <2>3, LoopPlaces DEF RingOne, Await
    <3> QED
      BY <1>0, <2>3, <3>1 DEF RingOne, Await, Return, call
  <2>4. CASE BeginLoop(d) \/ BeginWait(d) \/ Enqueue(d)
    <3>1. \E m \in {"loop", "enqueue", "wait"} : mode' = [mode EXCEPT ![d] = m]
      BY <2>4 DEF BeginLoop, BeginWait, Enqueue, Begin
    <3> QED
      BY <1>0, <3>1
  <2>5. CASE Setup(d) \/ Push(d) \/ RingAll(d) \/ Execute(d)
    <3>1. mode' = mode
      BY <1>1, <2>5, TwoKinds DEF Setup, Push, RingAll, call
    <3> QED
      BY <3>1
  <2> QED
    BY <1>3, <2>1, <2>2, <2>3, <2>4, <2>5 DEF Proceed
<1>4. CASE Shutdown \/ UNCHANGED vars
  <2>1. mode' = mode
    BY <1>4 DEF Shutdown, StoreStop, NotifyStop, Join, RequestStop, vars, call
  <2> QED
    BY <2>1
<1> QED
  BY <1>2, <1>3, <1>4 DEF Next

(* When wait_idle returns, every task that enqueue had accepted by then has  *)
(* run, whichever caller it came from and whichever thread took it.          *)
THEOREM WaitIdleWaits == Spec => WaitIdleMeansDone
<1>1. IInv /\ [Next]_vars =>
        \A c \in Callers : mode[c] = "wait" /\ mode'[c] = "none" => kept \subseteq ran
  BY WaitStep
<1> QED
  BY <1>1, PoolInductive, PTL DEF Spec, WaitIdleMeansDone

-----------------------------------------------------------------------------
(* parallel_for keeps the contract of a call that borrows memory.            *)

LEMMA ContractQuiet ==
  ASSUME NEW c \in Callers, mode'[c] = "loop" <=> mode[c] = "loop",
         total'[c] = total[c], done'[c] = done[c]
  PROVE  UNCHANGED (Contract(c)!vars)
BY DEF Contract!vars, ItemsOf

(* The steps that no contract sees.                                          *)
LEMMA QuietSteps ==
  ASSUME IInv, NEW c \in Callers,
         \/ UNCHANGED <<mode, total, done>>
         \/ \E d \in Callers :
              RingOne(d) \/ Help(d) \/ Recheck(d) \/ BeginWait(d) \/ Enqueue(d)
  PROVE  UNCHANGED (Contract(c)!vars)
<1>1. CASE UNCHANGED <<mode, total, done>>
  BY <1>1, ContractQuiet
<1>2. ASSUME NEW d \in Callers, RingOne(d) \/ Help(d) \/ Recheck(d) \/ BeginWait(d) \/ Enqueue(d)
      PROVE  UNCHANGED (Contract(c)!vars)
  <2>1. UNCHANGED <<total, done>>
    BY <1>2 DEF RingOne, Help, Take, Recheck, Return, BeginWait, Enqueue, Begin, loop
  <2>2. mode[d] # "loop"
    BY <1>2, LoopPlaces DEF RingOne, Help, Recheck, BeginWait, Enqueue, Begin
  <2>3. mode' = mode \/ \E m \in {"none", "wait", "enqueue"} : mode' = [mode EXCEPT ![d] = m]
    BY <1>2 DEF RingOne, Help, Recheck, Return, BeginWait, Enqueue, Begin, call
  <2>4. mode'[c] = "loop" <=> mode[c] = "loop"
    BY <2>2, <2>3 DEF IInv, ShapeOK
  <2> QED
    BY <2>1, <2>4, ContractQuiet
<1> QED
  BY <1>1, <1>2

LEMMA LoopOpens ==
  ASSUME IInv, NEW c \in Callers, BeginLoop(c) PROVE Contract(c)!Open
<1>1. /\ UNCHANGED <<total, done>> /\ mode'[c] = "loop" /\ pc[c] = "idle"
  BY DEF BeginLoop, Begin, Goto, loop, IInv, ShapeOK
<1>2. mode[c] = "none"
  BY <1>1, LoopPlaces
<1> QED
  BY <1>1, <1>2 DEF Contract!Open, ItemsOf

LEMMA LoopPlans ==
  ASSUME IInv, NEW c \in Callers, Setup(c)
  PROVE  \E S \in SUBSET AllItems : Contract(c)!Plan(S)
<1>1. PICK s \in Sizes :
        total' = [total EXCEPT ![c] = s[1]] /\ done' = [done EXCEPT ![c] = [i \in 0 .. s[1] - 1 |-> 0]]
  BY DEF Setup
<1>2. /\ total'[c] = s[1] /\ done'[c] = [i \in 0 .. s[1] - 1 |-> 0]
      /\ mode' = mode /\ mode[c] = "loop"
  BY <1>1, LoopPlaces DEF Setup, Goto, call, IInv, ShapeOK
<1>3. (0 .. s[1] - 1) \in SUBSET AllItems
  BY DEF AllItems
<1>4. Contract(c)!Plan(0 .. s[1] - 1)
  BY <1>2 DEF Contract!Plan, ItemsOf
<1> QED
  BY <1>3, <1>4

LEMMA LoopDelivers ==
  ASSUME IInv, NEW t \in Threads, NEW c \in Callers, Body(t), task[t].owner = c
  PROVE  \E i \in AllItems : Contract(c)!Deliver(i)
<1>1. /\ pc[t] = "body" /\ UNCHANGED <<mode, total>>
      /\ done' = [done EXCEPT ![c][at[t]] = @ + 1]
  BY DEF Body, Goto, call
<1>2. Holds(t, c) /\ mode[c] = "loop" /\ pc[c] # "setup"
  BY <1>1, SharerOpen DEF Holds, Sharing
<1>3. at[t] \in Nat /\ last[t] \in Nat /\ total[c] \in Nat /\ index[c] \in Nat
  BY DEF IInv, ShapeOK
<1>4. at[t] < last[t] /\ last[t] <= total[c] /\ last[t] <= index[c]
  BY <1>2 DEF IInv, ChunksOK
<1>5. at[t] \in ItemsOf(c) /\ at[t] \in at[t] .. last[t] - 1
  BY <1>3, <1>4 DEF ItemsOf
<1>6. done[c][at[t]] = 0
  BY <1>2, <1>5 DEF IInv, ChunksOK
<1>7. at[t] \in AllItems
  <2>1. PICK s \in Sizes : total[c] = s[1]
    BY <1>2 DEF IInv, PlaceOK, CallerOK
  <2> QED
    BY <1>5, <2>1 DEF ItemsOf, AllItems
<1>8. DOMAIN done = Callers /\ done[c] \in [ItemsOf(c) -> Nat]
  BY DEF IInv, ShapeOK
<1>9. \A i \in ItemsOf(c) : done'[c][i] = IF i = at[t] THEN 1 ELSE done[c][i]
  BY <1>1, <1>5, <1>6, <1>8
<1>10. {i \in ItemsOf(c) : done'[c][i] > 0} = {i \in ItemsOf(c) : done[c][i] > 0} \cup {at[t]}
  BY <1>5, <1>9
<1>11. at[t] \notin {i \in ItemsOf(c) : done[c][i] > 0}
  BY <1>6
<1>12. ItemsOf(c)' = ItemsOf(c)
  BY <1>1 DEF ItemsOf
<1>13. PICK i \in AllItems : i = at[t]
  BY <1>7
<1>14. Contract(c)!Deliver(i)
  BY <1>1, <1>2, <1>5, <1>10, <1>11, <1>12, <1>13 DEF Contract!Deliver
<1> QED
  BY <1>14

LEMMA LoopReports ==
  ASSUME IInv, IInv', NEW c \in Callers, Await(c), remaining[c] = 0 PROVE Contract(c)!Return
<1>1. /\ UNCHANGED <<total, done>> /\ mode'[c] = "none" /\ pc[c] = "await"
  BY DEF Await, Return, loop, IInv, ShapeOK
<1>2. mode[c] = "loop"
  BY <1>1, LoopPlaces
<1>3. LoopCovers'
  BY Covered, PTL
<1>4. \A i \in ItemsOf(c) : done[c][i] = 1
  BY <1>1, <1>3 DEF LoopCovers, ItemsOf
<1>5. {i \in ItemsOf(c) : done[c][i] > 0} = ItemsOf(c)
  BY <1>4
<1> QED
  BY <1>1, <1>2, <1>5 DEF Contract!Return, ItemsOf

(* A step of the pool, as a caller's contract sees it.                       *)
KeepsContract(c) == [Contract(c)!Next]_(Contract(c)!vars)

LEMMA ContractStep ==
  ASSUME IInv, IInv', [Next]_vars, NEW c \in Callers
  PROVE  KeepsContract(c)
<1>0. UNCHANGED (Contract(c)!vars) => KeepsContract(c)
  BY DEF KeepsContract
<1>1. Contract(c)!Open \/ Contract(c)!Return => KeepsContract(c)
  BY DEF KeepsContract, Contract!Next
<1>2. (\E S \in SUBSET AllItems : Contract(c)!Plan(S)) => KeepsContract(c)
  BY DEF KeepsContract, Contract!Next
<1>3. (\E i \in AllItems : Contract(c)!Deliver(i)) => KeepsContract(c)
  BY DEF KeepsContract, Contract!Next
<1>4. ASSUME NEW t \in Threads, Execute(t) PROVE KeepsContract(c)
  <2>1. CASE Body(t) /\ task[t].owner = c
    BY <1>3, <2>1, LoopDelivers
  <2>2. CASE Body(t) /\ task[t].owner # c
    <3>1. UNCHANGED <<mode, total>> /\ done' = [done EXCEPT ![task[t].owner][at[t]] = @ + 1]
      BY <2>2 DEF Body, call
    <3>2. done'[c] = done[c]
      BY <2>2, <3>1 DEF IInv, ShapeOK
    <3> QED
      BY <1>0, <3>1, <3>2, ContractQuiet
  <2>3. CASE ~Body(t)
    <3>1. UNCHANGED <<mode, total, done>>
      BY <1>4, <2>3 DEF Execute, Run, CountDown, NotifyFinished, Fetch, Finish, Signal, call, loop
    <3> QED
      BY <1>0, <3>1, QuietSteps
  <2> QED
    BY <2>1, <2>2, <2>3
<1>5. ASSUME NEW w \in Workers, Work(w) \/ SpuriousWakeup(w) PROVE KeepsContract(c)
  <2>1. CASE Execute(w)
    BY <1>4, <2>1, TwoKinds
  <2>2. CASE ~Execute(w)
    <3>1. UNCHANGED <<mode, total, done>>
      BY <1>5, <2>2 DEF Work, Top, Test, Sleep, SpuriousWakeup, call, loop
    <3> QED
      BY <1>0, <3>1, QuietSteps
  <2> QED
    BY <2>1, <2>2
<1>6. ASSUME NEW d \in Callers, Proceed(d) \/ BeginLoop(d) \/ BeginWait(d) \/ Enqueue(d) PROVE KeepsContract(c)
  <2>1. CASE Execute(d)
    BY <1>4, <2>1, TwoKinds
  <2>2. CASE RingOne(d) \/ Help(d) \/ Recheck(d) \/ BeginWait(d) \/ Enqueue(d)
    BY <1>0, <2>2, QuietSteps
  <2>3. CASE Push(d) \/ RingAll(d) \/ (Await(d) /\ remaining[d] # 0)
    <3>1. UNCHANGED <<mode, total, done>>
      BY <2>3 DEF Push, RingAll, Await, call, loop
    <3> QED
      BY <1>0, <3>1, QuietSteps
  <2>4. CASE d # c /\ (BeginLoop(d) \/ Setup(d) \/ Await(d))
    <3>1. mode'[c] = mode[c] /\ total'[c] = total[c] /\ done'[c] = done[c]
      <4>1. CASE BeginLoop(d)
        BY <2>4, <4>1 DEF BeginLoop, Begin, loop, IInv, ShapeOK
      <4>2. CASE Setup(d)
        BY <2>4, <4>2 DEF Setup, call, IInv, ShapeOK
      <4>3. CASE Await(d)
        BY <2>4, <4>3 DEF Await, Return, call, loop, IInv, ShapeOK
      <4> QED
        BY <2>4, <4>1, <4>2, <4>3
    <3> QED
      BY <1>0, <3>1, ContractQuiet
  <2>5. CASE d = c /\ BeginLoop(d)
    BY <1>1, <2>5, LoopOpens
  <2>6. CASE d = c /\ Setup(d)
    BY <1>2, <2>6, LoopPlans
  <2>7. CASE d = c /\ Await(d) /\ remaining[d] = 0
    BY <1>1, <2>7, LoopReports
  <2> QED
    BY <1>6, <2>1, <2>2, <2>3, <2>4, <2>5, <2>6, <2>7 DEF Proceed
<1>7. CASE Shutdown \/ UNCHANGED vars
  <2>1. UNCHANGED <<mode, total, done>>
    BY <1>7 DEF Shutdown, StoreStop, NotifyStop, Join, RequestStop, vars, call, loop
  <2> QED
    BY <1>0, <2>1, QuietSteps
<1> QED
  BY <1>5, <1>6, <1>7 DEF Next

(* parallel_for implements WorkContract for each of its callers: it delivers *)
(* only items of its range and each of them once, only while the call is     *)
(* open, and returns when all of them are delivered.                         *)
THEOREM LoopKeepsContract == Spec => ImplementsContract
<1>1. Init => \A c \in Callers : Contract(c)!Init
  BY DEF Init, Contract!Init, ItemsOf
<1>2. IInv /\ IInv' /\ [Next]_vars =>
        \A c \in Callers : [Contract(c)!Next]_(Contract(c)!vars)
  BY ContractStep DEF KeepsContract
<1>3. UNCHANGED vars => \A c \in Callers : UNCHANGED (Contract(c)!vars)
  <2> SUFFICES ASSUME UNCHANGED vars, NEW c \in Callers PROVE UNCHANGED (Contract(c)!vars)
    OBVIOUS
  <2> QED
    BY ContractQuiet DEF vars, call, loop
<1> QED
  BY <1>1, <1>2, <1>3, PoolInductive, PTL DEF Spec, ImplementsContract

-----------------------------------------------------------------------------
(* What a caller of parallel_for that sleeps on completion_cv waits for, and *)
(* a caller of wait_idle that sleeps on cv_finished_.                        *)
Rings(t, c) == pc[t] = "signal" /\ task[t].owner = c /\ task[t].call = calls[c]
RestHasCause(c) ==
  pc[c] = "rest" => remaining[c] # 0 \/ \E t \in Threads : Rings(t, c)
DrowseHasCause(c) ==
  pc[c] = "drowse" => active # 0 \/ \E t \in Threads : pc[t] = "notify"

(* The steps of a thread.                                                    *)
StepOf(t) ==
  \/ t \in Workers /\ (Work(t) \/ SpuriousWakeup(t))
  \/ t \in Callers /\ (Proceed(t) \/ BeginLoop(t) \/ BeginWait(t) \/ Enqueue(t))

LEMMA ThreadOrShutdown ==
  ASSUME [Next]_vars
  PROVE  \/ \E t \in Threads : StepOf(t)
         \/ Shutdown
         \/ UNCHANGED vars
BY TwoKinds DEF Next, StepOf

LEMMA OthersWoken ==
  ASSUME IInv, NEW t \in Threads, StepOf(t)
  PROVE  \A u \in Threads \ {t} :
           /\ task'[u] = task[u] /\ Woken(u)
           /\ u \in Callers => calls'[u] = calls[u] /\ mode'[u] = mode[u]
<1> USE TwoKinds
<1>0. /\ pc \in [Threads -> Places] /\ task \in [Threads -> Tasks \cup {NoTask}]
      /\ calls \in [Callers -> 0 .. MaxCalls]
      /\ mode \in [Callers -> {"none", "loop", "enqueue", "wait"}]
  BY DEF IInv, ShapeOK
<1>1. CASE Execute(t)
  <2>1. UNCHANGED <<task, calls, mode>>
    BY <1>1 DEF Execute, Run, CountDown, NotifyFinished, Fetch, Body, Finish, Signal, run, call
  <2>2. \A u \in Threads \ {t} : Woken(u)
    <3>1. CASE Run(t) \/ CountDown(t) \/ NotifyFinished(t) \/ Fetch(t) \/ Body(t) \/ Finish(t)
      BY <1>0, <3>1 DEF Run, CountDown, NotifyFinished, Fetch, Body, Finish, Goto, Woken
    <3>2. CASE Signal(t)
      BY <1>0, <3>2 DEF Signal, Woken
    <3> QED
      BY <1>1, <3>1, <3>2 DEF Execute
  <2> QED
    BY <2>1, <2>2
<1>2. CASE t \in Workers /\ (Top(t) \/ Test(t) \/ Sleep(t) \/ SpuriousWakeup(t))
  BY <1>0, <1>2 DEF Top, Test, Sleep, SpuriousWakeup, Take, Goto, Woken, run, call
<1>3. CASE t \in Callers /\ (Setup(t) \/ Push(t) \/ RingAll(t) \/ Await(t) \/ Help(t) \/ Recheck(t))
  BY <1>0, <1>3 DEF Setup, Push, RingAll, Await, Help, Recheck, Take, Return, Goto, Woken, run, call
<1>4. CASE t \in Callers /\ RingOne(t)
  <2>1. /\ UNCHANGED <<task, calls>> /\ mode' = [mode EXCEPT ![t] = "none"]
        /\ \/ pc' = [pc EXCEPT ![t] = "idle"]
           \/ \E w \in Workers : pc[w] = "asleep" /\ pc' = [pc EXCEPT ![t] = "idle", ![w] = "test"]
    BY <1>4 DEF RingOne, run, call
  <2> QED
    BY <1>0, <1>4, <2>1 DEF Woken
<1>5. CASE t \in Callers /\ (BeginLoop(t) \/ BeginWait(t) \/ Enqueue(t))
  BY <1>0, <1>5 DEF BeginLoop, BeginWait, Enqueue, Begin, Goto, Woken, run
<1> QED
  BY <1>1, <1>2, <1>3, <1>4, <1>5 DEF StepOf, Work, Proceed

(* Who goes to rest has seen that something remains, or was there already.   *)
LEMMA GoesToRest ==
  ASSUME IInv, NEW c \in Callers, StepOf(c)
  PROVE  /\ pc'[c] = "rest" => remaining[c] # 0 /\ remaining' = remaining
         /\ pc'[c] = "drowse" => active # 0 /\ active' = active
<1> USE TwoKinds
<1>0. pc \in [Threads -> Places] /\ tasks \in Seq(Tasks)
  BY DEF IInv, ShapeOK
<1>1. CASE Execute(c)
  <2>1. CASE Run(c) \/ CountDown(c) \/ NotifyFinished(c)
    BY <1>0, <2>1 DEF Run, CountDown, NotifyFinished, Goto, After
  <2>2. CASE Fetch(c) \/ Body(c) \/ Finish(c)
    BY <1>0, <2>2 DEF Fetch, Body, Finish, Goto, Leave
  <2>3. CASE Signal(c)
    <3>1. Leave(c) \in {"await", "count"} /\ (pc'[c] \in {Leave(c), "await", "lost"})
      BY <1>0, <2>3 DEF Signal, Leave
    <3> QED
      BY <3>1
  <2> QED
    BY <1>1, <2>1, <2>2, <2>3 DEF Execute
<1>2. CASE Await(c)
  BY <1>0, <1>2 DEF Await, Return, loop, queue
<1>3. CASE Help(c)
  BY <1>0, <1>3 DEF Help, Take, Return, queue
<1>4. CASE Recheck(c)
  <2>1. CASE tasks = <<>> /\ active = 0
    BY <1>0, <1>4, <2>1 DEF Recheck, Return
  <2>2. CASE ~(tasks = <<>> /\ active = 0)
    <3>1. active # 0
      <4>1. Len(tasks) \in Nat /\ (Len(tasks) = 0 => tasks = <<>>)
        BY <1>0
      <4>2. active = Len(tasks) + Cardinality(Unfinished) /\ Cardinality(Unfinished) \in Nat
        BY ThreadsFinite DEF IInv, ActiveExact
      <4> QED
        BY <2>2, <4>1, <4>2
    <3> QED
      BY <1>0, <1>4, <2>2, <3>1 DEF Recheck, queue
  <2> QED
    BY <2>1, <2>2
<1>5. CASE Setup(c) \/ Push(c) \/ RingAll(c) \/ BeginLoop(c) \/ BeginWait(c) \/ Enqueue(c)
  BY <1>0, <1>5 DEF Setup, Push, RingAll, BeginLoop, BeginWait, Enqueue, Goto
<1>6. CASE RingOne(c)
  <2>1. \/ pc' = [pc EXCEPT ![c] = "idle"]
        \/ \E w \in Workers : pc' = [pc EXCEPT ![c] = "idle", ![w] = "test"]
    BY <1>6 DEF RingOne
  <2> QED
    BY <1>0, <2>1
<1> QED
  BY <1>1, <1>2, <1>3, <1>4, <1>5, <1>6 DEF StepOf, Work, Proceed

(* A thread that has a wake-up to give does nothing else.                    *)
LEMMA OnlyNotifies ==
  ASSUME IInv, NEW t \in Threads, StepOf(t)
  PROVE  /\ pc[t] = "signal" => Signal(t)
         /\ pc[t] = "notify" => NotifyFinished(t)
<1>1. CASE Execute(t)
  BY <1>1 DEF Execute, Run, CountDown, NotifyFinished, Fetch, Body, Finish, Goto, Signal
<1>2. CASE t \in Workers /\ (Top(t) \/ Test(t) \/ Sleep(t) \/ SpuriousWakeup(t))
  BY <1>2 DEF Top, Test, Sleep, SpuriousWakeup, Goto
<1>3. CASE t \in Callers /\ (Setup(t) \/ Push(t) \/ RingAll(t) \/ RingOne(t) \/ Await(t) \/ Help(t)
                             \/ Recheck(t) \/ BeginLoop(t) \/ BeginWait(t) \/ Enqueue(t))
  BY <1>3 DEF Setup, Push, RingAll, RingOne, Await, Help, Recheck, BeginLoop, BeginWait, Enqueue,
              Begin, Goto
<1> QED
  BY <1>1, <1>2, <1>3 DEF StepOf, Work, Proceed

(* Only the end of its share takes from the counter of a loop at rest, and   *)
(* only the end of a task from active_tasks_.                                *)
LEMMA CountersFall ==
  ASSUME IInv, NEW t \in Threads, StepOf(t), NEW c \in Callers, c # t
  PROVE  /\ \/ remaining'[c] = remaining[c]
            \/ Finish(t) /\ task[t].owner = c
         /\ active' >= active \/ CountDown(t)
<1> USE TwoKinds
<1>0. /\ remaining \in [Callers -> Int] /\ active \in Int /\ tasks \in Seq(Tasks)
  BY DEF IInv, ShapeOK
<1>1. CASE Execute(t)
  <2>1. CASE Finish(t)
    BY <1>0, <2>1 DEF Finish, queue
  <2>2. CASE ~Finish(t)
    BY <1>0, <1>1, <2>2 DEF Execute, Run, NotifyFinished, Fetch, Body, Signal, CountDown, queue, loop
  <2> QED
    BY <2>1, <2>2
<1>2. CASE t \in Workers /\ (Top(t) \/ Test(t) \/ Sleep(t) \/ SpuriousWakeup(t))
  BY <1>0, <1>2 DEF Top, Test, Sleep, SpuriousWakeup, Take, queue, loop
<1>3. CASE t \in Callers /\ Push(t)
  <2>1. TasksNeeded(total[t], chunk[t]) \in Nat
    BY <1>3, HelpersNeeded DEF IInv
  <2>2. PICK helpers \in Int : helpers = TasksNeeded(total[t], chunk[t]) - 1
    BY <2>1
  <2>3. remaining' = remaining \/ \E x : remaining' = [remaining EXCEPT ![t] = x]
    BY <1>3 DEF Push
  <2>4. active' = active \/ (helpers > 0 /\ active' = active + helpers)
    BY <1>3, <2>2 DEF Push
  <2>5. remaining'[c] = remaining[c]
    BY <1>0, <2>3
  <2>6. active' >= active
    BY <1>0, <2>2, <2>4
  <2> QED
    BY <2>5, <2>6
<1>4. CASE t \in Callers /\ (Setup(t) \/ RingAll(t) \/ RingOne(t) \/ Await(t) \/ Help(t)
                             \/ Recheck(t) \/ BeginLoop(t) \/ BeginWait(t) \/ Enqueue(t))
  <2>1. CASE Setup(t)
    BY <1>0, <1>4, <2>1 DEF Setup, queue
  <2>2. CASE ~Setup(t)
    BY <1>0, <1>4, <2>2 DEF RingAll, RingOne, Await, Help, Take, Recheck, Return, BeginLoop, BeginWait,
                            Enqueue, Begin, queue, loop
  <2> QED
    BY <2>1, <2>2
<1> QED
  BY <1>1, <1>2, <1>3, <1>4 DEF StepOf, Work, Proceed

LEMMA CauseStep ==
  ASSUME IInv, [Next]_vars, NEW c \in Callers, RestHasCause(c), DrowseHasCause(c)
  PROVE  RestHasCause(c)' /\ DrowseHasCause(c)'
<1> USE TwoKinds
<1>0. /\ pc \in [Threads -> Places] /\ active \in Int /\ remaining \in [Callers -> Int]
  BY DEF IInv, ShapeOK
<1>1. ASSUME NEW t \in Threads, StepOf(t) PROVE RestHasCause(c)'
  <2> SUFFICES ASSUME pc'[c] = "rest"
               PROVE  remaining'[c] # 0 \/ \E u \in Threads : Rings(u, c)'
    BY DEF RestHasCause
  <2>1. CASE t = c
    BY <1>1, <2>1, GoesToRest
  <2>2. CASE t # c
    <3>1. pc[c] = "rest" /\ calls'[c] = calls[c]
      BY <1>1, <2>2, OthersWoken DEF Woken
    <3>2. mode[c] = "loop"
      BY <3>1, LoopPlaces
    <3>3. CASE remaining[c] # 0 /\ Finish(t) /\ task[t].owner = c
      <4>1. pc[t] = "finish" /\ UNCHANGED task /\ remaining'[c] = remaining[c] - 1
        BY <1>0, <3>3 DEF Finish, Goto, run
      <4>2. calls[c] = task[t].call
        BY <3>3, <4>1, SharerOpen DEF Sharing
      <4>3. CASE remaining[c] = 1
        <5>1. pc'[t] = "signal"
          BY <1>0, <3>3, <4>3 DEF Finish, Goto
        <5> QED
          BY <3>1, <3>3, <4>1, <4>2, <5>1 DEF Rings
      <4>4. CASE remaining[c] # 1
        BY <1>0, <4>1, <4>4
      <4> QED
        BY <4>3, <4>4
    <3>4. CASE remaining[c] # 0 /\ ~(Finish(t) /\ task[t].owner = c)
      BY <1>1, <2>2, <3>4, CountersFall
    <3>5. ASSUME NEW u \in Threads, Rings(u, c) PROVE Rings(u, c)'
      <4>1. CASE u = t
        <5>1. Signal(t)
          BY <1>1, <3>5, <4>1, OnlyNotifies DEF Rings
        <5>2. FrameAlive(t) /\ task[t].owner = c
          BY <3>2, <3>5, <4>1 DEF FrameAlive, Rings
        <5>3. pc'[c] = "await"
          BY <1>0, <2>2, <3>1, <5>1, <5>2 DEF Signal
        <5> QED
          BY <5>3
      <4>2. CASE u # t
        BY <1>1, <3>1, <3>5, <4>2, OthersWoken DEF Rings, Woken
      <4> QED
        BY <4>1, <4>2
    <3> QED
      BY <3>1, <3>3, <3>4, <3>5 DEF RestHasCause
  <2> QED
    BY <2>1, <2>2
<1>2. ASSUME NEW t \in Threads, StepOf(t) PROVE DrowseHasCause(c)'
  <2> SUFFICES ASSUME pc'[c] = "drowse"
               PROVE  active' # 0 \/ \E u \in Threads : pc'[u] = "notify"
    BY DEF DrowseHasCause
  <2>1. CASE t = c
    BY <1>2, <2>1, GoesToRest
  <2>2. CASE t # c
    <3>1. pc[c] = "drowse"
      BY <1>2, <2>2, OthersWoken DEF Woken
    <3>2. active >= 0
      <4>1. Len(tasks) \in Nat
        BY DEF IInv, ShapeOK
      <4> QED
        BY <4>1, ThreadsFinite DEF IInv, ActiveExact
    <3>3. CASE active # 0 /\ CountDown(t)
      <4>1. active' = active - 1 /\ (active = 1 => pc'[t] = "notify")
        BY <1>0, <3>3 DEF CountDown, Goto
      <4> QED
        BY <1>0, <4>1
    <3>4. CASE active # 0 /\ ~CountDown(t)
      <4>1. active' >= active
        BY <1>2, <2>2, <3>4, CountersFall
      <4>2. active' \in Int
        BY <1>2, InvStep DEF IInv, ShapeOK
      <4> QED
        BY <1>0, <3>2, <3>4, <4>1, <4>2
    <3>5. ASSUME NEW u \in Threads, pc[u] = "notify" PROVE pc'[u] = "notify"
      <4>1. CASE u = t
        <5>1. NotifyFinished(t)
          BY <1>2, <3>5, <4>1, OnlyNotifies
        <5>2. pc'[c] = "recheck"
          BY <1>0, <2>2, <3>1, <5>1 DEF NotifyFinished
        <5> QED
          BY <5>2
      <4>2. CASE u # t
        BY <1>2, <3>5, <4>2, OthersWoken DEF Woken
      <4> QED
        BY <4>1, <4>2
    <3> QED
      BY <3>1, <3>3, <3>4, <3>5 DEF DrowseHasCause
  <2> QED
    BY <2>1, <2>2
<1>3. CASE Shutdown
  <2>1. UNCHANGED <<active, remaining, task, calls>>
    BY <1>3 DEF Shutdown, StoreStop, NotifyStop, RequestStop, Join, queue, loop, run, call
  <2>2. \A u \in Threads : pc[u] # "asleep" => pc'[u] = pc[u]
    BY <1>3 DEF Shutdown, StoreStop, NotifyStop, RequestStop, Join
  <2>3. /\ pc'[c] = "rest" => pc[c] = "rest"
        /\ pc'[c] = "drowse" => pc[c] = "drowse"
    BY <1>3 DEF Shutdown, StoreStop, NotifyStop, RequestStop, Join
  <2> QED
    BY <2>1, <2>2, <2>3 DEF RestHasCause, DrowseHasCause, Rings
<1>4. CASE UNCHANGED vars
  BY <1>4 DEF vars, queue, loop, run, call, RestHasCause, DrowseHasCause, Rings
<1> QED
  BY <1>1, <1>2, <1>3, <1>4, ThreadOrShutdown

(* Nobody sleeps for nothing: a caller of parallel_for at rest has a helper  *)
(* queued or a thread at work on its loop, or one that is about to tell it,  *)
(* and a caller of wait_idle that drowses has a task queued or under way, or *)
(* a thread about to notify.  What the code must not do is notify before it  *)
(* counts, or count to zero without notifying.  Under fairness they return:  *)
(* LoopReturns and WaitReturns.                                              *)
SleepersWaitForSomething ==
  \A c \in Callers :
    /\ pc[c] = "rest" => \/ Positions(tasks, c) # {} \/ Sharers(c) # {}
                         \/ \E t \in Threads : Rings(t, c)
    /\ pc[c] = "drowse" => \/ tasks # <<>> \/ Unfinished # {}
                           \/ \E t \in Threads : pc[t] = "notify"

(* It holds since remaining and active are exact, and since whoever takes one *)
(* of them to zero has yet to notify.                                         *)
THEOREM NobodySleepsForNothing == Spec => []SleepersWaitForSomething
<1> DEFINE Causes == \A c \in Callers : RestHasCause(c) /\ DrowseHasCause(c)
<1>1. Init => Causes
  BY TwoKinds DEF Init, RestHasCause, DrowseHasCause
<1>2. IInv /\ Causes /\ [Next]_vars => Causes'
  BY CauseStep
<1>3. IInv /\ Causes => SleepersWaitForSomething
  <2> SUFFICES ASSUME IInv, Causes, NEW c \in Callers
               PROVE  /\ pc[c] = "rest" => \/ Positions(tasks, c) # {} \/ Sharers(c) # {}
                                           \/ \E t \in Threads : Rings(t, c)
                      /\ pc[c] = "drowse" => \/ tasks # <<>> \/ Unfinished # {}
                                             \/ \E t \in Threads : pc[t] = "notify"
    BY DEF SleepersWaitForSomething
  <2>0. Cardinality({}) = 0 /\ Len(<<>>) = 0
    BY FS_EmptySet
  <2>1. ASSUME pc[c] = "rest", Positions(tasks, c) = {}, Sharers(c) = {}
        PROVE  \E t \in Threads : Rings(t, c)
    <3>1. mode[c] = "loop"
      BY <2>1, LoopPlaces
    <3>2. remaining[c] = Cardinality(Positions(tasks, c)) + Cardinality(Sharers(c))
      BY <2>1, <3>1 DEF IInv, RemainingOK
    <3>3. remaining[c] = 0
      BY <2>0, <2>1, <3>2
    <3> QED
      BY <2>1, <3>3 DEF RestHasCause
  <2>2. ASSUME pc[c] = "drowse", tasks = <<>>, Unfinished = {}
        PROVE  \E t \in Threads : pc[t] = "notify"
    <3>1. active = 0
      BY <2>0, <2>2 DEF IInv, ActiveExact
    <3> QED
      BY <2>2, <3>1 DEF DrowseHasCause
  <2> QED
    BY <2>1, <2>2
<1> HIDE DEF Causes
<1> QED
  BY <1>1, <1>2, <1>3, PoolInductive, PTL DEF Spec

=============================================================================
