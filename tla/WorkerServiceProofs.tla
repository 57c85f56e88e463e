------------------------- MODULE WorkerServiceProofs -------------------------
(* What WorkerService promises for any number of masters, peers, sessions,   *)
(* tiles and frames: the job map points to jobs that are not over, a job it  *)
(* does not have has a twin, none of a session that is closed goes on unless *)
(* its cancel flag is set or it has no entry, and a tile its master still    *)
(* waits for is rendered with the bodies of its own frame.                   *)
EXTENDS WorkerService, FiniteSetTheorems, SequenceTheorems, TLAPS

(* A job of a session that still holds its peer, or one that will give up.   *)
Serves(s) == Held(s) /\ Open(s)
Doomed(j) == job[j].st # "waiting" /\ (job[j].cancel \/ j \notin map)

HasSession == \A j \in Jobs : Pending(j) => job[j].sess \in Sessions
Entries == \A j \in map : Pending(j)
Attended == \A j \in Jobs : Pending(j) => Serves(job[j].sess) \/ Doomed(j)
IInv == TypeOK /\ HasSession /\ Entries /\ Attended

-----------------------------------------------------------------------------
(* What the helpers do to a job.                                             *)

LEMMA JobTyped ==
  ASSUME TypeOK, NEW j \in Jobs
  PROVE  job[j] \in JobRecords /\ j[1] \in Masters /\ j[2] \in Frames /\ j[3] \in Tiles
BY DEF TypeOK, Jobs

LEMMA WithoutDrops == \A jobs : Without(jobs) \subseteq map \ jobs
BY DEF Without

LEMMA CancelKeeps ==
  ASSUME NEW f \in [Jobs -> JobRecords], NEW jobs
  PROVE  /\ Cancel(jobs, f) \in [Jobs -> JobRecords]
         /\ \A j \in Jobs : /\ Cancel(jobs, f)[j].st = f[j].st
                            /\ Cancel(jobs, f)[j].sess = f[j].sess
                            /\ Cancel(jobs, f)[j].needs = f[j].needs
                            /\ Cancel(jobs, f)[j].bodies = f[j].bodies
                            /\ Cancel(jobs, f)[j].cancel = (f[j].cancel \/ j \in jobs)
<1>1. \A j \in Jobs : /\ [f[j] EXCEPT !.cancel = TRUE] \in JobRecords
                      /\ [f[j] EXCEPT !.cancel = TRUE].st = f[j].st
                      /\ [f[j] EXCEPT !.cancel = TRUE].sess = f[j].sess
                      /\ [f[j] EXCEPT !.cancel = TRUE].needs = f[j].needs
                      /\ [f[j] EXCEPT !.cancel = TRUE].bodies = f[j].bodies
                      /\ [f[j] EXCEPT !.cancel = TRUE].cancel = TRUE
                      /\ f[j].cancel \in BOOLEAN
  BY DEF JobRecords
<1> QED BY <1>1 DEF Cancel

LEMMA ReleaseKeeps ==
  ASSUME NEW f \in [Jobs -> JobRecords], NEW jobs
  PROVE  /\ Release(jobs, f) \in [Jobs -> JobRecords]
         /\ \A j \in jobs \cap Jobs : Release(jobs, f)[j].st = "released"
         /\ \A j \in Jobs \ jobs : Release(jobs, f)[j] = f[j]
<1> DEFINE released == [NoJob EXCEPT !.st = "released"]
<1>1. released \in JobRecords /\ released.st = "released"
  BY DEF NoJob, JobRecords, Unreleased
<1> HIDE DEF released
<1>2. Release(jobs, f) = [j \in Jobs |-> IF j \in jobs THEN released ELSE f[j]]
  BY DEF Release, released
<1> QED BY <1>1, <1>2

(* A sequence of a finite set holds its elements only, and each once.        *)
LEMMA SetToSeqTyped ==
  ASSUME NEW S, IsFiniteSet(S)
  PROVE  /\ SetToSeq(S) \in [1 .. Cardinality(S) -> S]
         /\ \A k, l \in 1 .. Cardinality(S) : SetToSeq(S)[k] = SetToSeq(S)[l] => k = l
<1>1. PICK n \in Nat : ExistsBijection(1 .. n, S) BY FS_NatBijection
<1>2. Cardinality(S) = n BY <1>1, FS_CountingElements
<1>3. PICK f \in [1 .. n -> S] : IsInjective(f)
  BY <1>1 DEF ExistsBijection, Bijection, Injection
<1>4. SetToSeq(S) \in [1 .. Cardinality(S) -> S] /\ IsInjective(SetToSeq(S))
  BY <1>2, <1>3 DEF SetToSeq
<1> QED BY <1>4 DEF IsInjective

-----------------------------------------------------------------------------
(* The argument, by what a step does to the jobs.                            *)

(* Steps that leave the jobs alone, and their sessions with them.            *)
LEMMA QuietStep ==
  ASSUME IInv, TypeOK', UNCHANGED <<job, map>>,
         \A x \in Sessions :
           (\E j \in Jobs : Pending(j) /\ job[j].sess = x) /\ Serves(x) => Serves(x)'
  PROVE  IInv'
<1>1. HasSession' /\ Entries' BY DEF IInv, HasSession, Entries, Pending
<1>2. Attended'
  <2> SUFFICES ASSUME NEW j \in Jobs, Pending(j) PROVE Serves(job[j].sess)' \/ Doomed(j)'
    BY DEF Attended, Pending
  <2>1. job[j].sess \in Sessions /\ (Serves(job[j].sess) \/ Doomed(j))
    BY DEF IInv, HasSession, Attended
  <2>2. Doomed(j) => Doomed(j)' BY DEF Doomed
  <2>3. \A x : x = job[j].sess => (Serves(x) => Serves(x)') BY <2>1
  <2>4. Serves(job[j].sess) => Serves(job[j].sess)' BY <2>3 DEF Serves, Held, Open
  <2> QED BY <2>1, <2>2, <2>4
<1> QED BY <1>1, <1>2 DEF IInv

(* Steps that end the jobs in gone and let the others go on.                 *)
LEMMA JobsStep ==
  ASSUME IInv, TypeOK', \A x \in Sessions : Serves(x) => Serves(x)',
         NEW gone, map' \subseteq map \ gone,
         \A j \in gone \cap Jobs : job'[j].st \notin Unreleased,
         \A j \in Jobs \ gone :
           /\ (job'[j].st \in Unreleased <=> job[j].st \in Unreleased)
           /\ job'[j].sess = job[j].sess
           /\ (job[j].cancel => job'[j].cancel)
           /\ (job'[j].st = "waiting" => job[j].st = "waiting")
  PROVE  IInv'
<1>1. map \subseteq Jobs BY DEF IInv, TypeOK
<1>2. HasSession' BY DEF IInv, HasSession, Pending
<1>3. Entries' BY <1>1 DEF IInv, Entries, Pending
<1>4. Attended'
  <2> SUFFICES ASSUME NEW j \in Jobs \ gone, Pending(j) PROVE Serves(job[j].sess)' \/ Doomed(j)'
    BY DEF Attended, Pending
  <2>1. job[j].sess \in Sessions /\ (Serves(job[j].sess) \/ Doomed(j))
    BY DEF IInv, HasSession, Attended
  <2>2. Doomed(j) => Doomed(j)' BY DEF Doomed
  <2>3. \A x : x = job[j].sess => (Serves(x) => Serves(x)') BY <2>1
  <2>4. job'[j].sess = job[j].sess OBVIOUS
  <2>5. Serves(job[j].sess) => Serves(job[j].sess)' BY <2>3, <2>4 DEF Serves, Held, Open
  <2> QED BY <2>1, <2>2, <2>5
<1> QED BY <1>2, <1>3, <1>4 DEF IInv

(* close_session of s finds every job of s: those that wait are over and the *)
(* others doomed.                                                            *)
LEMMA CloseStep ==
  ASSUME IInv, TypeOK', NEW s \in Sessions, CloseSession(s),
         \A x \in Sessions : x # s /\ Held(x) => Held(x)'
  PROVE  IInv'
<1> DEFINE flagged == Cancel(OfPeer(sess[s].peer), job)
           gone == Waiting(s)
<1>1. job \in [Jobs -> JobRecords] /\ map \subseteq Jobs /\ sess \in [Sessions -> SessionRecords]
  BY DEF IInv, TypeOK
<1>2. /\ flagged \in [Jobs -> JobRecords]
      /\ \A j \in Jobs : /\ flagged[j].st = job[j].st /\ flagged[j].sess = job[j].sess
                         /\ flagged[j].cancel = (job[j].cancel \/ j \in OfPeer(sess[s].peer))
  BY <1>1, CancelKeeps
<1> HIDE DEF flagged
<1>3. job' = Release(gone, flagged) /\ map' \subseteq map \ gone
  BY WithoutDrops DEF CloseSession, ReleaseAll, flagged
<1>4. /\ \A j \in gone : job'[j].st = "released"
      /\ \A j \in Jobs \ gone : job'[j] = flagged[j]
  BY <1>2, <1>3, ReleaseKeeps DEF Waiting, Owned
<1>5. \A j \in map : job[j].sess = s => j \in OfPeer(sess[s].peer)
  BY DEF OfPeer
<1>6. \A j \in Jobs \ gone : Pending(j) /\ job[j].sess = s => job[j].st # "waiting"
  BY DEF Waiting, Owned
<1>7. \A x \in Sessions : x # s /\ Open(x) => Open(x)'
  BY <1>1 DEF CloseSession, Open
<1>8. \A x \in Sessions : x # s /\ Serves(x) => Serves(x)'
  BY <1>7 DEF Serves
<1>9. "released" \notin Unreleased BY DEF Unreleased
<1> HIDE DEF gone
<1>10. \A j \in Jobs : Pending(j)' => j \in Jobs \ gone /\ Pending(j)
  BY <1>2, <1>4, <1>9 DEF Pending
<1>11. HasSession'
  BY <1>2, <1>4, <1>10 DEF IInv, HasSession
<1>12. Entries'
  BY <1>1, <1>2, <1>3, <1>4 DEF IInv, Entries, Pending
<1>13. Attended'
  <2> SUFFICES ASSUME NEW j \in Jobs \ gone, Pending(j) PROVE Serves(job[j].sess)' \/ Doomed(j)'
    BY <1>10 DEF Attended
  <2>1. job[j].sess \in Sessions /\ (Serves(job[j].sess) \/ Doomed(j))
    BY DEF IInv, HasSession, Attended
  <2>2. job'[j] = flagged[j] /\ job'[j].sess = job[j].sess BY <1>2, <1>4
  <2>3. Doomed(j) => Doomed(j)' BY <1>2, <1>3, <2>2 DEF Doomed
  <2>4. CASE job[j].sess = s
    BY <1>2, <1>3, <1>5, <1>6, <2>2, <2>4 DEF Doomed
  <2>5. CASE job[j].sess # s
    <3>1. \A x : x = job[j].sess => (Serves(x) => Serves(x)') BY <1>8, <2>1, <2>5
    <3>2. Serves(job[j].sess) => Serves(job[j].sess)'
      BY <2>2, <3>1 DEF Serves, Held, Open
    <3> QED BY <2>1, <2>3, <3>2
  <2> QED BY <2>4, <2>5
<1> QED BY <1>11, <1>12, <1>13 DEF IInv

-----------------------------------------------------------------------------
(* Types.                                                                    *)

LEMMA CloseTyped ==
  ASSUME TypeOK, NEW s \in Sessions, CloseSession(s)
  PROVE  /\ sess' \in [Sessions -> SessionRecords]
         /\ job' \in [Jobs -> JobRecords] /\ map' \subseteq Jobs
<1>1. sess' \in [Sessions -> SessionRecords]
  <2>1. sess \in [Sessions -> SessionRecords] BY DEF TypeOK
  <2>2. sess' = [sess EXCEPT ![s] = [sess[s] EXCEPT !.phase = "closing"]] BY DEF CloseSession
  <2>3. sess[s] \in SessionRecords BY <2>1
  <2>4. [sess[s] EXCEPT !.phase = "closing"] \in SessionRecords
    BY <2>3 DEF SessionRecords, Phases
  <2> QED BY <2>1, <2>2, <2>4
<1>2. Cancel(OfPeer(sess[s].peer), job) \in [Jobs -> JobRecords]
  <2>1. job \in [Jobs -> JobRecords] BY DEF TypeOK
  <2> QED BY <2>1, CancelKeeps
<1>3. job' \in [Jobs -> JobRecords]
  BY <1>2, ReleaseKeeps DEF CloseSession, ReleaseAll
<1>4. map' \subseteq Jobs BY WithoutDrops DEF TypeOK, CloseSession, ReleaseAll
<1> QED BY <1>1, <1>3, <1>4

LEMMA AfterTyped ==
  ASSUME TypeOK, NEW s, NEW j
  PROVE  After(s, j) \in [Jobs -> JobRecords]
<1>1. Cancel(Superseded(s, j), job) \in [Jobs -> JobRecords]
  <2>1. job \in [Jobs -> JobRecords] BY DEF TypeOK
  <2> QED BY <2>1, CancelKeeps
<1> QED BY <1>1, ReleaseKeeps DEF After

LEMMA AssignmentTyped ==
  ASSUME TypeOK, NEW s \in Sessions, NEW i \in 1 .. Len(data[s]), TaskAssignment(s, i)
  PROVE  /\ data[s][i] \in TaskPackets /\ data[s][i].job \in Jobs
         /\ data[s][i].job[2] \in Frames /\ data[s][i].needs \in BOOLEAN
         /\ sess' \in [Sessions -> SessionRecords]
         /\ data' \in [Sessions -> Seq(TaskPackets)]
<1>1. data[s] \in Seq(TaskPackets) BY DEF TypeOK
<1>2. data[s][i] \in TaskPackets BY <1>1
<1>3. data[s][i].job \in Jobs /\ data[s][i].needs \in BOOLEAN BY <1>2 DEF TaskPackets
<1>4. data[s][i].job[2] \in Frames BY <1>3 DEF Jobs
<1>5. sess' \in [Sessions -> SessionRecords]
  <2>1. PICK l :
          l = IF data[s][i].job[2] > sess[s].latest THEN data[s][i].job[2] ELSE sess[s].latest
    OBVIOUS
  <2>2. sess \in [Sessions -> SessionRecords] /\ sess[s] \in SessionRecords BY DEF TypeOK
  <2>3. sess' = [sess EXCEPT ![s] = [sess[s] EXCEPT !.latest = l]]
    BY <2>1, <2>2 DEF TaskAssignment
  <2>4. l \in Frames \cup {-1} BY <1>4, <2>1, <2>2 DEF SessionRecords
  <2>5. [sess[s] EXCEPT !.latest = l] \in SessionRecords BY <2>2, <2>4 DEF SessionRecords
  <2> QED BY <2>2, <2>3, <2>5
<1>6. SubSeq(data[s], i + 1, Len(data[s])) \in Seq(TaskPackets) BY <1>1
<1>7. data' \in [Sessions -> Seq(TaskPackets)]
  BY <1>6 DEF TypeOK, TaskAssignment
<1> QED BY <1>2, <1>3, <1>4, <1>5, <1>7

LEMMA ControlTyped ==
  ASSUME TypeOK, NEW s \in Sessions, NEW kind, NextControl(s, kind)
  PROVE  /\ Head(ctrl[s]).frame \in Frames
         /\ [ctrl EXCEPT ![s] = Tail(@)] \in [Sessions -> Seq(Controls)]
<1>1. ctrl[s] \in Seq(Controls) /\ ctrl[s] # <<>> BY DEF TypeOK, NextControl
<1>2. Head(ctrl[s]) \in Controls /\ Tail(ctrl[s]) \in Seq(Controls) BY <1>1
<1> QED BY <1>2 DEF TypeOK, Controls

(* What the master puts on the channels.                                     *)
LEMMA FrameTyped ==
  ASSUME TypeOK, NEW m \in Masters, frame[m] < Budget[m], NEW plan, NEW needs \in BOOLEAN, NEW s
  PROVE  /\ Catalogue(frame[m]) \in Seq(Controls)
         /\ Assignments(m, Assigned(plan, s), needs) \in Seq(TaskPackets)
         /\ \A k \in 1 .. Len(Assignments(m, Assigned(plan, s), needs)) :
              \E t \in Assigned(plan, s) :
                Assignments(m, Assigned(plan, s), needs)[k].job = <<m, frame[m], t>>
         /\ \A k, l \in 1 .. Len(Assignments(m, Assigned(plan, s), needs)) :
              Assignments(m, Assigned(plan, s), needs)[k].job =
                Assignments(m, Assigned(plan, s), needs)[l].job => k = l
<1>1. frame[m] \in Frames /\ Chunks \in Nat
  BY SizesAssumption, BudgetAssumption DEF TypeOK, Frames
<1>2. Catalogue(frame[m]) \in Seq(Controls)
  <2>1. PICK f \in Frames : f = frame[m] BY <1>1
  <2>2. Catalogue(f) \in Seq(Controls) BY <1>1 DEF Catalogue, Controls
  <2> QED BY <2>1, <2>2
<1> DEFINE order == SetToSeq(Assigned(plan, s))
           n == Cardinality(Assigned(plan, s))
<1>3. IsFiniteSet(Assigned(plan, s)) /\ Assigned(plan, s) \subseteq Tiles
  BY TilesAssumption, FS_Subset DEF Assigned
<1>4. /\ order \in [1 .. n -> Assigned(plan, s)] /\ n \in Nat
      /\ \A k, l \in 1 .. n : order[k] = order[l] => k = l
  BY <1>3, SetToSeqTyped, FS_CardinalityType
<1> HIDE DEF order, n
<1>5. \A t \in Tiles : <<m, frame[m], t>> \in Jobs
  BY <1>1 DEF Jobs
<1>6. \A k \in 1 .. n : [job |-> <<m, frame[m], order[k]>>, needs |-> needs] \in TaskPackets
  BY <1>3, <1>4, <1>5 DEF TaskPackets
<1>7. Assignments(m, Assigned(plan, s), needs) =
        [k \in 1 .. n |-> [job |-> <<m, frame[m], order[k]>>, needs |-> needs]]
  BY <1>4 DEF Assignments, order
<1>8. PICK sent : sent = Assignments(m, Assigned(plan, s), needs) OBVIOUS
<1>9. sent \in Seq(TaskPackets) /\ Len(sent) = n BY <1>4, <1>6, <1>7, <1>8
<1>10. \A k \in 1 .. n : sent[k].job = <<m, frame[m], order[k]>> BY <1>7, <1>8
<1>11. \A k \in 1 .. n : \E t \in Assigned(plan, s) : sent[k].job = <<m, frame[m], t>>
  BY <1>4, <1>10
<1>12. \A k, l \in 1 .. n : sent[k].job = sent[l].job => k = l
  BY <1>4, <1>10
<1> QED BY <1>2, <1>8, <1>9, <1>11, <1>12

-----------------------------------------------------------------------------
(* One lemma for each kind of step.                                          *)

(* Connections: new ones find no job of their session, and the end of one    *)
(* closes its session unless that was closed before.                         *)
LEMMA ConnectSteps ==
  ASSUME IInv, NEW p \in Peers, Connect(p) \/ Unknown(p)
  PROVE  IInv'
<1>1. TypeOK' BY DEF IInv, TypeOK, Connect, Unknown, PeerEnds, channels, master
<1>2. UNCHANGED <<job, map, sess, byPeer>> BY DEF Connect, Unknown, channels, master
<1>3. \A x : Serves(x) => Serves(x)' BY <1>2 DEF Serves, Held, Open
<1> QED BY <1>1, <1>2, <1>3, QuietStep

LEMMA ConnectedStep ==
  ASSUME IInv, NEW p \in Peers, NEW s \in Sessions, NEW called \in BOOLEAN, NEW m \in Masters,
         Connected(p, s, called, m)
  PROVE  IInv'
<1> DEFINE fresh == Fresh(p, outbound = p, called, m)
<1>1. fresh \in SessionRecords BY DEF Fresh, SessionRecords, Phases
<1> HIDE DEF fresh
<1>2. sess' = [sess EXCEPT ![s] = fresh] BY DEF Connected, fresh
<1>3. TypeOK' BY <1>1, <1>2 DEF IInv, TypeOK, Connected, channels, master
<1>4. UNCHANGED <<job, map>> BY DEF Connected
<1>5. \A j \in Jobs : Pending(j) => job[j].sess # s
  BY DEF Connected, NewSession, Owned
<1>6. \A x \in Sessions : x # s /\ Open(x) => Open(x)'
  BY <1>2 DEF IInv, TypeOK, Open
<1>7. \A x \in Sessions : Held(x) => Held(x)'
  BY NoneAssumption DEF IInv, TypeOK, Connected, Held
<1>8. \A x \in Sessions : (\E j \in Jobs : Pending(j) /\ job[j].sess = x) /\ Serves(x) => Serves(x)'
  BY <1>5, <1>6, <1>7 DEF Serves
<1> QED BY <1>3, <1>4, <1>8, QuietStep

LEMMA AuthenticateStep ==
  ASSUME IInv, NEW s \in Sessions, Authenticate(s)
  PROVE  IInv'
<1>1. sess' \in [Sessions -> SessionRecords]
  <2> DEFINE next == IF sess[s].phase = "await" THEN "proof" ELSE "established"
  <2>1. sess' = [sess EXCEPT ![s] = [sess[s] EXCEPT !.phase = next]] BY DEF Authenticate
  <2>2. next \in Phases BY DEF Phases
  <2> HIDE DEF next
  <2>3. \A r \in SessionRecords : [r EXCEPT !.phase = next] \in SessionRecords
    BY <2>2 DEF SessionRecords
  <2> QED BY <2>1, <2>3 DEF IInv, TypeOK
<1>2. TypeOK' BY <1>1 DEF IInv, TypeOK, Authenticate, link, channels, master
<1>3. UNCHANGED <<job, map, byPeer>> BY DEF Authenticate, link
<1>4. \A x \in Sessions : Open(x) => Open(x)' BY DEF IInv, TypeOK, Authenticate, Open
<1>5. \A x \in Sessions : Serves(x) => Serves(x)' BY <1>3, <1>4 DEF Serves, Held
<1> QED BY <1>2, <1>3, <1>5, QuietStep

LEMMA ClosingSteps ==
  ASSUME IInv, NEW s \in Sessions, Refuse(s) \/ Rekey(s)
  PROVE  IInv'
<1>1. CloseSession(s) /\ UNCHANGED <<outbound, byPeer, ctrl, data, frame, ended>>
  BY DEF Refuse, Rekey, channels, master
<1>2. slot' \in [Peers -> {"free", "connecting", "connected", "closing"}]
  BY DEF IInv, TypeOK, Refuse, Rekey
<1>3. TypeOK' BY <1>1, <1>2, CloseTyped DEF IInv, TypeOK
<1>4. \A x : Held(x) => Held(x)' BY <1>1 DEF Held
<1> QED BY <1>1, <1>3, <1>4, CloseStep

LEMMA DisconnectedStep ==
  ASSUME IInv, NEW p \in Peers, Disconnected(p)
  PROVE  IInv'
<1> DEFINE s == byPeer[p]
<1>1. s \in Sessions BY DEF IInv, TypeOK, Disconnected
<1>2. /\ slot' \in [Peers -> {"free", "connecting", "connected", "closing"}]
      /\ outbound' = outbound /\ frame' = frame /\ ended' = ended
      /\ byPeer' \in [Peers -> Sessions \cup {None}]
  BY DEF IInv, TypeOK, Disconnected, PeerEnds, master
<1>3. ctrl' \in [Sessions -> Seq(Controls)] /\ data' \in [Sessions -> Seq(TaskPackets)]
  BY DEF IInv, TypeOK, Disconnected
<1>4. \A x \in Sessions : x # s /\ Held(x) => Held(x)'
  BY DEF IInv, TypeOK, Disconnected, Held
<1>5. CASE CloseSession(s)
  <2>1. TypeOK' BY <1>1, <1>2, <1>3, <1>5, CloseTyped DEF IInv, TypeOK
  <2> HIDE DEF s
  <2> QED BY <1>1, <1>4, <1>5, <2>1, CloseStep
<1>6. CASE ~Open(s) /\ UNCHANGED <<sess, job, map>>
  <2>1. TypeOK' BY <1>2, <1>3, <1>6 DEF IInv, TypeOK
  <2>2. \A x \in Sessions : Serves(x) => x # s BY <1>6 DEF Serves
  <2>3. \A x : Open(x) => Open(x)' BY <1>6 DEF Open
  <2>4. \A x \in Sessions : Serves(x) => Serves(x)' BY <1>4, <2>2, <2>3 DEF Serves
  <2> QED BY <1>6, <2>1, <2>4, QuietStep
<1> QED BY <1>5, <1>6 DEF Disconnected

-----------------------------------------------------------------------------
(* Packets, the end of a turn, and the threads of the pool.                  *)

(* The jobs that After prunes are over; the others are as they were but for  *)
(* a flag that may have gone up.                                             *)
LEMMA AfterKeeps ==
  ASSUME TypeOK, NEW s \in Sessions, NEW j \in Jobs
  PROVE  /\ Pruned(s, j) \subseteq Jobs
         /\ \A x \in Pruned(s, j) : After(s, j)[x].st \notin Unreleased
         /\ \A x \in Jobs \ Pruned(s, j) :
              /\ After(s, j)[x].st = job[x].st /\ After(s, j)[x].sess = job[x].sess
              /\ After(s, j)[x].needs = job[x].needs /\ After(s, j)[x].bodies = job[x].bodies
              /\ (job[x].cancel => After(s, j)[x].cancel)
<1> DEFINE flagged == Cancel(Superseded(s, j), job)
<1>1. job \in [Jobs -> JobRecords] BY DEF TypeOK
<1>2. /\ flagged \in [Jobs -> JobRecords]
      /\ \A x \in Jobs : /\ flagged[x].st = job[x].st /\ flagged[x].sess = job[x].sess
                         /\ flagged[x].needs = job[x].needs /\ flagged[x].bodies = job[x].bodies
                         /\ flagged[x].cancel = (job[x].cancel \/ x \in Superseded(s, j))
  BY <1>1, CancelKeeps
<1>3. After(s, j) = Release(Pruned(s, j), flagged) BY DEF After
<1>4. Pruned(s, j) \subseteq Jobs BY DEF Pruned, CancelledWaiting, Waiting, Owned
<1> HIDE DEF flagged
<1>5. \A x \in Pruned(s, j) : After(s, j)[x].st = "released"
  BY <1>2, <1>3, <1>4, ReleaseKeeps
<1>6. \A x \in Jobs \ Pruned(s, j) : After(s, j)[x] = flagged[x]
  BY <1>2, <1>3, ReleaseKeeps
<1> QED BY <1>2, <1>4, <1>5, <1>6 DEF Unreleased

(* An assignment leaves the sessions as open as they were.                   *)
LEMMA AssignmentServes ==
  ASSUME TypeOK, NEW s \in Sessions, NEW i, TaskAssignment(s, i)
  PROVE  /\ \A x \in Sessions : Serves(x) => Serves(x)'
         /\ Serves(s) /\ Serves(s)'
<1>1. UNCHANGED byPeer /\ Held(s) /\ Open(s)
  BY DEF TaskAssignment, link, Established, Open
<1>2. \A x \in Sessions : Open(x) => Open(x)' BY DEF TypeOK, TaskAssignment, Open
<1> QED BY <1>1, <1>2 DEF Serves, Held

LEMMA RejectStep ==
  ASSUME IInv, NEW s \in Sessions, NEW i \in 1 .. Len(data[s]), Reject(s, i)
  PROVE  IInv'
<1> DEFINE j == data[s][i].job
<1>1. TypeOK /\ TaskAssignment(s, i) BY DEF IInv, Reject
<1>2. job' = After(s, j) /\ map' \subseteq map \ Pruned(s, j)
  BY WithoutDrops DEF Reject
<1>3. /\ j \in Jobs
      /\ sess' \in [Sessions -> SessionRecords] /\ data' \in [Sessions -> Seq(TaskPackets)]
  BY <1>1, AssignmentTyped
<1>4. UNCHANGED <<slot, outbound, byPeer, ctrl, frame, ended>>
  BY <1>1 DEF TaskAssignment, link, master
<1> HIDE DEF j
<1>5. TypeOK' BY <1>1, <1>2, <1>3, <1>4, AfterTyped DEF TypeOK
<1>6. \A x \in Sessions : Serves(x) => Serves(x)' BY <1>1, AssignmentServes
<1>7. /\ \A x \in Pruned(s, j) \cap Jobs : job'[x].st \notin Unreleased
      /\ \A x \in Jobs \ Pruned(s, j) :
           /\ (job'[x].st \in Unreleased <=> job[x].st \in Unreleased)
           /\ job'[x].sess = job[x].sess
           /\ (job[x].cancel => job'[x].cancel)
           /\ (job'[x].st = "waiting" => job[x].st = "waiting")
  BY <1>1, <1>2, <1>3, AfterKeeps
<1> QED BY <1>2, <1>5, <1>6, <1>7, JobsStep

LEMMA AcceptStep ==
  ASSUME IInv, NEW s \in Sessions, NEW i \in 1 .. Len(data[s]), Accept(s, i)
  PROVE  IInv'
<1> DEFINE j == data[s][i].job
           needs == data[s][i].needs
           ready == Ready(s, j, needs)
           new == [st |-> IF ready THEN "queued" ELSE "waiting", sess |-> s, needs |-> needs,
                   bodies |-> IF needs /\ ready THEN j[2] ELSE None, cancel |-> FALSE]
           after == After(s, j)
<1>1. TypeOK /\ TaskAssignment(s, i) BY DEF IInv, Accept
<1>2. job' = [after EXCEPT ![j] = new] /\ map' \subseteq (map \ Pruned(s, j)) \cup {j}
  BY WithoutDrops DEF Accept
<1>3. /\ j \in Jobs /\ j[2] \in Frames /\ needs \in BOOLEAN
      /\ sess' \in [Sessions -> SessionRecords] /\ data' \in [Sessions -> Seq(TaskPackets)]
  BY <1>1, AssignmentTyped
<1>4. UNCHANGED <<slot, outbound, byPeer, ctrl, frame, ended>>
  BY <1>1 DEF TaskAssignment, link, master
<1> HIDE DEF j, needs, ready
<1>5. new \in JobRecords /\ new.st \in Unreleased /\ new.sess = s
  BY <1>3 DEF JobRecords, Unreleased
<1> HIDE DEF new
<1>6. after \in [Jobs -> JobRecords] BY <1>1, AfterTyped
<1>7. /\ Pruned(s, j) \subseteq Jobs
      /\ \A x \in Pruned(s, j) : after[x].st \notin Unreleased
      /\ \A x \in Jobs \ Pruned(s, j) :
           /\ after[x].st = job[x].st /\ after[x].sess = job[x].sess
           /\ (job[x].cancel => after[x].cancel)
  BY <1>1, <1>3, AfterKeeps
<1> HIDE DEF after
<1>8. map \subseteq Jobs BY <1>1 DEF TypeOK
<1>9. TypeOK' BY <1>1, <1>2, <1>3, <1>4, <1>5, <1>6, <1>8 DEF TypeOK
<1>10. /\ job'[j] = new
       /\ \A x \in Jobs : x # j => job'[x] = after[x]
  BY <1>2, <1>3, <1>6
<1>11. (\A x \in Sessions : Serves(x) => Serves(x)') /\ Serves(s)' BY <1>1, AssignmentServes
<1>12. \A x \in Jobs : x # j /\ Pending(x)' => x \notin Pruned(s, j) /\ Pending(x)
  BY <1>7, <1>10 DEF Pending
<1>13. HasSession'
  BY <1>5, <1>7, <1>10, <1>12 DEF IInv, HasSession
<1>14. Entries'
  BY <1>2, <1>5, <1>7, <1>8, <1>10 DEF IInv, Entries, Pending
<1>15. Attended'
  <2> SUFFICES ASSUME NEW x \in Jobs, Pending(x)' PROVE Serves(job[x].sess)' \/ Doomed(x)'
    BY DEF Attended
  <2>1. CASE x = j
    <3>1. job'[x].sess = s BY <1>5, <1>10, <2>1
    <3> QED BY <1>11, <3>1 DEF Serves, Held, Open
  <2>2. CASE x # j
    <3>1. x \in Jobs \ Pruned(s, j) /\ Pending(x) BY <1>12, <2>2
    <3>2. /\ job'[x].st = job[x].st /\ job'[x].sess = job[x].sess
          /\ (job[x].cancel => job'[x].cancel)
      BY <1>7, <1>10, <2>2, <3>1
    <3>3. job[x].sess \in Sessions /\ (Serves(job[x].sess) \/ Doomed(x))
      BY <3>1 DEF IInv, HasSession, Attended
    <3>4. Doomed(x) => Doomed(x)' BY <1>2, <2>2, <3>2 DEF Doomed
    <3>5. \A u : u = job[x].sess => (Serves(u) => Serves(u)') BY <1>11, <3>3
    <3>6. Serves(job[x].sess) => Serves(job[x].sess)'
      BY <3>2, <3>5 DEF Serves, Held, Open
    <3> QED BY <3>3, <3>4, <3>6
  <2> QED BY <2>1, <2>2
<1> QED BY <1>9, <1>13, <1>14, <1>15 DEF IInv

(* The control channel: a chunk only fills a catalogue, the last one ends    *)
(* the wait of jobs, and a cancellation raises flags.                        *)
LEMMA ChunkStep ==
  ASSUME IInv, NEW s \in Sessions, Chunk(s)
  PROVE  IInv'
<1>1. TypeOK /\ NextControl(s, "chunk") /\ ctrl' = [ctrl EXCEPT ![s] = Tail(@)]
  BY DEF IInv, Chunk
<1>2. ctrl' \in [Sessions -> Seq(Controls)] BY <1>1, ControlTyped
<1>3. UNCHANGED <<slot, outbound, byPeer, sess, data, job, map, frame, ended>>
  BY DEF Chunk, link, master
<1>4. TypeOK' BY <1>1, <1>2, <1>3 DEF TypeOK
<1>5. \A x \in Sessions : Serves(x) => Serves(x)' BY <1>3 DEF Serves, Held, Open
<1> QED BY <1>3, <1>4, <1>5, QuietStep

LEMMA LastChunkStep ==
  ASSUME IInv, NEW s \in Sessions, LastChunk(s)
  PROVE  IInv'
<1> DEFINE f == Head(ctrl[s]).frame
           published == Trim(Append(store[s].published, f))
           pruned == CancelledWaiting(s, job)
           launched == Due(s, f) \ pruned
           bodies(j) == IF j[2] \in Range(published) THEN j[2] ELSE f
           started == [j \in Jobs |->
             IF j \in launched THEN [job[j] EXCEPT !.st = "queued", !.bodies = bodies(j)]
                               ELSE job[j]]
<1>1. /\ TypeOK /\ NextControl(s, "chunk") /\ ctrl' = [ctrl EXCEPT ![s] = Tail(@)]
      /\ job' = Release(pruned, started) /\ map' \subseteq map \ pruned
  BY WithoutDrops DEF IInv, LastChunk, ReleaseAll
<1>2. UNCHANGED <<slot, outbound, byPeer, sess, data, frame, ended>>
  BY DEF LastChunk, link, master
<1>3. f \in Frames /\ ctrl' \in [Sessions -> Seq(Controls)] BY <1>1, ControlTyped
<1>4. pruned \subseteq Jobs BY DEF CancelledWaiting, Waiting, Owned
<1>5. \A j \in launched : job[j].st = "waiting" BY DEF Due, Waiting
<1>6. \A j \in Jobs : bodies(j) \in Frames BY <1>3 DEF Jobs
<1> HIDE DEF f, pruned, launched, bodies
<1>7. job \in [Jobs -> JobRecords] BY <1>1 DEF TypeOK
<1>8. /\ started \in [Jobs -> JobRecords]
      /\ \A j \in Jobs :
           /\ started[j].sess = job[j].sess /\ started[j].cancel = job[j].cancel
           /\ j \notin launched => started[j].st = job[j].st
           /\ j \in launched => started[j].st = "queued"
  BY <1>6, <1>7 DEF JobRecords, Unreleased
<1> HIDE DEF started
<1>9. /\ job' \in [Jobs -> JobRecords]
      /\ \A j \in pruned \cap Jobs : job'[j].st = "released"
      /\ \A j \in Jobs \ pruned : job'[j] = started[j]
  BY <1>1, <1>8, ReleaseKeeps
<1>10. TypeOK' BY <1>1, <1>2, <1>3, <1>9 DEF TypeOK
<1>11. \A x \in Sessions : Serves(x) => Serves(x)' BY <1>2 DEF Serves, Held, Open
<1>12. \A j \in Jobs \ pruned :
         /\ (job'[j].st \in Unreleased <=> job[j].st \in Unreleased)
         /\ job'[j].sess = job[j].sess
         /\ (job[j].cancel => job'[j].cancel)
         /\ (job'[j].st = "waiting" => job[j].st = "waiting")
  BY <1>5, <1>8, <1>9 DEF Unreleased
<1>13. \A j \in pruned \cap Jobs : job'[j].st \notin Unreleased BY <1>9 DEF Unreleased
<1> QED BY <1>1, <1>10, <1>11, <1>12, <1>13, JobsStep

LEMMA TaskCancelStep ==
  ASSUME IInv, NEW s \in Sessions, TaskCancel(s)
  PROVE  IInv'
<1> DEFINE hit == {j \in OfPeer(sess[s].peer) : j[2] = Head(ctrl[s]).frame}
<1>1. /\ TypeOK /\ NextControl(s, "cancel") /\ ctrl' = [ctrl EXCEPT ![s] = Tail(@)]
      /\ job' = Cancel(hit, job)
  BY DEF IInv, TaskCancel
<1>2. UNCHANGED <<slot, outbound, byPeer, sess, data, map, frame, ended>>
  BY DEF TaskCancel, link, master
<1> HIDE DEF hit
<1>3. ctrl' \in [Sessions -> Seq(Controls)] BY <1>1, ControlTyped
<1>4. job \in [Jobs -> JobRecords] BY <1>1 DEF TypeOK
<1>5. /\ job' \in [Jobs -> JobRecords]
      /\ \A j \in Jobs : /\ job'[j].st = job[j].st /\ job'[j].sess = job[j].sess
                         /\ job'[j].cancel = (job[j].cancel \/ j \in hit)
  BY <1>1, <1>4, CancelKeeps
<1>6. TypeOK' BY <1>1, <1>2, <1>3, <1>5 DEF TypeOK
<1>7. \A x \in Sessions : Serves(x) => Serves(x)' BY <1>2 DEF Serves, Held, Open
<1>8. map' \subseteq map \ {} BY <1>2
<1>9. \A j \in {} \cap Jobs : job'[j].st \notin Unreleased OBVIOUS
<1>10. \A j \in Jobs \ {} :
         /\ (job'[j].st \in Unreleased <=> job[j].st \in Unreleased)
         /\ job'[j].sess = job[j].sess
         /\ (job[j].cancel => job'[j].cancel)
         /\ (job'[j].st = "waiting" => job[j].st = "waiting")
  BY <1>4, <1>5 DEF JobRecords
<1> QED BY <1>6, <1>7, <1>8, <1>9, <1>10, JobsStep

(* Jobs that are given up, whatever becomes of the rest of the state.        *)
LEMMA GivenUp ==
  ASSUME IInv, TypeOK', NEW given \in SUBSET Jobs, ReleaseAll(given, job),
         \A x \in Sessions : Serves(x) => Serves(x)'
  PROVE  IInv'
<1>1. job' = Release(given, job) /\ map' \subseteq map \ given BY WithoutDrops DEF ReleaseAll
<1>2. job \in [Jobs -> JobRecords] BY DEF IInv, TypeOK
<1>3. /\ \A j \in given : job'[j].st = "released"
      /\ \A j \in Jobs \ given : job'[j] = job[j]
  BY <1>1, <1>2, ReleaseKeeps
<1>4. \A j \in given : job'[j].st \notin Unreleased BY <1>3 DEF Unreleased
<1> QED BY <1>1, <1>3, <1>4, JobsStep

LEMMA GivenUpTyped ==
  ASSUME TypeOK, NEW given, ReleaseAll(given, job)
  PROVE  job' \in [Jobs -> JobRecords] /\ map' \subseteq Jobs
<1>1. job \in [Jobs -> JobRecords] BY DEF TypeOK
<1>2. job' \in [Jobs -> JobRecords] BY <1>1, ReleaseKeeps DEF ReleaseAll
<1> QED BY <1>2, WithoutDrops DEF TypeOK, ReleaseAll

LEMMA EndTurnStep ==
  ASSUME IInv, NEW s \in Sessions, NEW expired \in SUBSET Waiting(s), EndTurn(s, expired)
  PROVE  IInv'
<1> DEFINE given == expired \cup CancelledWaiting(s, job)
<1>1. given \in SUBSET Jobs BY DEF CancelledWaiting, Waiting, Owned
<1>2. ReleaseAll(given, job) BY DEF EndTurn
<1>3. UNCHANGED <<slot, outbound, byPeer, sess, ctrl, data, frame, ended>>
  BY DEF EndTurn, link, channels, master
<1> HIDE DEF given
<1>4. TypeOK' BY <1>2, <1>3, GivenUpTyped DEF IInv, TypeOK
<1>5. \A x \in Sessions : Serves(x) => Serves(x)' BY <1>3 DEF Serves, Held, Open
<1> QED BY <1>1, <1>2, <1>4, <1>5, GivenUp

LEMMA ExecuteStep ==
  ASSUME IInv, NEW j \in Jobs, Execute(j)
  PROVE  IInv'
<1>1. UNCHANGED <<slot, outbound, byPeer, sess, ctrl, data, frame, ended>>
  BY DEF Execute, link, channels, master
<1>2. \A x \in Sessions : Serves(x) => Serves(x)' BY <1>1 DEF Serves, Held, Open
<1>3. CASE GiveUp(j)
  <2>1. ReleaseAll({j}, job) BY <1>3 DEF GiveUp
  <2>2. TypeOK' BY <1>1, <2>1, GivenUpTyped DEF IInv, TypeOK
  <2> QED BY <1>2, <2>1, <2>2, GivenUp
<1>4. ASSUME NEW st \in {"render", "check", "send"}, Go(j, st), job[j].st \in Unreleased
      PROVE  IInv'
  <2>1. job' = [job EXCEPT ![j].st = st] /\ map' = map BY <1>4 DEF Go
  <2>2. job \in [Jobs -> JobRecords] BY DEF IInv, TypeOK
  <2>3. job' \in [Jobs -> JobRecords] BY <2>1, <2>2 DEF JobRecords, Unreleased
  <2>4. TypeOK' BY <1>1, <2>1, <2>3 DEF IInv, TypeOK
  <2>5. \A x \in Jobs : /\ job'[x].sess = job[x].sess /\ job'[x].cancel = job[x].cancel
                        /\ x # j => job'[x].st = job[x].st
    BY <2>1, <2>2 DEF JobRecords
  <2>6. job'[j].st = st /\ st \in Unreleased /\ st # "waiting"
    BY <2>1, <2>2, <1>4 DEF JobRecords, Unreleased
  <2>7. \A x \in Jobs \ {} :
          /\ (job'[x].st \in Unreleased <=> job[x].st \in Unreleased)
          /\ job'[x].sess = job[x].sess
          /\ (job[x].cancel => job'[x].cancel)
          /\ (job'[x].st = "waiting" => job[x].st = "waiting")
    BY <1>4, <2>5, <2>6
  <2>8. map' \subseteq map \ {} BY <2>1
  <2>9. \A x \in {} \cap Jobs : job'[x].st \notin Unreleased OBVIOUS
  <2> QED BY <1>2, <2>4, <2>7, <2>8, <2>9, JobsStep
<1>5. \/ GiveUp(j)
      \/ \E st \in {"render", "check", "send"} : Go(j, st) /\ job[j].st \in Unreleased
  BY DEF Execute, Begin, Skip, Rendered, FindOpen, FindClosed, Transmit, At, Unreleased
<1> QED BY <1>3, <1>4, <1>5

LEMMA OutOfNumbersStep ==
  ASSUME IInv, NEW j \in Jobs, OutOfNumbers(j)
  PROVE  IInv'
<1>1. ReleaseAll({j}, job) /\ UNCHANGED <<slot, outbound, byPeer, ctrl, data, frame, ended>>
  BY DEF OutOfNumbers, GiveUp, channels, master
<1>2. sess' \in [Sessions -> SessionRecords]
  <2>1. PICK u : u = job[j].sess OBVIOUS
  <2>2. sess' = [sess EXCEPT ![u] = [sess[u] EXCEPT !.rekey = TRUE]]
    BY <2>1 DEF OutOfNumbers
  <2>3. sess \in [Sessions -> SessionRecords] BY DEF IInv, TypeOK
  <2>4. \A r \in SessionRecords : [r EXCEPT !.rekey = TRUE] \in SessionRecords
    BY DEF SessionRecords
  <2> QED BY <2>2, <2>3, <2>4
<1>3. TypeOK' BY <1>1, <1>2, GivenUpTyped DEF IInv, TypeOK
<1>4. \A x \in Sessions : Open(x) => Open(x)'
  BY DEF IInv, TypeOK, OutOfNumbers, SessionRecords, Open
<1>5. \A x \in Sessions : Serves(x) => Serves(x)' BY <1>1, <1>4 DEF Serves, Held
<1> QED BY <1>1, <1>3, <1>5, GivenUp

LEMMA MasterStep ==
  ASSUME IInv, NEW m \in Masters, Master(m)
  PROVE  IInv'
<1>1. UNCHANGED <<slot, outbound, byPeer, sess, job, map>>
  BY DEF Master, SendFrame, EndFrame, link
<1>2. \A x \in Sessions : Serves(x) => Serves(x)' BY <1>1 DEF Serves, Held, Open
<1>3. ASSUME NEW plan \in Plans(m), NEW needs \in BOOLEAN, SendFrame(m, plan, needs)
      PROVE  TypeOK'
  <2>1. /\ frame[m] < Budget[m]
        /\ frame' = [frame EXCEPT ![m] = @ + 1] /\ ended' = [ended EXCEPT ![m] = FALSE]
        /\ ctrl' = [s \in Sessions |-> IF needs /\ s \in Serving(m)
                                         THEN ctrl[s] \o Catalogue(frame[m]) ELSE ctrl[s]]
        /\ data' = [s \in Sessions |-> data[s] \o Assignments(m, Assigned(plan, s), needs)]
    BY <1>3 DEF SendFrame
  <2>2. TypeOK BY DEF IInv
  <2>3. \A s \in Sessions : /\ ctrl[s] \in Seq(Controls) /\ data[s] \in Seq(TaskPackets)
                            /\ Catalogue(frame[m]) \in Seq(Controls)
                            /\ Assignments(m, Assigned(plan, s), needs) \in Seq(TaskPackets)
    BY <1>3, <2>1, <2>2, FrameTyped DEF TypeOK
  <2>4. ctrl' \in [Sessions -> Seq(Controls)] BY <2>1, <2>3
  <2>5. data' \in [Sessions -> Seq(TaskPackets)] BY <2>1, <2>3
  <2>6. /\ frame' \in [Masters -> 0 .. MaxFrames] /\ ended' \in [Masters -> BOOLEAN]
        /\ \A k \in Masters : ~ended'[k] => frame'[k] > 0
    BY <2>1, <2>2, SizesAssumption, BudgetAssumption DEF TypeOK
  <2> QED BY <1>1, <2>2, <2>4, <2>5, <2>6 DEF TypeOK
<1>4. ASSUME NEW complete \in BOOLEAN, EndFrame(m, complete)
      PROVE  TypeOK'
  <2>1. /\ ~ended[m] /\ ended' = [ended EXCEPT ![m] = TRUE] /\ UNCHANGED <<data, frame>>
        /\ ctrl' = [s \in Sessions |->
                       IF ~complete /\ s \in Serving(m)
                         THEN Append(ctrl[s], CancelFrame(frame[m] - 1)) ELSE ctrl[s]]
    BY <1>4 DEF EndFrame
  <2>2. TypeOK BY DEF IInv
  <2>3. frame[m] - 1 \in Frames BY <2>1, <2>2, SizesAssumption DEF TypeOK, Frames
  <2>4. CancelFrame(frame[m] - 1) \in Controls
    BY <2>3, SizesAssumption DEF CancelFrame, Controls
  <2>5. ctrl' \in [Sessions -> Seq(Controls)] BY <2>1, <2>2, <2>4 DEF TypeOK
  <2> QED BY <1>1, <2>1, <2>2, <2>5 DEF TypeOK
<1>5. TypeOK' BY <1>3, <1>4 DEF Master
<1> QED BY <1>1, <1>2, <1>5, QuietStep

-----------------------------------------------------------------------------
(* The theorems.                                                             *)

LEMMA Initially == Init => IInv
<1> SUFFICES ASSUME Init PROVE IInv OBVIOUS
<1>1. PICK p \in Peers : sess = [s \in Sessions |-> Fresh(p, FALSE, FALSE, None)] BY DEF Init
<1>2. Fresh(p, FALSE, FALSE, None) \in SessionRecords BY DEF Fresh, SessionRecords, Phases
<1>3. NoJob \in JobRecords /\ NoJob.st \notin Unreleased BY DEF NoJob, JobRecords, Unreleased
<1>4. TypeOK
  <2>1. /\ slot \in [Peers -> {"free", "connecting", "connected", "closing"}]
        /\ outbound \in Peers \cup {None} /\ byPeer \in [Peers -> Sessions \cup {None}]
    BY DEF Init
  <2>2. sess \in [Sessions -> SessionRecords] BY <1>1, <1>2
  <2>3. ctrl \in [Sessions -> Seq(Controls)] /\ data \in [Sessions -> Seq(TaskPackets)]
    BY DEF Init
  <2>4. job \in [Jobs -> JobRecords] /\ map \subseteq Jobs BY <1>3 DEF Init
  <2>5. /\ frame \in [Masters -> 0 .. MaxFrames] /\ ended \in [Masters -> BOOLEAN]
        /\ \A m \in Masters : ~ended[m] => frame[m] > 0
    BY SizesAssumption DEF Init
  <2> QED BY <2>1, <2>2, <2>3, <2>4, <2>5 DEF TypeOK
<1>5. HasSession /\ Entries /\ Attended
  BY <1>3 DEF Init, HasSession, Entries, Attended, Pending
<1> QED BY <1>4, <1>5 DEF IInv

LEMMA Inductive == IInv /\ [Next]_vars => IInv'
<1> SUFFICES ASSUME IInv, [Next]_vars PROVE IInv' OBVIOUS
<1>1. CASE UNCHANGED vars
  <2>1. UNCHANGED <<slot, outbound, byPeer, sess, ctrl, data, job, map, frame, ended>>
    BY <1>1 DEF vars, link, channels, master
  <2>2. TypeOK' BY <2>1 DEF IInv, TypeOK
  <2>3. \A x : Serves(x) => Serves(x)' BY <2>1 DEF Serves, Held, Open
  <2> QED BY <2>1, <2>2, <2>3, QuietStep
<1>2. ASSUME NEW p \in Peers, Connect(p) \/ Unknown(p) \/ Disconnected(p) PROVE IInv'
  BY <1>2, ConnectSteps, DisconnectedStep
<1>3. ASSUME NEW p \in Peers, NEW s \in Sessions, NEW m \in Masters,
             Answered(p, s, m) \/ CallsIn(p, s, m) PROVE IInv'
  BY <1>3, ConnectedStep DEF Answered, CallsIn
<1>4. ASSUME NEW s \in Sessions, Authenticate(s) \/ Refuse(s) \/ Rekey(s) PROVE IInv'
  BY <1>4, AuthenticateStep, ClosingSteps
<1>5. ASSUME NEW s \in Sessions, Packet(s) PROVE IInv'
  BY <1>5, RejectStep, AcceptStep, ChunkStep, LastChunkStep, TaskCancelStep DEF Packet
<1>6. ASSUME NEW s \in Sessions, \E expired \in SUBSET Waiting(s) : EndTurn(s, expired) PROVE IInv'
  BY <1>6, EndTurnStep
<1>7. ASSUME NEW j \in Jobs, Execute(j) \/ OutOfNumbers(j) PROVE IInv'
  BY <1>7, ExecuteStep, OutOfNumbersStep
<1> QED BY <1>1, <1>2, <1>3, <1>4, <1>5, <1>6, <1>7, MasterStep DEF Next, Turn

LEMMA Invariant == Spec => []IInv
BY Initially, Inductive, PTL DEF Spec

(* Whatever peers connect, lose each other and send, the worker's records    *)
(* are what they should be.                                                  *)
THEOREM TypeCorrect == Spec => []TypeOK
<1>1. IInv => TypeOK BY DEF IInv
<1> QED BY <1>1, Invariant, PTL

(* What a step does to the jobs, but for the one that accepts a new one: it  *)
(* ends some of those that are not over, and takes what has their keys out   *)
(* of the map.                                                               *)
Ends(gone) ==
  /\ \A j \in gone : j \in Jobs /\ Pending(j) /\ ~Pending(j)'
  /\ \A j \in Jobs : Pending(j)' => Pending(j) /\ job'[j].sess = job[j].sess
  /\ Without(gone) \subseteq map'
Settled == \E gone : Ends(gone)

LEMMA EndsReleased ==
  ASSUME TypeOK, NEW gone, NEW f \in [Jobs -> JobRecords],
         \A j \in gone : j \in Jobs /\ Pending(j),
         \A j \in Jobs : (f[j].st \in Unreleased => Pending(j)) /\ f[j].sess = job[j].sess,
         ReleaseAll(gone, f)
  PROVE  Ends(gone)
<1>1. job' = Release(gone, f) /\ map' = Without(gone) BY DEF ReleaseAll
<1>2. /\ \A j \in gone \cap Jobs : job'[j].st = "released"
      /\ \A j \in Jobs \ gone : job'[j] = f[j]
  BY <1>1, ReleaseKeeps
<1>3. "released" \notin Unreleased BY DEF Unreleased
<1> QED BY <1>1, <1>2, <1>3 DEF Ends, Pending

LEMMA EndsGiven ==
  ASSUME TypeOK, NEW gone, \A j \in gone : j \in Jobs /\ Pending(j), ReleaseAll(gone, job)
  PROVE  Ends(gone)
<1>1. job \in [Jobs -> JobRecords] BY DEF TypeOK
<1> QED BY <1>1, EndsReleased DEF Pending

LEMMA EndsClose ==
  ASSUME TypeOK, NEW s, CloseSession(s)
  PROVE  Settled
<1>1. PICK f : f = Cancel(OfPeer(sess[s].peer), job) OBVIOUS
<1>2. job \in [Jobs -> JobRecords] BY DEF TypeOK
<1>3. f \in [Jobs -> JobRecords] /\ \A j \in Jobs : f[j].st = job[j].st /\ f[j].sess = job[j].sess
  BY <1>1, <1>2, CancelKeeps
<1>4. PICK gone : gone = Waiting(s) OBVIOUS
<1>5. ReleaseAll(gone, f) BY <1>1, <1>4 DEF CloseSession
<1>6. \A j \in gone : j \in Jobs /\ Pending(j) BY <1>4 DEF Waiting, Owned
<1>7. Ends(gone) BY <1>3, <1>5, <1>6, EndsReleased DEF Pending
<1> QED BY <1>7 DEF Settled

LEMMA EndsNone ==
  ASSUME map' = map, \A j \in Jobs : Pending(j)' => Pending(j) /\ job'[j].sess = job[j].sess
  PROVE  Settled
<1>1. Without({}) \subseteq map' BY DEF Without
<1>2. Ends({}) BY <1>1 DEF Ends
<1> QED BY <1>2 DEF Settled

LEMMA EndsReject ==
  ASSUME TypeOK, NEW s \in Sessions, NEW i \in 1 .. Len(data[s]), Reject(s, i)
  PROVE  Settled
<1>1. PICK j : j = data[s][i].job OBVIOUS
<1>2. TaskAssignment(s, i) /\ job' = After(s, j) /\ map' = Without(Pruned(s, j))
  BY <1>1 DEF Reject
<1>3. j \in Jobs BY <1>1, <1>2, AssignmentTyped
<1>4. /\ \A x \in Pruned(s, j) : ~Pending(x)'
      /\ \A x \in Jobs \ Pruned(s, j) :
           job'[x].st = job[x].st /\ job'[x].sess = job[x].sess
  BY <1>2, <1>3, AfterKeeps DEF Pending
<1>5. \A x \in Pruned(s, j) : x \in Jobs /\ Pending(x)
  BY DEF Pruned, CancelledWaiting, Waiting, Owned
<1>6. PICK gone : gone = Pruned(s, j) OBVIOUS
<1>7. Ends(gone) BY <1>2, <1>4, <1>5, <1>6 DEF Ends, Pending
<1> QED BY <1>7 DEF Settled

LEMMA EndsLastChunk ==
  ASSUME TypeOK, NEW s \in Sessions, LastChunk(s)
  PROVE  Settled
<1>1. PICK f : f = Head(ctrl[s]).frame OBVIOUS
<1>2. PICK published : published = Trim(Append(store[s].published, f)) OBVIOUS
<1>3. PICK pruned : pruned = CancelledWaiting(s, job) OBVIOUS
<1>4. PICK launched : launched = Due(s, f) \ pruned OBVIOUS
<1>5. PICK started :
        started = [j \in Jobs |->
          IF j \in launched
            THEN [job[j] EXCEPT !.st = "queued",
                                !.bodies = IF j[2] \in Range(published) THEN j[2] ELSE f]
            ELSE job[j]]
  OBVIOUS
<1>6. NextControl(s, "chunk") /\ ReleaseAll(pruned, started)
  BY <1>1, <1>2, <1>3, <1>4, <1>5 DEF LastChunk
<1>7. f \in Frames BY <1>1, <1>6, ControlTyped
<1>8. job \in [Jobs -> JobRecords] /\ \A j \in Jobs : j[2] \in Frames BY DEF TypeOK, Jobs
<1>9. /\ started \in [Jobs -> JobRecords]
      /\ \A j \in Jobs : /\ started[j].sess = job[j].sess
                         /\ j \notin launched => started[j] = job[j]
  <2>1. \A r \in JobRecords, n \in Frames :
          /\ [r EXCEPT !.st = "queued", !.bodies = n] \in JobRecords
          /\ [r EXCEPT !.st = "queued", !.bodies = n].sess = r.sess
    BY DEF JobRecords, Unreleased
  <2>2. ASSUME NEW j \in Jobs
        PROVE  /\ started[j] \in JobRecords /\ started[j].sess = job[j].sess
               /\ j \notin launched => started[j] = job[j]
    <3>1. CASE j \in launched
      <4>1. PICK n \in Frames : started[j] = [job[j] EXCEPT !.st = "queued", !.bodies = n]
        BY <1>5, <1>7, <1>8, <3>1
      <4>2. PICK r \in JobRecords : r = job[j] BY <1>8
      <4> QED BY <2>1, <3>1, <4>1, <4>2
    <3>2. CASE j \notin launched BY <1>5, <1>8, <3>2
    <3> QED BY <3>1, <3>2
  <2>3. started \in [Jobs -> JobRecords]
    <3>1. started = [j \in Jobs |-> started[j]] BY <1>5
    <3> QED BY <2>2, <3>1
  <2> QED BY <2>2, <2>3
<1>10. \A j \in pruned \cup launched : j \in Jobs /\ Pending(j)
  BY <1>3, <1>4 DEF CancelledWaiting, Due, Waiting, Owned
<1>11. Ends(pruned) BY <1>6, <1>9, <1>10, EndsReleased DEF Pending
<1> QED BY <1>11 DEF Settled

LEMMA EndsExecute ==
  ASSUME TypeOK, NEW j \in Jobs, Execute(j)
  PROVE  Settled
<1>1. CASE GiveUp(j) /\ Pending(j)
  <2>1. Ends({j}) BY <1>1, EndsGiven DEF GiveUp
  <2> QED BY <2>1 DEF Settled
<1>2. ASSUME NEW st, Go(j, st), Pending(j) PROVE Settled
  <2>1. job \in [Jobs -> JobRecords] BY DEF TypeOK
  <2>2. \A x \in Jobs : job'[x].sess = job[x].sess /\ (x # j => job'[x].st = job[x].st)
    BY <1>2, <2>1 DEF Go, JobRecords
  <2> QED BY <1>2, <2>2, EndsNone DEF Go, Pending
<1>3. \/ GiveUp(j) /\ Pending(j)
      \/ \E st : Go(j, st) /\ Pending(j)
  BY DEF Execute, Begin, Skip, Rendered, FindOpen, FindClosed, Transmit, At, Pending, Unreleased
<1> QED BY <1>1, <1>2, <1>3

LEMMA StepKinds ==
  ASSUME TypeOK, [Next]_vars
  PROVE  \/ Settled
         \/ \E s \in Sessions : \E i \in 1 .. Len(data[s]) : Accept(s, i)
<1>1. ASSUME UNCHANGED <<job, map>> PROVE Settled BY <1>1, EndsNone DEF Pending
<1>2. ASSUME NEW p \in Peers, Disconnected(p) PROVE Settled
  <2>1. PICK s : s = byPeer[p] OBVIOUS
  <2>2. CloseSession(s) \/ UNCHANGED <<job, map>> BY <1>2, <2>1 DEF Disconnected
  <2> QED BY <1>1, <2>2, EndsClose
<1>3. ASSUME NEW s \in Sessions, Refuse(s) \/ Rekey(s) PROVE Settled
  BY <1>3, EndsClose DEF Refuse, Rekey
<1>4. ASSUME NEW s \in Sessions, TaskCancel(s) PROVE Settled
  <2>1. PICK hit : job' = Cancel(hit, job) /\ UNCHANGED map BY <1>4 DEF TaskCancel
  <2>2. job \in [Jobs -> JobRecords] BY DEF TypeOK
  <2>3. \A j \in Jobs : job'[j].st = job[j].st /\ job'[j].sess = job[j].sess
    BY <2>1, <2>2, CancelKeeps
  <2> QED BY <2>1, <2>3, EndsNone DEF Pending
<1>5. ASSUME NEW s \in Sessions, NEW expired \in SUBSET Waiting(s), EndTurn(s, expired)
      PROVE  Settled
  <2>1. PICK gone : gone = expired \cup CancelledWaiting(s, job) OBVIOUS
  <2>2. \A j \in gone : j \in Jobs /\ Pending(j) BY <2>1 DEF CancelledWaiting, Waiting, Owned
  <2>3. ReleaseAll(gone, job) BY <1>5, <2>1 DEF EndTurn
  <2>4. Ends(gone) BY <2>2, <2>3, EndsGiven
  <2> QED BY <2>4 DEF Settled
<1>6. ASSUME NEW j \in Jobs, OutOfNumbers(j) PROVE Settled
  <2>1. ReleaseAll({j}, job) /\ Pending(j)
    BY <1>6 DEF OutOfNumbers, GiveUp, At, Pending, Unreleased
  <2>2. Ends({j}) BY <2>1, EndsGiven
  <2> QED BY <2>2 DEF Settled
<1>7. ASSUME NEW s \in Sessions, Packet(s)
      PROVE  (Settled) \/ \E i \in 1 .. Len(data[s]) : Accept(s, i)
  <2>1. Chunk(s) => UNCHANGED <<job, map>> BY DEF Chunk
  <2> QED BY <1>1, <1>4, <1>7, <2>1, EndsReject, EndsLastChunk DEF Packet
<1>8. ASSUME NEW p \in Peers, NEW s \in Sessions, NEW m \in Masters,
             Answered(p, s, m) \/ CallsIn(p, s, m)
      PROVE  UNCHANGED <<job, map>>
  BY <1>8 DEF Answered, CallsIn, Connected
<1>9. ASSUME NEW p \in Peers, Connect(p) \/ Unknown(p) PROVE UNCHANGED <<job, map>>
  BY <1>9 DEF Connect, Unknown
<1>10. ASSUME NEW s \in Sessions, Authenticate(s) PROVE UNCHANGED <<job, map>>
  BY <1>10 DEF Authenticate
<1>11. ASSUME NEW m \in Masters, Master(m) PROVE UNCHANGED <<job, map>>
  BY <1>11 DEF Master, SendFrame, EndFrame
<1>12. CASE UNCHANGED vars BY <1>1, <1>12 DEF vars
<1> QED BY <1>1, <1>2, <1>3, <1>5, <1>6, <1>7, <1>8, <1>9, <1>10, <1>11, <1>12, EndsExecute
        DEF Next, Turn

(* A session keeps its peer and who is at its other end while it has jobs.   *)
Kept(x) == sess'[x].peer = sess[x].peer /\ sess'[x].master = sess[x].master
Renewed(x) == ~Held(x) /\ Owned(x) = {} /\ UNCHANGED <<ctrl, data>>
LEMMA OwnersKept ==
  ASSUME IInv, [Next]_vars
  PROVE  \A x \in Sessions : Kept(x) \/ Renewed(x)
<1> USE DEF IInv, Kept, Renewed
<1>1. sess \in [Sessions -> SessionRecords] BY DEF TypeOK
<1>2. CASE UNCHANGED sess BY <1>2
<1>3. ASSUME NEW s, CloseSession(s) PROVE \A x \in Sessions : Kept(x)
  <2>1. sess' = [sess EXCEPT ![s] = [sess[s] EXCEPT !.phase = "closing"]]
    BY <1>3 DEF CloseSession
  <2> QED BY <1>1, <2>1 DEF SessionRecords
<1>4. ASSUME NEW s \in Sessions, Authenticate(s) PROVE \A x \in Sessions : Kept(x)
  <2>1. PICK next : sess' = [sess EXCEPT ![s] = [sess[s] EXCEPT !.phase = next]]
    BY <1>4 DEF Authenticate
  <2> QED BY <1>1, <2>1 DEF SessionRecords
<1>5. ASSUME NEW s \in Sessions, NEW i, TaskAssignment(s, i) PROVE \A x \in Sessions : Kept(x)
  <2>1. PICK l : sess' = [sess EXCEPT ![s] = [sess[s] EXCEPT !.latest = l]]
    BY <1>5 DEF TaskAssignment
  <2> QED BY <1>1, <2>1 DEF SessionRecords
<1>6. ASSUME NEW j \in Jobs, OutOfNumbers(j) PROVE \A x \in Sessions : Kept(x)
  <2>1. PICK u : u = job[j].sess OBVIOUS
  <2>2. sess' = [sess EXCEPT ![u] = [sess[u] EXCEPT !.rekey = TRUE]]
    BY <1>6, <2>1 DEF OutOfNumbers
  <2> QED BY <1>1, <2>2 DEF SessionRecords
<1>7. ASSUME NEW p \in Peers, NEW s \in Sessions, NEW called, NEW m, Connected(p, s, called, m)
      PROVE  \A x \in Sessions : Kept(x) \/ Renewed(x)
  <2>1. PICK fresh : sess' = [sess EXCEPT ![s] = fresh] BY <1>7 DEF Connected
  <2>2. \A x \in Sessions : x # s => Kept(x) BY <1>1, <2>1
  <2>3. ~Held(s) /\ Owned(s) = {} /\ UNCHANGED <<ctrl, data>>
    BY <1>7 DEF Connected, NewSession, channels
  <2> QED BY <2>2, <2>3
<1>8. ASSUME NEW p \in Peers, Connect(p) \/ Unknown(p) PROVE UNCHANGED sess
  BY <1>8 DEF Connect, Unknown
<1>9. ASSUME NEW p \in Peers, Disconnected(p) PROVE \A x \in Sessions : Kept(x)
  <2>1. PICK s : s = byPeer[p] OBVIOUS
  <2>2. CloseSession(s) \/ UNCHANGED sess BY <1>9, <2>1 DEF Disconnected
  <2> QED BY <1>3, <2>2
<1>10. ASSUME NEW s \in Sessions, Refuse(s) \/ Rekey(s) PROVE \A x \in Sessions : Kept(x)
  BY <1>3, <1>10 DEF Refuse, Rekey
<1>11. ASSUME NEW s \in Sessions, Packet(s) PROVE \A x \in Sessions : Kept(x)
  BY <1>5, <1>11 DEF Packet, Reject, Accept, Chunk, LastChunk, TaskCancel
<1>12. ASSUME NEW s \in Sessions, NEW expired, EndTurn(s, expired) PROVE UNCHANGED sess
  BY <1>12 DEF EndTurn
<1>13. ASSUME NEW j \in Jobs, Execute(j) PROVE UNCHANGED sess BY <1>13 DEF Execute
<1>14. ASSUME NEW m \in Masters, Master(m) PROVE UNCHANGED sess
  BY <1>14 DEF Master, SendFrame, EndFrame
<1>15. CASE UNCHANGED vars BY <1>2, <1>15 DEF vars
<1> HIDE DEF Kept, Renewed, IInv
<1> QED BY <1>2, <1>4, <1>6, <1>7, <1>8, <1>9, <1>10, <1>11, <1>12, <1>13, <1>14, <1>15
        DEF Next, Turn, Answered, CallsIn

-----------------------------------------------------------------------------
(* The packets under way.  A channel carries something only while its        *)
(* session holds a peer, and what it carries is the master's that is at the  *)
(* other end.  A control packet speaks of a frame that has been sent.  An    *)
(* assignment is of such a frame, there is one for each job, and the job has *)
(* not begun.                                                                *)
Silent == \A s \in Sessions : ~Held(s) => ctrl[s] = <<>> /\ data[s] = <<>>
Sent == \A s \in Sessions : \A i \in 1 .. Len(ctrl[s]) :
          sess[s].master \in Masters /\ ctrl[s][i].frame < frame[sess[s].master]
Addressed == \A s \in Sessions : \A i \in 1 .. Len(data[s]) :
               /\ data[s][i].job[1] = sess[s].master
               /\ data[s][i].job[2] < frame[data[s][i].job[1]]
               /\ ~Pending(data[s][i].job)
Once == \A s, x \in Sessions : \A i \in 1 .. Len(data[s]), k \in 1 .. Len(data[x]) :
          data[s][i].job = data[x][k].job => s = x /\ i = k
Owners == \A j \in Jobs : Pending(j) => j[1] = sess[job[j].sess].master /\ j[2] < frame[j[1]]
Wire == Silent /\ Sent /\ Addressed /\ Once /\ Owners

(* What is left of a channel that d packets have left at its head.          *)
Drops(r, q, d) == /\ Len(q) = Len(r) + d
                  /\ \A k \in 1 .. Len(r) : k + d \in 1 .. Len(q) /\ r[k] = q[k + d]
Suffix(r, q) == \E d \in Nat : Drops(r, q, d)

LEMMA SuffixFacts ==
  ASSUME NEW S, NEW q \in Seq(S)
  PROVE  /\ Suffix(q, q) /\ Suffix(<<>>, q)
         /\ q # <<>> => Suffix(Tail(q), q)
         /\ \A i \in 1 .. Len(q) : /\ Suffix(SubSeq(q, i + 1, Len(q)), q)
                                   /\ Len(SubSeq(q, i + 1, Len(q))) = Len(q) - i
<1>1. Drops(q, q, 0) /\ Drops(<<>>, q, Len(q))
  <2>1. Len(q) \in Nat /\ Len(<<>>) = 0 OBVIOUS
  <2>2. Drops(q, q, 0) BY <2>1 DEF Drops
  <2>3. PICK e : e = <<>> /\ Len(e) = 0 BY <2>1
  <2>4. Len(q) = Len(e) + Len(q) /\ 1 .. Len(e) = {} BY <2>1, <2>3
  <2>5. Drops(e, q, Len(q)) BY <2>4 DEF Drops
  <2> QED BY <2>2, <2>3, <2>5
<1>2. ASSUME q # <<>> PROVE Drops(Tail(q), q, 1)
  <2>1. PICK r \in Seq(S) : r = Tail(q)
    <3>1. Tail(q) \in Seq(S) BY <1>2
    <3> QED BY <3>1
  <2>2. Len(q) = Len(r) + 1 /\ \A k \in 1 .. Len(r) : r[k] = q[k + 1] BY <1>2, <2>1
  <2>3. Len(r) \in Nat /\ Len(q) \in Nat OBVIOUS
  <2>4. Drops(r, q, 1) BY <2>2, <2>3 DEF Drops
  <2> QED BY <2>1, <2>4
<1>3. ASSUME NEW i \in 1 .. Len(q)
      PROVE  /\ Drops(SubSeq(q, i + 1, Len(q)), q, i)
             /\ Len(SubSeq(q, i + 1, Len(q))) = Len(q) - i
  <2>1. PICK r \in Seq(S) : r = SubSeq(q, i + 1, Len(q))
    <3>1. Len(q) \in Nat /\ i \in Nat OBVIOUS
    <3>2. \A k \in i + 1 .. Len(q) : q[k] \in S BY <3>1
    <3>3. SubSeq(q, i + 1, Len(q)) \in Seq(S) BY <3>1, <3>2
    <3> QED BY <3>3
  <2>2. Len(r) = Len(q) - i /\ \A k \in 1 .. Len(q) - i : r[k] = q[i + k] BY <2>1
  <2>3. Len(r) \in Nat /\ Len(q) \in Nat OBVIOUS
  <2>4. Drops(r, q, i) BY <2>2, <2>3 DEF Drops
  <2> QED BY <2>1, <2>2, <2>4
<1> QED BY <1>1, <1>2, <1>3 DEF Suffix

LEMMA SuffixOfNothing ==
  ASSUME NEW S, NEW q \in Seq(S), NEW r \in Seq(S), Suffix(r, q), Len(q) = 0
  PROVE  Len(r) = 0
<1>1. Len(r) \in Nat OBVIOUS
<1> QED BY <1>1 DEF Suffix, Drops

(* A job goes on with its session, or its packet and those before it have    *)
(* just been read.                                                           *)
Begun(j) == \E s \in Sessions : \E i \in 1 .. Len(data[s]) :
              j = data[s][i].job /\ job'[j].sess = s /\ Len(data'[s]) = Len(data[s]) - i
LEMMA GoesOnOrBegins ==
  ASSUME TypeOK, [Next]_vars, NEW j \in Jobs, Pending(j)'
  PROVE  (Pending(j) /\ job'[j].sess = job[j].sess) \/ Begun(j)
<1>1. CASE Settled BY <1>1 DEF Settled, Ends
<1>2. ASSUME NEW s \in Sessions, NEW i \in 1 .. Len(data[s]), Accept(s, i)
      PROVE  (Pending(j) /\ job'[j].sess = job[j].sess) \/ Begun(j)
  <2>1. PICK n : n = data[s][i].job OBVIOUS
  <2>2. PICK new : job' = [After(s, n) EXCEPT ![n] = new] /\ new.sess = s
    <3>1. PICK needs : needs = data[s][i].needs OBVIOUS
    <3>2. PICK new :
            new = [st |-> IF Ready(s, n, needs) THEN "queued" ELSE "waiting", sess |-> s,
                   needs |-> needs,
                   bodies |-> IF needs /\ Ready(s, n, needs) THEN n[2] ELSE None, cancel |-> FALSE]
      OBVIOUS
    <3>3. job' = [After(s, n) EXCEPT ![n] = new] BY <1>2, <2>1, <3>1, <3>2 DEF Accept
    <3>4. new.sess = s BY <3>2
    <3> QED BY <3>3, <3>4
  <2>3. TaskAssignment(s, i) BY <1>2 DEF Accept
  <2>4. n \in Jobs /\ data[s] \in Seq(TaskPackets) BY <2>1, <2>3, AssignmentTyped DEF TypeOK
  <2>5. Len(data'[s]) = Len(data[s]) - i
    BY <2>3, <2>4, SuffixFacts DEF TaskAssignment, TypeOK
  <2>6. After(s, n) \in [Jobs -> JobRecords] BY AfterTyped
  <2>7. job'[n].sess = s /\ (j # n => job'[j] = After(s, n)[j]) BY <2>2, <2>4, <2>6
  <2>8. CASE j = n BY <2>1, <2>5, <2>7, <2>8 DEF Begun
  <2>9. CASE j # n BY <2>4, <2>7, <2>9, AfterKeeps DEF Pending
  <2> QED BY <2>8, <2>9
<1> QED BY <1>1, <1>2, StepKinds

LEMMA DrainStep ==
  ASSUME IInv, IInv', Wire, [Next]_vars, frame' = frame,
         \A s \in Sessions : Suffix(ctrl'[s], ctrl[s]) /\ Suffix(data'[s], data[s]),
         \A s \in Sessions : Held(s) => Held(s)' \/ (ctrl'[s] = <<>> /\ data'[s] = <<>>)
  PROVE  Wire'
<1>1. TypeOK /\ TypeOK' BY DEF IInv
<1>2. \A s \in Sessions : Kept(s) \/ Renewed(s) BY OwnersKept
<1>3. \A s \in Sessions : ctrl'[s] \in Seq(Controls) /\ data'[s] \in Seq(TaskPackets)
  BY <1>1 DEF TypeOK
<1>4. Silent'
  <2> SUFFICES ASSUME NEW s \in Sessions, ~Held(s)' PROVE ctrl'[s] = <<>> /\ data'[s] = <<>>
    BY DEF Silent
  <2>1. CASE ~Held(s)
    <3>1. Len(ctrl[s]) = 0 /\ Len(data[s]) = 0 BY <2>1 DEF Wire, Silent
    <3>2. Len(ctrl'[s]) = 0 /\ Len(data'[s]) = 0
      BY <1>1, <1>3, <3>1, SuffixOfNothing DEF TypeOK
    <3> QED BY <1>3, <3>2
  <2> QED BY <2>1
<1>5. \A s \in Sessions : Len(ctrl'[s]) > 0 \/ Len(data'[s]) > 0 => Kept(s)
  <2> SUFFICES ASSUME NEW s \in Sessions, ~Held(s) PROVE Len(ctrl'[s]) = 0 /\ Len(data'[s]) = 0
    BY <1>2, <1>3 DEF Renewed
  <2>1. Len(ctrl[s]) = 0 /\ Len(data[s]) = 0 BY DEF Wire, Silent
  <2> QED BY <1>1, <1>3, <2>1, SuffixOfNothing DEF TypeOK
<1>6. Sent'
  <2> SUFFICES ASSUME NEW s \in Sessions, NEW k \in 1 .. Len(ctrl'[s])
               PROVE  sess'[s].master \in Masters /\ ctrl'[s][k].frame < frame[sess'[s].master]
    BY DEF Sent
  <2>1. Kept(s) BY <1>3, <1>5
  <2>2. PICK i \in 1 .. Len(ctrl[s]) : ctrl'[s][k] = ctrl[s][i] BY DEF Suffix, Drops
  <2> QED BY <2>1, <2>2 DEF Wire, Sent, Kept
<1>7. \A s \in Sessions : \E d \in Nat : Drops(data'[s], data[s], d) BY DEF Suffix
<1>8. \A s \in Sessions : Len(data[s]) \in Nat /\ Len(data'[s]) \in Nat
  BY <1>1 DEF TypeOK
<1>9. Addressed'
  <2> SUFFICES ASSUME NEW s \in Sessions, NEW k \in 1 .. Len(data'[s]), NEW j, j = data'[s][k].job
               PROVE  j[1] = sess'[s].master /\ j[2] < frame[j[1]] /\ ~Pending(j)'
    BY DEF Addressed, Pending
  <2>1. Kept(s) BY <1>3, <1>5
  <2>2. PICK d \in Nat : Drops(data'[s], data[s], d) BY <1>7
  <2> DEFINE i == k + d
  <2>9. i \in 1 .. Len(data[s]) /\ data'[s][k] = data[s][i] BY <2>2 DEF Drops
  <2> HIDE DEF i
  <2>3. j[1] = sess'[s].master /\ j[2] < frame[j[1]] /\ ~Pending(j)
    BY <2>1, <2>9 DEF Wire, Addressed, Kept
  <2>4. j \in Jobs
    <3>1. data'[s][k] \in TaskPackets BY <1>3
    <3> QED BY <3>1 DEF TaskPackets
  <2>5. ~Begun(j)
    <3> SUFFICES ASSUME NEW x \in Sessions, NEW l \in 1 .. Len(data[x]), j = data[x][l].job,
                        Len(data'[x]) = Len(data[x]) - l
                 PROVE  FALSE
      BY DEF Begun
    <3>1. data[s][i].job = data[x][l].job BY <2>9
    <3>2. x = s /\ l = i BY <2>9, <3>1 DEF Wire, Once
    <3>3. PICK a \in Nat, b \in Nat : a = Len(data[s]) /\ b = Len(data'[s]) BY <1>8
    <3>4. b = a - i /\ a = b + d /\ i = k + d /\ k \in 1 .. b
      BY <2>2, <3>2, <3>3 DEF Drops, i
    <3> QED BY <3>3, <3>4
  <2> QED BY <1>1, <2>3, <2>4, <2>5, GoesOnOrBegins
<1>10. Once'
  <2> SUFFICES ASSUME NEW s \in Sessions, NEW x \in Sessions,
                      NEW k \in 1 .. Len(data'[s]), NEW l \in 1 .. Len(data'[x]),
                      data'[s][k].job = data'[x][l].job
               PROVE  s = x /\ k = l
    BY DEF Once
  <2>1. PICK d \in Nat : Drops(data'[s], data[s], d) BY <1>7
  <2>2. PICK e \in Nat : Drops(data'[x], data[x], e) BY <1>7
  <2>3. k + d \in 1 .. Len(data[s]) /\ l + e \in 1 .. Len(data[x]) BY <2>1, <2>2 DEF Drops
  <2>4. data[s][k + d].job = data[x][l + e].job BY <2>1, <2>2 DEF Drops
  <2>5. s = x /\ k + d = l + e BY <2>3, <2>4 DEF Wire, Once
  <2>6. d = e
    <3>1. PICK a \in Nat, b \in Nat : a = Len(data[s]) /\ b = Len(data'[s]) BY <1>8
    <3>2. a = b + d /\ a = b + e BY <2>1, <2>2, <2>5, <3>1 DEF Drops
    <3> QED BY <3>1, <3>2
  <2>7. k \in Int /\ l \in Int OBVIOUS
  <2> QED BY <2>5, <2>6, <2>7
<1>11. Owners'
  <2> SUFFICES ASSUME NEW j \in Jobs, Pending(j)'
               PROVE  j[1] = sess'[job'[j].sess].master /\ j[2] < frame[j[1]]
    BY DEF Owners, Pending
  <2>1. CASE Pending(j) /\ job'[j].sess = job[j].sess
    <3>1. PICK s \in Sessions : s = job[j].sess BY <2>1 DEF IInv, HasSession
    <3>2. Kept(s) BY <1>2, <2>1, <3>1 DEF Renewed, Owned
    <3> QED BY <2>1, <3>1, <3>2 DEF Wire, Owners, Kept
  <2>2. CASE Begun(j)
    <3>1. PICK s \in Sessions : \E i \in 1 .. Len(data[s]) : j = data[s][i].job /\ job'[j].sess = s
      BY <2>2 DEF Begun
    <3>2. Held(s) BY <1>8, <3>1 DEF Wire, Silent
    <3>3. Kept(s) BY <1>2, <3>2 DEF Renewed
    <3> QED BY <3>1, <3>3 DEF Wire, Addressed, Kept
  <2> QED BY <1>1, <2>1, <2>2, GoesOnOrBegins
<1> QED BY <1>4, <1>6, <1>9, <1>10, <1>11 DEF Wire

(* The steps that are not the masters' leave the channels as they are, or    *)
(* take packets at their heads.                                              *)
LEMMA ChannelsDrain ==
  ASSUME IInv, Wire, [Next]_vars, \A m \in Masters : ~Master(m)
  PROVE  /\ frame' = frame
         /\ \A s \in Sessions : Suffix(ctrl'[s], ctrl[s]) /\ Suffix(data'[s], data[s])
         /\ \A s \in Sessions : Held(s) => Held(s)' \/ (ctrl'[s] = <<>> /\ data'[s] = <<>>)
<1> DEFINE Drained == /\ frame' = frame
                      /\ \A s \in Sessions : Suffix(ctrl'[s], ctrl[s]) /\ Suffix(data'[s], data[s])
                      /\ \A s \in Sessions :
                           Held(s) => Held(s)' \/ (ctrl'[s] = <<>> /\ data'[s] = <<>>)
<1> SUFFICES Drained OBVIOUS
<1>1. TypeOK /\ \A s \in Sessions : ctrl[s] \in Seq(Controls) /\ data[s] \in Seq(TaskPackets)
  BY DEF IInv, TypeOK
<1>2. \A s \in Sessions : Suffix(ctrl[s], ctrl[s]) /\ Suffix(data[s], data[s])
  BY <1>1, SuffixFacts
<1>3. ASSUME UNCHANGED <<ctrl, data, frame, byPeer>> PROVE Drained
  BY <1>2, <1>3 DEF Held
<1>4. ASSUME NEW p \in Peers, NEW s \in Sessions, NEW called, NEW m, Connected(p, s, called, m)
      PROVE  Drained
  <2>1. \A x \in Sessions : Held(x) => Held(x)'
    BY <1>4, NoneAssumption DEF IInv, TypeOK, Connected, Held
  <2>2. UNCHANGED <<ctrl, data, frame>> BY <1>4 DEF Connected, channels, master
  <2> QED BY <1>2, <2>1, <2>2
<1>5. ASSUME NEW p \in Peers, Disconnected(p) PROVE Drained
  <2>1. PICK s \in Sessions : s = byPeer[p] BY <1>5 DEF IInv, TypeOK, Disconnected
  <2>2. /\ frame' = frame /\ byPeer' = [byPeer EXCEPT ![p] = None]
        /\ ctrl' = [ctrl EXCEPT ![s] = <<>>] /\ data' = [data EXCEPT ![s] = <<>>]
    BY <1>5, <2>1 DEF Disconnected, PeerEnds, master
  <2>3. \A x \in Sessions : Held(x) => x = s \/ Held(x)'
    BY <2>1, <2>2 DEF IInv, TypeOK, Held
  <2>4. /\ ctrl'[s] = <<>> /\ data'[s] = <<>>
        /\ \A x \in Sessions : x # s => ctrl'[x] = ctrl[x] /\ data'[x] = data[x]
    BY <1>1, <2>2 DEF TypeOK
  <2>5. \A x \in Sessions : Suffix(ctrl'[x], ctrl[x]) /\ Suffix(data'[x], data[x])
    BY <1>1, <1>2, <2>4, SuffixFacts
  <2> QED BY <2>2, <2>3, <2>4, <2>5
<1>6. ASSUME NEW s \in Sessions, NEW i \in 1 .. Len(data[s]), TaskAssignment(s, i) PROVE Drained
  <2>1. data' = [data EXCEPT ![s] = SubSeq(data[s], i + 1, Len(data[s]))]
        /\ UNCHANGED <<ctrl, frame, byPeer>>
    BY <1>6 DEF TaskAssignment, link, master
  <2>2. Suffix(SubSeq(data[s], i + 1, Len(data[s])), data[s]) BY <1>1, SuffixFacts
  <2>3. \A x \in Sessions : Suffix(data'[x], data[x]) BY <1>1, <1>2, <2>1, <2>2 DEF TypeOK
  <2> QED BY <1>2, <2>1, <2>3 DEF Held
<1>7. ASSUME NEW s \in Sessions, ctrl[s] # <<>>, ctrl' = [ctrl EXCEPT ![s] = Tail(ctrl[s])],
             UNCHANGED <<data, frame, byPeer>>
      PROVE  Drained
  <2>1. Suffix(Tail(ctrl[s]), ctrl[s]) BY <1>1, <1>7, SuffixFacts
  <2>2. \A x \in Sessions : Suffix(ctrl'[x], ctrl[x]) BY <1>1, <1>2, <1>7, <2>1 DEF TypeOK
  <2> QED BY <1>2, <1>7, <2>2 DEF Held
<1> HIDE DEF Drained
<1>8. ASSUME NEW s \in Sessions, Packet(s) PROVE Drained
  <2>1. ASSUME Chunk(s) \/ LastChunk(s) \/ TaskCancel(s) PROVE Drained
    <3>1. /\ ctrl[s] # <<>> /\ ctrl' = [ctrl EXCEPT ![s] = Tail(ctrl[s])]
          /\ UNCHANGED <<data, frame, byPeer>>
      BY <2>1 DEF Chunk, LastChunk, TaskCancel, NextControl, link, master
    <3> QED BY <1>7, <3>1
  <2> QED BY <1>6, <1>8, <2>1 DEF Packet, Reject, Accept
<1>9. ASSUME NEW p \in Peers, Connect(p) \/ Unknown(p) PROVE Drained
  BY <1>3, <1>9 DEF Connect, Unknown, PeerEnds, channels, master
<1>10. ASSUME NEW s \in Sessions, NEW expired,
              Authenticate(s) \/ Refuse(s) \/ Rekey(s) \/ EndTurn(s, expired) PROVE Drained
  BY <1>3, <1>10 DEF Authenticate, Refuse, Rekey, EndTurn, link, channels, master
<1>11. ASSUME NEW j \in Jobs, Execute(j) \/ OutOfNumbers(j) PROVE Drained
  BY <1>3, <1>11 DEF Execute, OutOfNumbers, link, channels, master
<1>12. CASE UNCHANGED vars BY <1>3, <1>12 DEF vars, link, channels, master
<1> QED BY <1>4, <1>5, <1>8, <1>9, <1>10, <1>11, <1>12 DEF Next, Turn, Answered, CallsIn

(* A packet of a channel that others have joined is old or one of them.      *)
LEMMA Joined ==
  ASSUME NEW S, NEW q \in Seq(S), NEW n \in Seq(S), NEW k \in 1 .. Len(q \o n)
  PROVE  \/ k \in 1 .. Len(q) /\ (q \o n)[k] = q[k]
         \/ k - Len(q) \in 1 .. Len(n) /\ (q \o n)[k] = n[k - Len(q)]
OBVIOUS

(* What a master sends is of its own next frame, and nobody had it before.   *)
LEMMA SendFrameWire ==
  ASSUME IInv, IInv', Wire, NEW m \in Masters, NEW plan \in Plans(m), NEW needs \in BOOLEAN,
         SendFrame(m, plan, needs)
  PROVE  Wire'
<1> DEFINE new(s) == Assignments(m, Assigned(plan, s), needs)
<1>1. /\ frame[m] < Budget[m] /\ frame' = [frame EXCEPT ![m] = @ + 1]
      /\ UNCHANGED <<byPeer, sess, job>>
      /\ ctrl' = [s \in Sessions |-> IF needs /\ s \in Serving(m)
                                       THEN ctrl[s] \o Catalogue(frame[m]) ELSE ctrl[s]]
      /\ data' = [s \in Sessions |-> data[s] \o new(s)]
  BY DEF SendFrame, link
<1>2. /\ TypeOK /\ TypeOK'
      /\ \A s \in Sessions : ctrl[s] \in Seq(Controls) /\ data[s] \in Seq(TaskPackets)
  BY DEF IInv, TypeOK
<1>3. /\ Catalogue(frame[m]) \in Seq(Controls)
      /\ \A s \in Sessions :
           /\ new(s) \in Seq(TaskPackets)
           /\ \A k \in 1 .. Len(new(s)) : \E t \in Assigned(plan, s) :
                new(s)[k].job = <<m, frame[m], t>>
           /\ \A k, l \in 1 .. Len(new(s)) : new(s)[k].job = new(s)[l].job => k = l
  BY <1>1, <1>2, FrameTyped
<1> HIDE DEF new
<1>4. \A s \in Sessions : \A t \in Assigned(plan, s) :
        t \in Tiles /\ plan[t] = s /\ s \in Serving(m)
  BY NoneAssumption DEF Assigned, Plans
<1>5. \A x \in Masters : frame[x] \in Nat /\ frame'[x] \in Nat BY <1>2 DEF TypeOK
<1>6. frame'[m] = frame[m] + 1 /\ \A x \in Masters : x # m => frame'[x] = frame[x]
  BY <1>1, <1>2 DEF TypeOK
<1>7. \A x \in Masters : \A f : f < frame[x] /\ f \in Int => f < frame'[x] BY <1>5, <1>6
<1>8. \A s \in Sessions : \A k \in 1 .. Len(new(s)) : s \in Serving(m)
  BY <1>3, <1>4
<1>9. \A s \in Sessions : \A k \in 1 .. Len(data'[s]) :
        \/ k \in 1 .. Len(data[s]) /\ data'[s][k] = data[s][k]
        \/ k - Len(data[s]) \in 1 .. Len(new(s)) /\ data'[s][k] = new(s)[k - Len(data[s])]
  BY <1>1, <1>2, <1>3, Joined
<1>10. Silent'
  <2> SUFFICES ASSUME NEW s \in Sessions, ~Held(s) PROVE ctrl'[s] = <<>> /\ data'[s] = <<>>
    BY <1>1 DEF Silent, Held
  <2>1. s \notin Serving(m) BY DEF Serving, Established
  <2>2. ctrl[s] = <<>> /\ data[s] = <<>> BY DEF Wire, Silent
  <2>3. Len(new(s)) = 0
    <3>1. Len(new(s)) \in Nat BY <1>3
    <3>2. Len(new(s)) > 0 => 1 \in 1 .. Len(new(s)) BY <3>1
    <3> QED BY <1>8, <2>1, <3>1, <3>2
  <2>4. new(s) = <<>> BY <1>3, <2>3
  <2>5. data'[s] = <<>> \o <<>> BY <1>1, <2>2, <2>4
  <2> QED BY <1>1, <2>1, <2>2, <2>5
<1>11. Sent'
  <2> SUFFICES ASSUME NEW s \in Sessions, NEW k \in 1 .. Len(ctrl'[s])
               PROVE  sess[s].master \in Masters /\ ctrl'[s][k].frame < frame'[sess[s].master]
    BY <1>1 DEF Sent
  <2>1. \A i \in 1 .. Len(ctrl[s]) : ctrl[s][i].frame < frame'[sess[s].master]
                                       /\ sess[s].master \in Masters
    <3> SUFFICES ASSUME NEW i \in 1 .. Len(ctrl[s])
                 PROVE  ctrl[s][i].frame < frame'[sess[s].master] /\ sess[s].master \in Masters
      OBVIOUS
    <3>1. ctrl[s][i] \in Controls BY <1>2
    <3>2. ctrl[s][i].frame \in Int BY <3>1 DEF Controls, Frames
    <3> QED BY <1>7, <3>2 DEF Wire, Sent
  <2>2. CASE ctrl'[s] = ctrl[s] BY <2>1, <2>2
  <2>3. CASE s \in Serving(m) /\ ctrl'[s] = ctrl[s] \o Catalogue(frame[m])
    <3>1. PICK q \in Seq(Controls), c \in Seq(Controls) : q = ctrl[s] /\ c = Catalogue(frame[m])
      BY <1>2, <1>3
    <3>2. \A i \in 1 .. Len(c) : c[i].frame = frame[m]
      BY <3>1, SizesAssumption DEF Catalogue
    <3>3. sess[s].master = m BY <2>3 DEF Serving
    <3>4. k \in 1 .. Len(q \o c) /\ ctrl'[s][k] = (q \o c)[k] BY <2>3, <3>1
    <3>5. \/ k \in 1 .. Len(q) /\ ctrl'[s][k] = q[k]
          \/ k - Len(q) \in 1 .. Len(c) /\ ctrl'[s][k] = c[k - Len(q)]
      BY <3>4, Joined
    <3>6. CASE k \in 1 .. Len(q) /\ ctrl'[s][k] = q[k] BY <2>1, <3>1, <3>6
    <3>7. CASE k - Len(q) \in 1 .. Len(c) /\ ctrl'[s][k] = c[k - Len(q)]
      <4>1. ctrl'[s][k].frame = frame[m] BY <3>2, <3>7
      <4> QED BY <1>5, <1>6, <3>3, <4>1
    <3> QED BY <3>5, <3>6, <3>7
  <2> QED BY <1>1, <2>2, <2>3
<1>12. \A s \in Sessions : \A k \in 1 .. Len(new(s)) :
         /\ sess[s].master = m /\ new(s)[k].job[1] = m /\ new(s)[k].job[2] = frame[m]
         /\ new(s)[k].job \in Jobs /\ \E t \in Assigned(plan, s) : new(s)[k].job[3] = t
  <2> SUFFICES ASSUME NEW s \in Sessions, NEW k \in 1 .. Len(new(s))
               PROVE  /\ sess[s].master = m
                      /\ new(s)[k].job[1] = m /\ new(s)[k].job[2] = frame[m]
                      /\ new(s)[k].job \in Jobs
                      /\ \E t \in Assigned(plan, s) : new(s)[k].job[3] = t
    OBVIOUS
  <2>1. new(s)[k] \in TaskPackets BY <1>3
  <2>2. new(s)[k].job \in Jobs BY <2>1 DEF TaskPackets
  <2>3. sess[s].master = m BY <1>8 DEF Serving
  <2> QED BY <1>3, <2>2, <2>3
<1>13. \A s \in Sessions : \A i \in 1 .. Len(data[s]) :
         /\ data[s][i].job[1] \in Masters /\ data[s][i].job[2] \in Int
         /\ data[s][i].job \in Jobs
  <2> SUFFICES ASSUME NEW s \in Sessions, NEW i \in 1 .. Len(data[s])
               PROVE  /\ data[s][i].job[1] \in Masters /\ data[s][i].job[2] \in Int
                      /\ data[s][i].job \in Jobs
    OBVIOUS
  <2>1. data[s][i] \in TaskPackets BY <1>2
  <2> QED BY <2>1 DEF TaskPackets, Jobs, Frames
<1>14. Addressed'
  <2> SUFFICES ASSUME NEW s \in Sessions, NEW k \in 1 .. Len(data'[s]), NEW j, j = data'[s][k].job
               PROVE  j[1] = sess[s].master /\ j[2] < frame'[j[1]] /\ ~Pending(j)
    BY <1>1 DEF Addressed, Pending
  <2>1. CASE k \in 1 .. Len(data[s]) /\ data'[s][k] = data[s][k]
    BY <1>7, <1>13, <2>1 DEF Wire, Addressed
  <2>2. CASE k - Len(data[s]) \in 1 .. Len(new(s)) /\ data'[s][k] = new(s)[k - Len(data[s])]
    <3>1. j[1] = m /\ sess[s].master = m /\ j[2] = frame[m] /\ j \in Jobs BY <1>12, <2>2
    <3>2. Pending(j) => frame[m] < frame[m] BY <3>1 DEF Wire, Owners
    <3> QED BY <1>5, <1>6, <3>1, <3>2
  <2> QED BY <1>9, <2>1, <2>2
<1>15. Once'
  <2> SUFFICES ASSUME NEW s \in Sessions, NEW x \in Sessions,
                      NEW k \in 1 .. Len(data'[s]), NEW l \in 1 .. Len(data'[x]),
                      data'[s][k].job = data'[x][l].job
               PROVE  s = x /\ k = l
    BY DEF Once
  <2>1. \A y, z \in Sessions : \A i \in 1 .. Len(data[y]), n \in 1 .. Len(new(z)) :
          data[y][i].job # new(z)[n].job
    <3> SUFFICES ASSUME NEW y \in Sessions, NEW z \in Sessions, NEW i \in 1 .. Len(data[y]),
                        NEW n \in 1 .. Len(new(z)), data[y][i].job = new(z)[n].job
                 PROVE  FALSE
      OBVIOUS
    <3>1. data[y][i].job[1] = m /\ data[y][i].job[2] = frame[m] BY <1>12
    <3>2. frame[m] < frame[m] BY <3>1 DEF Wire, Addressed
    <3> QED BY <1>5, <3>2
  <2>2. CASE /\ k \in 1 .. Len(data[s]) /\ data'[s][k] = data[s][k]
             /\ l \in 1 .. Len(data[x]) /\ data'[x][l] = data[x][l]
    <3>1. data[s][k].job = data[x][l].job BY <2>2
    <3> QED BY <2>2, <3>1 DEF Wire, Once
  <2>3. CASE /\ k - Len(data[s]) \in 1 .. Len(new(s)) /\ data'[s][k] = new(s)[k - Len(data[s])]
             /\ l - Len(data[x]) \in 1 .. Len(new(x)) /\ data'[x][l] = new(x)[l - Len(data[x])]
    <3>1. PICK a \in 1 .. Len(new(s)), b \in 1 .. Len(new(x)) :
            /\ a = k - Len(data[s]) /\ b = l - Len(data[x])
            /\ data'[s][k] = new(s)[a] /\ data'[x][l] = new(x)[b]
      BY <2>3
    <3>2. new(s)[a].job = new(x)[b].job BY <3>1
    <3>3. PICK t \in Assigned(plan, s) : new(s)[a].job[3] = t BY <1>12
    <3>4. PICK u \in Assigned(plan, x) : new(x)[b].job[3] = u BY <1>12
    <3>5. s = x BY <1>4, <3>2, <3>3, <3>4
    <3>6. a = b BY <1>3, <3>2, <3>5
    <3>7. PICK n \in Nat : n = Len(data[s]) BY <1>2
    <3>8. k - n = l - n /\ k \in Int /\ l \in Int BY <3>1, <3>5, <3>6, <3>7
    <3> QED BY <3>5, <3>8
  <2>4. ASSUME NEW y \in Sessions, NEW z \in Sessions, NEW a \in 1 .. Len(data'[y]), NEW b,
               data'[y][a] = data[y][a], a \in 1 .. Len(data[y]),
               b - Len(data[z]) \in 1 .. Len(new(z)), data'[z][b] = new(z)[b - Len(data[z])]
        PROVE  data'[y][a].job # data'[z][b].job
    BY <2>1, <2>4
  <2> DEFINE Old(y, a) == a \in 1 .. Len(data[y]) /\ data'[y][a] = data[y][a]
             Joins(y, a) == /\ a - Len(data[y]) \in 1 .. Len(new(y))
                            /\ data'[y][a] = new(y)[a - Len(data[y])]
  <2>5. (Old(s, k) \/ Joins(s, k)) /\ (Old(x, l) \/ Joins(x, l)) BY <1>9
  <2>6. Old(s, k) /\ Joins(x, l) => data'[s][k].job # data'[x][l].job BY <2>4
  <2>7. Old(x, l) /\ Joins(s, k) => data'[x][l].job # data'[s][k].job BY <2>4
  <2>8. Old(s, k) /\ Old(x, l) => s = x /\ k = l BY <2>2
  <2>9. Joins(s, k) /\ Joins(x, l) => s = x /\ k = l BY <2>3
  <2> HIDE DEF Old, Joins
  <2> QED BY <2>5, <2>6, <2>7, <2>8, <2>9
<1>16. Owners'
  <2> SUFFICES ASSUME NEW j \in Jobs, Pending(j)
               PROVE  j[1] = sess[job[j].sess].master /\ j[2] < frame'[j[1]]
    BY <1>1 DEF Owners, Pending
  <2>1. j[1] \in Masters /\ j[2] \in Int BY DEF Jobs, Frames
  <2> QED BY <1>7, <2>1 DEF Wire, Owners
<1> QED BY <1>10, <1>11, <1>14, <1>15, <1>16 DEF Wire

LEMMA EndFrameWire ==
  ASSUME IInv, IInv', Wire, NEW m \in Masters, NEW complete, EndFrame(m, complete)
  PROVE  Wire'
<1>1. PICK c : c = CancelFrame(frame[m] - 1) OBVIOUS
<1>2. /\ ~ended[m] /\ UNCHANGED <<byPeer, sess, data, job, frame>>
      /\ ctrl' = [s \in Sessions |-> IF ~complete /\ s \in Serving(m)
                                       THEN Append(ctrl[s], c) ELSE ctrl[s]]
  BY <1>1 DEF EndFrame, link
<1>3. TypeOK /\ \A s \in Sessions : ctrl[s] \in Seq(Controls) BY DEF IInv, TypeOK
<1>4. frame[m] - 1 \in Frames /\ frame[m] \in Nat
  BY <1>2, <1>3, SizesAssumption DEF TypeOK, Frames
<1>5. c \in Controls /\ c.frame < frame[m]
  BY <1>1, <1>4, SizesAssumption DEF CancelFrame, Controls, Frames
<1>6. Silent'
  <2>1. \A s \in Sessions : ~Held(s) => s \notin Serving(m) BY DEF Serving, Established
  <2> QED BY <1>2, <2>1 DEF Wire, Silent, Held
<1>7. Sent'
  <2> SUFFICES ASSUME NEW s \in Sessions, NEW k \in 1 .. Len(ctrl'[s])
               PROVE  sess[s].master \in Masters /\ ctrl'[s][k].frame < frame[sess[s].master]
    BY <1>2 DEF Sent
  <2>1. CASE ctrl'[s] = ctrl[s] BY <2>1 DEF Wire, Sent
  <2>2. CASE s \in Serving(m) /\ ctrl'[s] = Append(ctrl[s], c)
    <3>1. PICK q \in Seq(Controls) : q = ctrl[s] BY <1>3
    <3>2. k \in 1 .. Len(q) + 1 BY <1>5, <2>2, <3>1
    <3>3. CASE k \in 1 .. Len(q)
      <4>1. ctrl'[s][k] = ctrl[s][k] BY <1>5, <2>2, <3>1, <3>3
      <4> QED BY <3>1, <3>3, <4>1 DEF Wire, Sent
    <3>4. CASE k = Len(q) + 1
      <4>1. ctrl'[s][k] = c BY <1>5, <2>2, <3>1, <3>4
      <4>2. sess[s].master = m BY <2>2 DEF Serving
      <4> QED BY <1>5, <4>1, <4>2
    <3> QED BY <3>2, <3>3, <3>4
  <2> QED BY <1>2, <2>1, <2>2
<1>8. Addressed' /\ Once' /\ Owners'
  BY <1>2 DEF Wire, Addressed, Once, Owners, Pending
<1> QED BY <1>6, <1>7, <1>8 DEF Wire

LEMMA WireStep ==
  ASSUME IInv, IInv', Wire, [Next]_vars
  PROVE  Wire'
<1>1. CASE \A m \in Masters : ~Master(m) BY <1>1, ChannelsDrain, DrainStep
<1>2. ASSUME NEW m \in Masters, Master(m) PROVE Wire'
  BY <1>2, SendFrameWire, EndFrameWire DEF Master
<1> QED BY <1>1, <1>2

LEMMA WireInvariant == Spec => []Wire
<1>1. Init => Wire
  <2> SUFFICES ASSUME Init PROVE Wire OBVIOUS
  <2>1. NoJob.st \notin Unreleased BY DEF NoJob, Unreleased
  <2>2. \A s \in Sessions : Len(ctrl[s]) = 0 /\ Len(data[s]) = 0 BY DEF Init
  <2>3. Silent /\ Owners BY <2>1 DEF Init, Silent, Owners, Pending
  <2>4. Sent /\ Addressed /\ Once BY <2>2 DEF Sent, Addressed, Once
  <2> QED BY <2>3, <2>4 DEF Wire
<1>2. IInv /\ IInv' /\ Wire /\ [Next]_vars => Wire' BY WireStep
<1> QED BY <1>1, <1>2, Invariant, PTL DEF Spec

-----------------------------------------------------------------------------
(* The job map.                                                              *)

LEMMA EndsEscape ==
  ASSUME IInv, [Next]_vars, NEW gone, Ends(gone), NEW j \in Jobs, Escaped(j)'
  PROVE  Escaped(j) \/ \E k \in Jobs \ {j} : Pending(k) /\ Key(k) = Key(j)'
<1>1. Pending(j) /\ Pending(j)' /\ job'[j].sess = job[j].sess BY DEF Ends, Escaped
<1>2. CASE j \notin map BY <1>1, <1>2 DEF Escaped
<1>3. CASE j \in map
  <2>1. PICK k \in gone : Key(j) = Key(k) BY <1>3 DEF Ends, Escaped, Without
  <2>2. k \in Jobs \ {j} /\ Pending(k) BY <1>1 DEF Ends
  <2>3. PICK s \in Sessions : s = job[j].sess BY <1>1 DEF IInv, HasSession
  <2>4. Kept(s) BY <1>1, <2>3, OwnersKept DEF Renewed, Owned
  <2>5. Key(j)' = Key(j) BY <1>1, <2>3, <2>4 DEF Key, Kept
  <2> QED BY <2>1, <2>2, <2>5
<1> QED BY <1>2, <1>3

LEMMA AcceptEscape ==
  ASSUME IInv, Wire, [Next]_vars, NEW s \in Sessions, NEW i \in 1 .. Len(data[s]), Accept(s, i),
         NEW j \in Jobs, Escaped(j)'
  PROVE  Escaped(j) \/ \E k \in Jobs \ {j} : Pending(k) /\ Key(k) = Key(j)'
<1>1. PICK n : n = data[s][i].job OBVIOUS
<1>2. PICK left : left = Without(Pruned(s, n)) OBVIOUS
<1>3. PICK new : job' = [After(s, n) EXCEPT ![n] = new] /\ new.sess = s
  <2>1. PICK needs : needs = data[s][i].needs OBVIOUS
  <2>2. PICK new :
          new = [st |-> IF Ready(s, n, needs) THEN "queued" ELSE "waiting", sess |-> s,
                 needs |-> needs,
                 bodies |-> IF needs /\ Ready(s, n, needs) THEN n[2] ELSE None, cancel |-> FALSE]
    OBVIOUS
  <2>3. job' = [After(s, n) EXCEPT ![n] = new] BY <1>1, <2>1, <2>2 DEF Accept
  <2>4. new.sess = s BY <2>2
  <2> QED BY <2>3, <2>4
<1>4. /\ TypeOK /\ TaskAssignment(s, i)
      /\ map' = IF \E x \in left : Key(x) = <<sess[s].peer, n[2], n[3]>>
                  THEN left ELSE left \cup {n}
  BY <1>1, <1>2 DEF IInv, Accept
<1>5. n \in Jobs /\ After(s, n) \in [Jobs -> JobRecords] BY <1>1, <1>4, AssignmentTyped, AfterTyped
<1>6. job'[n].sess = s /\ (j # n => job'[j] = After(s, n)[j]) BY <1>3, <1>5
<1>7. ~Pending(n) BY <1>1 DEF Wire, Addressed
<1>8. map \subseteq Jobs /\ left \subseteq map BY <1>2, <1>4 DEF TypeOK, Without
<1>9. \A x \in Sessions : Owned(x) # {} => Kept(x) BY OwnersKept DEF Renewed
<1>10. CASE j = n
  <2>1. PICK k \in left : Key(k) = <<sess[s].peer, n[2], n[3]>>
    BY <1>4, <1>10 DEF Escaped
  <2>2. Pending(k) /\ k \in Jobs \ {j} BY <1>7, <1>8, <1>10 DEF IInv, Entries
  <2>3. sess'[s].peer = sess[s].peer
    <3>1. Held(s) BY <1>4 DEF TaskAssignment, Established
    <3>2. Kept(s) BY <3>1, OwnersKept DEF Renewed
    <3> QED BY <3>2 DEF Kept
  <2>4. Key(j)' = <<sess[s].peer, n[2], n[3]>> BY <1>6, <1>10, <2>3 DEF Key
  <2> QED BY <2>1, <2>2, <2>4
<1>11. CASE j # n
  <2>1. j \notin Pruned(s, n) /\ Pending(j) /\ job'[j].sess = job[j].sess
    BY <1>4, <1>5, <1>6, <1>11, AfterKeeps DEF Escaped, Pending
  <2>2. CASE j \notin map BY <2>1, <2>2 DEF Escaped
  <2>3. CASE j \in map
    <3>1. PICK k \in Pruned(s, n) : Key(j) = Key(k)
      BY <1>2, <1>4, <2>3 DEF Escaped, Without
    <3>2. k \in Jobs \ {j} /\ Pending(k)
      BY <2>1 DEF Pruned, CancelledWaiting, Waiting, Owned
    <3>3. PICK x \in Sessions : x = job[j].sess BY <2>1 DEF IInv, HasSession
    <3>4. Kept(x) BY <1>9, <2>1, <3>3 DEF Owned
    <3>5. Key(j)' = Key(j) BY <2>1, <3>3, <3>4 DEF Key, Kept
    <3> QED BY <3>1, <3>2, <3>5
  <2> QED BY <2>2, <2>3
<1> QED BY <1>10, <1>11

LEMMA EscapeStep ==
  ASSUME IInv, Wire, [Next]_vars
  PROVE  OnlyTwinsEscape
<1> SUFFICES ASSUME NEW j \in Jobs, Escaped(j)'
             PROVE  Escaped(j) \/ \E k \in Jobs \ {j} : Pending(k) /\ Key(k) = Key(j)'
  BY DEF OnlyTwinsEscape
<1>1. TypeOK BY DEF IInv
<1>2. CASE Settled BY <1>2, EndsEscape DEF Settled
<1> QED BY <1>1, <1>2, AcceptEscape, StepKinds

(* The job map of WorkerService points only to jobs that are not over,       *)
(* whoever ends them: the event loop, a session that closes or a thread of   *)
(* the pool; so the limit on queued tiles counts no job that is over.  A job *)
(* that is not over is out of the map, and of the reach of cancellations,    *)
(* only if it has met a twin: a job with its key, of another master that had *)
(* the same peer.  A job of a session that is over does not wait, and unless *)
(* it has escaped so, it goes on only until somebody looks at its flag.      *)
THEOREM JobsAreTracked == Spec => JobsTracked
<1>1. IInv => NothingOver /\ EndedGiveUp
  BY DEF IInv, TypeOK, Entries, Attended, Serves, Doomed, NothingOver, EndedGiveUp
<1>2. IInv /\ Wire /\ [Next]_vars => OnlyTwinsEscape BY EscapeStep
<1> QED BY <1>1, <1>2, Invariant, WireInvariant, PTL DEF Spec, JobsTracked

-----------------------------------------------------------------------------
(* The bodies a job runs with.  The control packets of its session speak of  *)
(* frames its master has sent, so the catalogue that ends the wait of a job  *)
(* is of the job's own frame or of a later one that has been sent: in the    *)
(* second case the job's frame is not the last one of its master.            *)

Executable == {"queued", "render", "check", "send"}
Past(j) == j[2] < frame[j[1]] - 1
Fitting ==
  \A j \in Jobs : job[j].st \in Executable /\ job[j].needs => job[j].bodies = j[2] \/ Past(j)

(* A job that a step leaves with the bodies it had, or without any.          *)
Same(j) == \/ job'[j].st \notin Executable
           \/ /\ job[j].st \in Executable
              /\ job'[j].needs = job[j].needs /\ job'[j].bodies = job[j].bodies

LEMMA FrameGrows ==
  ASSUME IInv, Wire, [Next]_vars
  PROVE  \A m \in Masters : frame'[m] \in {frame[m], frame[m] + 1}
<1>1. ASSUME NEW m \in Masters, Master(m)
      PROVE  \A x \in Masters : frame'[x] \in {frame[x], frame[x] + 1}
  BY <1>1 DEF IInv, TypeOK, Master, SendFrame, EndFrame
<1>2. (\A m \in Masters : ~Master(m)) => frame' = frame BY ChannelsDrain
<1> QED BY <1>1, <1>2

LEMMA FittingStep ==
  ASSUME IInv, IInv', Wire, Fitting, [Next]_vars,
         \A j \in Jobs : Same(j) \/ (job'[j].needs => job'[j].bodies = j[2]) \/ Past(j)
  PROVE  Fitting'
<1>1. \A j \in Jobs : /\ j[1] \in Masters /\ j[2] \in Int
                      /\ frame[j[1]] \in Int /\ frame'[j[1]] \in {frame[j[1]], frame[j[1]] + 1}
  BY FrameGrows DEF IInv, TypeOK, Jobs, Frames
<1>2. \A j \in Jobs : Past(j) => Past(j)' BY <1>1 DEF Past
<1> SUFFICES ASSUME NEW j \in Jobs, job'[j].st \in Executable, job'[j].needs
             PROVE  job'[j].bodies = j[2] \/ Past(j)'
  BY DEF Fitting, Executable
<1>3. job'[j].bodies = j[2] \/ Past(j) BY DEF Fitting, Same
<1> QED BY <1>2, <1>3

(* A job that is given up or only flagged stays as it was.                   *)
LEMMA ReleaseFits ==
  ASSUME TypeOK, NEW jobs, NEW f \in [Jobs -> JobRecords], job' = Release(jobs, f),
         \A j \in Jobs : /\ f[j].st = job[j].st /\ f[j].needs = job[j].needs
                         /\ f[j].bodies = job[j].bodies
  PROVE  \A j \in Jobs : Same(j)
<1>1. /\ \A j \in jobs \cap Jobs : job'[j].st = "released"
      /\ \A j \in Jobs \ jobs : job'[j] = f[j]
  BY ReleaseKeeps
<1>2. "released" \notin Executable BY DEF Executable
<1> QED BY <1>1, <1>2 DEF Same

LEMMA CloseFits ==
  ASSUME TypeOK, NEW s, CloseSession(s)
  PROVE  \A j \in Jobs : Same(j)
<1>1. job \in [Jobs -> JobRecords] BY DEF TypeOK
<1>2. PICK f \in [Jobs -> JobRecords] : f = Cancel(OfPeer(sess[s].peer), job)
  BY <1>1, CancelKeeps
<1>3. \A j \in Jobs : /\ f[j].st = job[j].st /\ f[j].needs = job[j].needs
                      /\ f[j].bodies = job[j].bodies
  BY <1>1, <1>2, CancelKeeps
<1>4. PICK gone : gone = Waiting(s) OBVIOUS
<1>5. job' = Release(gone, f) BY <1>2, <1>4 DEF CloseSession, ReleaseAll
<1> QED BY <1>3, <1>5, ReleaseFits

LEMMA ReleasedFits ==
  ASSUME TypeOK, NEW given, ReleaseAll(given, job)
  PROVE  \A j \in Jobs : Same(j)
<1>1. job \in [Jobs -> JobRecords] /\ job' = Release(given, job) BY DEF TypeOK, ReleaseAll
<1> QED BY <1>1, ReleaseFits

LEMMA QuietFits ==
  ASSUME TypeOK, UNCHANGED job
  PROVE  \A j \in Jobs : Same(j)
BY DEF Same

LEMMA AfterFits ==
  ASSUME TypeOK, NEW s \in Sessions, NEW j \in Jobs, NEW x \in Jobs, job'[x] = After(s, j)[x]
  PROVE  Same(x)
<1>1. Executable \subseteq Unreleased BY DEF Executable, Unreleased
<1> QED BY <1>1, AfterKeeps DEF Same

LEMMA AcceptFits ==
  ASSUME TypeOK, NEW s \in Sessions, NEW i \in 1 .. Len(data[s]), Accept(s, i), NEW x \in Jobs
  PROVE  Same(x) \/ (job'[x].needs => job'[x].bodies = x[2])
<1>1. PICK j : j = data[s][i].job OBVIOUS
<1>2. PICK needs : needs = data[s][i].needs OBVIOUS
<1>3. PICK new :
        new = [st |-> IF Ready(s, j, needs) THEN "queued" ELSE "waiting", sess |-> s,
               needs |-> needs,
               bodies |-> IF needs /\ Ready(s, j, needs) THEN j[2] ELSE None, cancel |-> FALSE]
  OBVIOUS
<1>4. TaskAssignment(s, i) /\ job' = [After(s, j) EXCEPT ![j] = new]
  BY <1>1, <1>2, <1>3 DEF Accept
<1>5. j \in Jobs /\ After(s, j) \in [Jobs -> JobRecords]
  BY <1>1, <1>4, AssignmentTyped, AfterTyped
<1>6. job'[j] = new /\ (x # j => job'[x] = After(s, j)[x])
  BY <1>4, <1>5
<1>7. new.st \notin Executable \/ (new.needs => new.bodies = j[2])
  BY <1>3 DEF Executable
<1>8. CASE x = j BY <1>6, <1>7, <1>8 DEF Same
<1>9. CASE x # j BY <1>5, <1>6, <1>9, AfterFits
<1> QED BY <1>8, <1>9

LEMMA LastChunkFits ==
  ASSUME TypeOK, Wire, NEW s \in Sessions, LastChunk(s), NEW j \in Jobs
  PROVE  Same(j) \/ job'[j].bodies = j[2] \/ Past(j)
<1>1. PICK f : f = Head(ctrl[s]).frame OBVIOUS
<1>2. PICK published : published = Trim(Append(store[s].published, f)) OBVIOUS
<1>3. PICK pruned : pruned = CancelledWaiting(s, job) OBVIOUS
<1>4. PICK launched : launched = Due(s, f) \ pruned OBVIOUS
<1>5. PICK started :
        started = [x \in Jobs |->
          IF x \in launched
            THEN [job[x] EXCEPT !.st = "queued",
                                !.bodies = IF x[2] \in Range(published) THEN x[2] ELSE f]
            ELSE job[x]]
  OBVIOUS
<1>6. NextControl(s, "chunk") /\ job' = Release(pruned, started)
  BY <1>1, <1>2, <1>3, <1>4, <1>5 DEF LastChunk, ReleaseAll
<1>7. /\ job \in [Jobs -> JobRecords] /\ f \in Frames /\ ctrl[s] \in Seq(Controls)
      /\ \A x \in Jobs : x[2] \in Frames
  BY <1>1, <1>6, ControlTyped DEF TypeOK, Jobs
<1>8. started \in [Jobs -> JobRecords]
  <2>1. \A r \in JobRecords, n \in Frames :
          [r EXCEPT !.st = "queued", !.bodies = n] \in JobRecords
    BY DEF JobRecords, Unreleased
  <2> QED BY <1>5, <1>7, <2>1
<1>9. /\ \A x \in pruned \cap Jobs : job'[x].st = "released"
      /\ \A x \in Jobs \ pruned : job'[x] = started[x]
  BY <1>6, <1>8, ReleaseKeeps
<1>10. CASE j \in pruned BY <1>9, <1>10 DEF Same, Executable
<1>11. CASE j \notin launched /\ j \notin pruned
  <2>1. job'[j] = job[j] BY <1>5, <1>9, <1>11
  <2> QED BY <2>1 DEF Same
<1>12. CASE j \in launched /\ j \notin pruned
  <2>1. job'[j] = started[j] BY <1>9, <1>12
  <2>2. started[j].bodies \in {j[2], f}
    BY <1>5, <1>7, <1>12 DEF JobRecords
  <2>3. f < frame[sess[s].master]
    <3>1. 1 \in 1 .. Len(ctrl[s]) /\ Head(ctrl[s]) = ctrl[s][1]
      BY <1>6, <1>7 DEF NextControl
    <3> QED BY <1>1, <3>1 DEF Wire, Sent
  <2>4. Pending(j) /\ job[j].sess = s /\ j[2] <= f BY <1>4, <1>12 DEF Due, Waiting, Owned
  <2>5. j[1] = sess[s].master BY <2>4 DEF Wire, Owners
  <2>6. j[2] \in Int /\ f \in Int /\ frame[j[1]] \in Int BY <1>7 DEF TypeOK, Jobs, Frames
  <2>7. f = j[2] \/ Past(j) BY <2>3, <2>4, <2>5, <2>6 DEF Past
  <2> QED BY <2>1, <2>2, <2>7
<1> QED BY <1>10, <1>11, <1>12

LEMMA ExecuteFits ==
  ASSUME TypeOK, NEW j \in Jobs, Execute(j)
  PROVE  \A x \in Jobs : Same(x)
<1>1. CASE GiveUp(j) BY <1>1, ReleasedFits DEF GiveUp
<1>2. ASSUME NEW st, Go(j, st), job[j].st \in Executable
      PROVE  \A x \in Jobs : Same(x)
  <2>1. job \in [Jobs -> JobRecords] BY DEF TypeOK
  <2>2. \A x \in Jobs : /\ job'[x].needs = job[x].needs /\ job'[x].bodies = job[x].bodies
                        /\ x # j => job'[x].st = job[x].st
    BY <1>2, <2>1 DEF Go, JobRecords
  <2> QED BY <1>2, <2>2 DEF Same
<1>3. \/ GiveUp(j)
      \/ \E st \in {"render", "check", "send"} : Go(j, st) /\ job[j].st \in Executable
  BY DEF Execute, Begin, Skip, Rendered, FindOpen, FindClosed, Transmit, At, Executable
<1> QED BY <1>1, <1>2, <1>3

LEMMA PacketFits ==
  ASSUME TypeOK, Wire, NEW s \in Sessions, Packet(s)
  PROVE  \A x \in Jobs : Same(x) \/ (job'[x].needs => job'[x].bodies = x[2]) \/ Past(x)
<1>1. ASSUME NEW i \in 1 .. Len(data[s]), Reject(s, i), NEW x \in Jobs PROVE Same(x)
  <2>1. PICK j : j = data[s][i].job OBVIOUS
  <2>2. TaskAssignment(s, i) /\ job' = After(s, j) BY <1>1, <2>1 DEF Reject
  <2>3. j \in Jobs BY <2>1, <2>2, AssignmentTyped
  <2> QED BY <2>2, <2>3, AfterFits
<1>2. ASSUME TaskCancel(s), NEW x \in Jobs PROVE Same(x)
  <2>1. PICK hit : job' = Cancel(hit, job) BY <1>2 DEF TaskCancel
  <2>2. job \in [Jobs -> JobRecords] BY DEF TypeOK
  <2> QED BY <2>1, <2>2, CancelKeeps DEF Same
<1>3. ASSUME Chunk(s), NEW x \in Jobs PROVE Same(x) BY <1>3, QuietFits DEF Chunk
<1> QED BY <1>1, <1>2, <1>3, AcceptFits, LastChunkFits DEF Packet

LEMMA BodiesStep ==
  ASSUME IInv, IInv', Wire, Fitting, [Next]_vars
  PROVE  Fitting'
<1> DEFINE Fit == \A x \in Jobs :
             Same(x) \/ (job'[x].needs => job'[x].bodies = x[2]) \/ Past(x)
<1>1. TypeOK BY DEF IInv
<1>2. ASSUME \A x \in Jobs : Same(x) PROVE Fit BY <1>2
<1>3. ASSUME UNCHANGED job PROVE Fit BY <1>1, <1>3, QuietFits
<1>4. ASSUME NEW p \in Peers, Disconnected(p) PROVE Fit
  <2>1. PICK s : s = byPeer[p] OBVIOUS
  <2>2. CloseSession(s) \/ UNCHANGED job BY <1>4, <2>1 DEF Disconnected
  <2> QED BY <1>1, <1>2, <1>3, <2>2, CloseFits
<1>5. ASSUME NEW s \in Sessions, Refuse(s) \/ Rekey(s) PROVE Fit
  BY <1>1, <1>2, <1>5, CloseFits DEF Refuse, Rekey
<1>6. ASSUME NEW s \in Sessions, NEW expired, EndTurn(s, expired) PROVE Fit
  <2>1. PICK given : given = expired \cup CancelledWaiting(s, job) OBVIOUS
  <2>2. ReleaseAll(given, job) BY <1>6, <2>1 DEF EndTurn
  <2> QED BY <1>1, <1>2, <2>2, ReleasedFits
<1>7. ASSUME NEW s \in Sessions, Packet(s) PROVE Fit BY <1>1, <1>7, PacketFits
<1>8. ASSUME NEW j \in Jobs, Execute(j) PROVE Fit BY <1>1, <1>2, <1>8, ExecuteFits
<1>9. ASSUME NEW j \in Jobs, OutOfNumbers(j) PROVE Fit
  BY <1>1, <1>2, <1>9, ReleasedFits DEF OutOfNumbers, GiveUp
<1>10. ASSUME NEW p \in Peers, Connect(p) \/ Unknown(p) PROVE Fit
  BY <1>3, <1>10 DEF Connect, Unknown
<1>11. ASSUME NEW p \in Peers, NEW s \in Sessions, NEW m \in Masters,
              Answered(p, s, m) \/ CallsIn(p, s, m) PROVE Fit
  BY <1>3, <1>11 DEF Answered, CallsIn, Connected
<1>12. ASSUME NEW s \in Sessions, Authenticate(s) PROVE Fit BY <1>3, <1>12 DEF Authenticate
<1>13. ASSUME NEW m \in Masters, Master(m) PROVE Fit
  BY <1>3, <1>13 DEF Master, SendFrame, EndFrame
<1>14. ASSUME UNCHANGED vars PROVE Fit BY <1>3, <1>14 DEF vars
<1> HIDE DEF Fit
<1>15. Fit
  BY <1>4, <1>5, <1>6, <1>7, <1>8, <1>9, <1>10, <1>11, <1>12, <1>13, <1>14 DEF Next, Turn
<1> QED BY <1>15, FittingStep DEF Fit

(* However the two channels of a session overtake each other, catalogues are *)
(* evicted, jobs wait and peers change hands, no tile of the frame a master  *)
(* waits for is rendered with the bodies of another frame.                   *)
THEOREM RightBodiesAlways == Spec => []RightBodies
<1>1. Init => Fitting
  <2>1. NoJob.st \notin Executable BY DEF NoJob, Executable
  <2> QED BY <2>1 DEF Init, Fitting
<1>2. IInv /\ IInv' /\ Wire /\ Fitting /\ [Next]_vars => Fitting'
  BY BodiesStep
<1>3. ASSUME IInv, Fitting PROVE RightBodies
  <2>1. \A j \in Jobs : frame[j[1]] \in Int BY <1>3 DEF IInv, TypeOK, Jobs
  <2>2. \A j \in Jobs : j[2] = frame[j[1]] - 1 => ~Past(j) BY <2>1 DEF Past
  <2> QED BY <1>3, <2>2 DEF Fitting, RightBodies, Executable
<1> QED BY <1>1, <1>2, <1>3, Invariant, WireInvariant, PTL DEF Spec

=============================================================================
