---------------------------- MODULE WorkerService ----------------------------
(* A worker daemon: the sessions it holds with masters, the tiles they       *)
(* assign and the body catalogues those tiles need.  One thread runs         *)
(* run_event_loop and every handler; the threads of its pool execute jobs.   *)
(*                                                                           *)
(* A session has two channels from its master.  Control is reliable and      *)
(* ordered (catalogue chunks, cancellations); TileData keeps the order but   *)
(* may lose packets (assignments).  They overtake each other.  The master's  *)
(* half is what ClusterOrchestrator sends: for each frame the chunks of its  *)
(* catalogue to every session, then the tiles, each to one session, and a    *)
(* cancellation of the whole frame if it ends before its tiles are done.     *)
(* A master is a process: it numbers its frames from 0 for as long as it     *)
(* runs, and one that is restarted is another master.  What the worker knows *)
(* is the peer, an identifier that the next session may have again, so jobs  *)
(* of two masters may have one key in the job map.                           *)
(* Time is abstract: any deadline may have passed.                           *)
EXTENDS Integers, Sequences, FiniteSets, SequencesExt

CONSTANTS Peers,        \* peers of the transport
          Sessions,     \* identities of session objects
          Masters,      \* processes that may be at the other end of a session
          Tiles,
          Chunks,       \* the number of chunks of a catalogue
          None,
          Called,       \* masters at --master-address; none if it was not given
          Callers,      \* masters that call in; none if the worker does not listen
          Retained,     \* kCatalogRetainedFrames
          MaxQueued,    \* kMaximumQueuedTiles
          MaxFrames,    \* bound of the model: frames of any master
          Budget,       \* bound of the model: master -> frames it sends
          MaxFaults     \* bound of the model: connections that end or fail

ASSUME NoneAssumption == None \notin Peers \cup Sessions
ASSUME TilesAssumption == IsFiniteSet(Tiles)
ASSUME MastersAssumption == Called \subseteq Masters /\ Callers \subseteq Masters
ASSUME SizesAssumption == /\ Chunks \in Nat \ {0} /\ Retained \in Nat \ {0}
                          /\ MaxQueued \in Nat \ {0} /\ MaxFrames \in Nat /\ MaxFaults \in Nat
ASSUME BudgetAssumption == Budget \in [Masters -> 0 .. MaxFrames]

Frames == 0 .. MaxFrames - 1
Jobs == {j \in Masters \X Frames \X Tiles : j[2] < Budget[j[1]]}

VARIABLES
  slot,                 \* peer -> state of the transport's peer
  outbound,             \* outbound_peer
  byPeer,               \* sessions: peer -> session
  sess,                 \* session -> PeerSession
  store,                \* session -> BodyCatalogStore
  ctrl, data,           \* session -> packets under way to it
  job,                  \* <<master, frame, tile>> -> TileJob
  map,                  \* jobs: those the entries of the job map point to
  frame, ended,         \* master -> its next frame, and whether its last one is over
  faults

link == <<slot, outbound, byPeer, faults>>
channels == <<ctrl, data>>
master == <<frame, ended>>
vars == <<link, sess, store, channels, job, map, master>>

NoJob == [st |-> "none", sess |-> None, needs |-> FALSE, bodies |-> None, cancel |-> FALSE]
Unreleased == {"waiting", "queued", "render", "check", "send"}

(* A new PeerSession; who is at the other end and how the connection came    *)
(* about are facts the session only believes to know.  No frame seen is -1.  *)
Fresh(p, initiated, called, m) ==
  [peer |-> p, initiated |-> initiated, called |-> called, master |-> m, phase |-> "await",
   latest |-> -1, rekey |-> FALSE]
EmptyStore == [pending |-> <<>>, published |-> <<>>]

Init ==
  /\ slot = [p \in Peers |-> "free"] /\ outbound = None
  /\ byPeer = [p \in Peers |-> None]
  /\ \E p \in Peers : sess = [s \in Sessions |-> Fresh(p, FALSE, FALSE, None)]
  /\ store = [s \in Sessions |-> EmptyStore]
  /\ ctrl = [s \in Sessions |-> <<>>] /\ data = [s \in Sessions |-> <<>>]
  /\ job = [j \in Jobs |-> NoJob] /\ map = {}
  /\ frame = [m \in Masters |-> 0] /\ ended = [m \in Masters |-> TRUE] /\ faults = 0

Held(s) == \E p \in Peers : byPeer[p] = s
Open(s) == sess[s].phase # "closing"
Established(s) == Held(s) /\ sess[s].phase = "established"
Pending(j) == job[j].st \in Unreleased
Owned(s) == {j \in Jobs : job[j].sess = s /\ Pending(j)}
Waiting(s) == {j \in Owned(s) : job[j].st = "waiting"}
Fault == faults < MaxFaults /\ faults' = faults + 1

-----------------------------------------------------------------------------
(* What the handlers do to jobs.                                             *)

Cancel(jobs, f) == [j \in Jobs |-> IF j \in jobs THEN [f[j] EXCEPT !.cancel = TRUE] ELSE f[j]]
Release(jobs, f) == [j \in Jobs |-> IF j \in jobs THEN [NoJob EXCEPT !.st = "released"] ELSE f[j]]
(* A mistake: a job that is given up while it waits stays in the map.        *)
ReleaseKeepsEntry(jobs, f) == job' = Release(jobs, f) /\ UNCHANGED map

(* release_job of each of them: what has its key leaves the map.             *)
Key(j) == <<sess[job[j].sess].peer, j[2], j[3]>>
Without(jobs) == {x \in map : \A j \in jobs : Key(x) # Key(j)}
ReleaseAll(jobs, f) == job' = Release(jobs, f) /\ map' = Without(jobs)

(* What cancel_jobs finds in the map for a peer up to a frame; the unsigned  *)
(* number before frame 0 is the largest there is.                            *)
OfPeer(p) == {j \in map : sess[job[j].sess].peer = p}
UpToFrame(p, f) == {j \in OfPeer(p) : f < 0 \/ j[2] <= f}
CancelledWaiting(s, f) == {j \in Waiting(s) : f[j].cancel}

-----------------------------------------------------------------------------
(* Connections.                                                              *)

NewSession(s) == ~Held(s) /\ Owned(s) = {}

Connect(p) ==
  /\ Called # {} /\ outbound = None /\ slot[p] = "free"
  /\ slot' = [slot EXCEPT ![p] = "connecting"] /\ outbound' = p
  /\ UNCHANGED <<byPeer, faults, sess, store, channels, job, map, master>>

(* on_peer_connected, for a connection made or accepted.                     *)
Connected(p, s, called, m) ==
  /\ NewSession(s) /\ byPeer[p] = None
  /\ slot' = [slot EXCEPT ![p] = "connected"]
  /\ outbound' = IF outbound = p THEN None ELSE outbound
  /\ byPeer' = [byPeer EXCEPT ![p] = s]
  /\ sess' = [sess EXCEPT ![s] = Fresh(p, outbound = p, called, m)]
  /\ store' = [store EXCEPT ![s] = EmptyStore]
  /\ UNCHANGED <<faults, channels, job, map, master>>
Answered(p, s, m) == m \in Called /\ slot[p] = "connecting" /\ Connected(p, s, FALSE, m)
CallsIn(p, s, m) == m \in Callers /\ slot[p] = "free" /\ Connected(p, s, TRUE, m)

(* The next packet of the handshake is the one the session waits for: it     *)
(* cannot be if the session mistakes who called whom.                        *)
Authenticate(s) ==
  /\ Held(s) /\ sess[s].phase \in {"await", "proof"} /\ sess[s].initiated = ~sess[s].called
  /\ slot[sess[s].peer] = "connected"
  /\ sess' = [sess EXCEPT ![s].phase = IF @ = "await" THEN "proof" ELSE "established"]
  /\ UNCHANGED <<link, store, channels, job, map, master>>

(* close_session: cancels what runs and gives up what waits.                 *)
CloseSession(s) ==
  /\ Open(s)
  /\ sess' = [sess EXCEPT ![s].phase = "closing"]
  /\ ReleaseAll(Waiting(s), Cancel(OfPeer(sess[s].peer), job))

(* A handshake that fails or takes too long, a foreign ABI, a packet that is *)
(* malformed or of the wrong kind.                                           *)
Refuse(s) ==
  /\ Held(s) /\ slot[sess[s].peer] = "connected"
  /\ \/ Fault
     \/ sess[s].phase # "established" /\ sess[s].initiated = sess[s].called /\ UNCHANGED faults
  /\ CloseSession(s)
  /\ slot' = [slot EXCEPT ![sess[s].peer] = "closing"]
  /\ UNCHANGED <<outbound, byPeer, store, channels, master>>

Rekey(s) ==
  /\ Established(s) /\ sess[s].rekey
  /\ CloseSession(s)
  /\ slot' = [slot EXCEPT ![sess[s].peer] = "closing"]
  /\ UNCHANGED <<outbound, byPeer, faults, store, channels, master>>

(* The transport reports the end of a peer: of one that is closing, of one   *)
(* that is lost, or of an attempt that got no answer.                        *)
PeerEnds(p) ==
  /\ \/ slot[p] = "closing" /\ UNCHANGED faults
     \/ slot[p] \in {"connecting", "connected"} /\ Fault
  /\ slot' = [slot EXCEPT ![p] = "free"]
  /\ UNCHANGED <<outbound, master>>

Unknown(p) ==
  /\ byPeer[p] = None /\ PeerEnds(p)
  /\ UNCHANGED <<byPeer, sess, store, channels, job, map>>

Disconnected(p) ==
  /\ byPeer[p] # None /\ PeerEnds(p)
  /\ byPeer' = [byPeer EXCEPT ![p] = None]
  /\ store' = [store EXCEPT ![byPeer[p]] = EmptyStore]
  /\ ctrl' = [ctrl EXCEPT ![byPeer[p]] = <<>>] /\ data' = [data EXCEPT ![byPeer[p]] = <<>>]
  /\ \/ CloseSession(byPeer[p])
     \/ ~Open(byPeer[p]) /\ UNCHANGED <<sess, job, map>>

-----------------------------------------------------------------------------
(* Packets of an established session.                                        *)

(* A TaskAssignment; those sent before it that have not come are lost.  The  *)
(* first tile of a newer frame cancels what is left of the older ones.       *)
Newest(s, j) == j[2] > sess[s].latest
Superseded(s, j) == IF Newest(s, j) THEN UpToFrame(sess[s].peer, j[2] - 1) ELSE {}
Pruned(s, j) ==
  IF Newest(s, j) THEN CancelledWaiting(s, Cancel(Superseded(s, j), job)) ELSE {}
After(s, j) == Release(Pruned(s, j), Cancel(Superseded(s, j), job))

Ready(s, j, needs) == needs => j[2] \in Range(store[s].published)

TaskAssignment(s, i) ==
  LET j == data[s][i].job
  IN
  /\ Established(s)
  /\ data' = [data EXCEPT ![s] = SubSeq(@, i + 1, Len(@))]
  /\ sess' = [sess EXCEPT ![s].latest = IF j[2] > @ THEN j[2] ELSE @]
  /\ UNCHANGED <<link, store, ctrl, master>>

Reject(s, i) ==
  LET j == data[s][i].job
  IN
  /\ TaskAssignment(s, i)
  /\ Cardinality(Without(Pruned(s, j))) >= MaxQueued
  /\ job' = After(s, j) /\ map' = Without(Pruned(s, j))

(* emplace keeps the entry that is there under the key of the new job.       *)
Accept(s, i) ==
  LET j == data[s][i].job
      needs == data[s][i].needs
      ready == Ready(s, j, needs)
      left == Without(Pruned(s, j))
  IN
  /\ TaskAssignment(s, i)
  /\ Cardinality(left) < MaxQueued
  /\ job' = [After(s, j) EXCEPT ![j] =
       [st |-> IF ready THEN "queued" ELSE "waiting", sess |-> s, needs |-> needs,
        bodies |-> IF needs /\ ready THEN j[2] ELSE None, cancel |-> FALSE]]
  /\ map' = IF \E x \in left : Key(x) = <<sess[s].peer, j[2], j[3]>> THEN left ELSE left \cup {j}

(* A BodyCatalogChunk of a frame not published yet joins the others of its   *)
(* frame; the oldest incomplete catalogue makes room for a new one.          *)
Trim(q) == IF Len(q) > Retained THEN Tail(q) ELSE q
Others(q, f) == SelectSeq(q, LAMBDA c : c.frame # f)
Got(q, f) == UNION {c.got : c \in {d \in Range(q) : d.frame = f}}
Ingest(q, f, n) ==
  IF Got(q, f) = {} THEN Trim(Append(q, [frame |-> f, got |-> {n}]))
  ELSE [k \in DOMAIN q |-> IF q[k].frame = f THEN [q[k] EXCEPT !.got = @ \cup {n}] ELSE q[k]]

NextControl(s, kind) == Established(s) /\ ctrl[s] # <<>> /\ Head(ctrl[s]).kind = kind

Chunk(s) ==
  LET f == Head(ctrl[s]).frame
      n == Head(ctrl[s]).chunk
  IN
  /\ NextControl(s, "chunk")
  /\ f \notin Range(store[s].published)
  /\ Got(store[s].pending, f) \cup {n} # 1 .. Chunks
  /\ store' = [store EXCEPT ![s].pending = Ingest(@, f, n)]
  /\ ctrl' = [ctrl EXCEPT ![s] = Tail(@)]
  /\ UNCHANGED <<link, sess, data, job, map, master>>

(* The last chunk: the catalogue is published, and the jobs of its frame and *)
(* of earlier ones stop waiting, with the catalogue of their own frame if it *)
(* is still there and else with this one.                                    *)
DueOfAnyFrame(s, f) == Waiting(s)

Due(s, f) == {j \in Waiting(s) : j[2] <= f}

LastChunk(s) ==
  LET f == Head(ctrl[s]).frame
      n == Head(ctrl[s]).chunk
      published == Trim(Append(store[s].published, f))
      pruned == CancelledWaiting(s, job)
      launched == Due(s, f) \ pruned
  IN
  /\ NextControl(s, "chunk")
  /\ f \notin Range(store[s].published)
  /\ Got(store[s].pending, f) \cup {n} = 1 .. Chunks
  /\ store' = [store EXCEPT ![s] = [pending |-> Others(@.pending, f), published |-> published]]
  /\ ctrl' = [ctrl EXCEPT ![s] = Tail(@)]
  /\ ReleaseAll(pruned, [j \in Jobs |->
       IF j \in launched
         THEN [job[j] EXCEPT !.st = "queued",
                             !.bodies = IF j[2] \in Range(published) THEN j[2] ELSE f]
         ELSE job[j]])
  /\ UNCHANGED <<link, sess, data, master>>

(* TaskCancel of a whole frame.                                              *)
TaskCancel(s) ==
  /\ NextControl(s, "cancel")
  /\ job' = Cancel({j \in OfPeer(sess[s].peer) : j[2] = Head(ctrl[s]).frame}, job)
  /\ ctrl' = [ctrl EXCEPT ![s] = Tail(@)]
  /\ UNCHANGED <<link, sess, store, data, map, master>>

(* A mistake: only cancelled jobs stop waiting at the end of a turn.         *)
EndTurnForgetful(s, expired) ==
  /\ Established(s) /\ ~sess[s].rekey /\ CancelledWaiting(s, job) # {}
  /\ ReleaseAll(CancelledWaiting(s, job), job)
  /\ UNCHANGED <<link, sess, store, channels, master>>

(* The end of a turn of the event loop: cancelled jobs stop waiting, and so  *)
(* do those that have waited for too long.                                   *)
EndTurn(s, expired) ==
  LET given == expired \cup CancelledWaiting(s, job)
  IN
  /\ Established(s) /\ ~sess[s].rekey /\ given # {}
  /\ ReleaseAll(given, job)
  /\ UNCHANGED <<link, sess, store, channels, master>>

-----------------------------------------------------------------------------
(* execute_job, on a thread of the pool.                                     *)

Quits(j) == job[j].cancel \/ ~Open(job[j].sess)
At(j, st) == job[j].st = st
Go(j, st) == job' = [job EXCEPT ![j].st = st] /\ UNCHANGED map
GiveUp(j) == ReleaseAll({j}, job)

Begin(j) == At(j, "queued") /\ ~Quits(j) /\ Go(j, "render")
Skip(j) == At(j, "queued") /\ Quits(j) /\ GiveUp(j)
(* The renderer looks at the cancel flag now and then; it may also fail.     *)
Rendered(j) == At(j, "render") /\ (Go(j, "check") \/ GiveUp(j))

(* send_encrypted: the session is found open before its send mutex is had.   *)
FindOpen(j) == At(j, "check") /\ Open(job[j].sess) /\ Go(j, "send")
FindClosed(j) == At(j, "check") /\ ~Open(job[j].sess) /\ GiveUp(j)
Transmit(j) == At(j, "send") /\ GiveUp(j)
Execute(j) ==
  /\ \/ Begin(j) \/ Skip(j) \/ Rendered(j) \/ FindOpen(j) \/ FindClosed(j) \/ Transmit(j)
  /\ UNCHANGED <<link, sess, store, channels, master>>

(* The session has used up its packet numbers.                               *)
OutOfNumbers(j) ==
  /\ Fault /\ At(j, "send") /\ GiveUp(j)
  /\ sess' = [sess EXCEPT ![job[j].sess].rekey = TRUE]
  /\ UNCHANGED <<slot, outbound, byPeer, store, channels, master>>

-----------------------------------------------------------------------------
(* The masters, from dispatch_frame.                                         *)

Serving(m) ==
  {s \in Sessions : Established(s) /\ slot[sess[s].peer] = "connected" /\ sess[s].master = m}
Catalogue(f) == [n \in 1 .. Chunks |-> [kind |-> "chunk", frame |-> f, chunk |-> n]]
CancelFrame(f) == [kind |-> "cancel", frame |-> f, chunk |-> 0]
Assigned(plan, s) == {t \in Tiles : plan[t] = s}
Assignments(m, tiles, needs) ==
  LET order == SetToSeq(tiles)
  IN [k \in DOMAIN order |-> [job |-> <<m, frame[m], order[k]>>, needs |-> needs]]

(* broadcast_bodies_if_needed and send_remote_tasks, under pump_mutex_.      *)
SendFrame(m, plan, needs) ==
  /\ ended[m] /\ frame[m] < Budget[m]
  /\ ctrl' = [s \in Sessions |-> IF needs /\ s \in Serving(m) THEN ctrl[s] \o Catalogue(frame[m])
                                 ELSE ctrl[s]]
  /\ data' = [s \in Sessions |-> data[s] \o Assignments(m, Assigned(plan, s), needs)]
  /\ frame' = [frame EXCEPT ![m] = @ + 1] /\ ended' = [ended EXCEPT ![m] = FALSE]
  /\ UNCHANGED <<link, sess, store, job, map>>

EndFrame(m, complete) ==
  /\ ~ended[m] /\ ended' = [ended EXCEPT ![m] = TRUE]
  /\ ctrl' = [s \in Sessions |-> IF ~complete /\ s \in Serving(m)
                                   THEN Append(ctrl[s], CancelFrame(frame[m] - 1)) ELSE ctrl[s]]
  /\ UNCHANGED <<link, sess, store, data, job, map, frame>>

-----------------------------------------------------------------------------

Plans(m) == [Tiles -> Serving(m) \cup {None}]
Packet(s) ==
  \/ \E i \in 1 .. Len(data[s]) : Reject(s, i) \/ Accept(s, i)
  \/ Chunk(s) \/ LastChunk(s) \/ TaskCancel(s)
Turn(s) == Rekey(s) \/ \E expired \in SUBSET Waiting(s) : EndTurn(s, expired)
Master(m) ==
  \/ \E plan \in Plans(m), needs \in BOOLEAN : SendFrame(m, plan, needs)
  \/ \E complete \in BOOLEAN : EndFrame(m, complete)

Next ==
  \/ \E p \in Peers : Connect(p) \/ Unknown(p) \/ Disconnected(p)
  \/ \E p \in Peers, s \in Sessions, m \in Masters : Answered(p, s, m) \/ CallsIn(p, s, m)
  \/ \E s \in Sessions : Authenticate(s) \/ Refuse(s) \/ Packet(s) \/ Turn(s)
  \/ \E j \in Jobs : Execute(j) \/ OutOfNumbers(j)
  \/ \E m \in Masters : Master(m)

Spec == Init /\ [][Next]_vars

(* The pool runs, the event loop turns and connects, waits run out, and the  *)
(* transport ends what is closing; no master need send anything.             *)
FairSpec ==
  /\ Spec
  /\ \A j \in Jobs : WF_vars(Execute(j))
  /\ \A s \in Sessions : WF_vars(Rekey(s)) /\ WF_vars(EndTurn(s, Waiting(s)))
  /\ \A p \in Peers : WF_vars(slot[p] = "closing" /\ Disconnected(p))
  /\ WF_vars(\E p \in Peers : Connect(p))

-----------------------------------------------------------------------------

Phases == {"await", "proof", "established", "closing"}
SessionRecords == [peer : Peers, initiated : BOOLEAN, called : BOOLEAN,
                   master : Masters \cup {None}, phase : Phases,
                   latest : Frames \cup {-1}, rekey : BOOLEAN]
JobRecords == [st : Unreleased \cup {"none", "released"}, sess : Sessions \cup {None},
               needs : BOOLEAN, bodies : Frames \cup {None}, cancel : BOOLEAN]
Controls == [kind : {"chunk", "cancel"}, frame : Frames, chunk : 0 .. Chunks]
TaskPackets == [job : Jobs, needs : BOOLEAN]

TypeOK ==
  /\ slot \in [Peers -> {"free", "connecting", "connected", "closing"}]
  /\ outbound \in Peers \cup {None}
  /\ byPeer \in [Peers -> Sessions \cup {None}]
  /\ sess \in [Sessions -> SessionRecords]
  /\ ctrl \in [Sessions -> Seq(Controls)] /\ data \in [Sessions -> Seq(TaskPackets)]
  /\ job \in [Jobs -> JobRecords] /\ map \subseteq Jobs
  /\ frame \in [Masters -> 0 .. MaxFrames] /\ ended \in [Masters -> BOOLEAN]
  /\ \A m \in Masters : ~ended[m] => frame[m] > 0

(* What the job map points to is not over, so it cannot fill up with jobs    *)
(* that are.  A job whose session is over no longer waits, and runs on, if   *)
(* the map has it, only because nobody has looked at its cancel flag yet.    *)
NothingOver == \A j \in map : Pending(j)
EndedGiveUp ==
  \A j \in Jobs : Pending(j) /\ (~Held(job[j].sess) \/ ~Open(job[j].sess)) =>
    job[j].st # "waiting" /\ (job[j].cancel \/ j \notin map)

(* A cancellation finds a job by its entry.  A job that has none, or loses   *)
(* it before it is over, has a twin that is not over either: the job another *)
(* master gave the number of the same frame and tile, over the same peer.    *)
Escaped(j) == Pending(j) /\ j \notin map
OnlyTwinsEscape ==
  \A j \in Jobs : Escaped(j)' =>
    Escaped(j) \/ \E k \in Jobs \ {j} : Pending(k) /\ Key(k) = Key(j)'
JobsTracked == [](NothingOver /\ EndedGiveUp) /\ [][OnlyTwinsEscape]_vars

(* An answer its master would still take was rendered with the bodies of its *)
(* own frame, although the catalogue comes over another channel, is kept for *)
(* a few frames only, and a job that has waited takes what there is.         *)
RightBodies ==
  \A j \in Jobs :
    job[j].st \in {"render", "check", "send"} /\ job[j].needs
      /\ j[2] = frame[j[1]] - 1 /\ ~ended[j[1]] =>
        job[j].bodies = j[2]

(* Every job that is accepted is over in the end: answered, given up with    *)
(* its session or its frame, or after it has waited for too long.            *)
JobsEnd == \A j \in Jobs : Pending(j) ~> ~Pending(j)

(* docs/CLI_REFERENCE.md: the master's endpoint is retried automatically.    *)
(* Without a connection to it, or one being made, the worker tries again.    *)
Linked == \E p \in Peers :
  \/ slot[p] = "connecting"
  \/ slot[p] \in {"connected", "closing"} /\ byPeer[p] # None /\ sess[byPeer[p]].initiated
MasterRetried == ~Linked ~> Linked
=============================================================================
