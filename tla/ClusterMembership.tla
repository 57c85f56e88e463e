-------------------------- MODULE ClusterMembership --------------------------
(* Which workers a master may give work to: the node registry, the sessions  *)
(* that authenticate them and the transport peers underneath, as the pump    *)
(* thread of ClusterOrchestrator moves them under pump_mutex_.               *)
(*                                                                           *)
(* A node is known by its endpoint, for the registry holds one node for each *)
(* and never drops one.  A session is an object of its own, for two maps     *)
(* refer to it, by peer and by node, and they are updated apart.  The        *)
(* transport is a library: a peer slot is taken by connect() or by a worker  *)
(* that calls in, and given back with a Disconnected event, or without one   *)
(* when a connection that is not established yet is cut.                     *)
(* Time is abstract: any silence may exceed a timeout.                       *)
EXTENDS Integers, FiniteSets

CONSTANTS Nodes,       \* worker endpoints
          Managed,     \* those the configuration lists or discovery found
          Slots,       \* peers of the transport
          Sessions,    \* identities of session objects
          None,
          MaxNodes,    \* kMaximumClusterNodes
          MaxTasks,    \* bound of the model: tiles sent to a node in a frame
          MaxFaults    \* bound of the model: calls of workers, losses, timeouts,
                       \* refusals and restarts

ASSUME ManagedAssumption == Managed \subseteq Nodes
ASSUME NoneAssumption == None \notin Nodes \cup Slots \cup Sessions
ASSUME BoundsAssumption == MaxTasks \in Nat /\ MaxFaults \in Nat

VARIABLES
  known,        \* nodes_: registered endpoints
  state,        \* node -> NodeState
  peer,         \* node -> peer_identifier_
  load,         \* node -> in_flight_tasks_
  peerIndex,    \* peer_index_: slot -> node
  sess,         \* session -> MasterPeerSession
  byPeer,       \* sessions_by_peer_
  byNode,       \* sessions_by_node_
  slot,         \* slot -> state of the transport's peer
  remote,       \* slot -> the endpoint at the other end
  tasks,        \* node -> tiles sent in this frame and not answered
  faults

registry == <<known, state, peer, load, peerIndex>>
sessions == <<sess, byPeer, byNode>>
transport == <<slot, remote>>
vars == <<registry, sessions, transport, tasks, faults>>

AcceptsWork == {"Ready", "Computing"}
Serving == {"Ready", "Computing", "Stalled"}
States == Serving \cup {"Disconnected", "Unauthenticated"}

TypeOK ==
  /\ known \subseteq Nodes
  /\ state \in [Nodes -> States]
  /\ peer \in [Nodes -> Slots \cup {None}]
  /\ load \in [Nodes -> 0 .. MaxTasks]
  /\ peerIndex \in [Slots -> Nodes \cup {None}]
  /\ sess \in [Sessions -> [peer : Slots, node : Nodes \cup {None},
                            initiated : BOOLEAN, auth : BOOLEAN]]
  /\ byPeer \in [Slots -> Sessions \cup {None}]
  /\ byNode \in [Nodes -> Sessions \cup {None}]
  /\ slot \in [Slots -> {"free", "connecting", "connected", "closing"}]
  /\ remote \in [Slots -> Nodes \cup {None}]
  /\ tasks \in [Nodes -> 0 .. MaxTasks]
  /\ faults \in 0 .. MaxFaults

(* A node that is not known yet has the values register_node gives it.       *)
Init ==
  /\ known = {}
  /\ state = [n \in Nodes |-> "Disconnected"]
  /\ peer = [n \in Nodes |-> None]
  /\ load = [n \in Nodes |-> 0]
  /\ peerIndex = [p \in Slots |-> None]
  /\ \E p \in Slots : sess = [s \in Sessions |->
                        [peer |-> p, node |-> None, initiated |-> FALSE, auth |-> FALSE]]
  /\ byPeer = [p \in Slots |-> None]
  /\ byNode = [n \in Nodes |-> None]
  /\ slot = [p \in Slots |-> "free"]
  /\ remote = [p \in Slots |-> None]
  /\ tasks = [n \in Nodes |-> 0]
  /\ faults = 0

Fault == faults < MaxFaults /\ faults' = faults + 1

NewSession(s) == \A p \in Slots : byPeer[p] # s /\ \A n \in Nodes : byNode[n] # s
Own(p) == byPeer[p] # None
At(p) == sess[byPeer[p]]
Live(n) == byNode[n] # None /\ sess[byNode[n]].auth /\ slot[sess[byNode[n]].peer] = "connected"

-----------------------------------------------------------------------------
(* ensure_connection.                                                        *)

Registrable(n) == n \in known \/ Cardinality(known) < MaxNodes
NeedsConnection(n) == state[n] = "Disconnected" /\ peer[n] = None

CanBind(n, p) == peerIndex[p] \in {None, n}

(* bind_peer with the entry of the node's previous peer, on_transport_connected *)
Bind(n, p) ==
  /\ peerIndex' = [q \in Slots |-> IF q = p THEN n ELSE IF q = peer[n] THEN None ELSE peerIndex[q]]
  /\ peer' = [peer EXCEPT ![n] = p]

EnsureConnection(n, p, s) ==
  /\ n \in Managed /\ Registrable(n) /\ NeedsConnection(n)
  /\ slot[p] = "free" /\ CanBind(n, p) /\ NewSession(s)
  /\ known' = known \cup {n}
  /\ Bind(n, p)
  /\ state' = [state EXCEPT ![n] = "Unauthenticated"]
  /\ slot' = [slot EXCEPT ![p] = "connecting"]
  /\ remote' = [remote EXCEPT ![p] = n]
  /\ sess' = [sess EXCEPT ![s] = [peer |-> p, node |-> n, initiated |-> TRUE, auth |-> FALSE]]
  /\ byPeer' = [byPeer EXCEPT ![p] = s]
  /\ byNode' = [byNode EXCEPT ![n] = s]
  /\ UNCHANGED <<load, tasks, faults>>

(* No peer can be had, or the one that is had is bound to another node and   *)
(* dropped at once: the node stays registered.                               *)
ConnectFails(n) ==
  /\ n \in Managed /\ n \notin known /\ Registrable(n)
  /\ known' = known \cup {n}
  /\ UNCHANGED <<state, peer, load, peerIndex, sessions, transport, tasks, faults>>

-----------------------------------------------------------------------------
(* Transport events.                                                         *)

(* on_peer_connected: the session of an outgoing connection exists; a worker *)
(* that calls in gets one that belongs to no node yet.                       *)
Connected(p, s) ==
  /\ slot' = [slot EXCEPT ![p] = "connected"]
  /\ IF Own(p) THEN UNCHANGED <<sess, byPeer>>
     ELSE /\ NewSession(s)
          /\ sess' = [sess EXCEPT ![s] =
                        [peer |-> p, node |-> None, initiated |-> FALSE, auth |-> FALSE]]
          /\ byPeer' = [byPeer EXCEPT ![p] = s]
  /\ UNCHANGED <<registry, byNode, tasks>>

Answered(p, s) ==
  /\ slot[p] = "connecting"
  /\ Connected(p, s)
  /\ UNCHANGED <<remote, faults>>

(* A worker given --master-address keeps one connection, from one socket.    *)
(* The slot may be one a node is still bound to whose attempt was cut.       *)
CallsIn(n, p, s) ==
  /\ slot[p] = "free"
  /\ \A q \in Slots : remote[q] = n => (Own(q) /\ At(q).initiated)
  /\ remote' = [remote EXCEPT ![p] = n]
  /\ Connected(p, s) /\ Fault

(* on_peer_disconnected.  The node released is the one the peer was bound    *)
(* to, its tiles are taken back, and no result of theirs can come any more.  *)
(* Two mistakes: the registry is not told; sessions_by_node_ is forgotten.   *)
ReleaseKeepsBinding(p) == UNCHANGED <<state, peer, load, peerIndex, tasks>>
ReleasePeer(p) ==
  LET n == peerIndex[p] IN
  IF n = None THEN UNCHANGED <<state, peer, load, peerIndex, tasks>>
  ELSE /\ peerIndex' = [peerIndex EXCEPT ![p] = None]
       /\ peer' = [peer EXCEPT ![n] = None]
       /\ load' = [load EXCEPT ![n] = 0]
       /\ state' = [state EXCEPT ![n] = "Disconnected"]
       /\ tasks' = [tasks EXCEPT ![n] = 0]

DisconnectedForgetsNode(p) ==
  /\ slot[p] # "free"
  /\ IF slot[p] = "closing" THEN UNCHANGED faults ELSE Fault
  /\ slot' = [slot EXCEPT ![p] = "free"]
  /\ remote' = [remote EXCEPT ![p] = None]
  /\ byPeer' = [byPeer EXCEPT ![p] = None]
  /\ ReleasePeer(p)
  /\ UNCHANGED <<known, sess, byNode>>
Disconnected(p) ==
  /\ slot[p] # "free"
  /\ IF slot[p] = "closing" THEN UNCHANGED faults ELSE Fault
  /\ slot' = [slot EXCEPT ![p] = "free"]
  /\ remote' = [remote EXCEPT ![p] = None]
  /\ byNode' = [n \in Nodes |-> IF Own(p) /\ At(p).node = n /\ byNode[n] = byPeer[p]
                                  THEN None ELSE byNode[n]]
  /\ byPeer' = [byPeer EXCEPT ![p] = None]
  /\ ReleasePeer(p)
  /\ UNCHANGED <<known, sess>>

-----------------------------------------------------------------------------
(* Packets.  A packet is looked at only if its peer has a session.           *)

Receives(p) == slot[p] = "connected" /\ Own(p)

(* handle_handshake_packet: the keys agree.                                  *)
Authenticate(p) ==
  /\ Receives(p) /\ ~At(p).auth
  /\ sess' = [sess EXCEPT ![byPeer[p]].auth = TRUE]
  /\ UNCHANGED <<registry, byPeer, byNode, transport, tasks, faults>>

(* close_session: they do not, too many packets fail their tag, or the keys  *)
(* have been used long enough.  The maps keep the session until the event.   *)
Close(p) == slot' = [slot EXCEPT ![p] = "closing"]
CloseSession(p) ==
  /\ Receives(p) /\ Fault
  /\ Close(p)
  /\ UNCHANGED <<registry, sessions, remote, tasks>>

(* CapabilitiesAdvertisement of a worker that called in.  Its endpoint must  *)
(* be new to the registry.                                                   *)
MayRegister(n) == n \notin known /\ Cardinality(known) < MaxNodes

Refuse(p) ==
  /\ Receives(p) /\ At(p).auth /\ At(p).node = None
  /\ ~MayRegister(remote[p])
  /\ Close(p)
  /\ UNCHANGED <<registry, sessions, remote, tasks, faults>>

(* accept_advertisement, and the steps to Ready or to a refusal.  A mistake: *)
(* the session of a worker that is refused is not closed.                    *)
VerdictKeepsConnection(n, p, ok) ==
  IF ok THEN /\ state' = [state EXCEPT ![n] = "Ready"]
             /\ UNCHANGED <<slot, faults>>
  ELSE /\ Fault
       /\ state' = [state EXCEPT ![n] = "Disconnected"]
       /\ UNCHANGED slot
Verdict(n, p, ok) ==
  IF ok THEN /\ state' = [state EXCEPT ![n] = "Ready"]
             /\ UNCHANGED <<slot, faults>>
  ELSE /\ Fault
       /\ state' = [state EXCEPT ![n] = "Disconnected"]
       /\ Close(p)

(* A worker that called in joins.  bind_peer fails if its peer is still the  *)
(* one of another node, and its answer is not looked at.  A mistake: the     *)
(* peer of the worker is never bound.                                        *)
JoinUnbound(p, ok) ==
  LET n == remote[p] IN
  /\ Receives(p) /\ At(p).auth /\ At(p).node = None
  /\ MayRegister(n)
  /\ known' = known \cup {n}
  /\ sess' = [sess EXCEPT ![byPeer[p]].node = n]
  /\ byNode' = [byNode EXCEPT ![n] = byPeer[p]]
  /\ Verdict(n, p, ok)
  /\ UNCHANGED <<load, peer, peerIndex, byPeer, remote, tasks>>
Join(p, ok) ==
  LET n == remote[p] IN
  /\ Receives(p) /\ At(p).auth /\ At(p).node = None
  /\ MayRegister(n)
  /\ known' = known \cup {n}
  /\ sess' = [sess EXCEPT ![byPeer[p]].node = n]
  /\ byNode' = [byNode EXCEPT ![n] = byPeer[p]]
  /\ IF CanBind(n, p) THEN Bind(n, p) ELSE UNCHANGED <<peer, peerIndex>>
  /\ Verdict(n, p, ok)
  /\ UNCHANGED <<load, byPeer, remote, tasks>>

(* The advertisement of the worker an outgoing connection reached; one that  *)
(* is repeated finds another state and does nothing.                         *)
Admit(p, ok) ==
  /\ Receives(p) /\ At(p).auth /\ At(p).node # None
  /\ state[At(p).node] = "Unauthenticated"
  /\ Verdict(At(p).node, p, ok)
  /\ UNCHANGED <<known, peer, load, peerIndex, sessions, remote, tasks>>

(* HeartbeatPong of a stalled node.  Two mistakes: the tiles it was charged  *)
(* with stay on its account; it must have none for the pong to count.        *)
PongKeepsLoad(p) ==
  /\ Receives(p) /\ At(p).auth /\ At(p).node # None
  /\ state[At(p).node] = "Stalled"
  /\ state' = [state EXCEPT ![At(p).node] = "Ready"]
  /\ UNCHANGED <<known, peer, load, peerIndex, sessions, transport, tasks, faults>>
PongIfIdle(p) ==
  /\ Receives(p) /\ At(p).auth /\ At(p).node # None
  /\ state[At(p).node] = "Stalled" /\ load[At(p).node] = 0
  /\ state' = [state EXCEPT ![At(p).node] = "Ready"]
  /\ UNCHANGED <<known, peer, load, peerIndex, sessions, transport, tasks, faults>>

Pong(p) ==
  /\ Receives(p) /\ At(p).auth /\ At(p).node # None
  /\ state[At(p).node] = "Stalled"
  /\ load' = [load EXCEPT ![At(p).node] = 0]
  /\ state' = [state EXCEPT ![At(p).node] = "Ready"]
  /\ UNCHANGED <<known, peer, peerIndex, sessions, transport, tasks, faults>>

(* A mistake: an unsigned count that is not looked at before it is lowered.  *)
LessUnchecked(k) == k - 1

Less(k) == IF k > 0 THEN k - 1 ELSE 0

(* TileResultData that complete_remote accepts, in time or not:              *)
(* register_completion.                                                      *)
TileResult(p) ==
  LET n == At(p).node
      left == Less(load[n])
  IN
  /\ Receives(p) /\ At(p).auth /\ n # None
  /\ tasks[n] > 0
  /\ tasks' = [tasks EXCEPT ![n] = @ - 1]
  /\ load' = [load EXCEPT ![n] = left]
  /\ state' = [state EXCEPT ![n] = CASE @ = "Stalled" -> IF left > 0 THEN "Computing" ELSE "Ready"
                                     [] @ = "Computing" /\ left = 0 -> "Ready"
                                     [] OTHER -> @]
  /\ UNCHANGED <<known, peer, peerIndex, sessions, transport, faults>>

(* One that comes after the tile was completed here: register_late_result,   *)
(* and the count of tiles in flight stays.                                   *)
TileIgnored(p) ==
  /\ Receives(p) /\ At(p).auth /\ At(p).node # None
  /\ tasks[At(p).node] > 0
  /\ tasks' = [tasks EXCEPT ![At(p).node] = @ - 1]
  /\ UNCHANGED <<registry, sessions, transport, faults>>

-----------------------------------------------------------------------------
(* detect_timeouts: nodes that have been silent, then sessions that never    *)
(* got as far as a node.  disconnect() of an established peer ends with an   *)
(* event; a connection still being made is dropped and tells nobody.  A node *)
(* without a session is sent no ping, so its silence is not a fault.         *)
DetectTimeouts(silent, stuck) ==
  LET lost == {byNode[n] : n \in silent} \ {None}
      cut == {sess[s].peer : s \in lost}
  IN
  /\ silent \cup stuck # {}
  /\ IF lost = {} /\ stuck = {} THEN UNCHANGED faults ELSE Fault
  /\ \A n \in silent : n \in known /\ state[n] # "Disconnected"
  /\ \A p \in stuck : Own(p) /\ At(p).node = None
  /\ state' = [n \in Nodes |-> IF n \in silent THEN "Disconnected" ELSE state[n]]
  /\ load' = [n \in Nodes |-> IF n \in silent THEN 0 ELSE load[n]]
  /\ tasks' = [n \in Nodes |-> IF n \in silent THEN 0 ELSE tasks[n]]
  /\ byNode' = [n \in Nodes |-> IF n \in silent THEN None ELSE byNode[n]]
  /\ byPeer' = [p \in Slots |-> IF p \in cut \cup stuck THEN None ELSE byPeer[p]]
  /\ slot' = [p \in Slots |-> IF p \in stuck \/ (p \in cut /\ slot[p] = "connecting") THEN "free"
                              ELSE IF p \in cut /\ slot[p] # "free" THEN "closing" ELSE slot[p]]
  /\ remote' = [p \in Slots |-> IF slot'[p] = "free" THEN None ELSE remote[p]]
  /\ UNCHANGED <<known, peer, peerIndex, sess>>

-----------------------------------------------------------------------------
(* Frames, as far as a node's record goes.                                   *)

(* A task sent over the node's session, then register_dispatch, which counts *)
(* it unless the node stalled in between.                                    *)
Dispatch(n) ==
  /\ state[n] \in Serving /\ Live(n) /\ tasks[n] < MaxTasks /\ load[n] < MaxTasks
  /\ tasks' = [tasks EXCEPT ![n] = @ + 1]
  /\ IF state[n] \in AcceptsWork
       THEN /\ load' = [load EXCEPT ![n] = @ + 1]
            /\ state' = [state EXCEPT ![n] = "Computing"]
       ELSE UNCHANGED <<state, load>>
  /\ UNCHANGED <<known, peer, peerIndex, sessions, transport, faults>>

(* register_deadline_miss, for a tile or for a compute unit, which was never *)
(* counted.  The thread that calls it does not hold pump_mutex_.             *)
DeadlineMiss(n) ==
  /\ state[n] \in AcceptsWork \/ load[n] > 0
  /\ load' = [load EXCEPT ![n] = Less(@)]
  /\ state' = [state EXCEPT ![n] = IF @ \in AcceptsWork THEN "Stalled" ELSE @]
  /\ UNCHANGED <<known, peer, peerIndex, sessions, transport, tasks, faults>>

(* The end of dispatch_frame: release_in_flight on every node.               *)
FrameEnds ==
  /\ \E n \in Nodes : tasks[n] > 0 \/ load[n] > 0
  /\ load' = [n \in Nodes |-> 0]
  /\ tasks' = [n \in Nodes |-> 0]
  /\ state' = [n \in Nodes |-> IF state[n] = "Computing" THEN "Ready" ELSE state[n]]
  /\ UNCHANGED <<known, peer, peerIndex, sessions, transport, faults>>

(* shutdown(), then start() again.                                           *)
Restart ==
  /\ Fault /\ known # {}
  /\ known' = {}
  /\ state' = [n \in Nodes |-> "Disconnected"]
  /\ peer' = [n \in Nodes |-> None]
  /\ load' = [n \in Nodes |-> 0]
  /\ peerIndex' = [p \in Slots |-> None]
  /\ byPeer' = [p \in Slots |-> None]
  /\ byNode' = [n \in Nodes |-> None]
  /\ slot' = [p \in Slots |-> "free"]
  /\ remote' = [p \in Slots |-> None]
  /\ tasks' = [n \in Nodes |-> 0]
  /\ UNCHANGED sess

-----------------------------------------------------------------------------

Maintain(n) == ConnectFails(n) \/ \E p \in Slots, s \in Sessions : EnsureConnection(n, p, s)
EventOf(p) ==
  \/ Disconnected(p)
  \/ \E s \in Sessions : Answered(p, s) \/ \E n \in Nodes : CallsIn(n, p, s)
PacketOf(p) ==
  \/ Authenticate(p) \/ CloseSession(p) \/ Refuse(p) \/ Pong(p)
  \/ TileResult(p) \/ TileIgnored(p)
  \/ \E ok \in BOOLEAN : Join(p, ok) \/ Admit(p, ok)
Frames == FrameEnds \/ \E n \in Nodes : Dispatch(n) \/ DeadlineMiss(n)

Next ==
  \/ \E n \in Nodes : Maintain(n)
  \/ \E p \in Slots : EventOf(p) \/ PacketOf(p)
  \/ \E silent \in SUBSET Nodes, stuck \in SUBSET Slots : DetectTimeouts(silent, stuck)
  \/ Frames
  \/ Restart

Spec == Init /\ [][Next]_vars

(* The pump thread goes on, the transport ends what is closing, and a worker *)
(* that is up answers; a node no ping is sent to falls silent.  Nobody owes  *)
(* a call from a worker or a frame.                                          *)
FairSpec ==
  /\ Spec
  /\ \A n \in Managed : WF_vars(\E p \in Slots, s \in Sessions : EnsureConnection(n, p, s))
  /\ \A p \in Slots :
       /\ WF_vars(\E s \in Sessions : Answered(p, s))
       /\ WF_vars(slot[p] = "closing" /\ Disconnected(p))
       /\ WF_vars(Authenticate(p))
       /\ WF_vars(Join(p, TRUE) \/ Admit(p, TRUE) \/ Refuse(p))
       /\ WF_vars(Pong(p))
  /\ \A n \in Nodes : WF_vars(byNode[n] = None /\ DetectTimeouts({n}, {}))

-----------------------------------------------------------------------------

(* The four indexes tell one story: a node and its peer name each other, a   *)
(* session is filed under its own peer, and the session filed under a node   *)
(* is that node's and is the one its peer's packets go to.                   *)
IndexesAgree ==
  /\ \A n \in Nodes, p \in Slots : peer[n] = p <=> peerIndex[p] = n
  /\ \A p \in Slots : Own(p) => At(p).peer = p
  /\ \A n \in Nodes : byNode[n] # None =>
       /\ sess[byNode[n]].node = n
       /\ byPeer[sess[byNode[n]].peer] = byNode[n]

(* A node is detached when it timed out and its event is still to come.  It  *)
(* is stranded when none is: the attempt to connect to it was cut, and its   *)
(* binding stays for good.  The run of membership_slow reaches that state.   *)
Detached(n) == state[n] = "Disconnected" /\ byNode[n] = None /\ peer[n] # None
Stranded(n) == Detached(n) /\ slot[peer[n]] # "closing"

(* No two peers have a session of the same node, unless one of them is on    *)
(* its way out.                                                              *)
OneSessionPerNode ==
  \A p, q \in Slots :
    (p # q /\ Own(p) /\ Own(q) /\ At(p).node # None /\ At(p).node = At(q).node)
      => "closing" \in {slot[p], slot[q]}

(* A node that may be given work over a peer has the authenticated session   *)
(* of that very peer, whatever was erased or replaced since.  None becomes   *)
(* one that serves without a peer, whose loss nobody would notice before its *)
(* timeout, except a worker that called in on the peer of a detached node.   *)
ServesOverItsPeer(n) ==
  (state[n] \in Serving /\ peer[n] # None) =>
    /\ byNode[n] # None /\ sess[byNode[n]].auth
    /\ peer[n] = sess[byNode[n]].peer
    /\ slot[peer[n]] \in {"connected", "closing"}
Unbound(n) == state[n] \in Serving /\ peer[n] = None
Usurps(n) ==
  \E p \in Slots : Own(p) /\ remote[p] = n /\ peerIndex[p] # None /\ Detached(peerIndex[p])
BindsFirst == \A n \in Nodes : Unbound(n)' => (Unbound(n) \/ Usurps(n))
ServingHasSession == [](\A n \in Nodes : ServesOverItsPeer(n)) /\ [][BindsFirst]_vars

(* A node is bound to a peer that is in use, for this very node, unless its  *)
(* attempt to connect was cut: no node that counts, and none whose session   *)
(* is still filed, is bound to a peer the transport took back.               *)
BindingIsLive ==
  \A n \in Nodes : peer[n] # None =>
    \/ slot[peer[n]] # "free" /\ remote[peer[n]] = n
    \/ Detached(n)

(* Misses, late results and pongs each lower the count their own way, and    *)
(* still the state says whether the count is zero.                           *)
LoadMatchesState ==
  \A n \in Nodes :
    /\ state[n] = "Computing" => load[n] > 0
    /\ state[n] \notin {"Computing", "Stalled"} => load[n] = 0

(* What these rest on.                                                       *)
Occupied == \A p \in Slots : slot[p] = "free" <=> remote[p] = None
UnknownIsBlank ==
  \A n \in Nodes \ known : state[n] = "Disconnected" /\ peer[n] = None /\ byNode[n] = None

(* Whatever refers to a peer that the transport has given up is on its way   *)
(* out or belongs to a detached node.                                        *)
Loose(p) == peerIndex[p] # None /\ Detached(peerIndex[p])
StandsAt(p) ==
  Own(p) =>
    /\ slot[p] # "free"
    /\ At(p).node # None => (peer[At(p).node] = p \/ Loose(p) \/ slot[p] = "closing")
    /\ At(p).node = None => (peerIndex[p] = None \/ Loose(p))
    /\ (At(p).node # None /\ slot[p] # "closing") =>
         (state[At(p).node] # "Disconnected" /\ byNode[At(p).node] = byPeer[p])
ConnectsFor(p) == slot[p] = "connecting" => Own(p) /\ At(p).node # None /\ peer[At(p).node] = p
Awaits(n) == state[n] = "Unauthenticated" => byNode[n] # None /\ peer[n] = sess[byNode[n]].peer
Standing ==
  /\ \A p \in Slots : StandsAt(p) /\ ConnectsFor(p)
  /\ \A n \in Nodes : Awaits(n)

(* node_N enabled "activates connection management": a lost node of the      *)
(* configuration can be connected again, now or after an event still to come.*)
LostCanReturn ==
  \A n \in Managed : (state[n] = "Disconnected" /\ peer[n] # None) => slot[peer[n]] = "closing"

(* --master-address is "retried automatically": a worker the master does not *)
(* connect to, that calls in again and authenticates itself, may join while  *)
(* its node counts as disconnected and has no other connection.              *)
RetryIsWelcome ==
  \A p \in Slots :
    LET n == remote[p] IN
    (/\ Receives(p) /\ At(p).auth /\ At(p).node = None
     /\ n \notin Managed /\ state[n] = "Disconnected" /\ peer[n] = None)
      => MayRegister(n)

(* A configured worker that is up gets work again and again, whatever was    *)
(* lost, timed out or refused before, until an attempt to connect to it is   *)
(* cut.                                                                      *)
ManagedServes ==
  \A n \in Managed : []<>((state[n] \in AcceptsWork /\ Live(n)) \/ Stranded(n))

(* A node that missed a deadline is not left aside for ever.                 *)
StallEnds == \A n \in Nodes : state[n] = "Stalled" ~> state[n] # "Stalled"
=============================================================================
