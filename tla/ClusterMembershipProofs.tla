----------------------- MODULE ClusterMembershipProofs -----------------------
(* What ClusterMembership promises for every number of workers, peers and    *)
(* sessions.  Base holds whatever the indexes say; IInv adds how the four    *)
(* hang together, and Standing what may still refer to a peer the transport  *)
(* has given up: a session on its way out or a detached node.                *)
EXTENDS ClusterMembership, TLAPS

Serves == \A n \in Nodes : ServesOverItsPeer(n)

Base == TypeOK /\ Occupied /\ UnknownIsBlank /\ LoadMatchesState

IInv == Base /\ IndexesAgree /\ Serves /\ BindingIsLive /\ Standing

-----------------------------------------------------------------------------
(* Types.  Join puts the far end of a peer in the registry, so the peers'    *)
(* far ends belong here.                                                     *)

LEMMA TypeInit == Init => TypeOK /\ Occupied
  BY BoundsAssumption DEF Init, TypeOK, Occupied, States, Serving

LEMMA TypeConnected ==
  ASSUME TypeOK, NEW p \in Slots, NEW s \in Sessions, Connected(p, s),
         remote' \in [Slots -> Nodes \cup {None}], faults' \in 0 .. MaxFaults
  PROVE  TypeOK'
<1>1. CASE Own(p)
  BY <1>1 DEF TypeOK, Connected, registry
<1>2. CASE ~Own(p)
  <2> DEFINE fresh == [peer |-> p, node |-> None, initiated |-> FALSE, auth |-> FALSE]
  <2>a. fresh \in [peer : Slots, node : Nodes \cup {None}, initiated : BOOLEAN, auth : BOOLEAN]
    OBVIOUS
  <2>b. sess' = [sess EXCEPT ![s] = fresh]
    BY <1>2 DEF Connected
  <2>1. sess' \in [Sessions -> [peer : Slots, node : Nodes \cup {None}, initiated : BOOLEAN, auth : BOOLEAN]]
    <3> HIDE DEF fresh
    <3> QED
      BY <2>a, <2>b DEF TypeOK
  <2>2. byPeer' \in [Slots -> Sessions \cup {None}]
    BY <1>2 DEF TypeOK, Connected
  <2> QED
    BY <2>1, <2>2 DEF TypeOK, Connected, registry
<1> QED
  BY <1>1, <1>2

LEMMA TypeJoin ==
  ASSUME TypeOK, Occupied, NEW p \in Slots, NEW ok \in BOOLEAN, Join(p, ok)
  PROVE  TypeOK'
<1> USE DEF TypeOK
<1>1. remote[p] \in Nodes
  BY DEF Join, Receives, Occupied
<1>2. known' \subseteq Nodes /\ byNode' \in [Nodes -> Sessions \cup {None}]
  BY <1>1 DEF Join, Receives, Own
<1>3. sess' \in [Sessions -> [peer : Slots, node : Nodes \cup {None}, initiated : BOOLEAN, auth : BOOLEAN]]
  BY <1>1 DEF Join, Receives, Own
<1>4. peer' \in [Nodes -> Slots \cup {None}] /\ peerIndex' \in [Slots -> Nodes \cup {None}]
  BY <1>1 DEF Join, Bind
<1>5. state' \in [Nodes -> States] /\ faults' \in 0 .. MaxFaults
  BY <1>1, BoundsAssumption DEF Join, Verdict, Fault, States, Serving
<1>6. slot' \in [Slots -> {"free", "connecting", "connected", "closing"}]
  BY DEF Join, Verdict, Close
<1> QED
  BY <1>2, <1>3, <1>4, <1>5, <1>6 DEF Join

LEMMA TypeDetectTimeouts ==
  ASSUME TypeOK, NEW silent \in SUBSET Nodes, NEW stuck \in SUBSET Slots, DetectTimeouts(silent, stuck)
  PROVE  TypeOK'
<1> USE BoundsAssumption DEF TypeOK, DetectTimeouts, States, Serving
<1>1. state' \in [Nodes -> States]
  OBVIOUS
<1>6. faults' \in 0 .. MaxFaults
  <2> HIDE DEF DetectTimeouts, TypeOK
  <2>1. faults' = faults \/ Fault
    BY Zenon DEF DetectTimeouts
  <2> QED
    BY <2>1 DEF TypeOK, Fault
<1>2. load' \in [Nodes -> 0 .. MaxTasks] /\ tasks' \in [Nodes -> 0 .. MaxTasks]
  OBVIOUS
<1>3. byPeer' \in [Slots -> Sessions \cup {None}] /\ byNode' \in [Nodes -> Sessions \cup {None}]
  OBVIOUS
<1>4. slot' \in [Slots -> {"free", "connecting", "connected", "closing"}]
  OBVIOUS
<1>5. remote' \in [Slots -> Nodes \cup {None}]
  OBVIOUS
<1> QED
  BY <1>1, <1>2, <1>3, <1>4, <1>5, <1>6

LEMMA TypeDisconnected ==
  ASSUME TypeOK, NEW p \in Slots, Disconnected(p)
  PROVE  TypeOK'
<1> USE BoundsAssumption DEF TypeOK, Disconnected, States, Serving
<1>1. faults' \in 0 .. MaxFaults
  BY DEF Fault
<1>2. state' \in [Nodes -> States] /\ load' \in [Nodes -> 0 .. MaxTasks] /\ tasks' \in [Nodes -> 0 .. MaxTasks]
  BY DEF ReleasePeer
<1>3. peer' \in [Nodes -> Slots \cup {None}] /\ peerIndex' \in [Slots -> Nodes \cup {None}]
  BY DEF ReleasePeer
<1> QED
  BY <1>1, <1>2, <1>3

LEMMA TypeStep == TypeOK /\ Occupied /\ [Next]_vars => TypeOK'
<1> SUFFICES ASSUME TypeOK, Occupied, [Next]_vars PROVE TypeOK'
  OBVIOUS
<1> USE BoundsAssumption DEF TypeOK, Own, At, States, Serving
<1>1. ASSUME NEW n \in Nodes, NEW p \in Slots, NEW s \in Sessions, EnsureConnection(n, p, s) PROVE TypeOK'
  BY <1>1 DEF EnsureConnection, Bind, NeedsConnection, CanBind, NewSession, Registrable
<1>2. ASSUME NEW n \in Nodes, ConnectFails(n) PROVE TypeOK'
  BY <1>2 DEF ConnectFails, sessions, transport
<1>3. ASSUME NEW p \in Slots, NEW s \in Sessions, Answered(p, s) PROVE TypeOK'
  BY <1>3, TypeConnected DEF Answered
<1>4. ASSUME NEW n \in Nodes, NEW p \in Slots, NEW s \in Sessions, CallsIn(n, p, s) PROVE TypeOK'
  BY <1>4, TypeConnected DEF CallsIn, Fault
<1>5. ASSUME NEW p \in Slots, Disconnected(p) PROVE TypeOK'
  BY <1>5, TypeDisconnected
<1>6. ASSUME NEW p \in Slots, Authenticate(p) PROVE TypeOK'
  <2>1. byPeer[p] \in Sessions BY <1>6 DEF Authenticate, Receives
  <2>2. sess[byPeer[p]] \in [peer : Slots, node : Nodes \cup {None},
                              initiated : BOOLEAN, auth : BOOLEAN] BY <2>1
  <2>3. [sess[byPeer[p]] EXCEPT !.auth = TRUE] \in [peer : Slots, node : Nodes \cup {None},
                                                   initiated : BOOLEAN, auth : BOOLEAN]
    BY <2>2
  <2>4. sess' = [sess EXCEPT ![byPeer[p]] = [sess[byPeer[p]] EXCEPT !.auth = TRUE]]
        /\ UNCHANGED <<known, state, peer, load, peerIndex, byPeer, byNode, slot, remote, tasks, faults>>
    BY <1>6 DEF Authenticate, registry, transport
  <2> QED BY <2>1, <2>3, <2>4
<1>7. ASSUME NEW p \in Slots, CloseSession(p) PROVE TypeOK'
  BY <1>7 DEF CloseSession, Receives, Close, Fault, registry, sessions
<1>8. ASSUME NEW p \in Slots, Refuse(p) PROVE TypeOK'
  BY <1>8 DEF Refuse, Receives, Close, registry, sessions
<1>9. ASSUME NEW p \in Slots, NEW ok \in BOOLEAN, Join(p, ok) PROVE TypeOK'
  BY <1>9, TypeJoin
<1>10. ASSUME NEW p \in Slots, NEW ok \in BOOLEAN, Admit(p, ok) PROVE TypeOK'
  BY <1>10 DEF Admit, Receives, Verdict, Close, Fault, sessions
<1>11. ASSUME NEW p \in Slots, Pong(p) PROVE TypeOK'
  BY <1>11 DEF Pong, Receives, sessions, transport
<1>12. ASSUME NEW p \in Slots, TileResult(p) PROVE TypeOK'
  BY <1>12 DEF TileResult, Less, Receives, sessions, transport
<1>13. ASSUME NEW p \in Slots, TileIgnored(p) PROVE TypeOK'
  BY <1>13 DEF TileIgnored, Receives, registry, sessions, transport
<1>14. ASSUME NEW silent \in SUBSET Nodes, NEW stuck \in SUBSET Slots, DetectTimeouts(silent, stuck) PROVE TypeOK'
  BY <1>14, TypeDetectTimeouts
<1>15. ASSUME NEW n \in Nodes, Dispatch(n) PROVE TypeOK'
  <2>1. tasks' \in [Nodes -> 0 .. MaxTasks] BY <1>15 DEF Dispatch
  <2>2. state' \in [Nodes -> States] /\ load' \in [Nodes -> 0 .. MaxTasks]
    BY <1>15 DEF Dispatch
  <2> QED BY <1>15, <2>1, <2>2 DEF Dispatch, sessions, transport
<1>16. ASSUME NEW n \in Nodes, DeadlineMiss(n) PROVE TypeOK'
  BY <1>16 DEF DeadlineMiss, AcceptsWork, Less, sessions, transport
<1>17. CASE FrameEnds
  BY <1>17 DEF FrameEnds, sessions, transport
<1>18. CASE Restart
  BY <1>18 DEF Restart, Fault
<1>19. CASE UNCHANGED vars
  BY <1>19 DEF vars, registry, sessions, transport
<1> QED
  BY <1>1, <1>2, <1>3, <1>4, <1>5, <1>6, <1>7, <1>8, <1>9, <1>10, <1>11, <1>12, <1>13, <1>14, <1>15, <1>16, <1>17, <1>18, <1>19 DEF Next, Maintain, EventOf, PacketOf, Frames

LEMMA OccupiedDetectTimeouts ==
  ASSUME TypeOK, Occupied, NEW silent \in SUBSET Nodes, NEW stuck \in SUBSET Slots,
         DetectTimeouts(silent, stuck)
  PROVE  Occupied'
<1> SUFFICES ASSUME NEW p \in Slots PROVE (slot[p] = "free" <=> remote[p] = None)'
  BY DEF Occupied
<1>1. remote'[p] = IF slot'[p] = "free" THEN None ELSE remote[p]
  BY DEF DetectTimeouts
<1>2. slot[p] = "free" => slot'[p] = "free"
  BY DEF DetectTimeouts
<1> QED
  BY <1>1, <1>2 DEF Occupied

LEMMA OccupiedStep == TypeOK /\ Occupied /\ [Next]_vars => Occupied'
<1> SUFFICES ASSUME TypeOK, Occupied, [Next]_vars PROVE Occupied'
  OBVIOUS
<1> USE NoneAssumption DEF TypeOK, Occupied
<1>1. ASSUME NEW n \in Nodes, NEW p \in Slots, NEW s \in Sessions, EnsureConnection(n, p, s) PROVE Occupied'
  BY <1>1 DEF EnsureConnection, Bind, NeedsConnection, CanBind, NewSession, Registrable
<1>2. ASSUME NEW n \in Nodes, ConnectFails(n) PROVE Occupied'
  BY <1>2 DEF ConnectFails, sessions, transport
<1>3. ASSUME NEW p \in Slots, NEW s \in Sessions, Answered(p, s) PROVE Occupied'
  BY <1>3 DEF Answered, Connected, NewSession, registry
<1>4. ASSUME NEW n \in Nodes, NEW p \in Slots, NEW s \in Sessions, CallsIn(n, p, s) PROVE Occupied'
  BY <1>4 DEF CallsIn, Connected, NewSession, registry, Fault
<1>5. ASSUME NEW p \in Slots, Disconnected(p) PROVE Occupied'
  BY <1>5 DEF Disconnected, ReleasePeer, Fault
<1>6. ASSUME NEW p \in Slots, Authenticate(p) PROVE Occupied'
  BY <1>6 DEF Authenticate, Receives, registry, transport
<1>7. ASSUME NEW p \in Slots, CloseSession(p) PROVE Occupied'
  BY <1>7 DEF CloseSession, Receives, Close, Fault, registry, sessions
<1>8. ASSUME NEW p \in Slots, Refuse(p) PROVE Occupied'
  BY <1>8 DEF Refuse, Receives, Close, registry, sessions
<1>9. ASSUME NEW p \in Slots, NEW ok \in BOOLEAN, Join(p, ok) PROVE Occupied'
  BY <1>9 DEF Join, Receives, MayRegister, CanBind, Bind, Verdict, Close, Fault
<1>10. ASSUME NEW p \in Slots, NEW ok \in BOOLEAN, Admit(p, ok) PROVE Occupied'
  BY <1>10 DEF Admit, Receives, Verdict, Close, Fault, sessions
<1>11. ASSUME NEW p \in Slots, Pong(p) PROVE Occupied'
  BY <1>11 DEF Pong, Receives, sessions, transport
<1>12. ASSUME NEW p \in Slots, TileResult(p) PROVE Occupied'
  BY <1>12 DEF TileResult, Less, Receives, sessions, transport
<1>13. ASSUME NEW p \in Slots, TileIgnored(p) PROVE Occupied'
  BY <1>13 DEF TileIgnored, Receives, registry, sessions, transport
<1>14. ASSUME NEW silent \in SUBSET Nodes, NEW stuck \in SUBSET Slots, DetectTimeouts(silent, stuck) PROVE Occupied'
  BY <1>14, OccupiedDetectTimeouts
<1>15. ASSUME NEW n \in Nodes, Dispatch(n) PROVE Occupied'
  BY <1>15 DEF Dispatch, AcceptsWork, Live, sessions, transport
<1>16. ASSUME NEW n \in Nodes, DeadlineMiss(n) PROVE Occupied'
  BY <1>16 DEF DeadlineMiss, AcceptsWork, Less, sessions, transport
<1>17. CASE FrameEnds
  BY <1>17 DEF FrameEnds, sessions, transport
<1>18. CASE Restart
  BY <1>18 DEF Restart, Fault
<1>19. CASE UNCHANGED vars
  BY <1>19 DEF vars, registry, sessions, transport
<1> QED
  BY <1>1, <1>2, <1>3, <1>4, <1>5, <1>6, <1>7, <1>8, <1>9, <1>10, <1>11, <1>12, <1>13, <1>14, <1>15, <1>16, <1>17, <1>18, <1>19 DEF Next, Maintain, EventOf, PacketOf, Frames

(* Every variable stays in its range.                                        *)
THEOREM TypeCorrect == Spec => []TypeOK
  BY TypeInit, TypeStep, OccupiedStep, PTL DEF Spec

-----------------------------------------------------------------------------
(* Nodes the registry does not hold, and the count of tiles in flight.       *)

LEMMA BlankStep == TypeOK /\ Occupied /\ UnknownIsBlank /\ [Next]_vars => UnknownIsBlank'
<1> SUFFICES ASSUME TypeOK, Occupied, UnknownIsBlank, [Next]_vars PROVE UnknownIsBlank'
  OBVIOUS
<1> USE NoneAssumption DEF TypeOK, Occupied, UnknownIsBlank, Own, At, Serving
<1>1. ASSUME NEW n \in Nodes, NEW p \in Slots, NEW s \in Sessions, EnsureConnection(n, p, s) PROVE UnknownIsBlank'
  BY <1>1 DEF EnsureConnection, Bind, NeedsConnection, CanBind, NewSession, Registrable
<1>2. ASSUME NEW n \in Nodes, ConnectFails(n) PROVE UnknownIsBlank'
  BY <1>2 DEF ConnectFails, sessions, transport
<1>3. ASSUME NEW p \in Slots, NEW s \in Sessions, Answered(p, s) PROVE UnknownIsBlank'
  BY <1>3 DEF Answered, Connected, NewSession, registry
<1>4. ASSUME NEW n \in Nodes, NEW p \in Slots, NEW s \in Sessions, CallsIn(n, p, s) PROVE UnknownIsBlank'
  BY <1>4 DEF CallsIn, Connected, NewSession, registry, Fault
<1>5. ASSUME NEW p \in Slots, Disconnected(p) PROVE UnknownIsBlank'
  BY <1>5 DEF Disconnected, ReleasePeer, Fault
<1>6. ASSUME NEW p \in Slots, Authenticate(p) PROVE UnknownIsBlank'
  BY <1>6 DEF Authenticate, Receives, registry, transport
<1>7. ASSUME NEW p \in Slots, CloseSession(p) PROVE UnknownIsBlank'
  BY <1>7 DEF CloseSession, Receives, Close, Fault, registry, sessions
<1>8. ASSUME NEW p \in Slots, Refuse(p) PROVE UnknownIsBlank'
  BY <1>8 DEF Refuse, Receives, Close, registry, sessions
<1>9. ASSUME NEW p \in Slots, NEW ok \in BOOLEAN, Join(p, ok) PROVE UnknownIsBlank'
  BY <1>9 DEF Join, Receives, MayRegister, CanBind, Bind, Verdict, Close, Fault
<1>10. ASSUME NEW p \in Slots, NEW ok \in BOOLEAN, Admit(p, ok) PROVE UnknownIsBlank'
  BY <1>10 DEF Admit, Receives, Verdict, Close, Fault, sessions
<1>11. ASSUME NEW p \in Slots, Pong(p) PROVE UnknownIsBlank'
  BY <1>11 DEF Pong, Receives, sessions, transport
<1>12. ASSUME NEW p \in Slots, TileResult(p) PROVE UnknownIsBlank'
  BY <1>12 DEF TileResult, Less, Receives, sessions, transport
<1>13. ASSUME NEW p \in Slots, TileIgnored(p) PROVE UnknownIsBlank'
  BY <1>13 DEF TileIgnored, Receives, registry, sessions, transport
<1>14. ASSUME NEW silent \in SUBSET Nodes, NEW stuck \in SUBSET Slots, DetectTimeouts(silent, stuck) PROVE UnknownIsBlank'
  BY <1>14 DEF DetectTimeouts, Fault
<1>15. ASSUME NEW n \in Nodes, Dispatch(n) PROVE UnknownIsBlank'
  BY <1>15 DEF Dispatch, AcceptsWork, Live, sessions, transport
<1>16. ASSUME NEW n \in Nodes, DeadlineMiss(n) PROVE UnknownIsBlank'
  BY <1>16 DEF DeadlineMiss, AcceptsWork, Less, sessions, transport
<1>17. CASE FrameEnds
  BY <1>17 DEF FrameEnds, sessions, transport
<1>18. CASE Restart
  BY <1>18 DEF Restart, Fault
<1>19. CASE UNCHANGED vars
  BY <1>19 DEF vars, registry, sessions, transport
<1> QED
  BY <1>1, <1>2, <1>3, <1>4, <1>5, <1>6, <1>7, <1>8, <1>9, <1>10, <1>11, <1>12, <1>13, <1>14, <1>15, <1>16, <1>17, <1>18, <1>19 DEF Next, Maintain, EventOf, PacketOf, Frames

LEMMA LoadStep == Base /\ [Next]_vars => LoadMatchesState'
<1> SUFFICES ASSUME Base, [Next]_vars PROVE LoadMatchesState'
  OBVIOUS
<1> USE NoneAssumption, BoundsAssumption DEF Base, TypeOK, Occupied, UnknownIsBlank, LoadMatchesState, Own, At, Serving, States
<1>1. ASSUME NEW n \in Nodes, NEW p \in Slots, NEW s \in Sessions, EnsureConnection(n, p, s) PROVE LoadMatchesState'
  BY <1>1 DEF EnsureConnection, Bind, NeedsConnection, CanBind, NewSession, Registrable
<1>2. ASSUME NEW n \in Nodes, ConnectFails(n) PROVE LoadMatchesState'
  BY <1>2 DEF ConnectFails, sessions, transport
<1>3. ASSUME NEW p \in Slots, NEW s \in Sessions, Answered(p, s) PROVE LoadMatchesState'
  BY <1>3 DEF Answered, Connected, NewSession, registry
<1>4. ASSUME NEW n \in Nodes, NEW p \in Slots, NEW s \in Sessions, CallsIn(n, p, s) PROVE LoadMatchesState'
  BY <1>4 DEF CallsIn, Connected, NewSession, registry, Fault
<1>5. ASSUME NEW p \in Slots, Disconnected(p) PROVE LoadMatchesState'
  BY <1>5 DEF Disconnected, ReleasePeer, Fault
<1>6. ASSUME NEW p \in Slots, Authenticate(p) PROVE LoadMatchesState'
  BY <1>6 DEF Authenticate, Receives, registry, transport
<1>7. ASSUME NEW p \in Slots, CloseSession(p) PROVE LoadMatchesState'
  BY <1>7 DEF CloseSession, Receives, Close, Fault, registry, sessions
<1>8. ASSUME NEW p \in Slots, Refuse(p) PROVE LoadMatchesState'
  BY <1>8 DEF Refuse, Receives, Close, registry, sessions
<1>9. ASSUME NEW p \in Slots, NEW ok \in BOOLEAN, Join(p, ok) PROVE LoadMatchesState'
  BY <1>9 DEF Join, Receives, MayRegister, CanBind, Bind, Verdict, Close, Fault
<1>10. ASSUME NEW p \in Slots, NEW ok \in BOOLEAN, Admit(p, ok) PROVE LoadMatchesState'
  BY <1>10 DEF Admit, Receives, Verdict, Close, Fault, sessions
<1>11. ASSUME NEW p \in Slots, Pong(p) PROVE LoadMatchesState'
  BY <1>11 DEF Pong, Receives, sessions, transport
<1>12. ASSUME NEW p \in Slots, TileResult(p) PROVE LoadMatchesState'
  BY <1>12 DEF TileResult, Less, Receives, sessions, transport
<1>13. ASSUME NEW p \in Slots, TileIgnored(p) PROVE LoadMatchesState'
  BY <1>13 DEF TileIgnored, Receives, registry, sessions, transport
<1>14. ASSUME NEW silent \in SUBSET Nodes, NEW stuck \in SUBSET Slots, DetectTimeouts(silent, stuck) PROVE LoadMatchesState'
  BY <1>14 DEF DetectTimeouts, Fault
<1>15. ASSUME NEW n \in Nodes, Dispatch(n) PROVE LoadMatchesState'
  BY <1>15 DEF Dispatch, AcceptsWork, Live, sessions, transport
<1>16. ASSUME NEW n \in Nodes, DeadlineMiss(n) PROVE LoadMatchesState'
  BY <1>16 DEF DeadlineMiss, AcceptsWork, Less, sessions, transport
<1>17. CASE FrameEnds
  BY <1>17 DEF FrameEnds, sessions, transport
<1>18. CASE Restart
  BY <1>18 DEF Restart, Fault
<1>19. CASE UNCHANGED vars
  BY <1>19 DEF vars, registry, sessions, transport
<1> HIDE DEF Base, TypeOK, Occupied, LoadMatchesState, Own, At, Serving, States
<1> QED
  BY <1>1, <1>2, <1>3, <1>4, <1>5, <1>6, <1>7, <1>8, <1>9, <1>10, <1>11, <1>12, <1>13, <1>14, <1>15, <1>16, <1>17, <1>18, <1>19 DEF Next, Maintain, EventOf, PacketOf, Frames

LEMMA BaseInit == Init => Base
<1>1. Init => UnknownIsBlank /\ LoadMatchesState
  BY DEF Init, UnknownIsBlank, LoadMatchesState
<1> QED
  BY <1>1, TypeInit DEF Base

LEMMA BaseStep == Base /\ [Next]_vars => Base'
  BY TypeStep, OccupiedStep, BlankStep, LoadStep DEF Base

(* A node is Computing exactly as long as it is charged with a tile, Stalled *)
(* aside: however misses, late results and pongs interleave.                 *)
THEOREM LoadIsMatched == Spec => []LoadMatchesState
<1>1. Base => LoadMatchesState
  BY DEF Base
<1> QED
  BY <1>1, BaseInit, BaseStep, PTL DEF Spec

-----------------------------------------------------------------------------
(* Registry, sessions and transport together.                                *)

LEMMA IndexesJoin ==
  ASSUME IInv, NEW p \in Slots, NEW ok \in BOOLEAN, Join(p, ok)
  PROVE  IndexesAgree'
<1> USE NoneAssumption DEF IInv, Base, TypeOK, Occupied, UnknownIsBlank, IndexesAgree, Standing, StandsAt, ConnectsFor, Awaits, Own, At
<1>1. /\ remote[p] \in Nodes
      /\ peer[remote[p]] = None /\ byNode[remote[p]] = None
  BY DEF Join, Receives, MayRegister
<1>2. /\ byPeer' = byPeer
      /\ sess' = [sess EXCEPT ![byPeer[p]].node = remote[p]]
      /\ byNode' = [byNode EXCEPT ![remote[p]] = byPeer[p]]
  BY DEF Join
<1>3. byPeer[p] \in Sessions /\ sess[byPeer[p]].node = None
  BY DEF Join, Receives
<1>4. (\A n \in Nodes, q \in Slots : peer[n] = q <=> peerIndex[q] = n)'
  <2>1. CASE CanBind(remote[p], p)
    <3>1. peerIndex[p] = None
      BY <1>1, <2>1 DEF CanBind
    <3>2. /\ peerIndex' = [peerIndex EXCEPT ![p] = remote[p]]
          /\ peer' = [peer EXCEPT ![remote[p]] = p]
      BY <1>1, <2>1 DEF Join, Bind
    <3> QED
      BY <1>1, <3>1, <3>2
  <2>2. CASE ~CanBind(remote[p], p)
    BY <2>2 DEF Join
  <2> QED
    BY <2>1, <2>2
<1>5. (\A q \in Slots : Own(q) => At(q).peer = q)'
  BY <1>2, <1>3
<1>6. (\A n \in Nodes : byNode[n] # None =>
       /\ sess[byNode[n]].node = n
       /\ byPeer[sess[byNode[n]].peer] = byNode[n])'
  BY <1>1, <1>2, <1>3
<1> QED
  BY <1>4, <1>5, <1>6

LEMMA IndexesStep == ASSUME IInv, TypeOK', [Next]_vars PROVE IndexesAgree'
<1> USE NoneAssumption DEF ServesOverItsPeer, Detached, Loose, IInv, Base, TypeOK, Occupied, UnknownIsBlank, IndexesAgree, Serves, BindingIsLive, Standing, StandsAt, ConnectsFor, Awaits, Own, At, Serving, States
<1>1. ASSUME NEW n \in Nodes, NEW p \in Slots, NEW s \in Sessions, EnsureConnection(n, p, s) PROVE IndexesAgree'
  BY <1>1 DEF EnsureConnection, Bind, NeedsConnection, CanBind, NewSession, Registrable
<1>2. ASSUME NEW n \in Nodes, ConnectFails(n) PROVE IndexesAgree'
  BY <1>2 DEF ConnectFails, sessions, transport
<1>3. ASSUME NEW p \in Slots, NEW s \in Sessions, Answered(p, s) PROVE IndexesAgree'
  BY <1>3 DEF Answered, Connected, NewSession, registry
<1>4. ASSUME NEW n \in Nodes, NEW p \in Slots, NEW s \in Sessions, CallsIn(n, p, s) PROVE IndexesAgree'
  BY <1>4 DEF CallsIn, Connected, NewSession, registry, Fault
<1>5. ASSUME NEW p \in Slots, Disconnected(p) PROVE IndexesAgree'
  BY <1>5 DEF Disconnected, ReleasePeer, Fault
<1>6. ASSUME NEW p \in Slots, Authenticate(p) PROVE IndexesAgree'
  BY <1>6 DEF Authenticate, Receives, registry, transport
<1>7. ASSUME NEW p \in Slots, CloseSession(p) PROVE IndexesAgree'
  BY <1>7 DEF CloseSession, Receives, Close, Fault, registry, sessions
<1>8. ASSUME NEW p \in Slots, Refuse(p) PROVE IndexesAgree'
  BY <1>8 DEF Refuse, Receives, Close, registry, sessions
<1>9. ASSUME NEW p \in Slots, NEW ok \in BOOLEAN, Join(p, ok) PROVE IndexesAgree'
  BY <1>9, IndexesJoin
<1>10. ASSUME NEW p \in Slots, NEW ok \in BOOLEAN, Admit(p, ok) PROVE IndexesAgree'
  BY <1>10 DEF Admit, Receives, Verdict, Close, Fault, sessions
<1>11. ASSUME NEW p \in Slots, Pong(p) PROVE IndexesAgree'
  BY <1>11 DEF Pong, Receives, sessions, transport
<1>12. ASSUME NEW p \in Slots, TileResult(p) PROVE IndexesAgree'
  BY <1>12 DEF TileResult, Less, Receives, sessions, transport
<1>13. ASSUME NEW p \in Slots, TileIgnored(p) PROVE IndexesAgree'
  BY <1>13 DEF TileIgnored, Receives, registry, sessions, transport
<1>14. ASSUME NEW silent \in SUBSET Nodes, NEW stuck \in SUBSET Slots, DetectTimeouts(silent, stuck) PROVE IndexesAgree'
  BY <1>14 DEF DetectTimeouts, Fault
<1>15. ASSUME NEW n \in Nodes, Dispatch(n) PROVE IndexesAgree'
  BY <1>15 DEF Dispatch, AcceptsWork, Live, sessions, transport
<1>16. ASSUME NEW n \in Nodes, DeadlineMiss(n) PROVE IndexesAgree'
  BY <1>16 DEF DeadlineMiss, AcceptsWork, Less, sessions, transport
<1>17. CASE FrameEnds
  BY <1>17 DEF FrameEnds, sessions, transport
<1>18. CASE Restart
  BY <1>18 DEF Restart, Fault
<1>19. CASE UNCHANGED vars
  BY <1>19 DEF vars, registry, sessions, transport
<1> HIDE DEF StandsAt, ConnectsFor, Awaits, Base, TypeOK, Occupied, UnknownIsBlank, Serves, BindingIsLive, Standing, Own, At, Serving, States, IndexesAgree
<1> QED
  BY <1>1, <1>2, <1>3, <1>4, <1>5, <1>6, <1>7, <1>8, <1>9, <1>10, <1>11, <1>12, <1>13, <1>14, <1>15, <1>16, <1>17, <1>18, <1>19 DEF Next, Maintain, EventOf, PacketOf, Frames

(* Misses, results, pongs and frames move a node only among the states that  *)
(* serve, and touch no index.                                                *)
LEMMA LoadMoves ==
  ASSUME TypeOK,
         \/ \E p \in Slots : Pong(p) \/ TileResult(p)
         \/ \E n \in Nodes : Dispatch(n) \/ DeadlineMiss(n)
  PROVE  /\ UNCHANGED <<peer, peerIndex, sess, byPeer, byNode, slot, remote>>
         /\ state' \in [Nodes -> States]
         /\ \A n \in Nodes : state'[n] = state[n] \/ {state[n], state'[n]} \subseteq Serving
<1> USE DEF Serving, States, sessions, transport
<1>1. state \in [Nodes -> States] BY DEF TypeOK
<1>2. ASSUME NEW p \in Slots, Pong(p)
      PROVE  \A n \in Nodes : state'[n] = state[n] \/ {state[n], state'[n]} \subseteq Serving
  BY <1>1, <1>2 DEF Pong
<1>3. ASSUME NEW p \in Slots, TileResult(p)
      PROVE  \A n \in Nodes : state'[n] = state[n] \/ {state[n], state'[n]} \subseteq Serving
  BY <1>1, <1>3 DEF TileResult
<1>4. ASSUME NEW m \in Nodes, Dispatch(m)
      PROVE  \A n \in Nodes : state'[n] = state[n] \/ {state[n], state'[n]} \subseteq Serving
  BY <1>1, <1>4 DEF Dispatch, AcceptsWork
<1>5. ASSUME NEW m \in Nodes, DeadlineMiss(m)
      PROVE  \A n \in Nodes : state'[n] = state[n] \/ {state[n], state'[n]} \subseteq Serving
  BY <1>1, <1>5 DEF DeadlineMiss, AcceptsWork
<1>6. UNCHANGED <<peer, peerIndex, sess, byPeer, byNode, slot, remote>>
  BY DEF Pong, TileResult, Dispatch, DeadlineMiss
<1>7. state' \in [Nodes -> States]
  BY <1>1 DEF Pong, TileResult, Dispatch, DeadlineMiss, AcceptsWork
<1> QED BY <1>2, <1>3, <1>4, <1>5, <1>6, <1>7

LEMMA SameStanding ==
  ASSUME UNCHANGED <<peer, peerIndex, sess, byPeer, byNode, slot, remote>>,
         \A n \in Nodes : state'[n] = state[n] \/ {state[n], state'[n]} \subseteq Serving,
         peerIndex \in [Slots -> Nodes \cup {None}], \A p \in Slots : Own(p) => At(p).node \in Nodes \cup {None}
  PROVE  /\ Serves => Serves'
         /\ BindingIsLive => BindingIsLive'
         /\ Standing => Standing'
<1>1. \A n \in Nodes : /\ state'[n] = "Disconnected" <=> state[n] = "Disconnected"
                       /\ state'[n] = "Unauthenticated" <=> state[n] = "Unauthenticated"
                       /\ state'[n] \in Serving <=> state[n] \in Serving
  BY DEF Serving
<1>2. \A n \in Nodes : Detached(n)' <=> Detached(n) BY <1>1 DEF Detached
<1>3. Serves => Serves' BY <1>1 DEF Serves, ServesOverItsPeer
<1>4. BindingIsLive => BindingIsLive' BY <1>2 DEF BindingIsLive
<1>5. \A p \in Slots : Loose(p)' <=> Loose(p) BY <1>2 DEF Loose
<1>6. \A p \in Slots : /\ Own(p)' <=> Own(p)
                       /\ At(p)' = At(p)
  BY DEF Own, At
<1>7. ASSUME NEW p \in Slots, StandsAt(p) PROVE StandsAt(p)'
  BY <1>1, <1>5, <1>6, <1>7, NoneAssumption DEF StandsAt
<1>8. ASSUME NEW p \in Slots, ConnectsFor(p) PROVE ConnectsFor(p)'
  BY <1>6, <1>8 DEF ConnectsFor
<1>9. ASSUME NEW n \in Nodes, Awaits(n) PROVE Awaits(n)'
  BY <1>1, <1>9 DEF Awaits
<1> QED BY <1>3, <1>4, <1>7, <1>8, <1>9 DEF Standing

LEMMA MovesKeep ==
  ASSUME IInv,
         \/ \E p \in Slots : Pong(p) \/ TileResult(p)
         \/ \E n \in Nodes : Dispatch(n) \/ DeadlineMiss(n)
  PROVE  Serves' /\ BindingIsLive' /\ Standing'
<1>1. TypeOK /\ Serves /\ BindingIsLive /\ Standing BY DEF IInv, Base
<1>2. /\ UNCHANGED <<peer, peerIndex, sess, byPeer, byNode, slot, remote>>
      /\ \A n \in Nodes : state'[n] = state[n] \/ {state[n], state'[n]} \subseteq Serving
  BY <1>1, LoadMoves
<1>3. peerIndex \in [Slots -> Nodes \cup {None}] /\ \A p \in Slots : Own(p) => At(p).node \in Nodes \cup {None}
  BY <1>1 DEF TypeOK, Own, At
<1> QED BY <1>1, <1>2, <1>3, SameStanding

LEMMA ServingStep == ASSUME IInv, TypeOK', [Next]_vars PROVE Serves'
<1> USE NoneAssumption DEF ServesOverItsPeer, Detached, Loose, IInv, Base, TypeOK, Occupied, UnknownIsBlank, IndexesAgree, Serves, BindingIsLive, Standing, StandsAt, ConnectsFor, Awaits, Own, At, Serving, States
<1>1. ASSUME NEW n \in Nodes, NEW p \in Slots, NEW s \in Sessions, EnsureConnection(n, p, s) PROVE Serves'
  BY <1>1 DEF EnsureConnection, Bind, NeedsConnection, CanBind, NewSession, Registrable
<1>2. ASSUME NEW n \in Nodes, ConnectFails(n) PROVE Serves'
  BY <1>2 DEF ConnectFails, sessions, transport
<1>3. ASSUME NEW p \in Slots, NEW s \in Sessions, Answered(p, s) PROVE Serves'
  BY <1>3 DEF Answered, Connected, NewSession, registry
<1>4. ASSUME NEW n \in Nodes, NEW p \in Slots, NEW s \in Sessions, CallsIn(n, p, s) PROVE Serves'
  BY <1>4 DEF CallsIn, Connected, NewSession, registry, Fault
<1>5. ASSUME NEW p \in Slots, Disconnected(p) PROVE Serves'
  BY <1>5 DEF Disconnected, ReleasePeer, Fault
<1>6. ASSUME NEW p \in Slots, Authenticate(p) PROVE Serves'
  BY <1>6 DEF Authenticate, Receives, registry, transport
<1>7. ASSUME NEW p \in Slots, CloseSession(p) PROVE Serves'
  BY <1>7 DEF CloseSession, Receives, Close, Fault, registry, sessions
<1>8. ASSUME NEW p \in Slots, Refuse(p) PROVE Serves'
  BY <1>8 DEF Refuse, Receives, Close, registry, sessions
<1>9. ASSUME NEW p \in Slots, NEW ok \in BOOLEAN, Join(p, ok) PROVE Serves'
  BY <1>9 DEF Join, Receives, MayRegister, CanBind, Bind, Verdict, Close, Fault
<1>10. ASSUME NEW p \in Slots, NEW ok \in BOOLEAN, Admit(p, ok) PROVE Serves'
  BY <1>10 DEF Admit, Receives, Verdict, Close, Fault, sessions
<1>11. ASSUME NEW p \in Slots, Pong(p) PROVE Serves'
  BY <1>11, MovesKeep
<1>12. ASSUME NEW p \in Slots, TileResult(p) PROVE Serves'
  BY <1>12, MovesKeep
<1>13. ASSUME NEW p \in Slots, TileIgnored(p) PROVE Serves'
  BY <1>13 DEF TileIgnored, Receives, registry, sessions, transport
<1>14. ASSUME NEW silent \in SUBSET Nodes, NEW stuck \in SUBSET Slots, DetectTimeouts(silent, stuck) PROVE Serves'
  BY <1>14 DEF DetectTimeouts, Fault
<1>15. ASSUME NEW n \in Nodes, Dispatch(n) PROVE Serves'
  BY <1>15, MovesKeep
<1>16. ASSUME NEW n \in Nodes, DeadlineMiss(n) PROVE Serves'
  BY <1>16, MovesKeep
<1>17. CASE FrameEnds
  BY <1>17 DEF FrameEnds, sessions, transport
<1>18. CASE Restart
  BY <1>18 DEF Restart, Fault
<1>19. CASE UNCHANGED vars
  BY <1>19 DEF vars, registry, sessions, transport
<1> HIDE DEF StandsAt, ConnectsFor, Awaits, Base, TypeOK, Occupied, UnknownIsBlank, IndexesAgree, BindingIsLive, Standing, Own, At, Serving, States, Serves
<1> QED
  BY <1>1, <1>2, <1>3, <1>4, <1>5, <1>6, <1>7, <1>8, <1>9, <1>10, <1>11, <1>12, <1>13, <1>14, <1>15, <1>16, <1>17, <1>18, <1>19 DEF Next, Maintain, EventOf, PacketOf, Frames

LEMMA BindingStep == ASSUME IInv, TypeOK', [Next]_vars PROVE BindingIsLive'
<1> USE NoneAssumption DEF ServesOverItsPeer, Detached, Loose, IInv, Base, TypeOK, Occupied, UnknownIsBlank, IndexesAgree, Serves, BindingIsLive, Standing, StandsAt, ConnectsFor, Awaits, Own, At, Serving, States
<1>1. ASSUME NEW n \in Nodes, NEW p \in Slots, NEW s \in Sessions, EnsureConnection(n, p, s) PROVE BindingIsLive'
  BY <1>1 DEF EnsureConnection, Bind, NeedsConnection, CanBind, NewSession, Registrable
<1>2. ASSUME NEW n \in Nodes, ConnectFails(n) PROVE BindingIsLive'
  BY <1>2 DEF ConnectFails, sessions, transport
<1>3. ASSUME NEW p \in Slots, NEW s \in Sessions, Answered(p, s) PROVE BindingIsLive'
  BY <1>3 DEF Answered, Connected, NewSession, registry
<1>4. ASSUME NEW n \in Nodes, NEW p \in Slots, NEW s \in Sessions, CallsIn(n, p, s) PROVE BindingIsLive'
  BY <1>4 DEF CallsIn, Connected, NewSession, registry, Fault
<1>5. ASSUME NEW p \in Slots, Disconnected(p) PROVE BindingIsLive'
  BY <1>5 DEF Disconnected, ReleasePeer, Fault
<1>6. ASSUME NEW p \in Slots, Authenticate(p) PROVE BindingIsLive'
  BY <1>6 DEF Authenticate, Receives, registry, transport
<1>7. ASSUME NEW p \in Slots, CloseSession(p) PROVE BindingIsLive'
  BY <1>7 DEF CloseSession, Receives, Close, Fault, registry, sessions
<1>8. ASSUME NEW p \in Slots, Refuse(p) PROVE BindingIsLive'
  BY <1>8 DEF Refuse, Receives, Close, registry, sessions
<1>9. ASSUME NEW p \in Slots, NEW ok \in BOOLEAN, Join(p, ok) PROVE BindingIsLive'
  BY <1>9 DEF Join, Receives, MayRegister, CanBind, Bind, Verdict, Close, Fault
<1>10. ASSUME NEW p \in Slots, NEW ok \in BOOLEAN, Admit(p, ok) PROVE BindingIsLive'
  BY <1>10 DEF Admit, Receives, Verdict, Close, Fault, sessions
<1>11. ASSUME NEW p \in Slots, Pong(p) PROVE BindingIsLive'
  BY <1>11, MovesKeep
<1>12. ASSUME NEW p \in Slots, TileResult(p) PROVE BindingIsLive'
  BY <1>12, MovesKeep
<1>13. ASSUME NEW p \in Slots, TileIgnored(p) PROVE BindingIsLive'
  BY <1>13 DEF TileIgnored, Receives, registry, sessions, transport
<1>14. ASSUME NEW silent \in SUBSET Nodes, NEW stuck \in SUBSET Slots, DetectTimeouts(silent, stuck) PROVE BindingIsLive'
  BY <1>14 DEF DetectTimeouts, Fault
<1>15. ASSUME NEW n \in Nodes, Dispatch(n) PROVE BindingIsLive'
  BY <1>15, MovesKeep
<1>16. ASSUME NEW n \in Nodes, DeadlineMiss(n) PROVE BindingIsLive'
  BY <1>16, MovesKeep
<1>17. CASE FrameEnds
  BY <1>17 DEF FrameEnds, sessions, transport
<1>18. CASE Restart
  BY <1>18 DEF Restart, Fault
<1>19. CASE UNCHANGED vars
  BY <1>19 DEF vars, registry, sessions, transport
<1> HIDE DEF StandsAt, ConnectsFor, Awaits, Base, TypeOK, Occupied, UnknownIsBlank, IndexesAgree, Serves, Standing, Own, At, Serving, States, BindingIsLive
<1> QED
  BY <1>1, <1>2, <1>3, <1>4, <1>5, <1>6, <1>7, <1>8, <1>9, <1>10, <1>11, <1>12, <1>13, <1>14, <1>15, <1>16, <1>17, <1>18, <1>19 DEF Next, Maintain, EventOf, PacketOf, Frames

LEMMA StandingStep == ASSUME IInv, TypeOK', [Next]_vars PROVE Standing'
<1> USE NoneAssumption DEF ServesOverItsPeer, Detached, Loose, IInv, Base, TypeOK, Occupied, UnknownIsBlank, IndexesAgree, Serves, BindingIsLive, Standing, StandsAt, ConnectsFor, Awaits, Own, At, Serving, States
<1>1. ASSUME NEW n \in Nodes, NEW p \in Slots, NEW s \in Sessions, EnsureConnection(n, p, s) PROVE Standing'
  <2>1. ASSUME NEW q \in Slots PROVE StandsAt(q)'
    BY <1>1 DEF EnsureConnection, Bind, NeedsConnection, CanBind, NewSession, Registrable
  <2>2. ASSUME NEW q \in Slots PROVE ConnectsFor(q)'
    BY <1>1 DEF EnsureConnection, Bind, NeedsConnection, CanBind, NewSession, Registrable
  <2>3. ASSUME NEW x \in Nodes PROVE Awaits(x)'
    BY <1>1 DEF EnsureConnection, Bind, NeedsConnection, CanBind, NewSession, Registrable
  <2> HIDE DEF StandsAt, ConnectsFor, Awaits
  <2> QED BY <2>1, <2>2, <2>3
<1>2. ASSUME NEW n \in Nodes, ConnectFails(n) PROVE Standing'
  BY <1>2 DEF ConnectFails, sessions, transport
<1>3. ASSUME NEW p \in Slots, NEW s \in Sessions, Answered(p, s) PROVE Standing'
  BY <1>3 DEF Answered, Connected, NewSession, registry
<1>4. ASSUME NEW n \in Nodes, NEW p \in Slots, NEW s \in Sessions, CallsIn(n, p, s) PROVE Standing'
  BY <1>4 DEF CallsIn, Connected, NewSession, registry, Fault
<1>5. ASSUME NEW p \in Slots, Disconnected(p) PROVE Standing'
  <2>1. ASSUME NEW q \in Slots PROVE StandsAt(q)'
    BY <1>5 DEF Disconnected, ReleasePeer, Fault
  <2>2. ASSUME NEW q \in Slots PROVE ConnectsFor(q)'
    BY <1>5 DEF Disconnected, ReleasePeer, Fault
  <2>3. ASSUME NEW x \in Nodes PROVE Awaits(x)'
    BY <1>5 DEF Disconnected, ReleasePeer, Fault
  <2> HIDE DEF StandsAt, ConnectsFor, Awaits
  <2> QED BY <2>1, <2>2, <2>3
<1>6. ASSUME NEW p \in Slots, Authenticate(p) PROVE Standing'
  BY <1>6 DEF Authenticate, Receives, registry, transport
<1>7. ASSUME NEW p \in Slots, CloseSession(p) PROVE Standing'
  BY <1>7 DEF CloseSession, Receives, Close, Fault, registry, sessions
<1>8. ASSUME NEW p \in Slots, Refuse(p) PROVE Standing'
  BY <1>8 DEF Refuse, Receives, Close, registry, sessions
<1>9. ASSUME NEW p \in Slots, NEW ok \in BOOLEAN, Join(p, ok) PROVE Standing'
  BY <1>9 DEF Join, Receives, MayRegister, CanBind, Bind, Verdict, Close, Fault
<1>10. ASSUME NEW p \in Slots, NEW ok \in BOOLEAN, Admit(p, ok) PROVE Standing'
  BY <1>10 DEF Admit, Receives, Verdict, Close, Fault, sessions
<1>11. ASSUME NEW p \in Slots, Pong(p) PROVE Standing'
  BY <1>11, MovesKeep
<1>12. ASSUME NEW p \in Slots, TileResult(p) PROVE Standing'
  BY <1>12, MovesKeep
<1>13. ASSUME NEW p \in Slots, TileIgnored(p) PROVE Standing'
  BY <1>13 DEF TileIgnored, Receives, registry, sessions, transport
<1>14. ASSUME NEW silent \in SUBSET Nodes, NEW stuck \in SUBSET Slots, DetectTimeouts(silent, stuck) PROVE Standing'
  <2>1. ASSUME NEW q \in Slots PROVE StandsAt(q)'
    <3> SUFFICES ASSUME Own(q)' PROVE StandsAt(q)'
      OBVIOUS
    <3>1. /\ Own(q) /\ At(q)' = At(q) /\ slot'[q] = slot[q]
          /\ UNCHANGED <<peer, peerIndex, sess>>
      BY <1>14 DEF DetectTimeouts
    <3>2. \A n \in silent : byNode[n] # byPeer[q]
      BY <1>14, <3>1 DEF DetectTimeouts
    <3>3. \A n \in Nodes : Detached(n) => Detached(n)'
      BY <1>14 DEF DetectTimeouts
    <3>4. Loose(q) => Loose(q)' BY <3>1, <3>3
    <3>5. (At(q).node # None /\ slot[q] # "closing") =>
            At(q).node \notin silent /\ state[At(q).node] # "Disconnected" /\ byNode[At(q).node] = byPeer[q]
      BY <3>1, <3>2
    <3>6. (At(q).node # None /\ slot[q] # "closing") =>
            state'[At(q).node] # "Disconnected" /\ byNode'[At(q).node] = byPeer'[q]
      BY <1>14, <3>1, <3>5 DEF DetectTimeouts
    <3> HIDE DEF Loose, Detached, TypeOK, IInv, Base, At, Own, Standing, Serves, IndexesAgree, BindingIsLive
    <3>7. StandsAt(q) BY DEF IInv, Standing
    <3> QED BY <3>1, <3>4, <3>6, <3>7
  <2>2. ASSUME NEW q \in Slots PROVE ConnectsFor(q)'
    BY <1>14 DEF DetectTimeouts, Fault
  <2>3. ASSUME NEW x \in Nodes PROVE Awaits(x)'
    BY <1>14 DEF DetectTimeouts, Fault
  <2> HIDE DEF StandsAt, ConnectsFor, Awaits
  <2> QED BY <2>1, <2>2, <2>3
<1>15. ASSUME NEW n \in Nodes, Dispatch(n) PROVE Standing'
  BY <1>15, MovesKeep
<1>16. ASSUME NEW n \in Nodes, DeadlineMiss(n) PROVE Standing'
  BY <1>16, MovesKeep
<1>17. CASE FrameEnds
  BY <1>17 DEF FrameEnds, sessions, transport
<1>18. CASE Restart
  BY <1>18 DEF Restart, Fault
<1>19. CASE UNCHANGED vars
  BY <1>19 DEF vars, registry, sessions, transport
<1> HIDE DEF StandsAt, ConnectsFor, Awaits, Base, TypeOK, Occupied, UnknownIsBlank, IndexesAgree, Serves, BindingIsLive, Own, At, Serving, States, Standing
<1> QED
  BY <1>1, <1>2, <1>3, <1>4, <1>5, <1>6, <1>7, <1>8, <1>9, <1>10, <1>11, <1>12, <1>13, <1>14, <1>15, <1>16, <1>17, <1>18, <1>19 DEF Next, Maintain, EventOf, PacketOf, Frames

LEMMA InvInit == Init => IInv
<1>1. Init => IndexesAgree /\ Serves /\ BindingIsLive /\ Standing
  BY NoneAssumption DEF Init, IndexesAgree, Serves, ServesOverItsPeer, BindingIsLive, Standing,
                        StandsAt, ConnectsFor, Awaits, Own, Serving
<1> QED
  BY <1>1, BaseInit DEF IInv

LEMMA InvStep == IInv /\ [Next]_vars => IInv'
<1> SUFFICES ASSUME IInv, [Next]_vars PROVE IInv'
  OBVIOUS
<1>1. Base'
  BY BaseStep DEF IInv
<1> QED
  BY <1>1, IndexesStep, ServingStep, BindingStep, StandingStep DEF IInv, Base

LEMMA Inductive == Spec => []IInv
  BY InvInit, InvStep, PTL DEF Spec

(* The registry's two maps and the orchestrator's two agree.                 *)
THEOREM IndexesAlwaysAgree == Spec => []IndexesAgree
<1>1. IInv => IndexesAgree
  BY DEF IInv
<1> QED
  BY <1>1, Inductive, PTL

(* Of two sessions of one node, one is on its way out.                       *)
THEOREM OneSessionAlways == Spec => []OneSessionPerNode
<1>1. IInv => OneSessionPerNode
  BY DEF IInv, IndexesAgree, Standing, StandsAt, OneSessionPerNode, Own, At
<1> QED
  BY <1>1, Inductive, PTL

LEMMA BindsFirstStep == ASSUME IInv, [Next]_vars PROVE BindsFirst
<1> USE NoneAssumption DEF BindsFirst, Unbound, Usurps, Detached, ServesOverItsPeer, IInv, Base, TypeOK, Occupied, UnknownIsBlank, IndexesAgree, Serves, BindingIsLive, Standing, StandsAt, ConnectsFor, Awaits, Own, At, Serving, States
<1>1. ASSUME NEW n \in Nodes, NEW p \in Slots, NEW s \in Sessions, EnsureConnection(n, p, s) PROVE BindsFirst
  BY <1>1 DEF EnsureConnection, Bind, NeedsConnection, CanBind, NewSession, Registrable
<1>2. ASSUME NEW n \in Nodes, ConnectFails(n) PROVE BindsFirst
  BY <1>2 DEF ConnectFails, sessions, transport
<1>3. ASSUME NEW p \in Slots, NEW s \in Sessions, Answered(p, s) PROVE BindsFirst
  BY <1>3 DEF Answered, Connected, NewSession, registry
<1>4. ASSUME NEW n \in Nodes, NEW p \in Slots, NEW s \in Sessions, CallsIn(n, p, s) PROVE BindsFirst
  BY <1>4 DEF CallsIn, Connected, NewSession, registry, Fault
<1>5. ASSUME NEW p \in Slots, Disconnected(p) PROVE BindsFirst
  BY <1>5 DEF Disconnected, ReleasePeer, Fault
<1>6. ASSUME NEW p \in Slots, Authenticate(p) PROVE BindsFirst
  BY <1>6 DEF Authenticate, Receives, registry, transport
<1>7. ASSUME NEW p \in Slots, CloseSession(p) PROVE BindsFirst
  BY <1>7 DEF CloseSession, Receives, Close, Fault, registry, sessions
<1>8. ASSUME NEW p \in Slots, Refuse(p) PROVE BindsFirst
  BY <1>8 DEF Refuse, Receives, Close, registry, sessions
<1>9. ASSUME NEW p \in Slots, NEW ok \in BOOLEAN, Join(p, ok) PROVE BindsFirst
  BY <1>9 DEF Join, Receives, MayRegister, CanBind, Bind, Verdict, Close, Fault
<1>10. ASSUME NEW p \in Slots, NEW ok \in BOOLEAN, Admit(p, ok) PROVE BindsFirst
  BY <1>10 DEF Admit, Receives, Verdict, Close, Fault, sessions
<1>11. ASSUME NEW p \in Slots, Pong(p) PROVE BindsFirst
  BY <1>11 DEF Pong, Receives, sessions, transport
<1>12. ASSUME NEW p \in Slots, TileResult(p) PROVE BindsFirst
  BY <1>12 DEF TileResult, Less, Receives, sessions, transport
<1>13. ASSUME NEW p \in Slots, TileIgnored(p) PROVE BindsFirst
  BY <1>13 DEF TileIgnored, Receives, registry, sessions, transport
<1>14. ASSUME NEW silent \in SUBSET Nodes, NEW stuck \in SUBSET Slots, DetectTimeouts(silent, stuck) PROVE BindsFirst
  BY <1>14 DEF DetectTimeouts, Fault
<1>15. ASSUME NEW n \in Nodes, Dispatch(n) PROVE BindsFirst
  BY <1>15 DEF Dispatch, AcceptsWork, Live, sessions, transport
<1>16. ASSUME NEW n \in Nodes, DeadlineMiss(n) PROVE BindsFirst
  BY <1>16 DEF DeadlineMiss, AcceptsWork, Less, sessions, transport
<1>17. CASE FrameEnds
  BY <1>17 DEF FrameEnds, sessions, transport
<1>18. CASE Restart
  BY <1>18 DEF Restart, Fault
<1>19. CASE UNCHANGED vars
  BY <1>19 DEF vars, registry, sessions, transport
<1> HIDE DEF StandsAt, ConnectsFor, Awaits, Base, TypeOK, Occupied, UnknownIsBlank, IndexesAgree, Serves, BindingIsLive, Own, At, Serving, States, Standing, BindsFirst
<1> QED
  BY <1>1, <1>2, <1>3, <1>4, <1>5, <1>6, <1>7, <1>8, <1>9, <1>10, <1>11, <1>12, <1>13, <1>14, <1>15, <1>16, <1>17, <1>18, <1>19 DEF Next, Maintain, EventOf, PacketOf, Frames

(* Work is offered over a peer only with the authenticated session of that   *)
(* peer, and a node serves without a peer only after it called in on the     *)
(* peer of a detached node.                                                  *)
THEOREM ServingAlwaysHasSession == Spec => ServingHasSession
<1>1. IInv => Serves
  BY DEF IInv
<1>2. IInv /\ [Next]_vars => [BindsFirst]_vars
  BY BindsFirstStep
<1> QED
  BY <1>1, <1>2, Inductive, PTL DEF Spec, ServingHasSession, Serves

(* Only a detached node keeps a peer the transport has taken back.           *)
THEOREM BindingsAreLive == Spec => []BindingIsLive
<1>1. IInv => BindingIsLive
  BY DEF IInv
<1> QED
  BY <1>1, Inductive, PTL
=============================================================================
