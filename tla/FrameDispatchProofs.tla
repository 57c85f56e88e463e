------------------------- MODULE FrameDispatchProofs -------------------------
(* Proofs about FrameDispatch for every tile grid, every set of workers and  *)
(* every number of frames.                                                   *)
EXTENDS FrameDispatch, FiniteSetTheorems, TLAPS

-----------------------------------------------------------------------------
(* The inductive invariant, in parts.                                        *)

Done(t) == status[t] \in Completed
DoneTiles == {t \in active : Done(t)}

(* The window is open exactly while a frame runs, and a thread that is about *)
(* to write into it has completed the tile and holds the frame up.           *)
WindowOK ==
  /\ window <=> InFrame
  /\ pump.pc # "idle" => /\ window /\ pump.tile \in active
                         /\ status[pump.tile] = "CompletedRemote"
                         /\ cluster \in {"active", "stopping"}
  /\ \A t \in Tiles : work[t] # "none" => dpc = "batch" /\ t \in batch
  /\ \A t \in Tiles : work[t] = "store" => status[t] = "CompletedLocal"
  /\ cluster \in {"clearing", "down"} => ~InFrame

(* Only tiles of the window are dispatched or completed, and the in-flight   *)
(* list misses no tile that is in flight.                                    *)
StatusOK ==
  /\ \A t \in Tiles : Done(t) => t \in active
  /\ \A t \in Tiles : status[t] = "Skipped" <=> t \notin active
  /\ \A t \in Tiles : status[t] = "InFlight" => t \in inFlight

(* A completed tile has been written once, unless its completer is on the    *)
(* way to write it; no other tile has been written.                          *)
StoredOK ==
  \A t \in Tiles :
    stored[t] = IF Done(t) /\ work[t] # "store" /\ ~(pump.pc # "idle" /\ pump.tile = t)
                  THEN 1 ELSE 0

CountOK == completed + (IF pump.pc = "count" THEN 1 ELSE 0) = Cardinality(DoneTiles)

(* From the final reclaim on nothing is in flight; the last batch holds all  *)
(* that is left, and only a cancellation makes it give up a tile.            *)
FinalOK ==
  /\ \/ dpc \in {"drain", "sweep"}
     \/ dpc = "batch" /\ after \in {"sweep", "finish"}
     => \A t \in Tiles : status[t] # "InFlight"
  /\ dpc = "batch" /\ after = "finish" =>
       \A t \in active : Done(t) \/ work[t] \in {"render", "failed"}
  /\ dpc = "batch" /\ attempt = 2 => ((\E t \in Tiles : work[t] = "failed") => cancelFlag)
  /\ dpc \in {"finish", "close"} /\ ~cancelled => \A t \in active : Done(t)

CompleteOK ==
  complete => dpc \in {"close", "idle"} /\ \A t \in active : Done(t)

IInv == TypeOK /\ WindowOK /\ StatusOK /\ StoredOK /\ CountOK /\ FinalOK /\ CompleteOK

-----------------------------------------------------------------------------

LEMMA TypeInit == Init => TypeOK
<1> SUFFICES ASSUME Init PROVE TypeOK
  OBVIOUS
<1>1. /\ status \in [Tiles -> {"Skipped", "Queued", "InFlight", "Reclaimed"} \cup Completed]
      /\ owner \in [Tiles -> Nodes \cup {Local}]
      /\ work \in [Tiles -> {"none", "render", "store", "failed"}]
      /\ stored \in [Tiles -> Nat]
  BY DEF Init
<1>2. pump \in [pc : {"idle", "count", "store"}, tile : Tiles]
  BY DEF Init
<1>3. /\ active \subseteq Tiles /\ inFlight \subseteq Tiles /\ completed \in Nat /\ frame \in Nat
      /\ window \in BOOLEAN /\ nodeLoss \subseteq Tiles /\ batch \subseteq Tiles
      /\ cancelled \in BOOLEAN /\ complete \in BOOLEAN /\ up \subseteq Nodes
      /\ cancelFlag \in BOOLEAN /\ late \in BOOLEAN /\ tasks \subseteq Nat \X Tiles \X Nodes
  BY DEF Init
<1> QED
  BY <1>1, <1>2, <1>3 DEF Init, TypeOK

LEMMA TypeStep == TypeOK /\ [Next]_vars => TypeOK'
<1> SUFFICES ASSUME TypeOK, [Next]_vars
             PROVE  TypeOK'
  OBVIOUS
<1> USE DEF TypeOK, Completed, scheduler, dispatcher, pool, environment
<1>1. CASE Call
  BY <1>1 DEF Call
<1>2. CASE Enter \/ SetupRefused
  BY <1>2 DEF Enter, SetupRefused
<1>3. ASSUME NEW wanted \in SUBSET Tiles, NEW plan \in [Tiles -> Nodes \cup {Local}],
             NEW unsent \in SUBSET {t \in wanted : plan[t] \in up},
             Setup(wanted, plan, unsent)
      PROVE  TypeOK'
  <2>1. tasks' \subseteq Nat \X Tiles \X Nodes
    BY <1>3 DEF Setup
  <2> QED
    BY <1>3, <2>1 DEF Setup
<1>4. ASSUME NEW t \in Tiles, TryCompleteLocal(t) PROVE TypeOK'
  BY <1>4 DEF TryCompleteLocal
<1>5. ASSUME NEW t \in Tiles, StoreLocal(t) \/ RenderFails(t) PROVE TypeOK'
  BY <1>5 DEF StoreLocal, RenderFails
<1>6. CASE RetryInSoftware \/ BatchReturns
  <2>1. CASE RetryInSoftware
    BY <2>1 DEF RetryInSoftware
  <2>2. CASE BatchReturns
    <3>1. cancelled' \in BOOLEAN
      BY <2>2, Zenon DEF BatchReturns
    <3>2. work' \in [Tiles -> {"none", "render", "store", "failed"}]
      BY <2>2 DEF BatchReturns
    <3>3. dpc' \in {"loop", "sweep", "finish"}
      BY <2>2 DEF BatchReturns
    <3> QED
      BY <2>2, <3>1, <3>2, <3>3 DEF BatchReturns
  <2> QED
    BY <1>6, <2>1, <2>2
<1>7. CASE LoopEnds \/ LoopCancelled \/ LoopDeadline \/ LoopDrain
  <2>1. CASE LoopEnds
    BY <2>1 DEF LoopEnds
  <2>2. CASE LoopCancelled
    BY <2>2 DEF LoopCancelled
  <2>3. CASE LoopDeadline
    BY <2>3 DEF LoopDeadline
  <2>4. CASE LoopDrain
    BY <2>4 DEF LoopDrain
  <2> QED
    BY <1>7, <2>1, <2>2, <2>3, <2>4
<1>8. ASSUME NEW S \in SUBSET inFlight, CollectExpired(S) PROVE TypeOK'
  BY <1>8 DEF CollectExpired, Reclaim
<1>9. ASSUME NEW S \in SUBSET inFlight, StealSpeculative(S) PROVE TypeOK'
  BY <1>9 DEF StealSpeculative, Reclaim
<1>10. CASE FinalReclaim
  BY <1>10 DEF FinalReclaim, Reclaim
<1>11. CASE FinalDrain \/ Sweep
  BY <1>11 DEF FinalDrain, Sweep, StartBatch
<1>12. CASE SkipFinal \/ Finish \/ Close
  <2>1. CASE SkipFinal
    BY <2>1 DEF SkipFinal
  <2>3. CASE Close
    BY ZenonT(40), <2>3 DEF Close
  <2>2. CASE Finish
    <3>1. complete' \in BOOLEAN
      BY <2>2, Zenon DEF Finish
    <3> QED
      BY <2>2, <3>1 DEF Finish
  <2> QED
    BY <1>12, <2>1, <2>2, <2>3
<1>13. ASSUME NEW f, NEW t \in Tiles, NEW n, ResultArrives(f, t, n) PROVE TypeOK'
  BY <1>13 DEF ResultArrives
<1>14. CASE PumpCounts \/ PumpStores
  <2>1. CASE PumpCounts
    BY <2>1 DEF PumpCounts
  <2>2. CASE PumpStores
    BY <2>2 DEF PumpStores
  <2> QED
    BY <1>14, <2>1, <2>2
<1>15. ASSUME NEW n \in Nodes, NodeLost(n) \/ NodeReturns(n) PROVE TypeOK'
  BY <1>15 DEF NodeLost, NodeReturns, Reclaim, HandOver
<1>16. CASE Environment
  <2>1. CASE RequestCancel
    BY <2>1 DEF RequestCancel
  <2>2. CASE DeadlinePasses
    BY <2>2 DEF DeadlinePasses
  <2>3. CASE ShutdownBegins
    BY <2>3 DEF ShutdownBegins
  <2>4. CASE PumpJoined
    BY <2>4 DEF PumpJoined
  <2>5. CASE ShutdownWaits
    BY <2>5 DEF ShutdownWaits
  <2>6. CASE ShutdownEnds
    <3>1. /\ up' \subseteq Nodes /\ nodeLoss' \subseteq Tiles /\ tasks' \subseteq Nat \X Tiles \X Nodes
          /\ cluster' = "down" /\ window' = FALSE
      BY <2>6 DEF ShutdownEnds
    <3>2. /\ UNCHANGED <<status, owner, active, inFlight, completed, frame>>
          /\ UNCHANGED <<dpc, batch, after, cancelled, complete, attempt, work>>
          /\ UNCHANGED <<cancelFlag, late, pump, stored>>
      BY <2>6 DEF ShutdownEnds
    <3>3. /\ dpc' \in {"idle", "enter", "setup", "batch", "loop", "expire", "steal", "final",
                       "drain", "sweep", "finish", "close"}
          /\ after' \in {"loop", "sweep", "finish"}
          /\ cluster' \in {"active", "stopping", "joined", "clearing", "down"}
      BY <3>1, <3>2
    <3>4. /\ status' \in [Tiles -> {"Skipped", "Queued", "InFlight", "Reclaimed"} \cup Completed]
          /\ owner' \in [Tiles -> Nodes \cup {Local}] /\ stored' \in [Tiles -> Nat]
          /\ work' \in [Tiles -> {"none", "render", "store", "failed"}]
          /\ pump' \in [pc : {"idle", "count", "store"}, tile : Tiles]
      BY <3>2
    <3> QED
      BY <3>1, <3>2, <3>3, <3>4
  <2> QED
    BY <1>16, <2>1, <2>2, <2>3, <2>4, <2>5, <2>6 DEF Environment
<1>17. CASE UNCHANGED vars
  BY <1>17 DEF vars
<1> QED
  <2>1. CASE Dispatcher
    BY <2>1, <1>2, <1>3, <1>6, <1>7, <1>8, <1>9, <1>10, <1>11, <1>12 DEF Dispatcher, SomeSetup
  <2>2. CASE Pool
    BY <2>2, <1>4, <1>5 DEF Pool
  <2>3. CASE Pump
    <3>1. ASSUME NEW x \in tasks, ResultArrives(x[1], x[2], x[3]) PROVE TypeOK'
      BY <3>1, <1>13
    <3> QED
      BY <2>3, <3>1, <1>14, <1>15 DEF Pump
  <2> QED
    BY <2>1, <2>2, <2>3, <1>1, <1>16, <1>17 DEF Next

(* Every variable keeps its type, in particular the status bytes their six   *)
(* legal values and the work list its phases.                                *)
THEOREM TypeCorrect == Spec => []TypeOK
BY TypeInit, TypeStep, PTL DEF Spec

-----------------------------------------------------------------------------
(* Counting completed tiles.                                                 *)

LEMMA DoneTilesFinite ==
  ASSUME TypeOK
  PROVE  /\ IsFiniteSet(DoneTiles) /\ Cardinality(DoneTiles) \in Nat
         /\ IsFiniteSet(active) /\ Cardinality(active) \in Nat
BY FS_Subset, FS_CardinalityType, TilesAssumption DEF TypeOK, DoneTiles

(* A counter that has reached the number of active tiles means that all of   *)
(* them are completed: this is what is_frame_complete relies on.             *)
LEMMA CounterReached ==
  ASSUME TypeOK, CountOK, IsFrameComplete
  PROVE  \A t \in active : Done(t)
<1>1. DoneTiles \subseteq active
  BY DEF DoneTiles
<1>2. Cardinality(DoneTiles) <= Cardinality(active)
  BY <1>1, DoneTilesFinite, FS_Subset
<1>3. completed <= Cardinality(DoneTiles) /\ completed >= Cardinality(active)
  BY DoneTilesFinite DEF CountOK, IsFrameComplete, TypeOK
<1>4. Cardinality(DoneTiles) = Cardinality(active)
  BY <1>2, <1>3, DoneTilesFinite DEF TypeOK
<1>5. DoneTiles = active
  BY <1>1, <1>4, DoneTilesFinite, FS_Subset
<1> QED
  BY <1>5 DEF DoneTiles

LEMMA InvInit == Init => IInv
<1> SUFFICES ASSUME Init PROVE IInv
  OBVIOUS
<1>1. TypeOK
  BY TypeInit
<1>2. WindowOK /\ StatusOK /\ StoredOK /\ FinalOK /\ CompleteOK
  BY DEF Init, WindowOK, StatusOK, StoredOK, FinalOK, CompleteOK, InFrame, Done, Completed
<1>3. CountOK
  <2>1. DoneTiles = {}
    BY DEF Init, DoneTiles
  <2> QED
    BY <2>1, FS_EmptySet DEF Init, CountOK
<1> QED
  BY <1>1, <1>2, <1>3 DEF IInv

-----------------------------------------------------------------------------
(* The dispatcher, before and after its batches.                             *)

LEMMA CallInv == ASSUME IInv, TypeOK', Call \/ Enter \/ SetupRefused PROVE IInv'
<1> USE DEF Call, Enter, SetupRefused, scheduler, pool, environment
<1>1. WindowOK'
  BY DEF IInv, WindowOK, InFrame
<1>2. StatusOK' /\ StoredOK'
  BY DEF IInv, StatusOK, StoredOK, Done
<1>3. CountOK'
  BY DEF IInv, CountOK, DoneTiles, Done
<1>4. FinalOK' /\ CompleteOK'
  BY DEF IInv, FinalOK, CompleteOK, Done
<1> QED
  BY <1>1, <1>2, <1>3, <1>4 DEF IInv

LEMMA SetupInv ==
  ASSUME IInv, TypeOK', NEW wanted \in SUBSET Tiles, NEW plan \in [Tiles -> Nodes \cup {Local}],
         NEW unsent \in SUBSET {t \in wanted : plan[t] \in up}, Setup(wanted, plan, unsent)
  PROVE  IInv'
<1> USE DEF environment
<1>1. \A t \in Tiles : ~Done(t)'
  BY DEF Setup, Done, Completed
<1>2. WindowOK'
  BY DEF Setup, IInv, WindowOK, InFrame, PumpMutexFree, Operational
<1>3. StatusOK'
  BY <1>1 DEF Setup, StatusOK, IInv, TypeOK
<1>4. StoredOK'
  BY <1>1 DEF Setup, StoredOK
<1>5. CountOK'
  <2>1. DoneTiles' = {}
    BY <1>1 DEF DoneTiles, Setup
  <2> QED
    BY <2>1, FS_EmptySet DEF Setup, CountOK, PumpMutexFree
<1>6. FinalOK' /\ CompleteOK'
  BY DEF Setup, FinalOK, CompleteOK, IInv
<1> QED
  BY <1>2, <1>3, <1>4, <1>5, <1>6 DEF IInv

LEMMA FinishInv == ASSUME IInv, TypeOK', SkipFinal \/ Finish \/ Close PROVE IInv'
<1> USE DEF SkipFinal, Finish, Close, scheduler, pool, environment
<1>1. WindowOK'
  BY DEF IInv, WindowOK, InFrame, PumpMutexFree
<1>2. StatusOK' /\ StoredOK'
  BY DEF IInv, StatusOK, StoredOK, Done
<1>3. CountOK'
  BY DEF IInv, CountOK, DoneTiles, Done
<1>4. FinalOK' /\ CompleteOK'
  <2>1. IsFrameComplete => \A t \in active : Done(t)
    BY CounterReached DEF IInv
  <2>2. status' = status /\ active' = active /\ work' = work
    OBVIOUS
  <2>3. CASE SkipFinal
    BY <2>1, <2>2, <2>3 DEF IInv, FinalOK, CompleteOK, Done
  <2>4. CASE Close
    BY <2>1, <2>2, <2>4 DEF IInv, FinalOK, CompleteOK, Done
  <2>5. CASE Finish
    <3>1. /\ dpc = "finish" /\ dpc' = "close" /\ cancelled' = cancelled
          /\ after' = after /\ attempt' = attempt
      BY <2>5
    <3>2. complete' => \A t \in active : Done(t)
      BY <2>1, <2>5, Zenon
    <3>3. FinalOK'
      BY <2>2, <3>1 DEF IInv, FinalOK, Done
    <3>4. CompleteOK'
      BY <2>2, <3>1, <3>2, Zenon DEF CompleteOK, Done
    <3> QED
      BY <3>3, <3>4
  <2> QED
    BY <2>3, <2>4, <2>5
<1> QED
  BY <1>1, <1>2, <1>3, <1>4 DEF IInv

LEMMA LoopInv ==
  ASSUME IInv, TypeOK', LoopEnds \/ LoopCancelled \/ LoopDeadline \/ LoopDrain PROVE IInv'
<1> USE DEF LoopEnds, LoopCancelled, LoopDeadline, LoopDrain, scheduler, pool, environment
<1>1. WindowOK'
  BY DEF IInv, WindowOK, InFrame
<1>2. StatusOK' /\ StoredOK'
  BY DEF IInv, StatusOK, StoredOK, Done
<1>3. CountOK'
  BY DEF IInv, CountOK, DoneTiles, Done
<1>4. FinalOK' /\ CompleteOK'
  <2>1. IsFrameComplete => \A t \in active : Done(t)
    BY CounterReached DEF IInv
  <2>2. status' = status /\ active' = active
    OBVIOUS
  <2> QED
    BY <2>1, <2>2 DEF IInv, FinalOK, CompleteOK, Done
<1> QED
  BY <1>1, <1>2, <1>3, <1>4 DEF IInv

-----------------------------------------------------------------------------
(* run_local_batch.                                                          *)

(* One more tile is completed.                                               *)
LEMMA OneMoreDone ==
  ASSUME IInv, NEW t \in active, ~Done(t), Done(t)', active' = active,
         \A u \in Tiles \ {t} : status'[u] = status[u]
  PROVE  Cardinality(DoneTiles)' = Cardinality(DoneTiles) + 1
<1>1. DoneTiles' = DoneTiles \cup {t}
  BY DEF DoneTiles, Done, IInv, TypeOK
<1>2. t \notin DoneTiles
  BY DEF DoneTiles
<1> QED
  BY <1>1, <1>2, DoneTilesFinite, FS_AddElement DEF IInv

LEMMA TryCompleteLocalInv ==
  ASSUME IInv, TypeOK', NEW t \in Tiles, TryCompleteLocal(t) PROVE IInv'
<1> USE DEF dispatcher, environment
<1>1. /\ UNCHANGED <<owner, active, inFlight, frame, dpc, batch, after, cancelled, complete>>
      /\ UNCHANGED <<attempt, up, cancelFlag, late, cluster, window, nodeLoss, pump, tasks, stored>>
      /\ dpc = "batch" /\ work[t] = "render"
  BY DEF TryCompleteLocal
<1>2. CASE status[t] \in Renderable
  <2>1. /\ status' = [status EXCEPT ![t] = "CompletedLocal"]
        /\ completed' = completed + 1
        /\ work' = [work EXCEPT ![t] = "store"]
    BY <1>2 DEF TryCompleteLocal
  <2>2. /\ \A u \in Tiles \ {t} : status'[u] = status[u] /\ work'[u] = work[u]
        /\ status'[t] = "CompletedLocal" /\ work'[t] = "store"
        /\ ~Done(t) /\ Done(t)' /\ t \in active
    BY <1>2, <2>1 DEF IInv, TypeOK, StatusOK, Done, Completed, Renderable
  <2>3. WindowOK'
    BY <1>1, <1>2, <2>2 DEF IInv, WindowOK, InFrame, Renderable, TypeOK
  <2>4. StatusOK'
    BY <1>1, <2>2 DEF IInv, StatusOK, Done
  <2>5. StoredOK'
    BY <1>1, <2>2 DEF IInv, StoredOK, Done
  <2>6. CountOK'
    <3>1. Cardinality(DoneTiles)' = Cardinality(DoneTiles) + 1
      BY <1>1, <2>2, OneMoreDone
    <3> QED
      BY <1>1, <2>1, <3>1, DoneTilesFinite DEF IInv, CountOK, TypeOK
  <2>7. FinalOK' /\ CompleteOK'
    BY <1>1, <2>2 DEF IInv, FinalOK, CompleteOK, Done, TypeOK
  <2> QED
    BY <2>3, <2>4, <2>5, <2>6, <2>7 DEF IInv
<1>3. CASE status[t] \notin Renderable
  <2>1. status' = status /\ completed' = completed /\ work' = [work EXCEPT ![t] = "none"]
    BY <1>3 DEF TryCompleteLocal
  <2>2. (\A u \in Tiles \ {t} : work'[u] = work[u]) /\ work'[t] = "none"
    BY <2>1 DEF IInv, TypeOK
  <2>3. WindowOK'
    BY <1>1, <2>1, <2>2 DEF IInv, WindowOK, InFrame, TypeOK
  <2>4. StatusOK' /\ StoredOK'
    BY <1>1, <2>1, <2>2 DEF IInv, StatusOK, StoredOK, Done
  <2>5. CountOK'
    BY <1>1, <2>1 DEF IInv, CountOK, DoneTiles, Done
  <2>6. FinalOK' /\ CompleteOK'
    <3>1. after = "finish" /\ t \in active => Done(t)
      BY <1>1, <1>3 DEF IInv, FinalOK, StatusOK, Done, TypeOK, Renderable
    <3> QED
      BY <1>1, <2>1, <2>2, <3>1 DEF IInv, FinalOK, CompleteOK, Done, TypeOK
  <2> QED
    BY <2>3, <2>4, <2>5, <2>6 DEF IInv
<1> QED
  BY <1>2, <1>3

LEMMA PoolInv ==
  ASSUME IInv, TypeOK', NEW t \in Tiles, StoreLocal(t) \/ RenderFails(t) PROVE IInv'
<1> USE DEF StoreLocal, RenderFails, scheduler, dispatcher, environment
<1>1. /\ UNCHANGED <<status, owner, active, inFlight, completed, frame>>
      /\ UNCHANGED <<dpc, batch, after, cancelled, complete>>
      /\ UNCHANGED <<attempt, up, cancelFlag, late, cluster, window, nodeLoss, pump, tasks>>
      /\ work[t] \in {"render", "store"} /\ dpc = "batch" /\ t \in batch
  BY DEF IInv, WindowOK
<1>2. /\ \A u \in Tiles \ {t} : work'[u] = work[u] /\ stored'[u] = stored[u]
      /\ \/ /\ work[t] = "store" /\ work'[t] = "none" /\ stored'[t] = stored[t] + 1
         \/ /\ work[t] = "render" /\ work'[t] = "failed" /\ stored'[t] = stored[t]
            /\ attempt = 1 \/ cancelFlag
  BY DEF IInv, TypeOK
<1>3. WindowOK'
  BY <1>1, <1>2 DEF IInv, WindowOK, InFrame
<1>4. StatusOK'
  BY <1>1 DEF IInv, StatusOK, Done
<1>5. StoredOK'
  <2>1. work[t] = "store" => /\ Done(t) /\ stored[t] = 0
                             /\ ~(pump.pc # "idle" /\ pump.tile = t)
    BY DEF IInv, StoredOK, WindowOK, Done, Completed
  <2>2. \A u \in Tiles : Done(u)' <=> Done(u)
    BY <1>1 DEF Done
  <2>3. ASSUME NEW u \in Tiles \ {t} PROVE work'[u] = work[u] /\ stored'[u] = stored[u]
    BY <1>2
  <2>4. stored'[t] = IF Done(t)' /\ work'[t] # "store" /\ ~(pump'.pc # "idle" /\ pump'.tile = t)
                      THEN 1 ELSE 0
    <3>1. CASE work[t] = "store"
      BY <1>1, <1>2, <2>1, <2>2, <3>1
    <3>2. CASE work[t] = "render"
      <4>1. stored[t] = IF Done(t) /\ ~(pump.pc # "idle" /\ pump.tile = t) THEN 1 ELSE 0
        BY <3>2 DEF IInv, StoredOK
      <4> QED
        BY <1>1, <1>2, <2>2, <3>2, <4>1
    <3> QED
      BY <1>1, <3>1, <3>2
  <2> QED
    BY <1>1, <2>2, <2>3, <2>4 DEF IInv, StoredOK
<1>6. CountOK'
  BY <1>1 DEF IInv, CountOK, DoneTiles, Done
<1>7. FinalOK' /\ CompleteOK'
  <2>1. work[t] = "store" => Done(t)
    BY DEF IInv, WindowOK, Done, Completed
  <2> QED
    BY <1>1, <1>2, <2>1 DEF IInv, TypeOK, FinalOK, CompleteOK, Done
<1> QED
  BY <1>3, <1>4, <1>5, <1>6, <1>7 DEF IInv

LEMMA RetryInv == ASSUME IInv, TypeOK', RetryInSoftware PROVE IInv'
<1> USE DEF scheduler, dispatcher, environment
<1>1. /\ UNCHANGED <<status, owner, active, inFlight, completed, frame>>
      /\ UNCHANGED <<dpc, batch, after, cancelled, complete>>
      /\ UNCHANGED <<up, cancelFlag, late, cluster, window, nodeLoss, pump, tasks, stored>>
      /\ dpc = "batch" /\ attempt' = 2
      /\ \A t \in Tiles : work[t] \in {"none", "failed"}
      /\ \A t \in Tiles : work'[t] = IF t \in batch /\ ShouldComputeLocal(t) THEN "render" ELSE "none"
  BY DEF RetryInSoftware, BatchJoined
<1>2. WindowOK'
  BY <1>1 DEF IInv, WindowOK, InFrame
<1>3. StatusOK' /\ StoredOK'
  BY <1>1 DEF IInv, StatusOK, StoredOK, Done
<1>4. CountOK'
  BY <1>1 DEF IInv, CountOK, DoneTiles, Done
<1>5. FinalOK' /\ CompleteOK'
  <2>1. ASSUME after = "finish", NEW t \in active, ~Done(t)
        PROVE  work'[t] = "render"
    <3>1. t \in Tiles /\ work[t] = "failed"
      BY <1>1, <2>1 DEF IInv, FinalOK, TypeOK
    <3>2. t \in batch
      BY <3>1 DEF IInv, WindowOK
    <3>3. status[t] # "InFlight" /\ status[t] # "Skipped"
      BY <1>1, <2>1, <3>1 DEF IInv, FinalOK, StatusOK
    <3>4. ShouldComputeLocal(t)
      BY <2>1, <3>1, <3>3 DEF IInv, TypeOK, ShouldComputeLocal, Renderable, Done
    <3> QED
      BY <1>1, <3>1, <3>2, <3>4
  <2> QED
    BY <1>1, <2>1 DEF IInv, FinalOK, CompleteOK, Done
<1> QED
  BY <1>2, <1>3, <1>4, <1>5 DEF IInv

LEMMA BatchReturnsInv == ASSUME IInv, TypeOK', BatchReturns PROVE IInv'
<1> USE DEF scheduler, environment
<1>1. /\ UNCHANGED <<status, owner, active, inFlight, completed, frame>>
      /\ UNCHANGED <<batch, after, complete, attempt>>
      /\ UNCHANGED <<up, cancelFlag, late, cluster, window, nodeLoss, pump, tasks, stored>>
      /\ dpc = "batch" /\ dpc' = after /\ after \in {"loop", "sweep", "finish"}
      /\ \A t \in Tiles : work[t] \in {"none", "failed"} /\ work'[t] = "none"
  BY DEF BatchReturns, BatchJoined, IInv, TypeOK
<1>2. BatchFailed => cancelFlag
  <2>1. BatchFailed => cancelFlag \/ attempt = 2
    BY DEF BatchReturns
  <2> QED
    BY <1>1, <2>1 DEF IInv, FinalOK, BatchFailed
<1>3. ~cancelled' => ~BatchFailed
  BY <1>2, Zenon DEF BatchReturns
<1>4. WindowOK'
  BY <1>1 DEF IInv, WindowOK, InFrame
<1>5. StatusOK' /\ StoredOK'
  BY <1>1 DEF IInv, StatusOK, StoredOK, Done
<1>6. CountOK'
  BY <1>1 DEF IInv, CountOK, DoneTiles, Done
<1>7. CompleteOK'
  BY <1>1 DEF IInv, CompleteOK
<1>8. FinalOK'
  <2>1. ASSUME after = "finish", ~cancelled', NEW t \in active PROVE Done(t)
    <3>1. t \in Tiles /\ work[t] # "failed"
      BY <1>3, <2>1 DEF BatchFailed, IInv, TypeOK
    <3> QED
      BY <1>1, <2>1, <3>1 DEF IInv, FinalOK
  <2> QED
    BY <1>1, <2>1 DEF IInv, FinalOK, Done
<1> QED
  BY <1>4, <1>5, <1>6, <1>7, <1>8 DEF IInv

-----------------------------------------------------------------------------
(* Taking tiles back.                                                        *)

(* Reclaiming touches only tiles in flight: what is completed stays so.      *)
LEMMA ReclaimFacts ==
  ASSUME IInv, NEW S \in SUBSET Tiles, \A t \in S : StillInFlight(t), Reclaim(S), active' = active
  PROVE  /\ \A t \in Tiles : status'[t] = IF t \in S THEN "Reclaimed" ELSE status[t]
         /\ \A t \in Tiles : Done(t)' <=> Done(t)
         /\ \A t \in Tiles : Done(t) => t \notin S
         /\ DoneTiles' = DoneTiles
         /\ StatusOK'
<1>1. \A t \in Tiles : status'[t] = IF t \in S THEN "Reclaimed" ELSE status[t]
  BY DEF Reclaim
<1>2. \A t \in S : status[t] = "InFlight" /\ t \in inFlight
  BY DEF StillInFlight
<1>3. /\ \A t \in Tiles : Done(t)' <=> Done(t)
      /\ \A t \in Tiles : Done(t) => t \notin S
  BY <1>1, <1>2 DEF Done, Completed
<1>4. DoneTiles' = DoneTiles
  BY <1>3 DEF DoneTiles, IInv, TypeOK
<1>5. \A t \in Tiles : status'[t] = "InFlight" => t \in inFlight'
  BY <1>1 DEF Reclaim, StillInFlight, IInv, StatusOK
<1>6. StatusOK'
  BY <1>1, <1>2, <1>3, <1>5 DEF IInv, StatusOK
<1> QED
  BY <1>1, <1>3, <1>4, <1>6

(* So do the two writers, whose tiles are completed.                         *)
LEMMA ReclaimSparesWriters ==
  ASSUME IInv, NEW S \in SUBSET Tiles, \A t \in S : StillInFlight(t), Reclaim(S), active' = active
  PROVE  /\ pump.pc # "idle" => status'[pump.tile] = "CompletedRemote"
         /\ \A t \in Tiles : work[t] = "store" => status'[t] = "CompletedLocal"
<1>1. \A t \in Tiles : Done(t) => status'[t] = status[t]
  BY ReclaimFacts
<1>2. pump.tile \in Tiles
  BY DEF IInv, TypeOK
<1>3. pump.pc # "idle" => status[pump.tile] = "CompletedRemote"
  BY DEF IInv, WindowOK
<1>4. \A t \in Tiles : work[t] = "store" => status[t] = "CompletedLocal"
  BY DEF IInv, WindowOK
<1> QED
  BY <1>1, <1>2, <1>3, <1>4 DEF Done, Completed

(* An action that reclaims and leaves the pixels and the counter alone.      *)
LEMMA ReclaimCounts ==
  ASSUME IInv, NEW S \in SUBSET Tiles, \A t \in S : StillInFlight(t), Reclaim(S),
         UNCHANGED <<active, completed, pump, stored>>,
         \A t \in Tiles : (work[t] # "store" /\ work'[t] # "store") \/ work'[t] = work[t]
  PROVE  StoredOK' /\ CountOK' /\ StatusOK'
<1>1. CountOK'
  BY ReclaimFacts DEF IInv, CountOK
<1>2. StoredOK'
  BY ReclaimFacts DEF IInv, StoredOK
<1> QED
  BY <1>1, <1>2, ReclaimFacts

LEMMA CollectExpiredInv ==
  ASSUME IInv, TypeOK', NEW S \in SUBSET inFlight, CollectExpired(S) PROVE IInv'
<1> USE DEF pool, environment
<1>1. /\ UNCHANGED <<owner, active, completed, frame, after, cancelled, complete, attempt, work>>
      /\ UNCHANGED <<up, cancelFlag, late, cluster, window, nodeLoss, pump, tasks, stored>>
      /\ dpc = "expire" /\ dpc' = "steal" /\ batch' = batch \cup S
      /\ S \in SUBSET Tiles /\ Reclaim(S) /\ \A t \in S : StillInFlight(t)
  BY DEF CollectExpired, IInv, TypeOK
<1>2. StoredOK' /\ CountOK' /\ StatusOK'
  BY <1>1, ReclaimCounts
<1>3. WindowOK'
  <2>1. /\ pump.pc # "idle" => status'[pump.tile] = "CompletedRemote"
        /\ \A t \in Tiles : work[t] = "store" => status'[t] = "CompletedLocal"
    BY <1>1, ReclaimSparesWriters
  <2> QED
    BY <1>1, <2>1 DEF IInv, WindowOK, InFrame
<1>4. FinalOK' /\ CompleteOK'
  BY <1>1 DEF IInv, FinalOK, CompleteOK
<1> QED
  BY <1>2, <1>3, <1>4 DEF IInv

LEMMA StealInv ==
  ASSUME IInv, TypeOK', NEW S \in SUBSET inFlight, StealSpeculative(S) PROVE IInv'
<1> USE DEF pool, environment
<1>1. /\ UNCHANGED <<owner, active, completed, frame, cancelled, complete>>
      /\ UNCHANGED <<up, cancelFlag, late, cluster, window, nodeLoss, pump, tasks, stored>>
      /\ dpc = "steal"
      /\ S \in SUBSET Tiles /\ Reclaim(S) /\ \A t \in S : StillInFlight(t)
  BY DEF StealSpeculative, IInv, TypeOK
<1>2. \A t \in Tiles : work[t] = "none"
  BY <1>1 DEF IInv, WindowOK, TypeOK
<1>3. \/ /\ dpc' = "loop" /\ work' = work /\ attempt' = attempt
      \/ /\ dpc' = "batch" /\ after' = "loop" /\ batch' = batch \cup S /\ attempt' = 1
         /\ \A t \in Tiles : work'[t] \in {"render", "none"} /\ (work'[t] # "none" => t \in batch')
  BY DEF StealSpeculative
<1>4. StoredOK' /\ CountOK' /\ StatusOK'
  <2>1. \A t \in Tiles : work[t] # "store" /\ work'[t] # "store"
    BY <1>2, <1>3
  <2> QED
    BY <1>1, <2>1, ReclaimCounts
<1>5. WindowOK'
  <2>1. /\ pump.pc # "idle" => status'[pump.tile] = "CompletedRemote"
        /\ \A t \in Tiles : work[t] = "store" => status'[t] = "CompletedLocal"
    BY <1>1, ReclaimSparesWriters
  <2> QED
    BY <1>1, <1>2, <1>3, <2>1 DEF IInv, WindowOK, InFrame
<1>6. FinalOK' /\ CompleteOK'
  BY <1>1, <1>2, <1>3 DEF IInv, FinalOK, CompleteOK
<1> QED
  BY <1>4, <1>5, <1>6 DEF IInv

LEMMA FinalReclaimInv == ASSUME IInv, TypeOK', FinalReclaim PROVE IInv'
<1> USE DEF pool, environment
<1> DEFINE S == {t \in inFlight : StillInFlight(t)}
<1>1. /\ UNCHANGED <<owner, active, completed, frame, after, cancelled, complete, attempt, work>>
      /\ UNCHANGED <<up, cancelFlag, late, cluster, window, nodeLoss, pump, tasks, stored>>
      /\ dpc = "final" /\ dpc' = "drain"
      /\ S \in SUBSET Tiles /\ Reclaim(S) /\ \A t \in S : StillInFlight(t)
  BY DEF FinalReclaim, IInv, TypeOK
<1>2. StoredOK' /\ CountOK' /\ StatusOK'
  BY <1>1, ReclaimCounts
<1>3. \A t \in Tiles : work[t] = "none"
  BY <1>1 DEF IInv, WindowOK, TypeOK
<1>4. WindowOK'
  <2>1. /\ pump.pc # "idle" => status'[pump.tile] = "CompletedRemote"
        /\ \A t \in Tiles : work[t] = "store" => status'[t] = "CompletedLocal"
    BY <1>1, ReclaimSparesWriters
  <2> QED
    BY <1>1, <1>3, <2>1 DEF IInv, WindowOK, InFrame
<1>5. \A t \in Tiles : status'[t] # "InFlight"
  <2>1. \A t \in Tiles : status'[t] = IF t \in S THEN "Reclaimed" ELSE status[t]
    BY <1>1, ReclaimFacts
  <2>2. \A t \in Tiles : status[t] = "InFlight" => t \in S
    BY DEF IInv, StatusOK, StillInFlight
  <2> QED
    BY <2>1, <2>2
<1>6. FinalOK' /\ CompleteOK'
  BY <1>1, <1>5 DEF IInv, FinalOK, CompleteOK
<1> QED
  BY <1>2, <1>4, <1>6 DEF IInv

(* The last two batches: nothing is in flight any more.                      *)
LEMMA LastBatchInv == ASSUME IInv, TypeOK', FinalDrain \/ Sweep PROVE IInv'
<1> USE DEF scheduler, environment
<1>1. /\ UNCHANGED <<status, owner, active, inFlight, completed, frame, cancelled, complete>>
      /\ UNCHANGED <<up, cancelFlag, late, cluster, window, pump, tasks, stored>>
      /\ dpc \in {"drain", "sweep"} /\ dpc' = "batch" /\ attempt' = 1
      /\ \A t \in Tiles : work'[t] = IF t \in batch' /\ ShouldComputeLocal(t) THEN "render" ELSE "none"
      /\ after' = "finish" => \A t \in active : ShouldComputeLocal(t) => t \in batch'
  BY DEF FinalDrain, Sweep, StartBatch
<1>2. \A t \in Tiles : work[t] = "none" /\ status[t] # "InFlight"
  BY <1>1 DEF IInv, WindowOK, FinalOK, TypeOK
<1>3. WindowOK'
  BY <1>1, <1>2 DEF IInv, WindowOK, InFrame
<1>4. StatusOK' /\ StoredOK'
  BY <1>1, <1>2 DEF IInv, StatusOK, StoredOK, Done
<1>5. CountOK'
  BY <1>1 DEF IInv, CountOK, DoneTiles, Done
<1>6. FinalOK' /\ CompleteOK'
  <2>1. ASSUME NEW t \in active, ~Done(t) PROVE ShouldComputeLocal(t) /\ t \in Tiles
    BY <1>2, <2>1 DEF IInv, TypeOK, StatusOK, Done, ShouldComputeLocal, Renderable
  <2> QED
    BY <1>1, <1>2, <2>1 DEF IInv, FinalOK, CompleteOK, Done
<1> QED
  BY <1>3, <1>4, <1>5, <1>6 DEF IInv

-----------------------------------------------------------------------------
(* The pump.                                                                 *)

LEMMA ResultArrivesInv ==
  ASSUME IInv, TypeOK', NEW f, NEW t, NEW n, ResultArrives(f, t, n) PROVE IInv'
<1> USE DEF dispatcher, pool, environment
<1>1. /\ UNCHANGED <<owner, active, inFlight, completed, frame>>
      /\ UNCHANGED <<dpc, batch, after, cancelled, complete, attempt, work>>
      /\ UNCHANGED <<up, cancelFlag, late, cluster, window, nodeLoss, stored>>
      /\ pump.pc = "idle" /\ cluster \in {"active", "stopping"} /\ t \in Tiles
  BY DEF ResultArrives, PumpServes, PumpMutexFree, IInv, TypeOK
<1>2. CASE status' = status /\ pump' = pump
  <2>1. WindowOK'
    BY <1>1, <1>2 DEF IInv, WindowOK, InFrame
  <2>2. StatusOK' /\ StoredOK'
    BY <1>1, <1>2 DEF IInv, StatusOK, StoredOK, Done
  <2>3. CountOK'
    BY <1>1, <1>2 DEF IInv, CountOK, DoneTiles, Done
  <2>4. FinalOK' /\ CompleteOK'
    BY <1>1, <1>2 DEF IInv, FinalOK, CompleteOK, Done
  <2> QED
    BY <2>1, <2>2, <2>3, <2>4 DEF IInv
<1>3. CASE /\ window /\ status[t] \in {"InFlight", "Reclaimed"}
           /\ status' = [status EXCEPT ![t] = "CompletedRemote"]
           /\ pump' = [pc |-> "count", tile |-> t]
  <2>1. /\ \A u \in Tiles \ {t} : status'[u] = status[u]
        /\ status'[t] = "CompletedRemote" /\ ~Done(t) /\ Done(t)' /\ t \in active
        /\ pump'.pc = "count" /\ pump'.tile = t
    BY <1>1, <1>3 DEF IInv, TypeOK, StatusOK, Done, Completed
  <2>2. work[t] # "store"
    BY <1>1, <2>1 DEF IInv, WindowOK, Done, Completed
  <2>3. WindowOK'
    BY <1>1, <1>3, <2>1, <2>2 DEF IInv, WindowOK, InFrame
  <2>4. StatusOK'
    BY <1>1, <2>1 DEF IInv, StatusOK, Done
  <2>5. StoredOK'
    BY <1>1, <2>1 DEF IInv, StoredOK, Done
  <2>6. CountOK'
    <3>1. Cardinality(DoneTiles)' = Cardinality(DoneTiles) + 1
      BY <1>1, <2>1, OneMoreDone
    <3> QED
      BY <1>1, <2>1, <3>1, DoneTilesFinite DEF IInv, CountOK, TypeOK
  <2>7. FinalOK' /\ CompleteOK'
    BY <1>1, <2>1 DEF IInv, TypeOK, FinalOK, CompleteOK, Done
  <2> QED
    BY <2>3, <2>4, <2>5, <2>6, <2>7 DEF IInv
<1> QED
  BY <1>2, <1>3 DEF ResultArrives

LEMMA PumpCountsInv == ASSUME IInv, TypeOK', PumpCounts PROVE IInv'
<1> USE DEF dispatcher, pool, environment
<1>1. /\ UNCHANGED <<status, owner, active, inFlight, frame>>
      /\ UNCHANGED <<dpc, batch, after, cancelled, complete, attempt, work>>
      /\ UNCHANGED <<up, cancelFlag, late, cluster, window, nodeLoss, stored>>
      /\ pump.pc = "count" /\ pump'.pc = "store" /\ pump'.tile = pump.tile
      /\ completed' = completed + 1
  BY DEF PumpCounts, IInv, TypeOK
<1>2. WindowOK' /\ StatusOK'
  BY <1>1 DEF IInv, WindowOK, InFrame, StatusOK, Done
<1>3. StoredOK'
  BY <1>1 DEF IInv, StoredOK, Done
<1>4. CountOK'
  BY <1>1 DEF IInv, CountOK, DoneTiles, Done, TypeOK
<1>5. FinalOK' /\ CompleteOK'
  BY <1>1 DEF IInv, FinalOK, CompleteOK, Done
<1> QED
  BY <1>2, <1>3, <1>4, <1>5 DEF IInv

LEMMA PumpStoresInv == ASSUME IInv, TypeOK', PumpStores PROVE IInv'
<1> USE DEF scheduler, dispatcher, pool, environment
<1>1. /\ UNCHANGED <<status, owner, active, inFlight, completed, frame>>
      /\ UNCHANGED <<dpc, batch, after, cancelled, complete, attempt, work>>
      /\ UNCHANGED <<up, cancelFlag, late, cluster, window, nodeLoss>>
      /\ pump.pc = "store" /\ pump'.pc = "idle" /\ pump.tile \in Tiles
      /\ stored' = [stored EXCEPT ![pump.tile] = @ + 1]
  BY DEF PumpStores, IInv, TypeOK
<1>2. WindowOK' /\ StatusOK'
  BY <1>1 DEF IInv, WindowOK, InFrame, StatusOK, Done
<1>3. StoredOK'
  <2>1. /\ status[pump.tile] = "CompletedRemote" /\ work[pump.tile] # "store"
        /\ stored[pump.tile] = 0
    BY <1>1 DEF IInv, WindowOK, StoredOK
  <2>2. stored'[pump.tile] = 1 /\ \A t \in Tiles \ {pump.tile} : stored'[t] = stored[t]
    BY <1>1, <2>1 DEF IInv, TypeOK
  <2> QED
    BY <1>1, <2>1, <2>2 DEF IInv, StoredOK, Done, Completed
<1>4. CountOK'
  BY <1>1 DEF IInv, CountOK, DoneTiles, Done
<1>5. FinalOK' /\ CompleteOK'
  BY <1>1 DEF IInv, FinalOK, CompleteOK, Done
<1> QED
  BY <1>2, <1>3, <1>4, <1>5 DEF IInv

LEMMA NodeLostInv == ASSUME IInv, TypeOK', NEW n \in Nodes, NodeLost(n) PROVE IInv'
<1> USE DEF dispatcher, pool
<1> DEFINE S == {t \in inFlight : StillInFlight(t) /\ owner[t] = n}
<1>1. /\ UNCHANGED <<owner, active, completed, frame, dpc, batch, after, cancelled, complete>>
      /\ UNCHANGED <<attempt, work, cancelFlag, late, cluster, window, pump, stored>>
      /\ S \in SUBSET Tiles /\ Reclaim(S) /\ \A t \in S : StillInFlight(t)
      /\ pump.pc = "idle"
  BY DEF NodeLost, PumpServes, PumpMutexFree, IInv, TypeOK
<1>2. StoredOK' /\ CountOK' /\ StatusOK'
  BY <1>1, ReclaimCounts
<1>3. WindowOK'
  <2>1. \A t \in Tiles : work[t] = "store" => status'[t] = "CompletedLocal"
    BY <1>1, ReclaimSparesWriters
  <2> QED
    BY <1>1, <2>1 DEF IInv, WindowOK, InFrame
<1>4. FinalOK' /\ CompleteOK'
  <2>1. \A t \in Tiles : Done(t) => Done(t)'
    BY <1>1, ReclaimFacts
  <2>2. \A t \in Tiles : status[t] # "InFlight" => status'[t] # "InFlight"
    <3>1. \A t \in Tiles : status'[t] = IF t \in S THEN "Reclaimed" ELSE status[t]
      BY <1>1, ReclaimFacts
    <3> QED
      BY <3>1
  <2> HIDE DEF S
  <2> QED
    BY <1>1, <2>1, <2>2 DEF IInv, TypeOK, FinalOK, CompleteOK
<1> QED
  BY <1>2, <1>3, <1>4 DEF IInv

LEMMA OutsideInv ==
  ASSUME IInv, TypeOK', Environment \/ \E n \in Nodes : NodeReturns(n) PROVE IInv'
<1> USE DEF scheduler, dispatcher, pool
<1>1. /\ UNCHANGED <<status, owner, active, inFlight, completed, frame>>
      /\ UNCHANGED <<dpc, batch, after, cancelled, complete, attempt, work, pump, stored>>
      /\ cancelFlag => cancelFlag'
  BY DEF Environment, RequestCancel, DeadlinePasses, ShutdownBegins, PumpJoined, ShutdownWaits,
         ShutdownEnds, NodeReturns
<1>2. /\ pump.pc # "idle" => cluster' \in {"active", "stopping"}
      /\ cluster' \in {"clearing", "down"} => cluster \in {"clearing", "down"} \/ ~InFrame
      /\ window' = window \/ (~window' /\ cluster = "clearing" /\ pump.pc = "idle")
  <2>1. pump.pc # "idle" => cluster \in {"active", "stopping"}
    BY DEF IInv, WindowOK
  <2>2. CASE RequestCancel \/ DeadlinePasses \/ \E n \in Nodes : NodeReturns(n)
    BY <2>1, <2>2 DEF RequestCancel, DeadlinePasses, NodeReturns
  <2>3. CASE ShutdownBegins \/ PumpJoined
    BY <2>1, <2>3 DEF ShutdownBegins, PumpJoined, PumpMutexFree
  <2>4. CASE ShutdownWaits \/ ShutdownEnds
    BY <2>1, <2>4 DEF ShutdownWaits, ShutdownEnds, PumpMutexFree, DispatchMutexFree, InFrame
  <2> QED
    BY <2>2, <2>3, <2>4 DEF Environment
<1>3. WindowOK'
  BY <1>1, <1>2 DEF IInv, WindowOK, InFrame
<1>4. StatusOK' /\ StoredOK'
  BY <1>1 DEF IInv, StatusOK, StoredOK, Done
<1>5. CountOK'
  BY <1>1 DEF IInv, CountOK, DoneTiles, Done
<1>6. FinalOK' /\ CompleteOK'
  BY <1>1 DEF IInv, FinalOK, CompleteOK, Done
<1> QED
  BY <1>3, <1>4, <1>5, <1>6 DEF IInv

LEMMA StutterInv == ASSUME IInv, TypeOK', UNCHANGED vars PROVE IInv'
<1> USE DEF vars, scheduler, dispatcher, pool, environment
<1>1. WindowOK' /\ StatusOK'
  BY DEF IInv, WindowOK, InFrame, StatusOK, Done
<1>2. StoredOK' /\ FinalOK' /\ CompleteOK'
  BY DEF IInv, StoredOK, FinalOK, CompleteOK, Done
<1>3. CountOK'
  BY DEF IInv, CountOK, DoneTiles, Done
<1> QED
  BY <1>1, <1>2, <1>3 DEF IInv

LEMMA InvStep == IInv /\ [Next]_vars => IInv'
<1> SUFFICES ASSUME IInv, [Next]_vars PROVE IInv'
  OBVIOUS
<1>1. TypeOK'
  BY TypeStep DEF IInv
<1>2. CASE Call
  BY <1>1, <1>2, CallInv
<1>3. CASE Dispatcher
  <2>1. CASE SomeSetup
    BY <1>1, <2>1, SetupInv DEF SomeSetup
  <2>2. CASE \E S \in SUBSET inFlight : CollectExpired(S)
    BY <1>1, <2>2, CollectExpiredInv
  <2>3. CASE \E S \in SUBSET inFlight : StealSpeculative(S)
    BY <1>1, <2>3, StealInv
  <2> QED
    BY <1>1, <1>3, <2>1, <2>2, <2>3, CallInv, RetryInv, BatchReturnsInv, LoopInv, FinalReclaimInv,
       LastBatchInv, FinishInv DEF Dispatcher
<1>4. CASE Pool
  BY <1>1, <1>4, TryCompleteLocalInv, PoolInv DEF Pool
<1>5. CASE Pump
  BY <1>1, <1>5, ResultArrivesInv, PumpCountsInv, PumpStoresInv, NodeLostInv, OutsideInv DEF Pump
<1>6. CASE Environment
  BY <1>1, <1>6, OutsideInv
<1>7. CASE UNCHANGED vars
  BY <1>1, <1>7, StutterInv
<1> QED
  BY <1>2, <1>3, <1>4, <1>5, <1>6, <1>7 DEF Next

(* The invariant that carries everything below: the window, the status       *)
(* bytes, the counter and the framebuffer agree at every step of every       *)
(* thread.                                                                   *)
THEOREM Inductive == Spec => []IInv
BY InvInit, InvStep, PTL DEF Spec

-----------------------------------------------------------------------------

(* What IInv says of the framebuffer once the frame is over.                 *)
LEMMA RenderedWhenDone ==
  ASSUME IInv, \A t \in active : Done(t), \A t \in Tiles : work[t] = "none", pump.pc = "idle"
  PROVE  \A t \in Tiles : stored[t] = IF t \in active THEN 1 ELSE 0
<1>1. \A t \in Tiles : Done(t) <=> t \in active
  BY DEF IInv, StatusOK
<1> QED
  BY <1>1 DEF IInv, StoredOK

(* A frame reported complete has every requested tile in the framebuffer     *)
(* exactly once when dispatch_frame has returned.                            *)
THEOREM CompleteFramesAreRendered == Spec => []CompleteMeansRendered
<1>1. IInv => CompleteMeansRendered
  <2> SUFFICES ASSUME IInv, dpc = "idle", complete
               PROVE  \A t \in active : stored[t] = 1
    BY DEF CompleteMeansRendered
  <2>1. \A t \in active : Done(t)
    BY DEF IInv, CompleteOK
  <2>2. pump.pc = "idle" /\ \A t \in Tiles : work[t] = "none"
    BY DEF IInv, WindowOK, InFrame, TypeOK
  <2> QED
    BY <2>1, <2>2, RenderedWhenDone DEF IInv, TypeOK
<1> QED
  BY <1>1, Inductive, PTL

(* Nobody writes to the caller's framebuffer once dispatch_frame returned.   *)
THEOREM NobodyStoresAfterReturn == Spec => []NoStoreAfterReturn
<1>1. IInv => NoStoreAfterReturn
  BY DEF IInv, WindowOK, NoStoreAfterReturn
<1> QED
  BY <1>1, Inductive, PTL

(* shutdown() clears the cluster's state under no running frame.             *)
THEOREM ShutdownExcludesFrames == Spec => []NoFrameAfterShutdown
<1>1. IInv => NoFrameAfterShutdown
  BY DEF IInv, WindowOK, NoFrameAfterShutdown
<1> QED
  BY <1>1, Inductive, PTL

(* No tile is written twice, however late and however often results come.    *)
THEOREM TilesStoredOnce == Spec => []StoredOnce
<1>1. IInv => StoredOnce
  BY DEF IInv, StoredOK, StoredOnce
<1> QED
  BY <1>1, Inductive, PTL

(* completed_tiles_ counts the completed tiles, which is why comparing it    *)
(* with the number of active tiles is a sound test of completeness.          *)
THEOREM CounterIsExact == Spec => []CounterExact
<1>1. IInv => CounterExact
  BY DEF IInv, CountOK, DoneTiles, Done, CounterExact
<1> QED
  BY <1>1, Inductive, PTL

(* Whatever the workers do, an uncancelled frame is left by its dispatcher   *)
(* only when every tile of its window has been completed.                    *)
THEOREM NoTileLeftBehind == Spec => []NothingLeftBehind
<1>1. IInv => NothingLeftBehind
  BY DEF IInv, FinalOK, Done, NothingLeftBehind
<1> QED
  BY <1>1, Inductive, PTL

(* Completion is final within a frame.                                       *)
THEOREM CompletionIsFinal == Spec => CompletedIsFinal
<1>1. IInv /\ [Next]_vars =>
        [frame' = frame => \A t \in Tiles : status[t] \in Completed => status'[t] = status[t]]_vars
  <2> SUFFICES ASSUME IInv, Next, frame' = frame, NEW t \in Tiles, status[t] \in Completed
               PROVE  status'[t] = status[t]
    OBVIOUS
  <2> USE DEF scheduler
  <2>1. CASE Call \/ Environment
    BY <2>1 DEF Call, Environment, RequestCancel, DeadlinePasses, ShutdownBegins, PumpJoined,
                ShutdownWaits, ShutdownEnds
  <2>2. CASE Pool
    BY <2>2 DEF Pool, TryCompleteLocal, StoreLocal, RenderFails, Renderable, Completed, IInv, TypeOK
  <2>3. CASE Pump
    <3>1. ASSUME NEW n \in Nodes, NodeLost(n) PROVE status'[t] = status[t]
      BY <3>1 DEF NodeLost, Reclaim, StillInFlight, Completed
    <3>2. ASSUME NEW n \in Nodes, NodeReturns(n) PROVE status'[t] = status[t]
      BY <3>2 DEF NodeReturns
    <3>3. ASSUME NEW x \in tasks, ResultArrives(x[1], x[2], x[3]) PROVE status'[t] = status[t]
      BY <3>3 DEF ResultArrives, Completed, IInv, TypeOK
    <3> QED
      BY <2>3, <3>1, <3>2, <3>3 DEF Pump, PumpCounts, PumpStores
  <2>4. CASE Dispatcher
    <3>1. ~SomeSetup
      BY DEF SomeSetup, Setup, IInv, TypeOK
    <3>2. ASSUME NEW S \in SUBSET inFlight, CollectExpired(S) \/ StealSpeculative(S)
          PROVE  status'[t] = status[t]
      BY <3>2 DEF CollectExpired, StealSpeculative, Reclaim, StillInFlight, Completed
    <3>3. ASSUME FinalReclaim PROVE status'[t] = status[t]
      BY <3>3 DEF FinalReclaim, Reclaim, StillInFlight, Completed
    <3>4. CASE Enter \/ SetupRefused \/ RetryInSoftware \/ BatchReturns \/ LoopEnds \/ LoopCancelled
      BY <3>4 DEF Enter, SetupRefused, RetryInSoftware, BatchReturns, LoopEnds, LoopCancelled
    <3>5. CASE LoopDeadline \/ LoopDrain \/ FinalDrain \/ Sweep \/ SkipFinal \/ Finish \/ Close
      BY <3>5 DEF LoopDeadline, LoopDrain, FinalDrain, Sweep, SkipFinal, Finish, Close
    <3> QED
      BY <2>4, <3>1, <3>2, <3>3, <3>4, <3>5 DEF Dispatcher
  <2> QED
    BY <2>1, <2>2, <2>3, <2>4 DEF Next
<1> QED
  BY <1>1, Inductive, PTL DEF Spec, CompletedIsFinal

-----------------------------------------------------------------------------
(* No tile is stranded.  Nobody sees from a tile's status who will render    *)
(* it: that a Queued or Reclaimed tile is in a list somebody will look at is *)
(* a second invariant, about the lists.                                      *)

(* Whoever goes back to the waiting loop has left nothing renderable but     *)
(* what the pump hands over; a batch renders what it holds.                  *)
OutstandingOK ==
  InFrame /\ ~cancelFlag =>
    \A t \in active : status[t] \in Renderable =>
      /\ t \in batch \cup nodeLoss
      /\ dpc = "batch" => work[t] \in {"render", "failed"} \/ t \in nodeLoss
      /\ dpc \in {"loop", "final"} => t \in nodeLoss

(* A tile becomes renderable again only by being reclaimed.                  *)
LEMMA RenderableAfterReclaim ==
  ASSUME IInv, NEW S \in SUBSET Tiles, \A t \in S : StillInFlight(t), Reclaim(S), active' = active,
         NEW t \in active, status'[t] \in Renderable
  PROVE  t \in S \/ status[t] \in Renderable
<1>1. t \in Tiles
  BY DEF IInv, TypeOK
<1> QED
  BY <1>1, ReclaimFacts

LEMMA CallOutstanding ==
  ASSUME IInv, OutstandingOK, Call \/ Enter \/ SetupRefused \/ SkipFinal \/ Finish \/ Close
  PROVE  OutstandingOK'
BY DEF OutstandingOK, InFrame, Call, Enter, SetupRefused, SkipFinal, Finish, Close, scheduler, pool,
       environment

LEMMA SetupOutstanding ==
  ASSUME NEW wanted \in SUBSET Tiles, NEW plan \in [Tiles -> Nodes \cup {Local}],
         NEW unsent \in SUBSET {t \in wanted : plan[t] \in up}, Setup(wanted, plan, unsent)
  PROVE  OutstandingOK'
<1> DEFINE remote == {t \in wanted : plan[t] \in up /\ t \notin unsent}
<1>1. /\ active' = wanted /\ batch' = wanted \ remote /\ dpc' = "batch"
      /\ \A t \in Tiles : t \in wanted \ remote => work'[t] = "render"
      /\ \A t \in Tiles : t \in remote => status'[t] = "InFlight"
  BY DEF Setup
<1> HIDE DEF remote
<1> QED
  BY <1>1 DEF OutstandingOK, Renderable

LEMMA LoopOutstanding ==
  ASSUME IInv, OutstandingOK, LoopEnds \/ LoopCancelled \/ LoopDeadline \/ LoopDrain
  PROVE  OutstandingOK'
BY DEF OutstandingOK, InFrame, LoopEnds, LoopCancelled, LoopDeadline, LoopDrain, scheduler, pool,
       environment

LEMMA PoolOutstanding ==
  ASSUME IInv, OutstandingOK, NEW t \in Tiles,
         TryCompleteLocal(t) \/ StoreLocal(t) \/ RenderFails(t)
  PROVE  OutstandingOK'
<1>1. /\ UNCHANGED <<active, dpc, batch, nodeLoss, cancelFlag>>
      /\ \A u \in Tiles \ {t} : status'[u] = status[u] /\ work'[u] = work[u]
  BY DEF TryCompleteLocal, StoreLocal, RenderFails, dispatcher, environment, scheduler, IInv, TypeOK
<1>2. \/ status'[t] \notin Renderable
      \/ status'[t] = status[t] /\ work'[t] = "failed"
      \/ status'[t] = status[t] /\ work[t] = "store"
  BY DEF TryCompleteLocal, StoreLocal, RenderFails, scheduler, IInv, TypeOK, Renderable
<1>3. work[t] = "store" => status[t] \notin Renderable
  BY DEF IInv, WindowOK, Renderable
<1> QED
  BY <1>1, <1>2, <1>3 DEF OutstandingOK, InFrame, IInv, TypeOK

LEMMA RetryOutstanding == ASSUME IInv, OutstandingOK, RetryInSoftware PROVE OutstandingOK'
<1>1. /\ UNCHANGED <<status, active, dpc, batch, nodeLoss, cancelFlag>>
      /\ \A t \in Tiles : t \in batch /\ ShouldComputeLocal(t) => work'[t] = "render"
      /\ dpc = "batch"
  BY DEF RetryInSoftware, BatchJoined, scheduler, dispatcher, environment
<1>2. active \subseteq Tiles
  BY DEF IInv, TypeOK
<1> QED
  BY <1>1, <1>2 DEF OutstandingOK, InFrame, ShouldComputeLocal

(* A batch that returns without a cancellation has rendered all it held.     *)
LEMMA BatchReturnsOutstanding == ASSUME IInv, OutstandingOK, BatchReturns PROVE OutstandingOK'
<1>1. /\ UNCHANGED <<status, active, batch, nodeLoss, cancelFlag>> /\ dpc = "batch" /\ dpc' = after
      /\ \A t \in Tiles : work[t] \in {"none", "failed"}
      /\ BatchFailed => cancelFlag \/ attempt = 2
      /\ after \in {"loop", "sweep", "finish"}
  BY DEF BatchReturns, BatchJoined, scheduler, environment, IInv, TypeOK
<1>2. BatchFailed => cancelFlag
  BY <1>1 DEF BatchFailed, IInv, FinalOK
<1>3. ASSUME ~cancelFlag, NEW t \in active, status[t] \in Renderable PROVE t \in nodeLoss
  <2>1. t \in Tiles /\ work[t] = "none"
    BY <1>1, <1>2, <1>3 DEF BatchFailed, IInv, TypeOK
  <2> QED
    BY <1>1, <1>3, <2>1 DEF OutstandingOK, InFrame
<1> QED
  BY <1>1, <1>3 DEF OutstandingOK, InFrame

LEMMA CollectExpiredOutstanding ==
  ASSUME IInv, OutstandingOK, NEW S \in SUBSET inFlight, CollectExpired(S) PROVE OutstandingOK'
<1>1. /\ UNCHANGED <<active, nodeLoss, cancelFlag>> /\ dpc = "expire" /\ dpc' = "steal"
      /\ batch' = batch \cup S
      /\ S \in SUBSET Tiles /\ Reclaim(S) /\ \A t \in S : StillInFlight(t)
  BY DEF CollectExpired, environment, IInv, TypeOK
<1> QED
  BY <1>1, RenderableAfterReclaim DEF OutstandingOK, InFrame

LEMMA StealOutstanding ==
  ASSUME IInv, OutstandingOK, NEW S \in SUBSET inFlight, StealSpeculative(S) PROVE OutstandingOK'
<1>1. /\ UNCHANGED <<active, nodeLoss, cancelFlag>> /\ dpc = "steal"
      /\ S \in SUBSET Tiles /\ Reclaim(S) /\ \A t \in S : StillInFlight(t)
  BY DEF StealSpeculative, environment, IInv, TypeOK
<1>2. \/ dpc' = "loop" /\ batch' = batch /\ batch \cup S = {}
      \/ /\ dpc' = "batch" /\ batch' = batch \cup S
         /\ \A t \in Tiles : t \in S \/ (t \in batch /\ ShouldComputeLocal(t)) => work'[t] = "render"
  BY DEF StealSpeculative, pool
<1>3. \A t \in active : status'[t] \in Renderable => t \in S \/ status[t] \in Renderable
  BY <1>1, RenderableAfterReclaim
<1>4. active \subseteq Tiles
  BY DEF IInv, TypeOK
<1>5. ASSUME ~cancelFlag, NEW t \in active, status'[t] \in Renderable
      PROVE  t \in S \/ t \in nodeLoss \/ (t \in batch /\ ShouldComputeLocal(t))
  BY <1>1, <1>3, <1>5 DEF OutstandingOK, InFrame, ShouldComputeLocal
<1> QED
  BY <1>1, <1>2, <1>4, <1>5 DEF OutstandingOK

LEMMA LastBatchOutstanding ==
  ASSUME IInv, OutstandingOK, FinalReclaim \/ FinalDrain \/ Sweep PROVE OutstandingOK'
<1>1. CASE FinalReclaim
  <2> DEFINE S == {t \in inFlight : StillInFlight(t)}
  <2>1. /\ UNCHANGED <<active, nodeLoss, cancelFlag>> /\ dpc = "final" /\ dpc' = "drain"
        /\ batch' = S /\ S \in SUBSET Tiles /\ Reclaim(S) /\ \A t \in S : StillInFlight(t)
    BY <1>1 DEF FinalReclaim, environment, IInv, TypeOK
  <2> HIDE DEF S
  <2> QED
    BY <2>1, RenderableAfterReclaim DEF OutstandingOK, InFrame
<1>2. CASE FinalDrain
  <2>1. /\ UNCHANGED <<status, active, cancelFlag>> /\ dpc = "drain" /\ dpc' = "batch"
        /\ batch' = batch \cup nodeLoss
        /\ \A t \in Tiles : t \in batch' /\ ShouldComputeLocal(t) => work'[t] = "render"
    BY <1>2 DEF FinalDrain, StartBatch, scheduler, environment
  <2>2. active \subseteq Tiles
    BY DEF IInv, TypeOK
  <2> QED
    BY <2>1, <2>2 DEF OutstandingOK, InFrame, ShouldComputeLocal
<1>3. CASE Sweep
  <2>1. /\ UNCHANGED <<status, active, cancelFlag>> /\ dpc' = "batch"
        /\ batch' = {t \in active : ShouldComputeLocal(t)}
        /\ \A t \in Tiles : t \in batch' /\ ShouldComputeLocal(t) => work'[t] = "render"
    BY <1>3 DEF Sweep, StartBatch, scheduler, environment
  <2>2. active \subseteq Tiles
    BY DEF IInv, TypeOK
  <2> QED
    BY <2>1, <2>2 DEF OutstandingOK, ShouldComputeLocal
<1> QED
  BY <1>1, <1>2, <1>3

LEMMA PumpOutstanding ==
  ASSUME IInv, OutstandingOK, Pump PROVE OutstandingOK'
<1>1. ASSUME NEW f, NEW t, NEW n, ResultArrives(f, t, n) PROVE OutstandingOK'
  <2>1. UNCHANGED <<active, dpc, batch, work, nodeLoss, cancelFlag>>
    BY <1>1 DEF ResultArrives, dispatcher, pool, environment
  <2>2. status' = status \/ status' = [status EXCEPT ![t] = "CompletedRemote"]
    BY <1>1 DEF ResultArrives
  <2>3. \A u \in Tiles : status'[u] \in Renderable => status[u] \in Renderable
    BY <2>2 DEF Renderable, IInv, TypeOK
  <2> QED
    BY <2>1, <2>3 DEF OutstandingOK, InFrame, IInv, TypeOK
<1>2. CASE PumpCounts \/ PumpStores
  BY <1>2 DEF PumpCounts, PumpStores, scheduler, dispatcher, pool, environment, OutstandingOK, InFrame
<1>3. ASSUME NEW n \in Nodes, NodeLost(n) PROVE OutstandingOK'
  <2> DEFINE S == {t \in inFlight : StillInFlight(t) /\ owner[t] = n}
  <2>1. /\ UNCHANGED <<active, dpc, batch, work, cancelFlag>> /\ nodeLoss' = nodeLoss \cup S
        /\ S \in SUBSET Tiles /\ Reclaim(S) /\ \A t \in S : StillInFlight(t)
    BY <1>3 DEF NodeLost, HandOver, dispatcher, pool, IInv, TypeOK
  <2> HIDE DEF S
  <2>2. \A t \in active : status'[t] \in Renderable => t \in S \/ status[t] \in Renderable
    BY <2>1, RenderableAfterReclaim
  <2> QED
    BY <2>1, <2>2 DEF OutstandingOK, InFrame
<1>4. ASSUME NEW n \in Nodes, NodeReturns(n) PROVE OutstandingOK'
  BY <1>4 DEF NodeReturns, scheduler, dispatcher, pool, OutstandingOK, InFrame
<1> QED
  BY <1>1, <1>2, <1>3, <1>4 DEF Pump

(* Shutdown empties the list of the pump only when no frame runs.            *)
LEMMA OutsideOutstanding ==
  ASSUME IInv, OutstandingOK, Environment \/ UNCHANGED vars PROVE OutstandingOK'
<1>1. /\ UNCHANGED <<status, active, dpc, batch, work>>
      /\ cancelFlag => cancelFlag'
      /\ nodeLoss' = nodeLoss \/ cluster = "clearing"
  BY DEF Environment, RequestCancel, DeadlinePasses, ShutdownBegins, PumpJoined, ShutdownWaits,
         ShutdownEnds, scheduler, dispatcher, pool, environment, vars
<1>2. cluster = "clearing" => ~InFrame
  BY DEF IInv, WindowOK
<1> QED
  BY <1>1, <1>2 DEF OutstandingOK, InFrame

LEMMA OutstandingStep == IInv /\ OutstandingOK /\ [Next]_vars => OutstandingOK'
<1> SUFFICES ASSUME IInv, OutstandingOK, [Next]_vars PROVE OutstandingOK'
  OBVIOUS
<1>1. CASE Call
  BY <1>1, CallOutstanding
<1>2. CASE Dispatcher
  <2>1. CASE SomeSetup
    BY <2>1, SetupOutstanding DEF SomeSetup
  <2>2. CASE \E S \in SUBSET inFlight : CollectExpired(S)
    BY <2>2, CollectExpiredOutstanding
  <2>3. CASE \E S \in SUBSET inFlight : StealSpeculative(S)
    BY <2>3, StealOutstanding
  <2> QED
    BY <1>2, <2>1, <2>2, <2>3, CallOutstanding, RetryOutstanding, BatchReturnsOutstanding,
       LoopOutstanding, LastBatchOutstanding DEF Dispatcher
<1>3. CASE Pool
  BY <1>3, PoolOutstanding DEF Pool
<1>4. CASE Pump
  BY <1>4, PumpOutstanding
<1>5. CASE Environment \/ UNCHANGED vars
  BY <1>5, OutsideOutstanding
<1> QED
  BY <1>1, <1>2, <1>3, <1>4, <1>5 DEF Next

(* A tile that is taken back, or was never sent, is in the dispatcher's      *)
(* batch or in the list the pump hands over, and a tile in flight is on the  *)
(* list whose deadlines are looked at.                                       *)
THEOREM NobodyStrandsATile == Spec => []NoTileStranded
<1>1. Init => OutstandingOK
  BY DEF Init, OutstandingOK, InFrame
<1>2. IInv /\ OutstandingOK => NoTileStranded
  BY DEF IInv, TypeOK, StatusOK, OutstandingOK, NoTileStranded
<1> QED
  BY <1>1, <1>2, OutstandingStep, Inductive, PTL DEF Spec

-----------------------------------------------------------------------------
(* Refinement.                                                               *)

Delivered == {t \in Tiles : stored[t] > 0}
Result == complete /\ dpc = "idle"

(* Most steps are invisible to the caller.                                   *)
LEMMA Invisible ==
  ASSUME active' = active, stored' = stored, complete' = complete, dpc' = dpc
  PROVE  UNCHANGED Contract!vars
BY DEF Contract!vars

LEMMA InvisibleInside ==
  ASSUME active' = active, stored' = stored, dpc # "idle", dpc' # "idle"
  PROVE  UNCHANGED Contract!vars
BY DEF Contract!vars

(* One write into the framebuffer is one delivery.                           *)
LEMMA WriteDelivers ==
  ASSUME IInv, NEW t \in active, stored[t] = 0, stored' = [stored EXCEPT ![t] = @ + 1],
         active' = active, dpc # "idle", dpc' = dpc
  PROVE  Contract!Next
<1>1. t \in Tiles /\ stored \in [Tiles -> Nat]
  BY DEF IInv, TypeOK
<1>2. t \notin Delivered /\ Delivered' = Delivered \cup {t}
  BY <1>1 DEF Delivered
<1>3. Contract!Deliver(t)
  BY <1>2 DEF Contract!Deliver, Delivered
<1> QED
  BY <1>1, <1>3 DEF Contract!Next

LEMMA CallOpens == ASSUME Call PROVE Contract!Next
<1>1. dpc = "idle" /\ dpc' = "enter" /\ active' = active /\ stored' = stored
  BY DEF Call, scheduler
<1>2. Contract!Open
  BY <1>1 DEF Contract!Open
<1> QED
  BY <1>2 DEF Contract!Next

LEMMA SetupPlans ==
  ASSUME IInv, NEW wanted \in SUBSET Tiles, NEW plan, NEW unsent, Setup(wanted, plan, unsent)
  PROVE  Contract!Next
<1>1. dpc = "setup" /\ dpc' = "batch" /\ active' = wanted /\ \A t \in Tiles : stored'[t] = 0
  BY DEF Setup
<1>2. Contract!Plan(wanted)
  BY <1>1 DEF Contract!Plan
<1> QED
  BY <1>2 DEF Contract!Next

LEMMA ReturnReturns == ASSUME IInv, IInv', SetupRefused \/ Close PROVE Contract!Next
<1>1. /\ dpc # "idle" /\ dpc' = "idle"
      /\ UNCHANGED <<active, stored, status, complete, work, pump>>
  BY DEF SetupRefused, Close, scheduler, pool
<1>2. complete => \A t \in Tiles : stored[t] = IF t \in active THEN 1 ELSE 0
  <2> SUFFICES ASSUME complete PROVE \A t \in Tiles : stored[t] = IF t \in active THEN 1 ELSE 0
    OBVIOUS
  <2>1. (\A t \in active : Done(t)) /\ dpc \in {"close", "idle"}
    BY DEF IInv, CompleteOK
  <2>2. pump.pc = "idle"
    BY <1>1, <2>1 DEF SetupRefused, Close, PumpMutexFree
  <2>3. \A t \in Tiles : work[t] = "none"
    BY <2>1 DEF IInv, WindowOK, TypeOK
  <2> QED
    BY <2>1, <2>2, <2>3, RenderedWhenDone DEF IInv, TypeOK
<1>3. complete => Delivered = active
  BY <1>2 DEF Delivered, IInv, TypeOK
<1>4. Contract!Return
  <2>1. Result' \in BOOLEAN
    BY Zenon DEF Result
  <2>2. Result' => Delivered = active
    BY <1>1, <1>3 DEF Result
  <2> QED
    BY <1>1, <2>1, <2>2 DEF Contract!Return, Delivered, Result
<1> QED
  BY <1>4 DEF Contract!Next

LEMMA StepImplements == IInv /\ IInv' /\ [Next]_vars => [Contract!Next]_(Contract!vars)
<1> SUFFICES ASSUME IInv, IInv', [Next]_vars
             PROVE  Contract!Next \/ UNCHANGED Contract!vars
  OBVIOUS
<1> USE DEF scheduler, dispatcher, pool
<1>1. CASE Call
  BY <1>1, CallOpens
<1>2. CASE Dispatcher
  <2>1. CASE SomeSetup
    BY <2>1, SetupPlans DEF SomeSetup
  <2>2. CASE SetupRefused \/ Close
    BY <2>2, ReturnReturns
  <2>3. CASE \E S \in SUBSET inFlight : CollectExpired(S) \/ StealSpeculative(S)
    BY <2>3, InvisibleInside DEF CollectExpired, StealSpeculative
  <2>4. CASE Enter \/ RetryInSoftware \/ LoopEnds \/ LoopCancelled \/ LoopDeadline \/ LoopDrain
    BY <2>4, InvisibleInside DEF Enter, RetryInSoftware, BatchJoined, LoopEnds, LoopCancelled,
                                 LoopDeadline, LoopDrain
  <2>5. CASE BatchReturns
    BY <2>5, InvisibleInside DEF BatchReturns, BatchJoined, IInv, TypeOK
  <2>6. CASE FinalReclaim \/ FinalDrain \/ Sweep \/ SkipFinal \/ Finish
    BY <2>6, InvisibleInside DEF FinalReclaim, FinalDrain, Sweep, StartBatch, SkipFinal, Finish
  <2> QED
    BY <1>2, <2>1, <2>2, <2>3, <2>4, <2>5, <2>6 DEF Dispatcher
<1>3. CASE Pool
  <2>1. ASSUME NEW t \in Tiles, StoreLocal(t) PROVE Contract!Next
    <3>1. /\ work[t] = "store" /\ stored' = [stored EXCEPT ![t] = @ + 1]
          /\ UNCHANGED <<active, dpc>>
      BY <2>1 DEF StoreLocal
    <3>2. status[t] = "CompletedLocal" /\ dpc = "batch" /\ stored[t] = 0
      BY <3>1 DEF IInv, WindowOK, StoredOK
    <3>3. t \in active
      BY <3>2 DEF IInv, StatusOK, Done, Completed
    <3> QED
      BY <3>1, <3>2, <3>3, WriteDelivers
  <2>2. ASSUME NEW t \in Tiles, TryCompleteLocal(t) \/ RenderFails(t)
        PROVE  UNCHANGED Contract!vars
    BY <2>2, Invisible DEF TryCompleteLocal, RenderFails
  <2> QED
    BY <1>3, <2>1, <2>2 DEF Pool
<1>4. CASE Pump
  <2>1. CASE PumpStores
    <3>1. /\ stored' = [stored EXCEPT ![pump.tile] = @ + 1] /\ pump.pc = "store"
          /\ UNCHANGED <<active, dpc>>
      BY <2>1 DEF PumpStores
    <3>2. pump.tile \in active /\ stored[pump.tile] = 0 /\ dpc # "idle"
      BY <3>1 DEF IInv, WindowOK, StoredOK, InFrame, TypeOK
    <3> QED
      BY <3>1, <3>2, WriteDelivers
  <2>2. CASE PumpCounts
    BY <2>2, Invisible DEF PumpCounts
  <2>3. ASSUME NEW x \in tasks, ResultArrives(x[1], x[2], x[3])
        PROVE  UNCHANGED Contract!vars
    BY <2>3, Invisible DEF ResultArrives
  <2>4. ASSUME NEW n \in Nodes, NodeLost(n) \/ NodeReturns(n)
        PROVE  UNCHANGED Contract!vars
    BY <2>4, Invisible DEF NodeLost, NodeReturns
  <2> QED
    BY <1>4, <2>1, <2>2, <2>3, <2>4 DEF Pump
<1>5. CASE Environment
  BY <1>5, Invisible DEF Environment, RequestCancel, DeadlinePasses, ShutdownBegins, PumpJoined,
                         ShutdownWaits, ShutdownEnds
<1>6. CASE UNCHANGED vars
  BY <1>6, Invisible DEF vars
<1> QED
  BY <1>1, <1>2, <1>3, <1>4, <1>5, <1>6 DEF Next

(* Dispatch with workers, deadlines, theft, losses and shutdown implements   *)
(* the contract: tiles of the requested window, each once, inside the call,  *)
(* all of them if the call reports success.                                  *)
THEOREM DispatchImplementsContract == Spec => ImplementsContract
<1>1. Init => Contract!Init
  BY DEF Init, Contract!Init
<1> QED
  BY <1>1, StepImplements, Inductive, PTL DEF Spec, ImplementsContract, Contract!Spec
==============================================================================
