------------------------------ MODULE SpscQueue ------------------------------
(* The lock-free ring of include/relativistic/core/spsc_queue.hpp: one       *)
(* producer thread in try_push, one consumer thread in try_pop.              *)
(*                                                                           *)
(* Each atomic access is a step of its own.  head_ and tail_ are counters    *)
(* that are never masked and wrap at the width of size_t (Wrap here); only   *)
(* the slot index is masked.  A thread reads its own counter exactly (it is  *)
(* the only writer) and the other thread's counter with an acquire load,     *)
(* which may return any value between the last one it saw and the newest:    *)
(* the loads below pick one of them.                                         *)
EXTENDS Integers, Sequences

CONSTANTS Values,       \* the elements
          Capacity,     \* template parameter, a power of two, at least 2
          Wrap,         \* 2^64: the number of values of a size_t
          MaxSent       \* bound of the model: elements the producer sends

ASSUME CapacityAssumption == Capacity \in Nat /\ Capacity >= 2
ASSUME WrapAssumption == Wrap \in Nat /\ Wrap > Capacity /\ Wrap % Capacity = 0
ASSUME MaxSentAssumption == MaxSent \in Nat

VARIABLES head, tail,   \* the two atomic counters, modulo Wrap
          buffer,       \* slot index -> element
          pc,           \* thread -> where it stands in try_push / try_pop
          myIndex,      \* thread -> its own counter as loaded
          otherIndex,   \* thread -> the other thread's counter as loaded
          item,         \* thread -> the element being pushed or popped
          sent, received, \* history: elements pushed, elements popped
          seen          \* thread -> how far it has seen the other thread get

vars == <<head, tail, buffer, pc, myIndex, otherIndex, item, sent, received, seen>>

Threads == {"producer", "consumer"}
Slots == 0 .. Capacity - 1

Slot(index) == index % Capacity                 \* index & BUFFER_MASK
Distance(a, b) == (Wrap + a - b) % Wrap         \* unsigned a - b

Pushed == Len(sent)
Popped == Len(received)

-----------------------------------------------------------------------------

Init ==
  /\ head = 0 /\ tail = 0
  /\ buffer \in [Slots -> Values]
  /\ pc = [t \in Threads |-> "idle"]
  /\ myIndex = [t \in Threads |-> 0]
  /\ otherIndex = [t \in Threads |-> 0]
  /\ item \in [Threads -> Values]
  /\ sent = <<>> /\ received = <<>>
  /\ seen = [t \in Threads |-> 0]

(* try_push(value): both counters are loaded, tail_ relaxed (own), head_     *)
(* acquire.  A full ring returns false without a change.                     *)
PushLoad(v) ==
  /\ pc["producer"] = "idle"
  /\ Pushed < MaxSent
  /\ \E n \in seen["producer"] .. Popped :
       /\ seen' = [seen EXCEPT !["producer"] = n]
       /\ otherIndex' = [otherIndex EXCEPT !["producer"] = n % Wrap]
  /\ myIndex' = [myIndex EXCEPT !["producer"] = tail]
  /\ item' = [item EXCEPT !["producer"] = v]
  /\ pc' = [pc EXCEPT !["producer"] = "check"]
  /\ UNCHANGED <<head, tail, buffer, sent, received>>

(* Mistakes the properties must catch: room for one too many, and a signed   *)
(* comparison that goes wrong where the counters wrap.                       *)
IsFullOffByOne == Distance(myIndex["producer"], otherIndex["producer"]) > Capacity
IsFullSigned == myIndex["producer"] - otherIndex["producer"] >= Capacity

IsFull == Distance(myIndex["producer"], otherIndex["producer"]) >= Capacity

PushFull ==
  /\ pc["producer"] = "check"
  /\ IsFull
  /\ pc' = [pc EXCEPT !["producer"] = "idle"]
  /\ UNCHANGED <<head, tail, buffer, myIndex, otherIndex, item, sent, received, seen>>

PushAdmit ==
  /\ pc["producer"] = "check"
  /\ ~IsFull
  /\ pc' = [pc EXCEPT !["producer"] = "access"]
  /\ UNCHANGED <<head, tail, buffer, myIndex, otherIndex, item, sent, received, seen>>

PushWrite ==
  /\ pc["producer"] = "access"
  /\ buffer' = [buffer EXCEPT ![Slot(myIndex["producer"])] = item["producer"]]
  /\ pc' = [pc EXCEPT !["producer"] = "publish"]
  /\ UNCHANGED <<head, tail, myIndex, otherIndex, item, sent, received, seen>>

(* A mistake: the counter is kept in a wider type than it has.               *)
PushPublishUnwrapped ==
  /\ pc["producer"] = "publish"
  /\ tail' = myIndex["producer"] + 1
  /\ sent' = Append(sent, item["producer"])
  /\ pc' = [pc EXCEPT !["producer"] = "idle"]
  /\ UNCHANGED <<head, buffer, myIndex, otherIndex, item, received, seen>>

PushPublish ==
  /\ pc["producer"] = "publish"
  /\ tail' = (myIndex["producer"] + 1) % Wrap
  /\ sent' = Append(sent, item["producer"])
  /\ pc' = [pc EXCEPT !["producer"] = "idle"]
  /\ UNCHANGED <<head, buffer, myIndex, otherIndex, item, received, seen>>

(* try_pop(value): head_ relaxed (own), tail_ acquire.                       *)
PopLoad ==
  /\ pc["consumer"] = "idle"
  /\ \E n \in seen["consumer"] .. Pushed :
       /\ seen' = [seen EXCEPT !["consumer"] = n]
       /\ otherIndex' = [otherIndex EXCEPT !["consumer"] = n % Wrap]
  /\ myIndex' = [myIndex EXCEPT !["consumer"] = head]
  /\ pc' = [pc EXCEPT !["consumer"] = "check"]
  /\ UNCHANGED <<head, tail, buffer, item, sent, received>>

(* A mistake: counters compared by order instead of equality.                *)
IsEmptyByOrder == myIndex["consumer"] >= otherIndex["consumer"]

IsEmpty == myIndex["consumer"] = otherIndex["consumer"]

PopEmpty ==
  /\ pc["consumer"] = "check"
  /\ IsEmpty
  /\ pc' = [pc EXCEPT !["consumer"] = "idle"]
  /\ UNCHANGED <<head, tail, buffer, myIndex, otherIndex, item, sent, received, seen>>

PopAdmit ==
  /\ pc["consumer"] = "check"
  /\ ~IsEmpty
  /\ pc' = [pc EXCEPT !["consumer"] = "access"]
  /\ UNCHANGED <<head, tail, buffer, myIndex, otherIndex, item, sent, received, seen>>

PopRead ==
  /\ pc["consumer"] = "access"
  /\ item' = [item EXCEPT !["consumer"] = buffer[Slot(myIndex["consumer"])]]
  /\ pc' = [pc EXCEPT !["consumer"] = "publish"]
  /\ UNCHANGED <<head, tail, buffer, myIndex, otherIndex, sent, received, seen>>

PopPublish ==
  /\ pc["consumer"] = "publish"
  /\ head' = (myIndex["consumer"] + 1) % Wrap
  /\ received' = Append(received, item["consumer"])
  /\ pc' = [pc EXCEPT !["consumer"] = "idle"]
  /\ UNCHANGED <<tail, buffer, myIndex, otherIndex, item, sent, seen>>

Producer == (\E v \in Values : PushLoad(v)) \/ PushFull \/ PushAdmit \/ PushWrite \/ PushPublish
Consumer == PopLoad \/ PopEmpty \/ PopAdmit \/ PopRead \/ PopPublish

Next == Producer \/ Consumer

Spec == Init /\ [][Next]_vars

(* The consumer polls forever (process_incoming_commands runs once per       *)
(* cycle) and a store becomes visible to the other thread in finite time:    *)
(* a poll that sees something new happens again and again.                   *)
FreshPop == PopLoad /\ otherIndex'["consumer"] = tail
FairSpec == /\ Spec
            /\ WF_vars(Consumer)
            /\ SF_vars(FreshPop)
            /\ WF_vars(PushAdmit \/ PushWrite \/ PushPublish)

-----------------------------------------------------------------------------

TypeOK ==
  /\ head \in 0 .. Wrap - 1 /\ tail \in 0 .. Wrap - 1
  /\ buffer \in [Slots -> Values]
  /\ pc \in [Threads -> {"idle", "check", "access", "publish"}]
  /\ myIndex \in [Threads -> 0 .. Wrap - 1]
  /\ otherIndex \in [Threads -> 0 .. Wrap - 1]
  /\ item \in [Threads -> Values]
  /\ sent \in Seq(Values) /\ received \in Seq(Values)
  /\ seen \in [Threads -> Nat]

(* What the consumer received is, element for element, a prefix of what the  *)
(* producer sent: nothing lost, duplicated or reordered, whatever stale      *)
(* counters the threads see and wherever the counters wrap.                  *)
NothingLostOrReordered ==
  /\ Len(received) <= Len(sent)
  /\ \A i \in 1 .. Len(received) : received[i] = sent[i]

(* The non-atomic accesses to the ring never race: while the producer writes *)
(* a slot, the consumer does not read it.  The two loads and the capacity    *)
(* check of each side are the only thing that keeps them apart.              *)
NoSlotRace ==
  (pc["producer"] = "access" /\ pc["consumer"] = "access")
    => Slot(myIndex["producer"]) # Slot(myIndex["consumer"])

(* A consumer that keeps polling receives everything that was sent.          *)
EverythingArrives == \A n \in 1 .. MaxSent : (Len(sent) >= n) ~> (Len(received) >= n)

(* The refinement: the abstract queue is what was sent and not yet received. *)
Queued == [i \in 1 .. Len(sent) - Len(received) |-> sent[Len(received) + i]]
Fifo == INSTANCE BoundedFifo WITH queue <- Queued

(* The ring implements the bounded first-in first-out queue: each push and   *)
(* pop takes effect at its release store, everything else is invisible.      *)
ImplementsFifo == Fifo!Spec
==============================================================================
