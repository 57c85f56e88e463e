--------------------------- MODULE SpscQueueProofs ---------------------------
(* Proofs about the ring of SpscQueue for every element set, every capacity, *)
(* every counter width and every number of elements sent.                    *)
EXTENDS SpscQueue, SequenceTheorems, TLAPS

(* Division with remainder is unique: the arithmetic the rest stands on.     *)
LEMMA ProductBound ==
  ASSUME NEW b \in Nat, b > 0, NEW k \in Int, k >= 1
  PROVE  b * k >= b
OBVIOUS

LEMMA DivMod ==
  ASSUME NEW b \in Nat, b > 0, NEW n \in Int
  PROVE  /\ n \div b \in Int /\ n % b \in 0 .. b - 1
         /\ n = b * (n \div b) + (n % b)
OBVIOUS

LEMMA ModUnique ==
  ASSUME NEW b \in Nat, b > 0, NEW n \in Int, NEW q \in Int, NEW r \in 0 .. b - 1,
         n = b * q + r
  PROVE  n % b = r
<1> DEFINE p == n \div b
           s == n % b
<1>1. p \in Int /\ s \in 0 .. b - 1 /\ n = b * p + s
  BY DivMod
<1> HIDE DEF p, s
<1>2. b * (p - q) = r - s
  BY <1>1
<1>3. CASE p - q >= 1
  BY <1>1, <1>2, <1>3, ProductBound
<1>4. CASE q - p >= 1
  <2>1. b * (q - p) = s - r
    BY <1>1
  <2> QED
    BY <1>1, <1>4, <2>1, ProductBound
<1>5. CASE p = q
  BY <1>1, <1>5 DEF s
<1> QED
  BY <1>1, <1>3, <1>4, <1>5

LEMMA ModSmall ==
  ASSUME NEW b \in Nat, b > 0, NEW n \in 0 .. b - 1
  PROVE  n % b = n
BY ModUnique, n = b * 0 + n

(* Two numbers less than b apart with the same remainder are equal.          *)
LEMMA ModInjective ==
  ASSUME NEW b \in Nat, b > 0, NEW m \in Nat, NEW n \in Nat, m <= n, n - m < b,
         m % b = n % b
  PROVE  m = n
<1> DEFINE p == m \div b
           q == n \div b
           r == n % b
<1>1. p \in Int /\ q \in Int /\ r \in Int /\ m = b * p + r /\ n = b * q + r
  BY DivMod
<1> HIDE DEF p, q, r
<1>2. b * (q - p) = n - m
  BY <1>1
<1>3. CASE q - p >= 1
  BY <1>1, <1>2, <1>3, ProductBound
<1>4. CASE p - q >= 1
  <2>1. b * (p - q) = m - n
    BY <1>1
  <2> QED
    BY <1>1, <1>4, <2>1, ProductBound
<1>5. CASE p = q
  BY <1>1, <1>5
<1> QED
  BY <1>1, <1>3, <1>4, <1>5

(* Masking a wrapped counter is masking the count: Capacity divides Wrap.    *)
LEMMA SlotOfCounter ==
  ASSUME NEW n \in Nat
  PROVE  (n % Wrap) % Capacity = n % Capacity
<1> DEFINE k == Wrap \div Capacity
           q == n \div Wrap
           r == n % Wrap
           p == r \div Capacity
           s == r % Capacity
<1>1. k \in Int /\ Wrap = Capacity * k
  BY DivMod, CapacityAssumption, WrapAssumption
<1>2. q \in Int /\ r \in 0 .. Wrap - 1 /\ n = Wrap * q + r
  BY DivMod, CapacityAssumption, WrapAssumption
<1>3. p \in Int /\ s \in 0 .. Capacity - 1 /\ r = Capacity * p + s
  <2> HIDE DEF k, q, r
  <2>1. r \in Int
    BY <1>2
  <2> QED
    BY <2>1, DivMod, CapacityAssumption
<1>4. n % Capacity = s
  <2> DEFINE c == k * q + p
  <2> HIDE DEF k, q, r, p, s
  <2>1. n = Capacity * c + s
    BY <1>1, <1>2, <1>3, CapacityAssumption
  <2>2. c \in Int
    BY <1>1, <1>2, <1>3
  <2>3. s \in 0 .. Capacity - 1
    BY <1>3
  <2> HIDE DEF c
  <2> QED
    BY <2>1, <2>2, <2>3, ModUnique, CapacityAssumption
<1> QED
  BY <1>4

(* Advancing a wrapped counter is wrapping the advanced count.               *)
LEMMA CounterSucc ==
  ASSUME NEW n \in Nat
  PROVE  ((n % Wrap) + 1) % Wrap = (n + 1) % Wrap
<1> DEFINE q == n \div Wrap
           r == n % Wrap
           p == (r + 1) \div Wrap
           s == (r + 1) % Wrap
<1>1. q \in Int /\ r \in 0 .. Wrap - 1 /\ n = Wrap * q + r
  BY DivMod, CapacityAssumption, WrapAssumption
<1>2. p \in Int /\ s \in 0 .. Wrap - 1 /\ r + 1 = Wrap * p + s
  BY <1>1, DivMod, CapacityAssumption, WrapAssumption
<1>3. (n + 1) % Wrap = s
  <2> DEFINE c == q + p
             d == n + 1
  <2> HIDE DEF q, r, p, s
  <2>1. d = Wrap * c + s
    BY <1>1, <1>2, WrapAssumption
  <2>2. c \in Int /\ d \in Int /\ s \in 0 .. Wrap - 1
    BY <1>1, <1>2
  <2>3. Wrap \in Nat /\ Wrap > 0
    BY CapacityAssumption, WrapAssumption
  <2>4. d % Wrap = s
    <3> HIDE DEF c, d
    <3> QED
      BY <2>1, <2>2, <2>3, ModUnique
  <2> QED
    BY <2>4
<1> QED
  BY <1>3

(* The unsigned difference of two counters is the true difference of the     *)
(* counts while these are at most Capacity apart, wherever the counters wrap.*)
LEMMA DistanceOfCounters ==
  ASSUME NEW m \in Nat, NEW n \in Nat, m <= n, n - m <= Capacity
  PROVE  Distance(n % Wrap, m % Wrap) = n - m
<1> DEFINE p == m \div Wrap
           q == n \div Wrap
           r == m % Wrap
           s == n % Wrap
<1>1. /\ p \in Int /\ r \in 0 .. Wrap - 1 /\ m = Wrap * p + r
      /\ q \in Int /\ s \in 0 .. Wrap - 1 /\ n = Wrap * q + s
  BY DivMod, CapacityAssumption, WrapAssumption
<1>2. (Wrap + s - r) % Wrap = n - m
  <2> HIDE DEF p, q, r, s
  <2>1. Wrap + s - r = Wrap * (1 + p - q) + (n - m)
    BY <1>1, WrapAssumption
  <2>2. n - m \in 0 .. Wrap - 1
    BY CapacityAssumption, WrapAssumption
  <2> DEFINE a == Wrap + s - r
             k == 1 + p - q
             d == n - m
  <2>3. a \in Int /\ k \in Int /\ d \in 0 .. Wrap - 1 /\ a = Wrap * k + d
    BY <1>1, <2>1, <2>2, WrapAssumption
  <2>4. a % Wrap = d
    <3> HIDE DEF a, k, d
    <3> QED
      BY <2>3, ModUnique, CapacityAssumption, WrapAssumption
  <2> QED
    BY <2>4
<1> QED
  BY <1>2 DEF Distance

-----------------------------------------------------------------------------

(* The inductive invariant.  CountersOK ties the wrapped counters to the     *)
(* number of elements sent and received and bounds how far each thread's     *)
(* view lags; ProducerOK and ConsumerOK say what a thread may rely on after  *)
(* its check; ContentsOK that the live part of the ring holds what was sent. *)
CountersOK ==
  /\ tail = Pushed % Wrap /\ head = Popped % Wrap
  /\ seen["producer"] <= Popped /\ Popped <= seen["consumer"] /\ seen["consumer"] <= Pushed
  /\ Pushed - seen["producer"] <= Capacity

ProducerOK ==
  /\ pc["producer"] # "idle" =>
       /\ myIndex["producer"] = Pushed % Wrap
       /\ otherIndex["producer"] = seen["producer"] % Wrap
  /\ pc["producer"] \in {"access", "publish"} => Pushed - seen["producer"] < Capacity
  /\ pc["producer"] = "publish" => buffer[Pushed % Capacity] = item["producer"]

ConsumerOK ==
  /\ pc["consumer"] # "idle" =>
       /\ myIndex["consumer"] = Popped % Wrap
       /\ otherIndex["consumer"] = seen["consumer"] % Wrap
  /\ pc["consumer"] \in {"access", "publish"} => Popped < seen["consumer"]
  /\ pc["consumer"] = "publish" => item["consumer"] = sent[Popped + 1]

ContentsOK ==
  /\ \A i \in Popped .. Pushed - 1 : buffer[i % Capacity] = sent[i + 1]
  /\ \A i \in 1 .. Popped : received[i] = sent[i]

IInv == TypeOK /\ CountersOK /\ ProducerOK /\ ConsumerOK /\ ContentsOK

-----------------------------------------------------------------------------

LEMMA RemainderRange ==
  /\ \A n \in Int : n % Wrap \in 0 .. Wrap - 1 /\ n % Capacity \in Slots
  /\ 0 % Wrap = 0 /\ 0 % Capacity = 0
BY DivMod, ModSmall, CapacityAssumption, WrapAssumption DEF Slots

LEMMA TypeInit == Init => TypeOK
BY CapacityAssumption, WrapAssumption DEF Init, TypeOK, Threads

LEMMA TypeStep == TypeOK /\ [Next]_vars => TypeOK'
<1> SUFFICES ASSUME TypeOK, [Next]_vars
             PROVE  TypeOK'
  OBVIOUS
<1> USE DEF TypeOK, Threads
<1>1. ASSUME NEW v \in Values, PushLoad(v) PROVE TypeOK'
  <2>1. PICK n \in seen["producer"] .. Popped :
          /\ seen' = [seen EXCEPT !["producer"] = n]
          /\ otherIndex' = [otherIndex EXCEPT !["producer"] = n % Wrap]
    BY <1>1 DEF PushLoad
  <2>2. n \in Nat /\ n % Wrap \in 0 .. Wrap - 1
    BY RemainderRange DEF Popped
  <2> QED
    BY <1>1, <2>1, <2>2 DEF PushLoad
<1>2. CASE PushFull
  BY <1>2 DEF PushFull
<1>3. CASE PushAdmit
  BY <1>3 DEF PushAdmit
<1>4. CASE PushWrite
  BY <1>4 DEF PushWrite
<1>5. CASE PushPublish
  <2>1. (myIndex["producer"] + 1) % Wrap \in 0 .. Wrap - 1
    <3>1. myIndex["producer"] + 1 \in Int
      BY WrapAssumption
    <3> QED
      BY <3>1, RemainderRange
  <2>2. Append(sent, item["producer"]) \in Seq(Values)
    BY DEF TypeOK
  <2> QED
    BY <1>5, <2>1, <2>2 DEF PushPublish
<1>6. CASE PopLoad
  <2>1. PICK n \in seen["consumer"] .. Pushed :
          /\ seen' = [seen EXCEPT !["consumer"] = n]
          /\ otherIndex' = [otherIndex EXCEPT !["consumer"] = n % Wrap]
    BY <1>6 DEF PopLoad
  <2>2. n \in Nat /\ n % Wrap \in 0 .. Wrap - 1
    BY RemainderRange DEF Pushed
  <2> QED
    BY <1>6, <2>1, <2>2 DEF PopLoad
<1>7. CASE PopEmpty
  BY <1>7 DEF PopEmpty
<1>8. CASE PopAdmit
  BY <1>8 DEF PopAdmit
<1>9. CASE PopRead
  <2>1. Slot(myIndex["consumer"]) \in Slots
    BY RemainderRange, WrapAssumption DEF Slot
  <2> QED
    BY <1>9, <2>1 DEF PopRead
<1>10. CASE PopPublish
  <2>1. (myIndex["consumer"] + 1) % Wrap \in 0 .. Wrap - 1
    <3>1. myIndex["consumer"] + 1 \in Int
      BY WrapAssumption
    <3> QED
      BY <3>1, RemainderRange
  <2>2. Append(received, item["consumer"]) \in Seq(Values)
    BY DEF TypeOK
  <2> QED
    BY <1>10, <2>1, <2>2 DEF PopPublish
<1>11. CASE UNCHANGED vars
  BY <1>11 DEF vars
<1> QED
  BY <1>1, <1>2, <1>3, <1>4, <1>5, <1>6, <1>7, <1>8, <1>9, <1>10, <1>11
     DEF Next, Producer, Consumer

(* Every variable keeps its type: in particular the counters stay within the *)
(* width of size_t and both threads index within the ring.                   *)
THEOREM TypeCorrect == Spec => []TypeOK
BY TypeInit, TypeStep, PTL DEF Spec

-----------------------------------------------------------------------------

LEMMA CountsAreNat == TypeOK => Pushed \in Nat /\ Popped \in Nat /\ seen \in [Threads -> Nat]
BY DEF TypeOK, Pushed, Popped

LEMMA InvInit == Init => IInv
<1> SUFFICES ASSUME Init PROVE IInv
  OBVIOUS
<1>1. Pushed = 0 /\ Popped = 0
  BY DEF Init, Pushed, Popped
<1>2. CountersOK
  BY <1>1, RemainderRange, CapacityAssumption DEF Init, CountersOK, Threads
<1>3. ProducerOK /\ ConsumerOK
  BY DEF Init, ProducerOK, ConsumerOK, Threads
<1>4. ContentsOK
  BY <1>1 DEF ContentsOK
<1> QED
  BY <1>2, <1>3, <1>4, TypeInit DEF IInv

LEMMA PushLoadInv == ASSUME IInv, TypeOK', NEW v \in Values, PushLoad(v) PROVE IInv'
<1>1. PICK n \in seen["producer"] .. Popped :
        /\ seen' = [seen EXCEPT !["producer"] = n]
        /\ otherIndex' = [otherIndex EXCEPT !["producer"] = n % Wrap]
  BY DEF PushLoad
<1>2. /\ Pushed' = Pushed /\ Popped' = Popped
      /\ Pushed \in Nat /\ Popped \in Nat /\ seen \in [Threads -> Nat]
  BY CountsAreNat DEF PushLoad, Pushed, Popped, IInv
<1>3. seen'["producer"] = n /\ seen'["consumer"] = seen["consumer"]
  BY <1>1, <1>2 DEF Threads
<1>4. CountersOK'
  BY <1>1, <1>2, <1>3, CapacityAssumption DEF PushLoad, IInv, CountersOK, Threads
<1>5. ProducerOK'
  BY <1>1, <1>2, <1>3 DEF PushLoad, IInv, ProducerOK, CountersOK, TypeOK, Threads
<1>6. ConsumerOK'
  BY <1>1, <1>2, <1>3 DEF PushLoad, IInv, ConsumerOK, TypeOK, Threads
<1>7. ContentsOK'
  BY <1>2 DEF PushLoad, IInv, ContentsOK
<1> QED
  BY <1>4, <1>5, <1>6, <1>7 DEF IInv

LEMMA PushFullInv == ASSUME IInv, TypeOK', PushFull PROVE IInv'
<1>1. Pushed' = Pushed /\ Popped' = Popped
  BY DEF PushFull, Pushed, Popped
<1> QED
  BY <1>1 DEF PushFull, IInv, CountersOK, ProducerOK, ConsumerOK, ContentsOK, TypeOK, Threads

(* The heart of try_push: the capacity check, made on wrapped and possibly   *)
(* stale counters, guarantees a free slot.                                   *)
LEMMA PushAdmitInv == ASSUME IInv, TypeOK', PushAdmit PROVE IInv'
<1>1. /\ Pushed' = Pushed /\ Popped' = Popped
      /\ Pushed \in Nat /\ Popped \in Nat /\ seen["producer"] \in Nat
  BY CountsAreNat DEF PushAdmit, Pushed, Popped, IInv, Threads
<1>2. Distance(myIndex["producer"], otherIndex["producer"]) = Pushed - seen["producer"]
  <2>1. /\ myIndex["producer"] = Pushed % Wrap
        /\ otherIndex["producer"] = seen["producer"] % Wrap
    BY DEF PushAdmit, IInv, ProducerOK
  <2>2. seen["producer"] <= Pushed /\ Pushed - seen["producer"] <= Capacity
    BY <1>1, CountsAreNat DEF IInv, CountersOK, Threads
  <2> QED
    BY <1>1, <2>1, <2>2, DistanceOfCounters
<1>3. Pushed - seen["producer"] < Capacity
  BY <1>1, <1>2, CapacityAssumption DEF PushAdmit, IsFull
<1>4. ProducerOK'
  BY <1>1, <1>3 DEF PushAdmit, IInv, ProducerOK, TypeOK, Threads
<1>5. CountersOK' /\ ConsumerOK' /\ ContentsOK'
  BY <1>1 DEF PushAdmit, IInv, CountersOK, ConsumerOK, ContentsOK, TypeOK, Threads
<1> QED
  BY <1>4, <1>5 DEF IInv

(* The slot written is none of those that hold elements.                     *)
LEMMA PushWriteInv == ASSUME IInv, TypeOK', PushWrite PROVE IInv'
<1>1. /\ Pushed' = Pushed /\ Popped' = Popped /\ sent' = sent /\ received' = received
      /\ Pushed \in Nat /\ Popped \in Nat /\ seen["producer"] \in Nat
  BY CountsAreNat DEF PushWrite, Pushed, Popped, IInv, Threads
<1>2. Slot(myIndex["producer"]) = Pushed % Capacity
  BY <1>1, SlotOfCounter DEF PushWrite, IInv, ProducerOK, Slot
<1>3. Pushed % Capacity \in Slots
  BY <1>1, RemainderRange
<1>4. ProducerOK'
  <2>1. buffer'[Pushed % Capacity] = item["producer"]
    BY <1>2, <1>3 DEF PushWrite, IInv, TypeOK
  <2> QED
    BY <1>1, <2>1 DEF PushWrite, IInv, ProducerOK, TypeOK, Threads
<1>5. ContentsOK'
  <2>1. ASSUME NEW i \in Popped .. Pushed - 1
        PROVE  buffer'[i % Capacity] = sent[i + 1]
    <3>1. i \in Nat /\ i < Pushed /\ Pushed - i < Capacity
      BY <1>1, CapacityAssumption DEF PushWrite, IInv, ProducerOK, CountersOK
    <3>2. i % Capacity # Pushed % Capacity
      <4>1. Capacity \in Nat /\ Capacity > 0 /\ i <= Pushed /\ i # Pushed
        BY <1>1, <3>1, CapacityAssumption
      <4> QED
        BY <1>1, <3>1, <4>1, ModInjective
    <3>3. i % Capacity \in Slots
      BY <3>1, RemainderRange
    <3> QED
      BY <1>2, <1>3, <3>2, <3>3 DEF PushWrite, IInv, ContentsOK, TypeOK
  <2> QED
    BY <1>1, <2>1 DEF IInv, ContentsOK
<1>6. CountersOK' /\ ConsumerOK'
  BY <1>1 DEF PushWrite, IInv, CountersOK, ConsumerOK, TypeOK, Threads
<1> QED
  BY <1>4, <1>5, <1>6 DEF IInv

LEMMA PushPublishInv == ASSUME IInv, TypeOK', PushPublish PROVE IInv'
<1>1. /\ Pushed \in Nat /\ Popped \in Nat /\ seen \in [Threads -> Nat]
      /\ sent \in Seq(Values) /\ item["producer"] \in Values
  BY CountsAreNat DEF IInv, TypeOK, Threads
<1>2. /\ Pushed' = Pushed + 1 /\ Popped' = Popped
      /\ sent'[Pushed + 1] = item["producer"]
      /\ \A i \in 1 .. Pushed : sent'[i] = sent[i]
  BY <1>1 DEF PushPublish, Pushed, Popped
<1>3. CountersOK'
  <2>1. tail' = (Pushed + 1) % Wrap
    BY <1>1, CounterSucc DEF PushPublish, IInv, ProducerOK
  <2> QED
    BY <1>1, <1>2, <2>1, CapacityAssumption
       DEF PushPublish, IInv, CountersOK, ProducerOK, Threads
<1>4. ProducerOK'
  BY DEF PushPublish, IInv, ProducerOK, TypeOK, Threads
<1>5. ConsumerOK'
  <2>1. pc["consumer"] = "publish" => sent'[Popped + 1] = sent[Popped + 1]
    <3>1. pc["consumer"] = "publish" => Popped + 1 \in 1 .. Pushed
      BY <1>1 DEF IInv, ConsumerOK, CountersOK, Threads
    <3> QED
      BY <1>2, <3>1
  <2>2. pc'["consumer"] = pc["consumer"]
    BY DEF PushPublish, IInv, TypeOK, Threads
  <2> QED
    BY <1>2, <2>1, <2>2 DEF PushPublish, IInv, ConsumerOK
<1>6. ContentsOK'
  <2>1. ASSUME NEW i \in Popped .. Pushed
        PROVE  buffer[i % Capacity] = sent'[i + 1]
    <3>1. CASE i = Pushed
      BY <1>1, <1>2, <3>1 DEF PushPublish, IInv, ProducerOK
    <3>2. CASE i < Pushed
      BY <1>1, <1>2, <3>2 DEF IInv, ContentsOK
    <3> QED
      BY <1>1, <3>1, <3>2
  <2>2. ASSUME NEW i \in 1 .. Popped
        PROVE  received[i] = sent'[i]
    BY SMTT(30), <1>1, <1>2 DEF IInv, ContentsOK, CountersOK, Threads
  <2> QED
    <3>1. buffer' = buffer /\ received' = received /\ Pushed' - 1 = Pushed
      BY <1>1, <1>2 DEF PushPublish
    <3> QED
      BY <1>2, <2>1, <2>2, <3>1 DEF ContentsOK
<1> QED
  BY <1>3, <1>4, <1>5, <1>6 DEF IInv

LEMMA PopLoadInv == ASSUME IInv, TypeOK', PopLoad PROVE IInv'
<1>1. PICK n \in seen["consumer"] .. Pushed :
        /\ seen' = [seen EXCEPT !["consumer"] = n]
        /\ otherIndex' = [otherIndex EXCEPT !["consumer"] = n % Wrap]
  BY DEF PopLoad
<1>2. /\ Pushed' = Pushed /\ Popped' = Popped
      /\ Pushed \in Nat /\ Popped \in Nat /\ seen \in [Threads -> Nat]
  BY CountsAreNat DEF PopLoad, Pushed, Popped, IInv
<1>3. seen'["consumer"] = n /\ seen'["producer"] = seen["producer"]
  BY <1>1, <1>2 DEF Threads
<1>4. CountersOK'
  BY <1>1, <1>2, <1>3 DEF PopLoad, IInv, CountersOK, Threads
<1>5. ConsumerOK'
  BY <1>1, <1>2, <1>3 DEF PopLoad, IInv, ConsumerOK, CountersOK, TypeOK, Threads
<1>6. ProducerOK'
  BY <1>1, <1>2, <1>3 DEF PopLoad, IInv, ProducerOK, TypeOK, Threads
<1>7. ContentsOK'
  BY <1>2 DEF PopLoad, IInv, ContentsOK
<1> QED
  BY <1>4, <1>5, <1>6, <1>7 DEF IInv

LEMMA PopEmptyInv == ASSUME IInv, TypeOK', PopEmpty PROVE IInv'
<1>1. Pushed' = Pushed /\ Popped' = Popped
  BY DEF PopEmpty, Pushed, Popped
<1> QED
  BY <1>1 DEF PopEmpty, IInv, CountersOK, ProducerOK, ConsumerOK, ContentsOK, TypeOK, Threads

(* The heart of try_pop: different counters mean that an element is there.   *)
LEMMA PopAdmitInv == ASSUME IInv, TypeOK', PopAdmit PROVE IInv'
<1>1. /\ Pushed' = Pushed /\ Popped' = Popped
      /\ Pushed \in Nat /\ Popped \in Nat /\ seen["consumer"] \in Nat
  BY CountsAreNat DEF PopAdmit, IsEmpty, Pushed, Popped, IInv, Threads
<1>2. Popped < seen["consumer"]
  <2>1. Popped % Wrap # seen["consumer"] % Wrap
    BY DEF PopAdmit, IsEmpty, IInv, ConsumerOK
  <2> QED
    BY <1>1, <2>1 DEF IInv, CountersOK
<1>3. ConsumerOK'
  BY <1>1, <1>2 DEF PopAdmit, IsEmpty, IInv, ConsumerOK, TypeOK, Threads
<1>4. CountersOK' /\ ProducerOK' /\ ContentsOK'
  BY <1>1 DEF PopAdmit, IsEmpty, IInv, CountersOK, ProducerOK, ContentsOK, TypeOK, Threads
<1> QED
  BY <1>3, <1>4 DEF IInv

LEMMA PopReadInv == ASSUME IInv, TypeOK', PopRead PROVE IInv'
<1>1. /\ Pushed' = Pushed /\ Popped' = Popped /\ sent' = sent
      /\ Pushed \in Nat /\ Popped \in Nat /\ seen["consumer"] \in Nat
  BY CountsAreNat DEF PopRead, Pushed, Popped, IInv, Threads
<1>2. Slot(myIndex["consumer"]) = Popped % Capacity
  BY <1>1, SlotOfCounter DEF PopRead, IInv, ConsumerOK, Slot
<1>3. buffer[Popped % Capacity] = sent[Popped + 1]
  <2>1. Popped \in Popped .. Pushed - 1
    BY <1>1 DEF PopRead, IInv, ConsumerOK, CountersOK
  <2> QED
    BY <2>1 DEF IInv, ContentsOK
<1>4. item'["consumer"] = sent[Popped + 1]
  BY <1>2, <1>3 DEF PopRead, IInv, TypeOK, Threads
<1>5. ConsumerOK'
  BY <1>1, <1>4 DEF PopRead, IInv, ConsumerOK, TypeOK, Threads
<1>6. CountersOK' /\ ProducerOK' /\ ContentsOK'
  BY <1>1 DEF PopRead, IInv, CountersOK, ProducerOK, ContentsOK, TypeOK, Threads
<1> QED
  BY <1>5, <1>6 DEF IInv

LEMMA PopPublishInv == ASSUME IInv, TypeOK', PopPublish PROVE IInv'
<1>1. /\ Pushed \in Nat /\ Popped \in Nat /\ seen \in [Threads -> Nat]
      /\ received \in Seq(Values) /\ item["consumer"] \in Values
  BY CountsAreNat DEF IInv, TypeOK, Threads
<1>2. /\ Pushed' = Pushed /\ Popped' = Popped + 1
      /\ received'[Popped + 1] = item["consumer"]
      /\ \A i \in 1 .. Popped : received'[i] = received[i]
  BY <1>1 DEF PopPublish, Pushed, Popped
<1>3. CountersOK'
  <2>1. head' = (Popped + 1) % Wrap
    BY <1>1, CounterSucc DEF PopPublish, IInv, ConsumerOK
  <2> QED
    BY <1>1, <1>2, <2>1 DEF PopPublish, IInv, CountersOK, ConsumerOK, Threads
<1>4. ProducerOK'
  BY <1>2 DEF PopPublish, IInv, ProducerOK, TypeOK, Threads
<1>5. ConsumerOK'
  BY DEF PopPublish, IInv, ConsumerOK, TypeOK, Threads
<1>6. ContentsOK'
  <2>1. buffer' = buffer /\ sent' = sent
    BY DEF PopPublish
  <2>2. ASSUME NEW i \in Popped + 1 .. Pushed - 1
        PROVE  buffer[i % Capacity] = sent[i + 1]
    BY <1>1 DEF IInv, ContentsOK
  <2>3. ASSUME NEW i \in 1 .. Popped + 1
        PROVE  received'[i] = sent[i]
    <3>1. CASE i = Popped + 1
      BY <1>2, <3>1 DEF PopPublish, IInv, ConsumerOK
    <3>2. CASE i <= Popped
      BY <1>1, <1>2, <3>2 DEF IInv, ContentsOK
    <3> QED
      BY <1>1, <3>1, <3>2
  <2> QED
    BY <1>2, <2>1, <2>2, <2>3 DEF ContentsOK
<1> QED
  BY <1>3, <1>4, <1>5, <1>6 DEF IInv

LEMMA InvStep == IInv /\ [Next]_vars => IInv'
<1> SUFFICES ASSUME IInv, [Next]_vars
             PROVE  IInv'
  OBVIOUS
<1>1. TypeOK'
  BY TypeStep DEF IInv
<1>2. CASE UNCHANGED vars
  BY <1>2 DEF vars, IInv, TypeOK, CountersOK, ProducerOK, ConsumerOK, ContentsOK, Pushed, Popped
<1>3. CASE Producer
  BY <1>1, <1>3, PushLoadInv, PushFullInv, PushAdmitInv, PushWriteInv, PushPublishInv DEF Producer
<1>4. CASE Consumer
  BY <1>1, <1>4, PopLoadInv, PopEmptyInv, PopAdmitInv, PopReadInv, PopPublishInv DEF Consumer
<1> QED
  BY <1>2, <1>3, <1>4 DEF Next

THEOREM Inductive == Spec => []IInv
BY InvInit, InvStep, PTL DEF Spec

(* Whatever the elements, the capacity, the counter width and the staleness  *)
(* of the loads, the consumer receives a prefix of what the producer sent.   *)
THEOREM FirstInFirstOut == Spec => []NothingLostOrReordered
<1>1. IInv => NothingLostOrReordered
  BY CountsAreNat DEF IInv, CountersOK, ContentsOK, NothingLostOrReordered, Pushed, Popped, Threads
<1> QED
  BY <1>1, Inductive, PTL

(* The plain accesses to the slots are data-race free: the two threads are   *)
(* never inside the same slot.                                               *)
THEOREM RaceFree == Spec => []NoSlotRace
<1>1. IInv => NoSlotRace
  <2> SUFFICES ASSUME IInv, pc["producer"] = "access", pc["consumer"] = "access"
               PROVE  Slot(myIndex["producer"]) # Slot(myIndex["consumer"])
    BY DEF NoSlotRace
  <2>1. /\ Pushed \in Nat /\ Popped \in Nat
        /\ Popped < Pushed /\ Pushed - Popped < Capacity
    BY CountsAreNat, CapacityAssumption DEF IInv, CountersOK, ProducerOK, ConsumerOK, Threads
  <2>2. /\ Slot(myIndex["producer"]) = Pushed % Capacity
        /\ Slot(myIndex["consumer"]) = Popped % Capacity
    BY <2>1, SlotOfCounter DEF IInv, ProducerOK, ConsumerOK, Slot
  <2>3. Capacity \in Nat /\ Capacity > 0 /\ Popped <= Pushed /\ Popped # Pushed
    BY <2>1, CapacityAssumption
  <2> QED
    BY <2>1, <2>2, <2>3, ModInjective
<1> QED
  BY <1>1, Inductive, PTL

-----------------------------------------------------------------------------

LEMMA WindowIsSequence ==
  ASSUME NEW s \in Seq(Values), NEW c \in Nat, c <= Len(s)
  PROVE  LET w == [i \in 1 .. Len(s) - c |-> s[c + i]]
         IN  /\ w \in Seq(Values)
             /\ Len(w) = Len(s) - c /\ Len(s) - c \in Nat
             /\ \A i \in 1 .. Len(s) - c : w[i] = s[c + i]
<1> DEFINE w == [i \in 1 .. Len(s) - c |-> s[c + i]]
<1>1. Len(s) - c \in Nat /\ \A i \in 1 .. Len(s) - c : c + i \in 1 .. Len(s)
  OBVIOUS
<1>2. \A i \in 1 .. Len(s) - c : s[c + i] \in Values
  BY <1>1
<1>3. w \in Seq(Values) /\ Len(w) = Len(s) - c
  BY <1>1, <1>2
<1> QED
  BY <1>1, <1>3

LEMMA QueuedIsSequence ==
  ASSUME IInv
  PROVE  /\ Queued \in Seq(Values)
         /\ Len(Queued) = Pushed - Popped /\ Pushed - Popped \in Nat
         /\ \A i \in 1 .. Pushed - Popped : Queued[i] = sent[Popped + i]
<1>1. sent \in Seq(Values) /\ Popped \in Nat /\ Popped <= Len(sent)
  BY CountsAreNat DEF IInv, CountersOK, TypeOK, Threads, Pushed
<1> QED
  BY <1>1, WindowIsSequence DEF Queued, Pushed, Popped

LEMMA QueuedIsSequenceNext ==
  ASSUME IInv'
  PROVE  /\ Queued' \in Seq(Values)
         /\ Len(Queued') = Pushed' - Popped' /\ Pushed' - Popped' \in Nat
         /\ \A i \in 1 .. Pushed' - Popped' : Queued'[i] = sent'[Popped' + i]
<1>1. TypeOK' /\ CountersOK'
  BY DEF IInv
<1>2. sent' \in Seq(Values) /\ Popped' \in Nat /\ Popped' <= Len(sent')
  BY <1>1 DEF CountersOK, TypeOK, Threads, Pushed, Popped
<1> QED
  BY <1>2, WindowIsSequence DEF Queued, Pushed, Popped

LEMMA PublishPuts == ASSUME IInv, IInv', PushPublish PROVE Fifo!Next
<1> DEFINE v == item["producer"]
           n == Pushed - Popped
<1>1. v \in Values /\ sent \in Seq(Values) /\ Pushed \in Nat /\ Popped \in Nat
  BY CountsAreNat DEF IInv, TypeOK, Threads
<1>2. /\ Pushed' = Pushed + 1 /\ Popped' = Popped
      /\ sent'[Pushed + 1] = v /\ \A i \in 1 .. Pushed : sent'[i] = sent[i]
  BY <1>1 DEF PushPublish, Pushed, Popped
<1>3. /\ Queued \in Seq(Values) /\ Len(Queued) = n /\ n \in Nat
      /\ \A i \in 1 .. n : Queued[i] = sent[Popped + i]
  BY QueuedIsSequence, CapacityAssumption
<1>4. /\ Queued' \in Seq(Values) /\ Len(Queued') = n + 1
      /\ \A i \in 1 .. n + 1 : Queued'[i] = sent'[Popped + i]
  <2>1. /\ Queued' \in Seq(Values) /\ Len(Queued') = Pushed' - Popped'
        /\ \A i \in 1 .. Pushed' - Popped' : Queued'[i] = sent'[Popped' + i]
    BY QueuedIsSequenceNext
  <2>2. Pushed' - Popped' = n + 1
    BY <1>1, <1>2
  <2> QED
    BY <1>2, <2>1, <2>2
<1>5. Queued' = Append(Queued, v)
  <2>1. /\ Append(Queued, v) \in Seq(Values) /\ Len(Append(Queued, v)) = n + 1
        /\ \A i \in 1 .. n : Append(Queued, v)[i] = Queued[i]
        /\ Append(Queued, v)[n + 1] = v
    BY <1>1, <1>3
  <2>2. ASSUME NEW i \in 1 .. n + 1
        PROVE  Queued'[i] = Append(Queued, v)[i]
    <3>1. CASE i = n + 1
      <4>1. Popped + i = Pushed + 1
        BY <1>1, <3>1
      <4> QED
        BY <1>2, <1>4, <2>1, <3>1, <4>1
    <3>2. CASE i \in 1 .. n
      <4>1. Popped + i \in 1 .. Pushed
        BY <1>1, <3>2
      <4> QED
        BY <1>2, <1>3, <1>4, <2>1, <3>2, <4>1
    <3> QED
      BY <1>3, <3>1, <3>2
  <2> QED
    BY <1>4, <2>1, <2>2, SeqEqual
<1>6. Len(Queued) < Capacity
  BY <1>1, <1>3, CountsAreNat, CapacityAssumption
     DEF PushPublish, IInv, ProducerOK, CountersOK, Threads
<1> QED
  BY <1>1, <1>5, <1>6 DEF Fifo!Next, Fifo!Put

LEMMA PublishGets == ASSUME IInv, IInv', PopPublish PROVE Fifo!Next
<1> DEFINE n == Pushed - Popped
<1>1. /\ Pushed \in Nat /\ Popped \in Nat /\ received \in Seq(Values)
      /\ item["consumer"] \in Values
  BY CountsAreNat DEF IInv, TypeOK, Threads
<1>2. Pushed' = Pushed /\ Popped' = Popped + 1 /\ sent' = sent
  BY <1>1 DEF PopPublish, Pushed, Popped
<1>3. /\ Queued \in Seq(Values) /\ Len(Queued) = n
      /\ \A i \in 1 .. n : Queued[i] = sent[Popped + i]
  BY QueuedIsSequence
<1>4. n \in Nat /\ n > 0
  BY <1>1, CountsAreNat DEF PopPublish, IInv, ConsumerOK, CountersOK, Threads
<1>5. /\ Queued' \in Seq(Values) /\ Len(Queued') = n - 1
      /\ \A i \in 1 .. n - 1 : Queued'[i] = sent[Popped + 1 + i]
  <2>1. /\ Queued' \in Seq(Values) /\ Len(Queued') = Pushed' - Popped'
        /\ \A i \in 1 .. Pushed' - Popped' : Queued'[i] = sent'[Popped' + i]
    BY QueuedIsSequenceNext
  <2>2. Pushed' - Popped' = n - 1
    BY <1>1, <1>2
  <2> QED
    BY <1>2, <2>1, <2>2
<1>6. Queued # <<>>
  BY <1>3, <1>4
<1>7. Queued' = Tail(Queued)
  <2>1. /\ Tail(Queued) \in Seq(Values) /\ Len(Tail(Queued)) = n - 1
        /\ \A i \in 1 .. n - 1 : Tail(Queued)[i] = Queued[i + 1]
    BY <1>3, <1>4, <1>6
  <2>2. ASSUME NEW i \in 1 .. n - 1
        PROVE  Queued'[i] = Tail(Queued)[i]
    <3>1. i + 1 \in 1 .. n /\ Popped + 1 + i = Popped + (i + 1)
      BY <1>1, <1>4
    <3> QED
      BY <1>3, <1>5, <2>1, <3>1
  <2> QED
    BY <1>5, <2>1, <2>2, SeqEqual
<1> QED
  BY <1>6, <1>7 DEF Fifo!Next, Fifo!Get

(* The ring implements the bounded first-in first-out queue of BoundedFifo:  *)
(* the release stores are the points where a push and a pop take effect.     *)
THEOREM RingImplementsFifo == Spec => ImplementsFifo
<1>1. Init => Fifo!Init
  BY DEF Init, Fifo!Init, Queued
<1>2. IInv /\ IInv' /\ [Next]_vars => [Fifo!Next]_Queued
  <2> SUFFICES ASSUME IInv, IInv', [Next]_vars, UNCHANGED Queued => FALSE
               PROVE  Fifo!Next
    OBVIOUS
  <2>1. ~(sent' = sent /\ received' = received)
    BY DEF Queued
  <2>2. PushPublish \/ PopPublish
    BY <2>1 DEF Next, Producer, Consumer, vars, PushLoad, PushFull, PushAdmit, PushWrite,
                PopLoad, PopEmpty, PopAdmit, PopRead
  <2> QED
    BY <2>2, PublishPuts, PublishGets
<1> QED
  BY <1>1, <1>2, Inductive, PTL DEF Spec, ImplementsFifo, Fifo!Spec
==============================================================================
