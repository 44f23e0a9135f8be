-------------------------- MODULE SpscQueueProofs --------------------------
(***************************************************************************)
(* SpscQueue is correct for every capacity, every record width and every   *)
(* number of records.                                                      *)
(***************************************************************************)
EXTENDS SpscQueue, RingLemmas

(* The order of the four indices: each cache lags the index it copies, and *)
(* the stale view of the producer still bounds what it may accept.         *)
Order ==
    /\ cached_tail <= tail
    /\ tail <= cached_head
    /\ cached_head <= head
    /\ head - cached_tail <= Capacity

(* What each side knows while it is inside a slot. *)
Inside ==
    /\ ppc = "store" => head - cached_tail < Capacity /\ head < MaxRecords
    /\ ppc = "store" => \A w \in Words \ ptodo : slots[SlotOf(head)][w] = head
    /\ cpc = "load" => tail < cached_head
    /\ cpc = "load" => \A w \in Words \ ctodo : out[w] = tail

(* The slots between tail and head hold the records they should. *)
Content == \A i \in tail..(head - 1) : slots[SlotOf(i)] = Whole(i)

History ==
    /\ Len(popped) = tail
    /\ InOrderIntact

IInv == TypeOK /\ Order /\ Inside /\ Content /\ History

USE CapacityAssumption, MaxRecordsAssumption

(* The slot the producer fills is none of the slots holding live records. *)
LEMMA FreeSlot ==
    ASSUME TypeOK, Order, ppc = "store", Inside, NEW i \in tail..(head - 1)
    PROVE  SlotOf(i) # SlotOf(head)
<1>1. i \in Int /\ head \in Int /\ i < head /\ head < i + Capacity
  BY DEF TypeOK, Order, Inside
<1> QED
  BY <1>1, SlotsDistinct DEF SlotOf

(* An index of either side names one of the slots. *)
LEMMA SlotInRange ==
    ASSUME NEW i \in Int
    PROVE  SlotOf(i) \in 0..(Capacity - 1)
  BY ModRange DEF SlotOf

(* The empty ring satisfies the invariant. *)
LEMMA InitInv == Init => IInv
<1> SUFFICES ASSUME Init PROVE IInv
  OBVIOUS
<1>1. TypeOK
  BY DEF Init, TypeOK, Blank, NoRecord
<1>2. Order /\ Inside /\ Content /\ History
  BY DEF Init, Order, Inside, Content, History, InOrderIntact
<1> QED
  BY <1>1, <1>2 DEF IInv

(* Every step of either side keeps it. *)
LEMMA NextInv == IInv /\ [Next]_vars => IInv'
<1> SUFFICES ASSUME IInv, [Next]_vars PROVE IInv'
  OBVIOUS
<1> USE DEF IInv
<1>1. CASE TryPushCached
  <2>1. TypeOK' /\ Order'
    BY <1>1 DEF TryPushCached, TypeOK, Order, consumerVars
  <2>2. Inside'
    BY <1>1 DEF TryPushCached, TypeOK, Inside, consumerVars
  <2>3. Content' /\ History'
    BY <1>1 DEF TryPushCached, Content, History, InOrderIntact, consumerVars
  <2> QED
    BY <2>1, <2>2, <2>3
<1>2. CASE TryPushReload
  <2>1. TypeOK' /\ Order'
    BY <1>2 DEF TryPushReload, TypeOK, Order, consumerVars
  <2>2. Inside'
    BY <1>2 DEF TryPushReload, TypeOK, Inside, Order, consumerVars
  <2>3. Content' /\ History'
    BY <1>2 DEF TryPushReload, Content, History, InOrderIntact, consumerVars
  <2> QED
    BY <2>1, <2>2, <2>3
<1>3. CASE \E w \in Words : StoreWord(w)
  <2> PICK w \in Words : StoreWord(w)
    BY <1>3
  <2>0. head \in Int
    BY DEF TypeOK
  <2>1. SlotOf(head) \in 0..(Capacity - 1)
    BY <2>0, SlotInRange
  <2>2. TypeOK' /\ Order'
    BY <2>1 DEF StoreWord, TypeOK, Order, consumerVars
  <2>3. Inside'
    BY <2>1 DEF StoreWord, TypeOK, Inside, consumerVars
  <2>4. ASSUME NEW i \in tail..(head - 1)
        PROVE  slots'[SlotOf(i)] = Whole(i)
    <3>1. SlotOf(i) # SlotOf(head)
      BY FreeSlot DEF StoreWord
    <3>i. i \in Int
      BY DEF TypeOK
    <3>2. SlotOf(i) \in 0..(Capacity - 1)
      BY <3>i, SlotInRange
    <3> QED
      BY <2>1, <3>1, <3>2 DEF StoreWord, Content, TypeOK
  <2>5. Content' /\ History'
    BY <2>4 DEF StoreWord, Content, History, InOrderIntact, consumerVars
  <2> QED
    BY <2>2, <2>3, <2>5
<1>4. CASE PublishHead
  <2>0. head \in Int
    BY DEF TypeOK
  <2>1. SlotOf(head) \in 0..(Capacity - 1)
    BY <2>0, SlotInRange
  <2>2. TypeOK' /\ Order' /\ Inside'
    BY <1>4 DEF PublishHead, TypeOK, Order, Inside, consumerVars
  <2>3. slots[SlotOf(head)] = Whole(head)
    BY <1>4, <2>1 DEF PublishHead, Inside, TypeOK, Whole
  <2>4. ASSUME NEW i \in tail..head
        PROVE  slots[SlotOf(i)] = Whole(i)
    <3>1. i = head \/ i \in tail..(head - 1)
      BY DEF TypeOK
    <3> QED
      BY <2>3, <3>1 DEF Content
  <2>5. head' - 1 = head /\ tail' = tail /\ slots' = slots
    BY <1>4, <2>0 DEF PublishHead, consumerVars
  <2>6. Content'
    BY <2>4, <2>5 DEF Content
  <2>7. History'
    BY <1>4 DEF PublishHead, History, InOrderIntact, consumerVars
  <2> QED
    BY <2>2, <2>6, <2>7
<1>5. CASE TryPopCached
  <2>1. TypeOK' /\ Order' /\ Inside'
    BY <1>5 DEF TryPopCached, TypeOK, Order, Inside, producerVars
  <2>2. Content' /\ History'
    BY <1>5 DEF TryPopCached, Content, History, InOrderIntact, producerVars
  <2> QED
    BY <2>1, <2>2
<1>6. CASE TryPopReload
  <2>1. TypeOK' /\ Order' /\ Inside'
    BY <1>6 DEF TryPopReload, TypeOK, Order, Inside, producerVars
  <2>2. Content' /\ History'
    BY <1>6 DEF TryPopReload, Content, History, InOrderIntact, producerVars
  <2> QED
    BY <2>1, <2>2
<1>7. CASE \E w \in Words : LoadWord(w)
  <2> PICK w \in Words : LoadWord(w)
    BY <1>7
  <2>1. tail \in tail..(head - 1)
    BY DEF TypeOK, LoadWord, Inside, Order
  <2>2. slots[SlotOf(tail)][w] = tail
    BY <2>1 DEF Content, Whole
  <2>3. TypeOK' /\ Order' /\ Inside'
    BY <2>1, <2>2 DEF LoadWord, TypeOK, Order, Inside, producerVars
  <2>4. Content' /\ History'
    BY DEF LoadWord, Content, History, InOrderIntact, producerVars
  <2> QED
    BY <2>3, <2>4
<1>8. CASE RetireTail
  <2>1. out = Whole(tail)
    BY <1>8 DEF RetireTail, Inside, TypeOK, Whole
  <2>2. TypeOK' /\ Order' /\ Inside'
    BY <1>8 DEF RetireTail, TypeOK, Order, Inside, producerVars
  <2>3. Content'
    BY <1>8 DEF RetireTail, Content, producerVars, TypeOK
  <2>4. History'
    <3>1. popped \in Seq([Words -> Int]) /\ out \in [Words -> Int] /\ popped' = Append(popped, out)
      BY <1>8 DEF RetireTail, TypeOK
    <3>2. Len(popped') = Len(popped) + 1 /\ popped'[Len(popped) + 1] = out
      BY <3>1
    <3>3. \A k \in 1..Len(popped) : popped'[k] = popped[k]
      BY <3>1
    <3>4. \A k \in 1..Len(popped) : popped[k] = Whole(k - 1)
      BY DEF History, InOrderIntact
    <3>5. Len(popped) = tail /\ tail' = tail + 1 /\ tail \in Nat
      BY <1>8 DEF History, RetireTail, TypeOK
    <3>6. ASSUME NEW k \in 1..Len(popped')
          PROVE  popped'[k] = Whole(k - 1)
      BY <2>1, <3>2, <3>3, <3>4, <3>5
    <3> QED
      BY <3>2, <3>5, <3>6 DEF History, InOrderIntact, Whole
  <2> QED
    BY <2>2, <2>3, <2>4
<1>9. CASE UNCHANGED vars
  BY <1>9 DEF vars, TypeOK, Order, Inside, Content, History, InOrderIntact, SlotOf, Whole
<1> QED
  BY <1>1, <1>2, <1>3, <1>4, <1>5, <1>6, <1>7, <1>8, <1>9 DEF Next, Producer, Consumer

(* The invariant holds in every reachable state. *)
THEOREM Invariance == Spec => []IInv
  BY InitInv, NextInv, PTL DEF Spec

-----------------------------------------------------------------------------
(* What the indices and the slots hold is always of the right type. *)
THEOREM TypeCorrect == Spec => []TypeOK
  BY Invariance, PTL DEF IInv

(* The producer's slot copy and the consumer's never touch the same slot,  *)
(* for every capacity: the plain copies in try_push and try_pop are free   *)
(* of data races.                                                          *)
THEOREM NoRace == Spec => []NoSlotRace
<1>1. IInv => NoSlotRace
  <2> SUFFICES ASSUME IInv, ppc = "store", cpc = "load"
               PROVE  SlotOf(head) # SlotOf(tail)
    BY DEF NoSlotRace
  <2>1. tail \in tail..(head - 1)
    BY DEF IInv, TypeOK, Inside, Order
  <2> QED
    BY <2>1, FreeSlot DEF IInv
<1> QED
  BY <1>1, Invariance, PTL

(* try_pop returns the pushed records in order, each once and whole. *)
THEOREM Delivery == Spec => []InOrderIntact
<1>1. IInv => InOrderIntact
  BY DEF IInv, History
<1> QED
  BY <1>1, Invariance, PTL

-----------------------------------------------------------------------------
(* The records t..h-1, oldest first: what the abstract queue must hold. *)
Window(t, h) == [k \in 1..(h - t) |-> Whole(t + k - 1)]

(* The records between tail and head, as the queue of BoundedFifo. *)
LEMMA WindowIsSeq ==
    ASSUME NEW t \in Nat, NEW h \in Nat, t <= h
    PROVE  /\ Window(t, h) \in Seq([Words -> Int])
           /\ Len(Window(t, h)) = h - t
           /\ \A k \in 1..(h - t) : Window(t, h)[k] = Whole(t + k - 1)
<1>1. \A k \in 1..(h - t) : Whole(t + k - 1) \in [Words -> Int]
  BY DEF Whole
<1>2. Window(t, h) \in [1..(h - t) -> [Words -> Int]]
  BY <1>1 DEF Window
<1>3. h - t \in Nat
  OBVIOUS
<1>4. \A k \in 1..(h - t) : Window(t, h)[k] = Whole(t + k - 1)
  BY DEF Window
<1> QED
  BY <1>2, <1>3, <1>4, FunctionIsSeq

(* Publishing record h extends the window by it. *)
LEMMA WindowPush ==
    ASSUME NEW t \in Nat, NEW h \in Nat, t <= h
    PROVE  Window(t, h + 1) = Append(Window(t, h), Whole(h))
<1> DEFINE a == Window(t, h)
           b == Window(t, h + 1)
<1>1. /\ a \in Seq([Words -> Int]) /\ Len(a) = h - t
      /\ \A k \in 1..(h - t) : a[k] = Whole(t + k - 1)
  BY WindowIsSeq
<1>2. /\ b \in Seq([Words -> Int]) /\ Len(b) = h + 1 - t
      /\ \A k \in 1..(h + 1 - t) : b[k] = Whole(t + k - 1)
  <2> DEFINE g == h + 1
  <2>1. g \in Nat /\ t <= g
    OBVIOUS
  <2> HIDE DEF g
  <2>2. /\ Window(t, g) \in Seq([Words -> Int]) /\ Len(Window(t, g)) = g - t
        /\ \A k \in 1..(g - t) : Window(t, g)[k] = Whole(t + k - 1)
    BY <2>1, WindowIsSeq
  <2> QED
    BY <2>2 DEF g
<1>3. Whole(h) \in [Words -> Int]
  BY DEF Whole
<1> HIDE DEF a, b
<1>4. ASSUME NEW k \in 1..Len(a)
      PROVE  b[k] = a[k]
  <2>1. k \in 1..(h - t) /\ k \in 1..(h + 1 - t)
    BY <1>1
  <2>2. a[k] = Whole(t + k - 1)
    BY <1>1, <2>1
  <2>3. b[k] = Whole(t + k - 1)
    BY <1>2, <2>1
  <2> QED
    BY <2>2, <2>3
<1>5. b[Len(a) + 1] = Whole(h)
  <2>1. Len(a) + 1 \in 1..(h + 1 - t) /\ t + (Len(a) + 1) - 1 = h
    BY <1>1
  <2> QED
    BY <1>2, <2>1
<1>6. Len(b) = Len(a) + 1
  BY <1>1, <1>2
<1>7. b = Append(a, Whole(h))
  BY <1>1, <1>2, <1>3, <1>4, <1>5, <1>6, AppendByElement
<1> QED
  BY <1>7 DEF a, b

(* Retiring record t removes it from the front. *)
LEMMA WindowPop ==
    ASSUME NEW t \in Nat, NEW h \in Nat, t < h
    PROVE  /\ Window(t, h) # <<>>
           /\ Head(Window(t, h)) = Whole(t)
           /\ Window(t + 1, h) = Tail(Window(t, h))
<1> DEFINE a == Window(t, h)
           b == Window(t + 1, h)
<1>0. t <= h
  OBVIOUS
<1>1. /\ a \in Seq([Words -> Int]) /\ Len(a) = h - t
      /\ \A k \in 1..(h - t) : a[k] = Whole(t + k - 1)
  BY <1>0, WindowIsSeq
<1>2. /\ b \in Seq([Words -> Int]) /\ Len(b) = h - (t + 1)
      /\ \A k \in 1..(h - (t + 1)) : b[k] = Whole(t + 1 + k - 1)
  <2> DEFINE u == t + 1
  <2>1. u \in Nat /\ u <= h
    OBVIOUS
  <2> HIDE DEF u
  <2>2. /\ Window(u, h) \in Seq([Words -> Int]) /\ Len(Window(u, h)) = h - u
        /\ \A k \in 1..(h - u) : Window(u, h)[k] = Whole(u + k - 1)
    BY <2>1, WindowIsSeq
  <2> QED
    BY <2>2 DEF u
<1> HIDE DEF a, b
<1>3. a # <<>>
  BY <1>1
<1>4. Head(a) = Whole(t)
  <2>1. 1 \in 1..(h - t) /\ t + 1 - 1 = t
    OBVIOUS
  <2> QED
    BY <1>1, <1>3, <2>1
<1>5. Len(b) = Len(a) - 1
  BY <1>1, <1>2
<1>6. ASSUME NEW k \in 1..Len(b)
      PROVE  b[k] = a[k + 1]
  <2>1. k + 1 \in 1..(h - t) /\ t + (k + 1) - 1 = t + 1 + k - 1
    BY <1>2
  <2> QED
    BY <1>1, <1>2, <2>1
<1>7. b = Tail(a)
  BY <1>1, <1>2, <1>3, <1>5, <1>6, TailByElement
<1> QED
  BY <1>3, <1>4, <1>7 DEF a, b

(* The invariant says that the abstract queue is exactly the window. *)
LEMMA ContentsAreWindow == IInv => Contents = Window(tail, head)
<1> SUFFICES ASSUME IInv PROVE Contents = Window(tail, head)
  OBVIOUS
<1>1. ASSUME NEW k \in 1..(head - tail)
      PROVE  slots[SlotOf(tail + k - 1)] = Whole(tail + k - 1)
  <2>1. tail + k - 1 \in tail..(head - 1)
    BY DEF IInv, TypeOK
  <2> QED
    BY <2>1 DEF IInv, Content
<1> QED
  BY <1>1 DEF Contents, Window

(* A step that moves no index and returns nothing is a stuttering step of  *)
(* the abstract queue, although it may write a slot.                       *)
LEMMA QuietStep ==
    ASSUME Contents = Window(tail, head), Contents' = Window(tail', head'),
           head' = head, tail' = tail, popped' = popped
    PROVE  UNCHANGED Fifo!vars
  BY DEF Fifo!vars

(* SpscQueue implements the bounded FIFO queue. *)
THEOREM Refinement == Spec => ImplementsFifo
<1>1. Init => Fifo!Init
  <2> SUFFICES ASSUME Init PROVE Fifo!Init
    OBVIOUS
  <2>1. head - tail = 0 /\ popped = <<>> /\ head = 0
    BY DEF Init
  <2>2. Contents = <<>>
    BY <2>1 DEF Contents
  <2> QED
    BY <2>1, <2>2 DEF Fifo!Init
<1>2. /\ IInv /\ IInv'
      /\ Contents = Window(tail, head) /\ (Contents = Window(tail, head))'
      /\ [Next]_vars
      => [Fifo!Next]_(Fifo!vars)
  <2> SUFFICES ASSUME IInv, IInv', Contents = Window(tail, head),
                      Contents' = Window(tail', head'), [Next]_vars
               PROVE  [Fifo!Next]_(Fifo!vars)
    BY DEF Window, Whole
  <2>0. tail \in Nat /\ head \in Nat /\ tail <= head
    BY DEF IInv, TypeOK, Order
  <2>1. CASE TryPushCached
    BY <2>1, QuietStep DEF TryPushCached, consumerVars
  <2>2. CASE TryPushReload
    BY <2>2, QuietStep DEF TryPushReload, consumerVars
  <2>3. CASE \E w \in Words : StoreWord(w)
    BY <2>3, QuietStep DEF StoreWord, consumerVars
  <2>4. CASE PublishHead
    <3>1. head' = head + 1 /\ tail' = tail /\ popped' = popped
      BY <2>4 DEF PublishHead, consumerVars
    <3>2. Contents' = Append(Contents, Whole(head))
      BY <2>0, <3>1, WindowPush
    <3>3. Len(Contents) < Capacity
      <4>1. Len(Contents) = head - tail
        BY <2>0, WindowIsSeq
      <4> QED
        BY <2>4, <4>1, <2>0 DEF PublishHead, IInv, Inside, Order, TypeOK
    <3> QED
      BY <3>1, <3>2, <3>3 DEF Fifo!Next, Fifo!Push
  <2>5. CASE TryPopCached
    BY <2>5, QuietStep DEF TryPopCached, producerVars
  <2>6. CASE TryPopReload
    BY <2>6, QuietStep DEF TryPopReload, producerVars
  <2>7. CASE \E w \in Words : LoadWord(w)
    BY <2>7, QuietStep DEF LoadWord, producerVars
  <2>8. CASE RetireTail
    <3>1. head' = head /\ tail' = tail + 1 /\ popped' = Append(popped, out)
      BY <2>8 DEF RetireTail, producerVars
    <3>2. out = Whole(tail) /\ tail < head
      BY <2>8 DEF RetireTail, IInv, Inside, Order, TypeOK, Whole
    <3>3. Contents # <<>> /\ Head(Contents) = Whole(tail) /\ Contents' = Tail(Contents)
      BY <2>0, <3>1, <3>2, WindowPop
    <3> QED
      BY <3>1, <3>2, <3>3 DEF Fifo!Next, Fifo!Pop
  <2>9. CASE UNCHANGED vars
    BY <2>9, QuietStep DEF vars
  <2> QED
    BY <2>1, <2>2, <2>3, <2>4, <2>5, <2>6, <2>7, <2>8, <2>9 DEF Next, Producer, Consumer
<1> QED
  BY <1>1, <1>2, Invariance, ContentsAreWindow, PTL DEF Spec, Fifo!Spec, ImplementsFifo
=============================================================================
