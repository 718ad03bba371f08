--------------------------- MODULE LoopQueueProofs ---------------------------
(***************************************************************************)
(* Proofs about LoopQueue: for every size of the ring, every set of        *)
(* elements and every interleaving of the two threads, Consistent is       *)
(* inductive and the ring implements BoundedFifo.                          *)
(***************************************************************************)
EXTENDS LoopQueue, SequenceTheorems, TLAPS

(* Index arithmetic: where the elements are, and that the slot the         *)
(* producer writes is never one of them.                                   *)
LEMMA RingFacts ==
  ASSUME TypeOK
  PROVE  /\ size \in 0..Size
         /\ \A i \in 1..size : Slot(i) \in 0..CapacitySub /\ Slot(i) # iBegin
         /\ size > 0 => Slot(1) = iEnd
         /\ size = 0 <=> iBegin = iEnd
BY SizeAssumption DEF TypeOK, size, Slot, Capacity, CapacitySub

(* The test of push_back is exactly the test for room. *)
LEMMA FitsMeansRoom ==
  ASSUME TypeOK, NEW n \in Nat
  PROVE  Fits(n) <=> size + n <= Size
BY SizeAssumption DEF TypeOK, size, Fits, Capacity, CapacitySub

(* Moving _iBegin publishes one element more, at the end. *)
LEMMA BeginMoves ==
  ASSUME TypeOK, size < Size, iBegin' = Advance(iBegin), iEnd' = iEnd
  PROVE  /\ iBegin' \in 0..CapacitySub
         /\ size' = size + 1
         /\ \A i \in 1..size : Slot(i)' = Slot(i)
         /\ \A i : i = size + 1 => Slot(i)' = iBegin
<1>1. iBegin' \in 0..CapacitySub /\ size' = size + 1
  BY SizeAssumption DEF TypeOK, size, Advance, Capacity, CapacitySub
<1>2. ASSUME NEW i PROVE Slot(i)' = Slot(i)
  BY DEF Slot
<1>3. Slot(size + 1) = iBegin
  BY SizeAssumption DEF TypeOK, size, Slot, Capacity, CapacitySub
<1> QED BY <1>1, <1>2, <1>3

(* Moving _iEnd gives up the oldest element and no other. *)
LEMMA EndMoves ==
  ASSUME TypeOK, size > 0, iEnd' = Advance(iEnd), iBegin' = iBegin
  PROVE  /\ iEnd' \in 0..CapacitySub
         /\ size' = size - 1
         /\ \A i \in 1..(size - 1) : Slot(i)' = Slot(i + 1)
<1>1. iEnd' \in 0..CapacitySub /\ size' = size - 1
  BY SizeAssumption DEF TypeOK, size, Advance, Capacity, CapacitySub
<1>2. ASSUME NEW i \in 1..(size - 1) PROVE Slot(i)' = Slot(i + 1)
  BY SizeAssumption DEF TypeOK, size, Slot, Advance, Capacity, CapacitySub
<1> QED BY <1>1, <1>2

LEMMA Unmoved ==
  ASSUME iBegin' = iBegin, iEnd' = iEnd
  PROVE  size' = size /\ \A i : Slot(i)' = Slot(i)
BY DEF size, Slot

(* What a step uses of a batch. *)
LEMMA BatchFacts ==
  ASSUME NEW vt \in Seq(Values), vt # <<>>
  PROVE  /\ Len(vt) \in Nat \ {0} /\ Head(vt) \in Values
         /\ Tail(vt) \in Seq(Values) /\ Len(Tail(vt)) = Len(vt) - 1
         /\ Len(vt) # 1 => Tail(vt) # <<>>
<1>1. Len(vt) \in Nat \ {0} /\ Head(vt) \in Values
  BY HeadTailProperties, EmptySeq
<1>2. Tail(vt) \in Seq(Values) /\ Len(Tail(vt)) = Len(vt) - 1
  BY HeadTailProperties
<1>3. Len(vt) # 1 => Tail(vt) # <<>>
  BY <1>1, <1>2, EmptySeq
<1> QED BY <1>1, <1>2, <1>3

LEMMA BatchIsSeq ==
  ASSUME NEW vt \in Batches
  PROVE  vt \in Seq(Values) /\ vt # <<>> /\ Len(vt) \in 1..MaxBatch
<1>1. PICK n \in 1..MaxBatch : vt \in [1..n -> Values]
  BY DEF Batches
<1>2. n \in Nat /\ n # 0
  BY <1>1, BatchAssumption
<1> QED BY <1>1, <1>2, SeqDef, LenProperties, EmptySeq

-----------------------------------------------------------------------------
LEMMA InitConsistent == Init => Consistent
<1> SUFFICES ASSUME Init PROVE Consistent
  OBVIOUS
<1>1. TypeOK
  BY SizeAssumption, EmptySeq
     DEF Init, TypeOK, IdleProducer, IdleConsumer, CapacitySub
<1>2. size = 0
  BY DEF Init, size
<1> QED BY <1>1, <1>2
           DEF Init, Consistent, ChecksStillHold, ContentWritten,
               IdleProducer, IdleConsumer

(* Every step of either thread keeps the checks of the other one true. *)
LEMMA StepConsistent == Consistent /\ [Next]_vars => Consistent'
<1> SUFFICES ASSUME Consistent, [Next]_vars PROVE Consistent'
  OBVIOUS
<1> USE DEF Consistent
<1>1. ASSUME NEW vt \in Batches, push_back(vt) PROVE Consistent'
  <2>1. size' = size /\ \A i : Slot(i)' = Slot(i)
    BY <1>1, Unmoved DEF push_back
  <2>2. vt \in Seq(Values) /\ vt # <<>> /\ Len(vt) \in Nat
    BY BatchIsSeq, LenProperties
  <2>3. CASE Fits(Len(vt))
    <3>1. size + Len(vt) <= Size
      BY <2>2, <2>3, FitsMeansRoom
    <3> QED BY <1>1, <2>1, <2>2, <2>3, <3>1
               DEF push_back, TypeOK, ChecksStillHold, ContentWritten
  <2>4. CASE ~Fits(Len(vt))
    BY <1>1, <2>1, <2>4 DEF push_back, TypeOK, ChecksStillHold, ContentWritten
  <2> QED BY <2>3, <2>4
<1>2. CASE PushWrite
  <2>1. size' = size /\ \A i : Slot(i)' = Slot(i)
    BY <1>2, Unmoved DEF PushWrite
  <2>2. Head(prod.left) \in Values
    BY <1>2, BatchFacts DEF PushWrite, TypeOK, ChecksStillHold
  <2>3. /\ p' = [p EXCEPT ![iBegin] = Head(prod.left)]
        /\ prod' = [prod EXCEPT !.pc = "advance"]
        /\ iBegin' = iBegin /\ iEnd' = iEnd /\ cons' = cons /\ prod.pc = "write"
    BY <1>2 DEF PushWrite
  <2>4. TypeOK'
    BY <2>2, <2>3 DEF TypeOK
  <2>5. /\ \A i \in 1..size : p'[Slot(i)] = p[Slot(i)]
        /\ size > 0 => p'[iEnd] = p[iEnd]
    BY <2>3, RingFacts DEF TypeOK
  <2>6. ContentWritten'
    BY <2>1, <2>5 DEF ContentWritten
  <2>7. prod'.left = prod.left /\ p'[iBegin] = Head(prod.left)
    BY <2>3 DEF TypeOK
  <2>8. ChecksStillHold'
    BY <2>1, <2>3, <2>5, <2>7 DEF ChecksStillHold
  <2> QED BY <2>4, <2>6, <2>8
<1>3. CASE PushAdvance
  <2>1. /\ prod.pc = "advance" /\ iBegin' = Advance(iBegin)
        /\ prod' = IF Len(prod.left) = 1 THEN IdleProducer
                   ELSE [pc |-> "write", left |-> Tail(prod.left)]
        /\ p' = p /\ iEnd' = iEnd /\ cons' = cons
    BY <1>3 DEF PushAdvance
  <2>2. /\ Len(prod.left) \in Nat \ {0} /\ Head(prod.left) \in Values
        /\ Tail(prod.left) \in Seq(Values)
        /\ Len(Tail(prod.left)) = Len(prod.left) - 1
        /\ Len(prod.left) # 1 => Tail(prod.left) # <<>>
    BY <2>1, BatchFacts DEF TypeOK, ChecksStillHold
  <2>3. size \in 0..Size /\ size + Len(prod.left) <= Size
    BY <2>1, RingFacts DEF ChecksStillHold
  <2>4. size < Size
    BY <2>2, <2>3, SizeAssumption
  <2>5. /\ iBegin' \in 0..CapacitySub /\ size' = size + 1
        /\ \A i \in 1..size : Slot(i)' = Slot(i)
        /\ \A i : i = size + 1 => Slot(i)' = iBegin
    BY <2>1, <2>4, BeginMoves
  <2>6. TypeOK'
    BY <2>1, <2>2, <2>5, EmptySeq DEF TypeOK, IdleProducer
  <2>7. ContentWritten'
    <3>1. p[iBegin] \in Values
      BY <2>1, <2>2 DEF ChecksStillHold
    <3>2. ASSUME NEW i \in 1..size' PROVE p'[Slot(i)'] \in Values
      <4>1. CASE i \in 1..size
        BY <2>1, <2>5, <4>1 DEF ContentWritten
      <4>2. CASE i = size + 1
        BY <2>1, <2>5, <4>2, <3>1
      <4> QED BY <2>3, <2>5, <4>1, <4>2, SizeAssumption
    <3> QED BY <3>2 DEF ContentWritten
  <2>8. ChecksStillHold'
    <3>1. prod'.pc # "idle" =>
            prod'.left # <<>> /\ size' + Len(prod'.left) <= Size
      <4>1. CASE Len(prod.left) = 1
        BY <2>1, <4>1 DEF IdleProducer
      <4>2. CASE Len(prod.left) # 1
        <5>1. prod'.left = Tail(prod.left)
          BY <2>1, <4>2
        <5>2. size' + Len(Tail(prod.left)) <= Size
          <6>1. ASSUME NEW a \in Int, NEW b \in Int, a + b <= Size
                PROVE  (a + 1) + (b - 1) <= Size
            BY <6>1, SizeAssumption
          <6>2. size \in Int /\ Len(prod.left) \in Int
            BY <2>2, <2>3
          <6> QED BY <2>2, <2>3, <2>5, <6>1, <6>2
        <5> QED BY <5>1, <5>2, <2>2, <4>2
      <4> QED BY <4>1, <4>2
    <3>2. prod'.pc # "advance"
      BY <2>1 DEF IdleProducer
    <3>3. size' > 0
      BY <2>3, <2>5, SizeAssumption
    <3>4. cons'.pc = "advance" => cons'.t = p'[iEnd']
      BY <2>1 DEF ChecksStillHold
    <3> QED BY <3>1, <3>2, <3>3, <3>4 DEF ChecksStillHold
  <2> QED BY <2>6, <2>7, <2>8
<1>4. CASE pop_front
  <2>1. size' = size /\ \A i : Slot(i)' = Slot(i)
    BY <1>4, Unmoved DEF pop_front
  <2>2. iEnd # iBegin => size > 0
    BY RingFacts, SizeAssumption
  <2> QED BY <1>4, <2>1, <2>2
             DEF pop_front, TypeOK, ChecksStillHold, ContentWritten
<1>5. CASE PopRead
  <2>1. size' = size /\ \A i : Slot(i)' = Slot(i)
    BY <1>5, Unmoved DEF PopRead
  <2>2. p[iEnd] \in Values \cup {NoValue}
    BY DEF TypeOK
  <2> QED BY <1>5, <2>1, <2>2
             DEF PopRead, TypeOK, ChecksStillHold, ContentWritten
<1>6. CASE PopAdvance
  <2>1. /\ cons.pc = "advance" /\ iEnd' = Advance(iEnd) /\ cons' = IdleConsumer
        /\ p' = p /\ iBegin' = iBegin /\ prod' = prod
    BY <1>6 DEF PopAdvance
  <2>2. size \in 0..Size /\ size > 0
    BY <2>1, RingFacts DEF ChecksStillHold
  <2>3. /\ iEnd' \in 0..CapacitySub /\ size' = size - 1
        /\ \A i \in 1..(size - 1) : Slot(i)' = Slot(i + 1)
    BY <2>1, <2>2, EndMoves
  <2>4. TypeOK'
    BY <2>1, <2>3 DEF TypeOK, IdleConsumer
  <2>5. ContentWritten'
    BY <2>1, <2>2, <2>3, SizeAssumption DEF ContentWritten
  <2>6. prod.pc # "idle" => Len(prod.left) \in Nat
    BY LenProperties DEF TypeOK
  <2>7. ChecksStillHold'
    BY <2>1, <2>2, <2>3, <2>6, SizeAssumption
       DEF ChecksStillHold, IdleConsumer
  <2> QED BY <2>4, <2>5, <2>7
<1>7. CASE UNCHANGED vars
  <2>1. size' = size /\ \A i : Slot(i)' = Slot(i)
    BY <1>7, Unmoved DEF vars
  <2> QED BY <1>7, <2>1 DEF vars, TypeOK, ChecksStillHold, ContentWritten
<1> QED BY <1>1, <1>2, <1>3, <1>4, <1>5, <1>6, <1>7 DEF Next

(* For every size of the ring and every interleaving of one producer and   *)
(* one consumer, what a thread of TC_LoopQueue checked is still true when  *)
(* it copies the element and when it moves its index.                      *)
THEOREM RingConsistent == Spec => []Consistent
BY InitConsistent, StepConsistent, PTL DEF Spec

(* The part that the model checker checks: no thread acts on a stale check. *)
THEOREM RingChecksHold == Spec => []ChecksStillHold
BY RingConsistent, PTL DEF Consistent

(* What pop_front reads has been written: _iBegin is not moved past a slot *)
(* before push_back has copied the element, for any size and batch.        *)
THEOREM RingContentWritten == Spec => []ContentWritten
BY RingConsistent, PTL DEF Consistent

-----------------------------------------------------------------------------
(* The elements between the indices, as a sequence. *)
LEMMA ContentFacts ==
  ASSUME Consistent
  PROVE  /\ Content \in Seq(Values) /\ Len(Content) = size
         /\ \A i \in 1..size : Content[i] = p[Slot(i)]
<1>1. size \in Nat /\ \A i \in 1..size : p[Slot(i)] \in Values
  BY RingFacts, SizeAssumption DEF Consistent, ContentWritten
<1>2. Content \in [1..size -> Values]
  BY <1>1 DEF Content
<1>3. Content \in Seq(Values)
  BY <1>1, <1>2, SeqDef
<1>4. DOMAIN Content = 1..size
  BY DEF Content
<1>5. Len(Content) = size
  BY <1>1, <1>3, <1>4, LenProperties
<1> QED BY <1>3, <1>5 DEF Content

LEMMA ContentKept ==
  ASSUME Consistent, iBegin' = iBegin, iEnd' = iEnd,
         \A i \in 1..size : p'[Slot(i)] = p[Slot(i)]
  PROVE  Content' = Content
BY Unmoved DEF Content

(* Every step of the two threads is a step of BoundedFifo or leaves it     *)
(* alone.                                                                  *)
LEMMA StepImplements ==
  Consistent /\ Consistent' /\ [Next]_vars => [Fifo!Next]_(Fifo!vars)
<1> SUFFICES ASSUME Consistent, Consistent', [Next]_vars
             PROVE  [Fifo!Next]_(Fifo!vars)
  OBVIOUS
<1>c. /\ Content \in Seq(Values) /\ Len(Content) = size
      /\ \A i \in 1..size : Content[i] = p[Slot(i)]
  BY ContentFacts
<1>d. /\ Content' \in Seq(Values) /\ Len(Content') = size'
      /\ \A i \in 1..size' : Content'[i] = p'[Slot(i)']
  <2>1. size' \in Nat /\ \A i \in 1..size' : p'[Slot(i)'] \in Values
    <3>0. iBegin' \in 0..Size /\ iEnd' \in 0..Size
      BY DEF Consistent, TypeOK, CapacitySub
    <3>1. size' \in 0..Size
      <4>1. ASSUME NEW b \in 0..Size, NEW e \in 0..Size
            PROVE  (IF b < e THEN b + (Size + 1) - e ELSE b - e) \in 0..Size
        BY SizeAssumption
      <4>2. size' = IF iBegin' < iEnd' THEN iBegin' + (Size + 1) - iEnd'
                                       ELSE iBegin' - iEnd'
        BY DEF size, Capacity
      <4> QED BY <3>0, <4>1, <4>2
    <3> QED BY <3>1, SizeAssumption DEF Consistent, ContentWritten
  <2>2. Content' = [i \in 1..size' |-> p'[Slot(i)']]
    BY DEF Content
  <2>3. Content' \in [1..size' -> Values]
    BY <2>1, <2>2
  <2>4. Content' \in Seq(Values)
    BY <2>1, <2>3, SeqDef
  <2>5. DOMAIN Content' = 1..size'
    BY <2>2
  <2>6. Len(Content') = size'
    BY <2>1, <2>4, <2>5, LenProperties
  <2> QED BY <2>2, <2>4, <2>6
<1>e. size \in 0..Size /\ (size = 0 <=> iBegin = iEnd) /\ (size > 0 => Slot(1) = iEnd)
  BY RingFacts DEF Consistent
<1>1. ASSUME NEW vt \in Batches, push_back(vt) PROVE [Fifo!Next]_(Fifo!vars)
  <2>1. Content' = Content
    BY <1>1, ContentKept DEF push_back
  <2>2. vt \in Seq(Values) /\ Len(vt) \in 1..MaxBatch
    BY BatchIsSeq
  <2>3. CASE Fits(Len(vt))
    BY <1>1, <2>1, <2>3 DEF push_back, Fifo!vars
  <2>4. CASE ~Fits(Len(vt))
    <3>1. ~(size + Len(vt) <= Size)
      BY <2>2, <2>4, BatchAssumption, FitsMeansRoom DEF Consistent
    <3>2. Len(Content) + Len(vt) > Size
      BY <3>1, <2>2, <1>c, <1>e, SizeAssumption, BatchAssumption
    <3>3. Fifo!Refuse(Len(vt))
      BY <1>1, <2>1, <2>4, <3>2 DEF push_back, Fifo!Refuse
    <3> QED BY <2>2, <3>3 DEF Fifo!Next
  <2> QED BY <2>3, <2>4
<1>2. CASE PushWrite
  <2>1. \A i \in 1..size : p'[Slot(i)] = p[Slot(i)]
    BY <1>2, RingFacts DEF PushWrite, Consistent, TypeOK
  <2>2. Content' = Content
    BY <1>2, <2>1, ContentKept DEF PushWrite
  <2> QED BY <1>2, <2>2 DEF PushWrite, Fifo!vars
<1>3. CASE PushAdvance
  <2> DEFINE v == Head(prod.left)
  <2>1. /\ prod.pc = "advance" /\ iBegin' = Advance(iBegin) /\ iEnd' = iEnd
        /\ p' = p /\ last' = <<"push", v>>
    BY <1>3 DEF PushAdvance
  <2>2. /\ Len(prod.left) \in Nat \ {0} /\ v \in Values
        /\ size + Len(prod.left) <= Size /\ p[iBegin] = v
    BY <2>1, BatchFacts DEF Consistent, TypeOK, ChecksStillHold
  <2>3. size < Size
    BY <2>2, <1>e, SizeAssumption
  <2>4. /\ size' = size + 1
        /\ \A i \in 1..size : Slot(i)' = Slot(i)
        /\ \A i : i = size + 1 => Slot(i)' = iBegin
    BY <2>1, <2>3, BeginMoves DEF Consistent
  <2> HIDE DEF v
  <2>5. /\ Append(Content, v) \in Seq(Values)
        /\ Len(Append(Content, v)) = size + 1
        /\ \A i \in 1..size : Append(Content, v)[i] = Content[i]
        /\ Append(Content, v)[size + 1] = v
    BY <1>c, <2>2, AppendProperties
  <2>6. ASSUME NEW i \in 1..Len(Content') PROVE Content'[i] = Append(Content, v)[i]
    <3>1. i \in 1..(size + 1) /\ Content'[i] = p[Slot(i)']
      BY <1>d, <2>1, <2>4
    <3>2. CASE i \in 1..size
      BY <3>1, <3>2, <2>4, <2>5, <1>c
    <3>3. CASE i = size + 1
      BY <3>1, <3>3, <2>2, <2>4, <2>5
    <3>4. i \in 1..size \/ i = size + 1
      BY <3>1, <1>e, SizeAssumption
    <3> QED BY <3>2, <3>3, <3>4
  <2>7. Content' = Append(Content, v)
    <3>1. Len(Content') = Len(Append(Content, v))
      BY <1>d, <2>4, <2>5
    <3> QED BY <1>d, <2>5, <2>6, <3>1, SeqEqual
  <2>8. Fifo!Enqueue(v)
    BY <1>c, <2>1, <2>3, <2>7 DEF Fifo!Enqueue
  <2> QED BY <2>2, <2>8 DEF Fifo!Next
<1>4. CASE pop_front
  <2>1. Content' = Content
    BY <1>4, ContentKept DEF pop_front
  <2>2. CASE iEnd = iBegin
    <3>1. Content = <<>>
      BY <2>2, <1>c, <1>e, EmptySeq
    <3>2. Fifo!FoundEmpty
      BY <1>4, <2>1, <2>2, <3>1 DEF pop_front, Fifo!FoundEmpty
    <3> QED BY <3>2 DEF Fifo!Next
  <2>3. CASE iEnd # iBegin
    BY <1>4, <2>1, <2>3 DEF pop_front, Fifo!vars
  <2> QED BY <2>2, <2>3
<1>5. CASE PopRead
  <2>1. Content' = Content
    BY <1>5, ContentKept DEF PopRead
  <2> QED BY <1>5, <2>1 DEF PopRead, Fifo!vars
<1>6. CASE PopAdvance
  <2>1. /\ cons.pc = "advance" /\ iEnd' = Advance(iEnd) /\ iBegin' = iBegin
        /\ p' = p /\ last' = <<"pop", cons.t>>
    BY <1>6 DEF PopAdvance
  <2>2. size > 0 /\ cons.t = p[iEnd]
    BY <2>1 DEF Consistent, ChecksStillHold
  <2>3. /\ size' = size - 1
        /\ \A i \in 1..(size - 1) : Slot(i)' = Slot(i + 1)
    BY <2>1, <2>2, EndMoves DEF Consistent
  <2>4. Content # <<>>
    BY <1>c, <2>2, EmptySeq
  <2>5. Head(Content) = cons.t
    BY <1>c, <1>e, <2>2, <2>4, SizeAssumption
  <2>6. /\ Tail(Content) \in Seq(Values) /\ Len(Tail(Content)) = size - 1
        /\ \A i \in 1..(size - 1) : Tail(Content)[i] = Content[i + 1]
    BY <1>c, <2>4, HeadTailProperties
  <2>7. ASSUME NEW i \in 1..Len(Content') PROVE Content'[i] = Tail(Content)[i]
    <3>1. i \in 1..(size - 1) /\ Content'[i] = p[Slot(i)']
      BY <1>d, <2>1, <2>3
    <3>2. i + 1 \in 1..size
      BY <3>1, <1>e, SizeAssumption
    <3> QED BY <3>1, <3>2, <2>3, <2>6, <1>c
  <2>8. Content' = Tail(Content)
    <3>1. Len(Content') = Len(Tail(Content))
      BY <1>d, <2>3, <2>6
    <3> QED BY <1>d, <2>6, <2>7, <3>1, SeqEqual
  <2>9. Fifo!Dequeue
    BY <2>1, <2>4, <2>5, <2>8 DEF Fifo!Dequeue
  <2> QED BY <2>9 DEF Fifo!Next
<1>7. CASE UNCHANGED vars
  <2>1. Content' = Content
    BY <1>7, ContentKept DEF vars
  <2> QED BY <1>7, <2>1 DEF vars, Fifo!vars
<1> QED BY <1>1, <1>2, <1>3, <1>4, <1>5, <1>6, <1>7 DEF Next

(* TC_LoopQueue without locks implements BoundedFifo, whatever its size:   *)
(* no element is lost, repeated or reordered, push_back is refused only    *)
(* without room and pop_front only when nothing is there.                  *)
THEOREM RingImplementsFifo == Spec => ImplementsBoundedFifo
<1>1. Init => Fifo!Init
  <2> SUFFICES ASSUME Init PROVE Fifo!Init
    OBVIOUS
  <2>1. Content \in Seq(Values) /\ Len(Content) = 0
    BY InitConsistent, ContentFacts DEF Init, size
  <2> QED BY <2>1, EmptySeq DEF Init, Fifo!Init
<1>2. Consistent /\ Consistent' /\ [Next]_vars => [Fifo!Next]_(Fifo!vars)
  BY StepImplements
<1> QED BY <1>1, <1>2, RingConsistent, PTL
           DEF Spec, Fifo!Spec, ImplementsBoundedFifo
=============================================================================
