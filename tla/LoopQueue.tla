------------------------------ MODULE LoopQueue ------------------------------
(***************************************************************************)
(* TC_LoopQueue, the ring buffer without locks between one producer thread *)
(* and one consumer thread: the ReqInfoQueue between an application thread *)
(* and a network thread, and _statQueue between a network thread and the   *)
(* thread of StatReport.                                                   *)
(*                                                                         *)
(* Every access to a variable of the other thread is a step of its own, in *)
(* program order, as on the x86 builds: the class has plain members and no *)
(* fence, so a machine that reorders stores is outside this model.  The    *)
(* producer's copy of one element and its move of _iBegin are two steps,   *)
(* and so are the consumer's.  The flag bEmpty is left out: no caller uses *)
(* it.                                                                     *)
(***************************************************************************)
EXTENDS Naturals, Sequences

CONSTANTS Values,     \* the elements
          Size,       \* iSize of the constructor
          MaxBatch,   \* bound on the elements of one push_back
          NoValue     \* content of a slot never written

ASSUME SizeAssumption == Size \in Nat \ {0}
ASSUME BatchAssumption == MaxBatch \in Nat

Capacity == Size + 1      \* _iCapacity: one slot stays free
CapacitySub == Size       \* _iCapacitySub: the last index

VARIABLES p,        \* the slots
          iBegin,   \* _iBegin: where the producer writes
          iEnd,     \* _iEnd: where the consumer reads
          prod,     \* the producer: its step, the elements left to push
          cons,     \* the consumer: its step, the element it read
          last      \* what the last operation did, for BoundedFifo

vars == <<p, iBegin, iEnd, prod, cons, last>>

IdleProducer == [pc |-> "idle", left |-> <<>>]
IdleConsumer == [pc |-> "idle", t |-> NoValue]

Batches == UNION {[1..n -> Values] : n \in 1..MaxBatch}

Init ==
  /\ p \in [0..CapacitySub -> {NoValue}]
  /\ iBegin = 0
  /\ iEnd = 0
  /\ prod = IdleProducer
  /\ cons = IdleConsumer
  /\ last = <<"none">>


Advance(i) == IF i = CapacitySub THEN 0 ELSE i + 1


(* The test of push_back for n elements, on the _iEnd of this moment. *)
Fits(n) ==
  /\ n <= Capacity - 1
  /\ iEnd > iBegin => iEnd - iBegin >= n + 1
  /\ iBegin > iEnd => iBegin - iEnd + n <= Capacity - 1

push_back(vt) ==
  /\ prod.pc = "idle"
  /\ IF Fits(Len(vt))
       THEN /\ prod' = [pc |-> "write", left |-> vt]
            /\ UNCHANGED last
       ELSE /\ last' = <<"full">>
            /\ UNCHANGED prod
  /\ UNCHANGED <<p, iBegin, iEnd, cons>>

(* Mutant: _iBegin moves before the element is copied. *)
PushWriteLate ==
  /\ prod.pc = "write"
  /\ prod' = [prod EXCEPT !.pc = "advance"]
  /\ p' = [p EXCEPT ![Advance(iBegin)] = Head(prod.left)]
  /\ UNCHANGED <<iBegin, iEnd, cons, last>>

PushWrite ==
  /\ prod.pc = "write"
  /\ p' = [p EXCEPT ![iBegin] = Head(prod.left)]
  /\ prod' = [prod EXCEPT !.pc = "advance"]
  /\ UNCHANGED <<iBegin, iEnd, cons, last>>

PushAdvance ==
  /\ prod.pc = "advance"
  /\ iBegin' = Advance(iBegin)
  /\ last' = <<"push", Head(prod.left)>>
  /\ prod' = IF Len(prod.left) = 1 THEN IdleProducer
                                   ELSE [pc |-> "write", left |-> Tail(prod.left)]
  /\ UNCHANGED <<p, iEnd, cons>>

pop_front ==
  /\ cons.pc = "idle"
  /\ IF iEnd = iBegin
       THEN /\ last' = <<"empty">>
            /\ UNCHANGED cons
       ELSE /\ cons' = [cons EXCEPT !.pc = "read"]
            /\ UNCHANGED last
  /\ UNCHANGED <<p, iBegin, iEnd, prod>>

(* Mutant: _iEnd moves before the element is copied. *)
PopReadLate ==
  /\ cons.pc = "read"
  /\ cons' = [pc |-> "advance", t |-> p[Advance(iEnd)]]
  /\ UNCHANGED <<p, iBegin, iEnd, prod, last>>

PopRead ==
  /\ cons.pc = "read"
  /\ cons' = [pc |-> "advance", t |-> p[iEnd]]
  /\ UNCHANGED <<p, iBegin, iEnd, prod, last>>

PopAdvance ==
  /\ cons.pc = "advance"
  /\ iEnd' = Advance(iEnd)
  /\ last' = <<"pop", cons.t>>
  /\ cons' = IdleConsumer
  /\ UNCHANGED <<p, iBegin, prod>>

Next ==
  \/ \E vt \in Batches : push_back(vt)
  \/ PushWrite
  \/ PushAdvance
  \/ pop_front
  \/ PopRead
  \/ PopAdvance

Spec == Init /\ [][Next]_vars

-----------------------------------------------------------------------------
(* The indices stay inside the array and every slot holds an element or    *)
(* was never written.                                                      *)
TypeOK ==
  /\ p \in [0..CapacitySub -> Values \cup {NoValue}]
  /\ iBegin \in 0..CapacitySub
  /\ iEnd \in 0..CapacitySub
  /\ prod \in [pc : {"idle", "write", "advance"}, left : Seq(Values)]
  /\ cons \in [pc : {"idle", "read", "advance"}, t : Values \cup {NoValue}]

(* size(): the number of elements. *)
size == IF iBegin < iEnd THEN iBegin + Capacity - iEnd ELSE iBegin - iEnd

(* The slot of the i-th element. *)
Slot(i) == IF iEnd + i <= Capacity THEN iEnd + i - 1 ELSE iEnd + i - 1 - Capacity

(* The elements between the two indices, oldest first. *)
Content == [i \in 1..size |-> p[Slot(i)]]

(* The check a thread made still holds when it acts on it, although the    *)
(* other thread moved its index meanwhile: the producer has room for all   *)
(* it has left and does not write a slot that holds an element, and the    *)
(* consumer reads a slot that does and that nobody overwrites before it    *)
(* moved on.                                                               *)
ChecksStillHold ==
  /\ prod.pc # "idle" => prod.left # <<>> /\ size + Len(prod.left) <= Size
  /\ prod.pc = "advance" => p[iBegin] = Head(prod.left)
  /\ cons.pc # "idle" => size > 0
  /\ cons.pc = "advance" => cons.t = p[iEnd]

(* Nothing but elements is between the indices. *)
ContentWritten == \A i \in 1..size : p[Slot(i)] \in Values

Consistent == TypeOK /\ ChecksStillHold /\ ContentWritten

Fifo == INSTANCE BoundedFifo WITH q <- Content

(* The two threads together implement a bounded queue: elements are taken  *)
(* in the order in which they were pushed, each one once, push_back fails  *)
(* only when the batch does not fit and pop_front only when nothing is     *)
(* there.                                                                  *)
ImplementsBoundedFifo == Fifo!Spec
=============================================================================
