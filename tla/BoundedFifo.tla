----------------------------- MODULE BoundedFifo -----------------------------
(***************************************************************************)
(* What TC_LoopQueue promises a producer thread and a consumer thread: a   *)
(* first-in first-out queue of at most Size elements that refuses what     *)
(* does not fit and never loses, repeats or reorders an element.           *)
(***************************************************************************)
EXTENDS Naturals, Sequences

CONSTANTS Values, Size,
          MaxBatch   \* bound on the elements offered at once

VARIABLES q,     \* the elements, oldest first
          last   \* what the last operation did

vars == <<q, last>>

Init == q = <<>> /\ last = <<"none">>

Enqueue(v) ==
  /\ Len(q) < Size
  /\ q' = Append(q, v)
  /\ last' = <<"push", v>>

(* A batch of n elements is refused only when it does not fit. *)
Refuse(n) ==
  /\ Len(q) + n > Size
  /\ last' = <<"full">>
  /\ UNCHANGED q

Dequeue ==
  /\ q # <<>>
  /\ q' = Tail(q)
  /\ last' = <<"pop", Head(q)>>

FoundEmpty ==
  /\ q = <<>>
  /\ last' = <<"empty">>
  /\ UNCHANGED q

Next ==
  \/ \E v \in Values : Enqueue(v)
  \/ \E n \in 1..MaxBatch : Refuse(n)
  \/ Dequeue
  \/ FoundEmpty

Spec == Init /\ [][Next]_vars
=============================================================================
