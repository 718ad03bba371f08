---------------------------- MODULE AtomicWrites ----------------------------
(***************************************************************************)
(* What the modify log of the shared-memory containers promises: a group   *)
(* of word writes gathered by an operation reaches the memory all at once  *)
(* or not at all, whenever the process dies. The only other way in which   *)
(* the memory changes is a write past the log, and that never touches what *)
(* is being gathered: it is to one of the groups of words that stand for   *)
(* themselves, or to an object that nothing reaches. A link, a count or a  *)
(* head that readers follow changes by Commit alone.                       *)
(***************************************************************************)
EXTENDS SharedWords

VARIABLES contents,   \* the memory as the next operation will find it
          pending     \* the writes gathered so far, oldest first

vars == <<contents, pending>>

Entry == [addr : Addr, val : Value]

(* The last of the gathered writes to a word is the one that counts. *)
Overlay(es, m) ==
  [a \in Addr |->
     IF \E i \in 1..Len(es) : es[i].addr = a
     THEN es[CHOOSE i \in 1..Len(es) :
               /\ es[i].addr = a
               /\ \A j \in 1..Len(es) : es[j].addr = a => j <= i].val
     ELSE m[a]]

Extends(es, fs) ==
  Len(es) <= Len(fs) /\ \A i \in 1..Len(es) : fs[i] = es[i]

Init == contents \in [Addr -> Value] /\ pending = <<>>

Gather ==
  /\ pending' \in Seq(Entry)
  /\ Extends(pending, pending')
  /\ UNCHANGED contents

(* The operation gives up, or the process dies before it has committed. *)
Drop == pending' = <<>> /\ UNCHANGED contents

Commit ==
  /\ contents' = Overlay(pending, contents)
  /\ pending' = <<>>

Direct ==
  /\ WrittenPast(pending, contents, contents')
  /\ UNCHANGED pending

Next == Gather \/ Drop \/ Commit \/ Direct

Spec == Init /\ [][Next]_vars
=============================================================================
