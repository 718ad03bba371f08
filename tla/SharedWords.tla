----------------------------- MODULE SharedWords -----------------------------
(***************************************************************************)
(* The words of a container in shared memory, and which of them may be     *)
(* written without the modify log: a few words whose value nobody else     *)
(* rests on, each in a group of its own, and all words of an object that   *)
(* is not reachable (a block not linked yet, or no longer).                *)
(***************************************************************************)
EXTENDS Naturals, Sequences

CONSTANTS Addr,     \* the words of the shared memory
          Value,    \* what a word holds
          Groups,   \* the sets of words written without the log at any time
          Links,    \* the words that refer to objects
          Words     \* the words of each object: a function

(* In the memory m nothing leads from outside to the object o: it belongs  *)
(* to a set of objects that only words of the set itself refer to.         *)
Loose(m, o) ==
  \E D \in SUBSET DOMAIN Words :
    o \in D /\ \A a \in Links : m[a] \in D => \E d \in D : a \in Words[d]

(* n is m after one write without the log, while the log holds the writes  *)
(* es: none of these may be a word of the group.                           *)
WrittenPast(es, m, n) ==
  /\ n \in [Addr -> Value]
  /\ \E g \in Groups \union {Words[o] : o \in DOMAIN Words} :
       /\ \A a \in Addr \ g : n[a] = m[a]
       /\ \A i \in 1..Len(es) : es[i].addr \notin g
       /\ g \in Groups \/ \E o \in DOMAIN Words : g = Words[o] /\ Loose(m, o)
=============================================================================
