------------------------------ MODULE CallStore ------------------------------
(***************************************************************************)
(* What TC_TimeoutQueueNew promises its user, AdapterProxy: one store of   *)
(* outstanding calls, each with an id, a deadline and the mark "its bytes  *)
(* were handed to the connection", and the order in which the unsent ones  *)
(* are to be sent.  An entry leaves the store exactly once: it is taken by *)
(* id, dropped once it has been sent, or expired.                          *)
(*                                                                         *)
(* TimeoutQueue implements this specification with a hash map, a multimap  *)
(* and a list that hold iterators into each other.                         *)
(***************************************************************************)
EXTENDS Integers, SequencesExt

CONSTANTS Ids,      \* request ids, 0 excluded: id 0 marks a server push
          Ptrs,     \* the messages the queue stores
          Horizon   \* bound on the clock and on the deadlines

VARIABLES entry,    \* id -> [ptr, deadline, sent], its domain the ids stored
          unsent,   \* ids of the entries not sent yet, oldest first
          now,      \* TNOWMS, in ticks
          ret       \* what the last call returned, and whether it was timeout()

vars == <<entry, unsent, now, ret>>

Failed == <<FALSE>>
Returned(p) == <<TRUE, p>>
TimedOut(p) == <<TRUE, p, "timeout">>
NoneDue == <<FALSE, "timeout">>

(* The list without the (only) node of an id. *)
Unlink(list, id) ==
  RemoveAt(list, CHOOSE i \in DOMAIN list : list[i] = id)

Forget(id) ==
  /\ entry' = [i \in DOMAIN entry \ {id} |-> entry[i]]
  /\ unsent' = IF entry[id].sent THEN unsent ELSE Unlink(unsent, id)

Init ==
  /\ entry = [i \in {} |-> 0]
  /\ unsent = <<>>
  /\ now = 0
  /\ ret = Failed

Store(p, id, deadline, sent) ==
  /\ UNCHANGED now
  /\ \/ /\ id \in DOMAIN entry
        /\ ret' = Failed
        /\ UNCHANGED <<entry, unsent>>
     \/ /\ id \notin DOMAIN entry
        /\ entry' = [i \in DOMAIN entry \cup {id} |->
                       IF i = id
                         THEN [ptr |-> p, deadline |-> deadline, sent |-> sent]
                         ELSE entry[i]]
        /\ unsent' = IF sent THEN unsent ELSE Append(unsent, id)
        /\ ret' = Returned(p)

NextUnsent ==
  /\ ret' = IF unsent = <<>> THEN Failed ELSE Returned(entry[Head(unsent)].ptr)
  /\ UNCHANGED <<entry, unsent, now>>

(* The oldest unsent entry was sent: keep it for its answer, or drop it. *)
MarkSent(drop) ==
  /\ unsent # <<>>
  /\ LET id == Head(unsent) IN
       /\ entry' = IF drop
                     THEN [i \in DOMAIN entry \ {id} |-> entry[i]]
                     ELSE [i \in DOMAIN entry |->
                             IF i = id THEN [entry[i] EXCEPT !.sent = TRUE]
                                       ELSE entry[i]]
       /\ unsent' = Tail(unsent)
       /\ UNCHANGED <<now, ret>>

Look(id) ==
  /\ ret' = IF id \in DOMAIN entry THEN Returned(entry[id].ptr) ELSE Failed
  /\ UNCHANGED <<entry, unsent, now>>

Take(id) ==
  /\ UNCHANGED now
  /\ \/ /\ id \in DOMAIN entry
        /\ ret' = Returned(entry[id].ptr)
        /\ Forget(id)
     \/ /\ id \notin DOMAIN entry
        /\ ret' = Failed
        /\ UNCHANGED <<entry, unsent>>

(* An entry expires only when due, and none expires before an earlier one. *)
Expire ==
  \E id \in DOMAIN entry :
    /\ entry[id].deadline <= now
    /\ \A other \in DOMAIN entry : entry[id].deadline <= entry[other].deadline
    /\ ret' = TimedOut(entry[id].ptr)
    /\ Forget(id)
    /\ UNCHANGED now

NothingDue ==
  /\ \A id \in DOMAIN entry : entry[id].deadline > now
  /\ ret' = NoneDue
  /\ UNCHANGED <<entry, unsent, now>>

Tick ==
  /\ now < Horizon
  /\ now' = now + 1
  /\ UNCHANGED <<entry, unsent, ret>>

Next ==
  \/ \E p \in Ptrs, id \in Ids, d \in 0..Horizon, sent \in BOOLEAN :
       Store(p, id, d, sent)
  \/ NextUnsent
  \/ \E drop \in BOOLEAN : MarkSent(drop)
  \/ \E id \in Ids : Look(id) \/ Take(id)
  \/ Expire
  \/ NothingDue
  \/ Tick

Spec == Init /\ [][Next]_vars
=============================================================================
