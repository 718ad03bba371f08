---------------------------- MODULE TimeoutQueue ----------------------------
(***************************************************************************)
(* TC_TimeoutQueueNew (util/tc_timeout_queue_new.h): the outstanding calls *)
(* of one AdapterProxy.  Three containers hold iterators into each other:  *)
(*   _data  hash map id -> PtrInfo {ptr, hasSend, timeIter, sendIter}      *)
(*   _time  multimap deadline -> iterator into _data                       *)
(*   _send  list of iterators into _data, pushed at the front, popped at   *)
(*          the back                                                       *)
(* A node of _time is the record of its key and the id it points to; a     *)
(* node of _send is the id it points to.  The front of the sequence send   *)
(* is the back of the list, so the oldest entry is Head(send).  The        *)
(* iterator sendIter of an entry is its own node, the one with its id.     *)
(***************************************************************************)
EXTENDS Integers, SequencesExt

CONSTANTS Ptrs,      \* the messages the queue stores
          MaxId,     \* ids are 0..MaxId; 2^32 - 1 in the code
          Horizon    \* bound on the clock and on the deadlines

ASSUME MaxIdAssumption == MaxId \in Nat \ {0}
ASSUME HorizonAssumption == Horizon \in Nat

VARIABLES uniqId,    \* _uniqId, the last id generated
          data,      \* _data
          time,      \* _time, a set of nodes [key, id]
          send,      \* _send
          now,       \* TNOWMS
          ret        \* what the last call returned

vars == <<uniqId, data, time, send, now, ret>>

Ids == 1..MaxId
Nodes == [key : 0..Horizon, id : Ids]
PtrInfo == [ptr : Ptrs, hasSend : BOOLEAN, timeIter : Nodes]

Failed == <<FALSE>>
Returned(p) == <<TRUE, p>>
TimedOut(p) == <<TRUE, p, "timeout">>
NoneDue == <<FALSE, "timeout">>


(* ++_uniqId on uint32_t, taken again when it wraps to 0. *)
GeneratedId ==
  LET i == (uniqId + 1) % (MaxId + 1)
  IN  IF i = 0 THEN (i + 1) % (MaxId + 1) ELSE i

(* _send.erase(sendIter): the node of an id leaves the list. *)
Unlink(list, id) ==
  RemoveAt(list, CHOOSE i \in DOMAIN list : list[i] = id)

DropData(id) == [i \in DOMAIN data \ {id} |-> data[i]]

Init ==
  /\ uniqId = 0
  /\ data = [i \in {} |-> 0]
  /\ time = {}
  /\ send = <<>>
  /\ now = 0
  /\ ret = Failed

(* push: the insert into _data decides; a duplicate id is refused. *)
Insert(p, id, deadline, hasSend) ==
  IF id \in DOMAIN data
    THEN /\ ret' = Failed
         /\ UNCHANGED <<data, time, send>>
    ELSE LET node == [key |-> deadline, id |-> id] IN
         /\ data' = [i \in DOMAIN data \cup {id} |->
                       IF i = id THEN [ptr |-> p, hasSend |-> hasSend,
                                       timeIter |-> node]
                                 ELSE data[i]]
         /\ time' = time \cup {node}
         /\ send' = IF hasSend THEN send ELSE Append(send, id)
         /\ ret' = Returned(p)

(* The id comes from generateId, or from the caller (bFromRpc). *)
push(p, deadline, hasSend) ==
  /\ uniqId' = GeneratedId
  /\ Insert(p, GeneratedId, deadline, hasSend)
  /\ UNCHANGED now

pushWithId(p, id, deadline, hasSend) ==
  /\ Insert(p, id, deadline, hasSend)
  /\ UNCHANGED <<uniqId, now>>

getSend ==
  /\ ret' = IF send = <<>> THEN Failed ELSE Returned(data[Head(send)].ptr)
  /\ UNCHANGED <<uniqId, data, time, send, now>>

(* Mutant: popSend(true) that forgets the node in _time. *)
popSendKeepsNode(del) ==
  /\ send # <<>>
  /\ data' = IF del THEN DropData(Head(send))
                    ELSE [data EXCEPT ![Head(send)].hasSend = TRUE]
  /\ send' = Tail(send)
  /\ UNCHANGED <<uniqId, time, now, ret>>

popSend(del) ==
  /\ send # <<>>
  /\ LET id == Head(send) IN
       /\ data' = IF del THEN DropData(id)
                         ELSE [i \in DOMAIN data |->
                                 IF i = id THEN [data[i] EXCEPT !.hasSend = TRUE]
                                           ELSE data[i]]
       /\ time' = IF del THEN time \ {data[id].timeIter} ELSE time
       /\ send' = Tail(send)
       /\ UNCHANGED <<uniqId, now, ret>>


(* erase(id), and get(id, t, true), which erases in another order. *)
erase(id) ==
  /\ IF id \in DOMAIN data
       THEN /\ ret' = Returned(data[id].ptr)
            /\ send' = IF data[id].hasSend THEN send ELSE Unlink(send, id)
            /\ time' = time \ {data[id].timeIter}
            /\ data' = DropData(id)
       ELSE /\ ret' = Failed
            /\ UNCHANGED <<data, time, send>>
  /\ UNCHANGED <<uniqId, now>>

(* get(id, t, false): a look that erases nothing. *)
get(id) ==
  /\ ret' = IF id \in DOMAIN data THEN Returned(data[id].ptr) ELSE Failed
  /\ UNCHANGED <<uniqId, data, time, send, now>>

(* Mutant: the multimap read from its wrong end. *)
IsLast(node) == \A other \in time : node.key >= other.key

(* A node that _time.begin() may be: no key is smaller. *)
IsFirst(node) == \A other \in time : node.key <= other.key

(* One call of timeout(t), one turn of the loops of timeout() and timeout(df). *)
timeout ==
  \/ \E node \in time :
       /\ IsFirst(node)
       /\ node.key <= now
       /\ ret' = TimedOut(data[node.id].ptr)
       /\ send' = IF data[node.id].hasSend THEN send ELSE Unlink(send, node.id)
       /\ data' = DropData(node.id)
       /\ time' = time \ {node}
       /\ UNCHANGED <<uniqId, now>>
  \/ /\ \A node \in time : node.key > now
     /\ ret' = NoneDue
     /\ UNCHANGED <<uniqId, data, time, send, now>>

Tick ==
  /\ now < Horizon
  /\ now' = now + 1
  /\ UNCHANGED <<uniqId, data, time, send, ret>>

Next ==
  \/ \E p \in Ptrs, d \in 0..Horizon, hasSend \in BOOLEAN :
       \/ push(p, d, hasSend)
       \/ \E id \in Ids : pushWithId(p, id, d, hasSend)
  \/ getSend
  \/ \E del \in BOOLEAN : popSend(del)
  \/ \E id \in Ids : erase(id) \/ get(id)
  \/ timeout
  \/ Tick

Spec == Init /\ [][Next]_vars

-----------------------------------------------------------------------------
(* The containers hold values of their declared types. *)
TypeOK ==
  /\ uniqId \in 0..MaxId
  /\ DOMAIN data \subseteq Ids
  /\ \A id \in DOMAIN data : data[id] \in PtrInfo
  /\ time \subseteq Nodes
  /\ send \in Seq(Ids)
  /\ now \in 0..Horizon

(* Every iterator stored in a container points to a live node: the node of *)
(* _time an entry keeps is in _time and points back to the entry, and      *)
(* nothing else is in _time.  timeout() dereferences dataIter, erase() and *)
(* popSend() pass timeIter to multimap::erase: a dangling one is undefined *)
(* behaviour.                                                              *)
TimeIteratorsLive ==
  /\ \A id \in DOMAIN data : data[id].timeIter \in time /\ data[id].timeIter.id = id
  /\ \A node \in time : node.id \in DOMAIN data /\ data[node.id].timeIter = node

(* _send holds exactly the entries whose hasSend is false, each one once:  *)
(* getSend() asserts it of the entry it returns, and erase() and timeout() *)
(* unlink sendIter on the strength of the flag alone.                      *)
SendListExact ==
  /\ \A k \in DOMAIN send : send[k] \in DOMAIN data /\ ~data[send[k]].hasSend
  /\ \A id \in DOMAIN data : ~data[id].hasSend => \E k \in DOMAIN send : send[k] = id
  /\ \A k, l \in DOMAIN send : send[k] = send[l] => k = l

(* The inductive invariant: the three containers agree. *)
Consistent == TypeOK /\ TimeIteratorsLive /\ SendListExact

(* The queue as CallStore sees it: the deadline is the key of the entry's  *)
(* node in _time.                                                          *)
Entry == [id \in DOMAIN data |-> [ptr |-> data[id].ptr,
                                  deadline |-> data[id].timeIter.key,
                                  sent |-> data[id].hasSend]]

Store == INSTANCE CallStore WITH entry <- Entry, unsent <- send

(* The three containers implement one store: every call of the class does  *)
(* to the outstanding calls, and returns, what CallStore allows.           *)
ImplementsCallStore == Store!Spec
=============================================================================
