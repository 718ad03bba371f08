------------------------- MODULE TimeoutQueueProofs -------------------------
(***************************************************************************)
(* Proofs about TimeoutQueue: for every MaxId, Horizon and set of payloads *)
(* the three containers agree (Consistent is inductive), and the class     *)
(* implements CallStore.                                                   *)
(***************************************************************************)
EXTENDS TimeoutQueue, SequenceTheorems, TLAPS

(* No two nodes of a list are equal, and which values its nodes hold. *)
NoRepeat(s) == \A k, l \in DOMAIN s : s[k] = s[l] => k = l
Holds(s, x) == \E k \in DOMAIN s : s[k] = x

(* Removing position n shifts the later elements down by one. *)
LEMMA RemoveAtShifts ==
  ASSUME NEW S, NEW s \in Seq(S), NEW n \in 1..Len(s)
  PROVE  /\ RemoveAt(s, n) \in Seq(S)
         /\ Len(RemoveAt(s, n)) = Len(s) - 1
         /\ \A j \in 1..(Len(s) - 1) :
              RemoveAt(s, n)[j] = IF j < n THEN s[j] ELSE s[j + 1]
<1> DEFINE a == SubSeq(s, 1, n - 1)
           b == SubSeq(s, n + 1, Len(s))
<1>1. Len(s) \in Nat /\ n \in Int /\ \A i \in 1..Len(s) : s[i] \in S
  BY LenProperties, ElementOfSeq
<1>2. a \in Seq(S) /\ Len(a) = n - 1 /\ \A i \in 1..(n - 1) : a[i] = s[i]
  <2>1. \A i \in 1..(n - 1) : s[i] \in S
    BY <1>1
  <2> QED BY <1>1, <2>1, SubSeqProperties
<1>3. /\ b \in Seq(S) /\ Len(b) = Len(s) - n
      /\ \A i \in 1..(Len(s) - n) : b[i] = s[n + i]
  <2>1. \A i \in (n + 1)..Len(s) : s[i] \in S
    BY <1>1
  <2> QED BY <1>1, <2>1, SubSeqProperties
<1> HIDE DEF a, b
<1>4. /\ a \o b \in Seq(S)
      /\ Len(a \o b) = Len(a) + Len(b)
      /\ \A i \in 1..(Len(a) + Len(b)) :
           (a \o b)[i] = IF i <= Len(a) THEN a[i] ELSE b[i - Len(a)]
  BY <1>2, <1>3, ConcatProperties
<1>5. Len(a \o b) = Len(s) - 1
  BY <1>1, <1>2, <1>3, <1>4
<1>6. ASSUME NEW j \in 1..(Len(s) - 1)
      PROVE  (a \o b)[j] = IF j < n THEN s[j] ELSE s[j + 1]
  <2>1. j \in 1..(Len(a) + Len(b)) /\ Len(a) = n - 1
    BY <1>1, <1>2, <1>3
  <2>2. (a \o b)[j] = IF j <= n - 1 THEN a[j] ELSE b[j - (n - 1)]
    BY <2>1, <1>4
  <2>3. CASE j < n
    BY <2>2, <2>3, <1>1, <1>2
  <2>4. CASE j >= n
    <3>1. j - (n - 1) \in 1..(Len(s) - n) /\ n + (j - (n - 1)) = j + 1
      BY <2>4, <1>1
    <3>2. b[j - (n - 1)] = s[j + 1]
      BY <3>1, <1>3
    <3> QED BY <2>2, <2>4, <3>2, <1>1
  <2>5. j < n \/ j >= n
    BY <1>1
  <2> QED BY <2>3, <2>4, <2>5
<1> QED BY <1>4, <1>5, <1>6 DEF RemoveAt, a, b

(* Unlinking an id keeps the list free of repeats and removes that id only. *)
LEMMA UnlinkFacts ==
  ASSUME NEW S, NEW s \in Seq(S), NEW id, NoRepeat(s), Holds(s, id)
  PROVE  /\ Unlink(s, id) \in Seq(S)
         /\ NoRepeat(Unlink(s, id))
         /\ \A x : Holds(Unlink(s, id), x) <=> (x # id /\ Holds(s, x))
<1> DEFINE n == CHOOSE i \in DOMAIN s : s[i] = id
           r == RemoveAt(s, n)
<1>1. n \in 1..Len(s) /\ s[n] = id
  BY DEF Holds
<1>2. r \in Seq(S) /\ Len(r) = Len(s) - 1
  BY <1>1, RemoveAtShifts
<1>3. \A j \in 1..(Len(s) - 1) : r[j] = IF j < n THEN s[j] ELSE s[j + 1]
  BY <1>1, RemoveAtShifts
<1>4. DOMAIN r = 1..(Len(s) - 1) /\ DOMAIN s = 1..Len(s) /\ Len(s) \in Nat
  BY <1>2, LenProperties
<1> HIDE DEF n, r
<1>5. NoRepeat(r)
  BY <1>1, <1>3, <1>4 DEF NoRepeat
<1>6. ASSUME NEW x PROVE Holds(r, x) <=> (x # id /\ Holds(s, x))
  <2>1. ASSUME Holds(r, x) PROVE x # id /\ Holds(s, x)
    BY <2>1, <1>1, <1>3, <1>4 DEF Holds, NoRepeat
  <2>2. ASSUME x # id, Holds(s, x) PROVE Holds(r, x)
    <3>1. PICK k \in DOMAIN s : s[k] = x
      BY <2>2 DEF Holds
    <3>2. CASE k < n
      <4>1. k \in DOMAIN r /\ r[k] = x
        BY <3>1, <3>2, <1>1, <1>3, <1>4
      <4> QED BY <4>1 DEF Holds
    <3>3. CASE k > n
      <4>1. k - 1 \in DOMAIN r /\ r[k - 1] = x
        BY <3>1, <3>3, <1>1, <1>3, <1>4
      <4> QED BY <4>1 DEF Holds
    <3> QED BY <3>1, <3>2, <3>3, <2>2, <1>1, <1>4
  <2> QED BY <2>1, <2>2
<1> QED BY <1>2, <1>5, <1>6 DEF n, r, Unlink

(* The same for the head, and what appending a new value does. *)
LEMMA TailFacts ==
  ASSUME NEW S, NEW s \in Seq(S), NoRepeat(s), s # <<>>
  PROVE  /\ Tail(s) \in Seq(S)
         /\ Holds(s, Head(s))
         /\ NoRepeat(Tail(s))
         /\ \A x : Holds(Tail(s), x) <=> (x # Head(s) /\ Holds(s, x))
<1>1. /\ Len(s) \in Nat \ {0} /\ DOMAIN s = 1..Len(s) /\ Head(s) = s[1]
      /\ Tail(s) \in Seq(S) /\ Len(Tail(s)) = Len(s) - 1
      /\ DOMAIN Tail(s) = 1..(Len(s) - 1)
      /\ \A i \in 1..(Len(s) - 1) : Tail(s)[i] = s[i + 1]
  BY HeadTailProperties, LenProperties, EmptySeq
<1>2. Holds(s, Head(s))
  BY <1>1 DEF Holds
<1>3. NoRepeat(Tail(s))
  BY <1>1 DEF NoRepeat
<1>4. ASSUME NEW x PROVE Holds(Tail(s), x) <=> (x # Head(s) /\ Holds(s, x))
  <2>1. ASSUME Holds(Tail(s), x) PROVE x # Head(s) /\ Holds(s, x)
    BY <2>1, <1>1 DEF Holds, NoRepeat
  <2>2. ASSUME x # Head(s), Holds(s, x) PROVE Holds(Tail(s), x)
    <3>1. PICK k \in DOMAIN s : s[k] = x
      BY <2>2 DEF Holds
    <3>2. k - 1 \in DOMAIN Tail(s) /\ Tail(s)[k - 1] = x
      BY <3>1, <2>2, <1>1
    <3> QED BY <3>2 DEF Holds
  <2> QED BY <2>1, <2>2
<1> QED BY <1>1, <1>2, <1>3, <1>4

LEMMA AppendFacts ==
  ASSUME NEW S, NEW s \in Seq(S), NEW e \in S, NoRepeat(s), ~Holds(s, e)
  PROVE  /\ Append(s, e) \in Seq(S)
         /\ NoRepeat(Append(s, e))
         /\ \A x : Holds(Append(s, e), x) <=> (x = e \/ Holds(s, x))
<1>1. /\ Append(s, e) \in Seq(S)
      /\ Len(s) \in Nat /\ DOMAIN s = 1..Len(s)
      /\ DOMAIN Append(s, e) = 1..(Len(s) + 1)
      /\ \A i \in 1..Len(s) : Append(s, e)[i] = s[i]
      /\ Append(s, e)[Len(s) + 1] = e
  BY AppendProperties, LenProperties
<1>2. NoRepeat(Append(s, e))
  BY <1>1 DEF NoRepeat, Holds
<1>3. ASSUME NEW x PROVE Holds(Append(s, e), x) <=> (x = e \/ Holds(s, x))
  BY <1>1 DEF Holds
<1> QED BY <1>1, <1>2, <1>3

-----------------------------------------------------------------------------
(* SendListExact in terms of Holds. *)
LEMMA SendListHolds ==
  SendListExact <=>
    /\ NoRepeat(send)
    /\ \A x : Holds(send, x) <=> (x \in DOMAIN data /\ ~data[x].hasSend)
BY DEF SendListExact, NoRepeat, Holds

(* How an entry leaves: its node leaves _time, its id leaves _data, and    *)
(* the list loses that id and no other.  erase, timeout and popSend(true)  *)
(* are of this form.                                                       *)
LEMMA RemovalConsistent ==
  ASSUME Consistent, NEW id \in DOMAIN data,
         data' = DropData(id),
         time' = time \ {data[id].timeIter},
         send' \in Seq(Ids),
         NoRepeat(send'),
         \A x : Holds(send', x) <=> (x # id /\ Holds(send, x)),
         uniqId' = uniqId, now' = now
  PROVE  Consistent'
<1> USE DEF Consistent
<1>1. DOMAIN data' = DOMAIN data \ {id} /\ \A i \in DOMAIN data' : data'[i] = data[i]
  BY DEF DropData
<1>2. TypeOK'
  BY <1>1 DEF TypeOK
<1>3. TimeIteratorsLive'
  BY <1>1 DEF TimeIteratorsLive
<1>4. \A x : Holds(send, x) <=> (x \in DOMAIN data /\ ~data[x].hasSend)
  BY SendListHolds
<1>5. \A x : Holds(send', x) <=> (x \in DOMAIN data' /\ ~data'[x].hasSend)
  BY <1>1, <1>4
<1>6. SendListExact'
  BY <1>5, SendListHolds DEF SendListExact, NoRepeat, Holds
<1> QED BY <1>2, <1>3, <1>6

(* _send after the node of id was unlinked, as erase and timeout do it. *)
LEMMA UnlinkIfUnsent ==
  ASSUME Consistent, NEW id \in DOMAIN data,
         send' = IF data[id].hasSend THEN send ELSE Unlink(send, id)
  PROVE  /\ send' \in Seq(Ids)
         /\ NoRepeat(send')
         /\ \A x : Holds(send', x) <=> (x # id /\ Holds(send, x))
<1>1. send \in Seq(Ids) /\ NoRepeat(send)
      /\ \A x : Holds(send, x) <=> (x \in DOMAIN data /\ ~data[x].hasSend)
  BY SendListHolds DEF Consistent, TypeOK
<1>2. CASE data[id].hasSend
  BY <1>1, <1>2
<1>3. CASE ~data[id].hasSend
  <2>1. Holds(send, id)
    BY <1>1, <1>3
  <2>2. /\ Unlink(send, id) \in Seq(Ids)
        /\ NoRepeat(Unlink(send, id))
        /\ \A x : Holds(Unlink(send, id), x) <=> (x # id /\ Holds(send, x))
    BY <1>1, <2>1, UnlinkFacts
  <2> QED BY <1>3, <2>2
<1> QED BY <1>2, <1>3

LEMMA GeneratedIdType ==
  ASSUME uniqId \in 0..MaxId
  PROVE  GeneratedId \in Ids
BY MaxIdAssumption DEF GeneratedId, Ids

LEMMA InsertConsistent ==
  ASSUME Consistent, NEW p \in Ptrs, NEW id \in Ids, NEW d \in 0..Horizon,
         NEW hasSend \in BOOLEAN, Insert(p, id, d, hasSend),
         uniqId' \in 0..MaxId, now' = now
  PROVE  Consistent'
<1> USE DEF Consistent
<1>1. CASE id \in DOMAIN data
  <2>1. UNCHANGED <<data, time, send>>
    BY <1>1 DEF Insert
  <2> QED BY <2>1 DEF TypeOK, TimeIteratorsLive, SendListExact
<1>2. CASE id \notin DOMAIN data
  <2> DEFINE node == [key |-> d, id |-> id]
  <2>1. /\ DOMAIN data' = DOMAIN data \cup {id}
        /\ data'[id] = [ptr |-> p, hasSend |-> hasSend, timeIter |-> node]
        /\ \A i \in DOMAIN data : data'[i] = data[i]
        /\ time' = time \cup {node}
        /\ send' = IF hasSend THEN send ELSE Append(send, id)
    BY <1>2 DEF Insert
  <2>2. node \in Nodes /\ data'[id] \in PtrInfo
    BY <2>1 DEF Nodes, PtrInfo
  <2>3. /\ send \in Seq(Ids) /\ NoRepeat(send)
        /\ \A x : Holds(send, x) <=> (x \in DOMAIN data /\ ~data[x].hasSend)
    BY SendListHolds DEF TypeOK
  <2>4. /\ send' \in Seq(Ids) /\ NoRepeat(send')
        /\ \A x : Holds(send', x) <=> (Holds(send, x) \/ (x = id /\ ~hasSend))
    <3>1. ~Holds(send, id)
      BY <2>3, <1>2
    <3>2. /\ Append(send, id) \in Seq(Ids) /\ NoRepeat(Append(send, id))
          /\ \A x : Holds(Append(send, id), x) <=> (x = id \/ Holds(send, x))
      BY <2>3, <3>1, AppendFacts
    <3> QED BY <2>1, <2>3, <3>2
  <2>5. TypeOK'
    BY <2>1, <2>2, <2>4 DEF TypeOK
  <2>6. TimeIteratorsLive'
    BY <2>1, <1>2 DEF TimeIteratorsLive
  <2>7. \A x : Holds(send', x) <=> (x \in DOMAIN data' /\ ~data'[x].hasSend)
    BY <2>1, <2>3, <2>4, <1>2
  <2>8. SendListExact'
    BY <2>4, <2>7 DEF SendListExact, NoRepeat, Holds
  <2> QED BY <2>5, <2>6, <2>8
<1> QED BY <1>1, <1>2

-----------------------------------------------------------------------------
(* Consistent is inductive: the empty queue satisfies it, and every call   *)
(* of the class and every tick of the clock keeps it.                      *)
LEMMA InitConsistent == Init => Consistent
BY MaxIdAssumption, HorizonAssumption
   DEF Init, Consistent, TypeOK, TimeIteratorsLive, SendListExact

LEMMA StepConsistent == Consistent /\ [Next]_vars => Consistent'
<1> SUFFICES ASSUME Consistent, [Next]_vars PROVE Consistent'
  OBVIOUS
<1>1. ASSUME NEW p \in Ptrs, NEW d \in 0..Horizon, NEW hasSend \in BOOLEAN,
             push(p, d, hasSend)
      PROVE  Consistent'
  <2>1. GeneratedId \in Ids /\ uniqId' \in 0..MaxId
    BY <1>1, GeneratedIdType DEF Consistent, TypeOK, push, Ids
  <2> QED BY <1>1, <2>1, InsertConsistent DEF push
<1>2. ASSUME NEW p \in Ptrs, NEW d \in 0..Horizon, NEW hasSend \in BOOLEAN,
             NEW id \in Ids, pushWithId(p, id, d, hasSend)
      PROVE  Consistent'
  BY <1>2, InsertConsistent DEF pushWithId, Consistent, TypeOK
<1>3. CASE getSend
  BY <1>3 DEF getSend, Consistent, TypeOK, TimeIteratorsLive, SendListExact
<1>4. ASSUME NEW del \in BOOLEAN, popSend(del) PROVE Consistent'
  <2> DEFINE id == Head(send)
  <2>1. /\ send # <<>> /\ send' = Tail(send)
        /\ data' = IF del THEN DropData(id)
                          ELSE [i \in DOMAIN data |->
                                  IF i = id THEN [data[i] EXCEPT !.hasSend = TRUE]
                                            ELSE data[i]]
        /\ time' = IF del THEN time \ {data[id].timeIter} ELSE time
        /\ uniqId' = uniqId /\ now' = now
    BY <1>4 DEF popSend
  <2>2. /\ send \in Seq(Ids) /\ NoRepeat(send)
        /\ \A x : Holds(send, x) <=> (x \in DOMAIN data /\ ~data[x].hasSend)
    BY SendListHolds DEF Consistent, TypeOK
  <2>3. /\ send' \in Seq(Ids) /\ NoRepeat(send') /\ Holds(send, id)
        /\ \A x : Holds(send', x) <=> (x # id /\ Holds(send, x))
    BY <2>1, <2>2, TailFacts
  <2>4. id \in DOMAIN data
    BY <2>2, <2>3
  <2> HIDE DEF id
  <2>5. CASE del
    BY <2>1, <2>3, <2>4, <2>5, RemovalConsistent
  <2>6. CASE ~del
    <3>1. /\ DOMAIN data' = DOMAIN data /\ time' = time
          /\ data'[id] = [data[id] EXCEPT !.hasSend = TRUE]
          /\ \A i \in DOMAIN data : i # id => data'[i] = data[i]
      BY <2>1, <2>4, <2>6
    <3>2. TypeOK'
      <4>1. [data[id] EXCEPT !.hasSend = TRUE] \in PtrInfo
        BY <2>4 DEF Consistent, TypeOK, PtrInfo
      <4>2. \A i \in DOMAIN data' : data'[i] \in PtrInfo
        BY <3>1, <4>1 DEF Consistent, TypeOK
      <4> QED BY <2>1, <2>3, <3>1, <4>2 DEF Consistent, TypeOK
    <3>3. \A i \in DOMAIN data : data'[i].timeIter = data[i].timeIter
      BY <3>1, <2>4 DEF Consistent, TypeOK, PtrInfo
    <3>4. TimeIteratorsLive'
      BY <3>1, <3>3 DEF Consistent, TimeIteratorsLive
    <3>5. data'[id].hasSend
      BY <3>1, <2>4 DEF Consistent, TypeOK, PtrInfo
    <3>6. \A x : Holds(send', x) <=> (x \in DOMAIN data' /\ ~data'[x].hasSend)
      BY <2>2, <2>3, <3>1, <3>5
    <3>7. SendListExact'
      BY <2>3, <3>6 DEF SendListExact, NoRepeat, Holds
    <3> QED BY <3>2, <3>4, <3>7 DEF Consistent
  <2> QED BY <2>5, <2>6
<1>5. ASSUME NEW id \in Ids, erase(id) PROVE Consistent'
  <2>1. CASE id \in DOMAIN data
    <3>1. /\ send' = IF data[id].hasSend THEN send ELSE Unlink(send, id)
          /\ time' = time \ {data[id].timeIter}
          /\ data' = DropData(id) /\ uniqId' = uniqId /\ now' = now
      BY <1>5, <2>1 DEF erase
    <3> QED BY <2>1, <3>1, UnlinkIfUnsent, RemovalConsistent
  <2>2. CASE id \notin DOMAIN data
    BY <1>5, <2>2
       DEF erase, Consistent, TypeOK, TimeIteratorsLive, SendListExact
  <2> QED BY <2>1, <2>2
<1>6. ASSUME NEW id \in Ids, get(id) PROVE Consistent'
  BY <1>6 DEF get, Consistent, TypeOK, TimeIteratorsLive, SendListExact
<1>7. CASE timeout
  <2>1. ASSUME NEW node \in time, node.key <= now,
               send' = IF data[node.id].hasSend THEN send
                                                ELSE Unlink(send, node.id),
               data' = DropData(node.id), time' = time \ {node},
               uniqId' = uniqId, now' = now
        PROVE  Consistent'
    <3>1. node.id \in DOMAIN data /\ data[node.id].timeIter = node
      BY DEF Consistent, TimeIteratorsLive
    <3> QED BY <2>1, <3>1, UnlinkIfUnsent, RemovalConsistent
  <2>2. ASSUME UNCHANGED <<uniqId, data, time, send, now>> PROVE Consistent'
    BY <2>2 DEF Consistent, TypeOK, TimeIteratorsLive, SendListExact
  <2> QED BY <1>7, <2>1, <2>2 DEF timeout
<1>8. CASE Tick
  BY <1>8, HorizonAssumption
     DEF Tick, Consistent, TypeOK, TimeIteratorsLive, SendListExact
<1>9. CASE UNCHANGED vars
  BY <1>9 DEF vars, Consistent, TypeOK, TimeIteratorsLive, SendListExact
<1> QED BY <1>1, <1>2, <1>3, <1>4, <1>5, <1>6, <1>7, <1>8, <1>9 DEF Next

(* For every number of ids, every clock bound and every set of payloads,   *)
(* the three containers of TC_TimeoutQueueNew agree after any sequence of  *)
(* calls: no iterator they store dangles.                                  *)
THEOREM QueueConsistent == Spec => []Consistent
BY InitConsistent, StepConsistent, PTL DEF Spec

(* timeout() of TC_TimeoutQueueNew never follows a dataIter to an entry    *)
(* that is gone.                                                           *)
THEOREM QueueIteratorsLive == Spec => []TimeIteratorsLive
BY QueueConsistent, PTL DEF Consistent

(* The list that getSend and popSend walk holds the entries not sent yet,  *)
(* each once: erase and timeout() take an entry off it in time.            *)
THEOREM QueueSendListExact == Spec => []SendListExact
BY QueueConsistent, PTL DEF Consistent

-----------------------------------------------------------------------------
(* The entries CallStore sees before and after an entry left _data. *)
LEMMA EntryDropped ==
  ASSUME NEW id \in DOMAIN data, data' = DropData(id)
  PROVE  Entry' = [i \in DOMAIN Entry \ {id} |-> Entry[i]]
BY DEF DropData, Entry

LEMMA EntryOf ==
  /\ DOMAIN Entry = DOMAIN data
  /\ \A id \in DOMAIN data : /\ Entry[id].ptr = data[id].ptr
                             /\ Entry[id].deadline = data[id].timeIter.key
                             /\ Entry[id].sent = data[id].hasSend
BY DEF Entry

LEMMA SameUnlink == \A list, id : Store!Unlink(list, id) = Unlink(list, id)
BY DEF Store!Unlink, Unlink, Store!RemoveAt, RemoveAt

LEMMA InsertStores ==
  ASSUME NEW p \in Ptrs, NEW id \in Ids, NEW d \in 0..Horizon,
         NEW hasSend \in BOOLEAN, Insert(p, id, d, hasSend), now' = now
  PROVE  Store!Next
<1>1. CASE id \in DOMAIN data
  <2>1. /\ id \in DOMAIN Entry /\ ret' = Failed /\ send' = send /\ data' = data
    BY <1>1, EntryOf DEF Insert
  <2>2. Entry' = Entry
    BY <2>1 DEF Entry
  <2>3. Store!Store(p, id, d, hasSend)
    BY <2>1, <2>2 DEF Store!Store, Store!Failed, Failed
  <2> QED BY <2>3 DEF Store!Next
<1>2. CASE id \notin DOMAIN data
  <2> DEFINE node == [key |-> d, id |-> id]
             new == [ptr |-> p, hasSend |-> hasSend, timeIter |-> node]
  <2>1. /\ data' = [i \in DOMAIN data \cup {id} |-> IF i = id THEN new ELSE data[i]]
        /\ send' = IF hasSend THEN send ELSE Append(send, id)
        /\ ret' = Returned(p)
    BY <1>2 DEF Insert
  <2>2. Entry' = [i \in DOMAIN Entry \cup {id} |->
                    IF i = id THEN [ptr |-> p, deadline |-> d, sent |-> hasSend]
                              ELSE Entry[i]]
    BY <2>1 DEF Entry
  <2>3. id \notin DOMAIN Entry
    BY <1>2, EntryOf
  <2>4. Store!Store(p, id, d, hasSend)
    BY <2>1, <2>2, <2>3 DEF Store!Store, Store!Returned, Returned
  <2> QED BY <2>4 DEF Store!Next
<1> QED BY <1>1, <1>2

(* Every step of the class is a step of CallStore or leaves it alone. *)
LEMMA StepImplements == Consistent /\ [Next]_vars => [Store!Next]_(Store!vars)
<1> SUFFICES ASSUME Consistent, [Next]_vars PROVE [Store!Next]_(Store!vars)
  OBVIOUS
<1>1. ASSUME NEW p \in Ptrs, NEW d \in 0..Horizon, NEW hasSend \in BOOLEAN,
             push(p, d, hasSend)
      PROVE  Store!Next
  BY <1>1, GeneratedIdType, InsertStores DEF push, Consistent, TypeOK
<1>2. ASSUME NEW p \in Ptrs, NEW d \in 0..Horizon, NEW hasSend \in BOOLEAN,
             NEW id \in Ids, pushWithId(p, id, d, hasSend)
      PROVE  Store!Next
  BY <1>2, InsertStores DEF pushWithId
<1>3. CASE getSend
  <2>1. send # <<>> => Head(send) \in DOMAIN data
    BY TailFacts, SendListHolds DEF Consistent, TypeOK
  <2>2. /\ ret' = IF send = <<>> THEN Failed ELSE Returned(Entry[Head(send)].ptr)
        /\ send' = send /\ now' = now /\ Entry' = Entry
    BY <1>3, <2>1, EntryOf DEF getSend, Entry
  <2>3. Store!NextUnsent
    BY <2>2 DEF Store!NextUnsent, Store!Failed, Store!Returned, Failed, Returned
  <2> QED BY <2>3 DEF Store!Next
<1>4. ASSUME NEW del \in BOOLEAN, popSend(del) PROVE Store!Next
  <2> DEFINE id == Head(send)
  <2>1. /\ send # <<>> /\ send' = Tail(send) /\ now' = now /\ ret' = ret
        /\ data' = IF del THEN DropData(id)
                          ELSE [i \in DOMAIN data |->
                                  IF i = id THEN [data[i] EXCEPT !.hasSend = TRUE]
                                            ELSE data[i]]
    BY <1>4 DEF popSend
  <2>2. id \in DOMAIN data
    BY <2>1, TailFacts, SendListHolds DEF Consistent, TypeOK
  <2> HIDE DEF id
  <2>3. CASE del
    <3>1. Entry' = [i \in DOMAIN Entry \ {id} |-> Entry[i]]
      BY <2>1, <2>2, <2>3, EntryDropped
    <3>2. Store!MarkSent(del)
      BY <2>1, <2>3, <3>1 DEF Store!MarkSent, id
    <3> QED BY <3>2 DEF Store!Next
  <2>4. CASE ~del
    <3>1. /\ DOMAIN data' = DOMAIN data
          /\ data'[id] = [data[id] EXCEPT !.hasSend = TRUE]
          /\ \A i \in DOMAIN data : i # id => data'[i] = data[i]
      BY <2>1, <2>2, <2>4
    <3>2. /\ data'[id].ptr = data[id].ptr
          /\ data'[id].timeIter = data[id].timeIter
          /\ data'[id].hasSend = TRUE
      BY <3>1, <2>2 DEF Consistent, TypeOK, PtrInfo
    <3>3. Entry' = [i \in DOMAIN Entry |->
                      IF i = id THEN [Entry[i] EXCEPT !.sent = TRUE] ELSE Entry[i]]
      BY <3>1, <3>2, <2>2 DEF Entry
    <3>4. Store!MarkSent(del)
      BY <2>1, <2>4, <3>3 DEF Store!MarkSent, id
    <3> QED BY <3>4 DEF Store!Next
  <2> QED BY <2>3, <2>4
<1>5. ASSUME NEW id \in Ids, erase(id) PROVE Store!Next
  <2>1. CASE id \in DOMAIN data
    <3>1. /\ ret' = Returned(data[id].ptr) /\ now' = now /\ data' = DropData(id)
          /\ send' = IF data[id].hasSend THEN send ELSE Unlink(send, id)
      BY <1>5, <2>1 DEF erase
    <3>2. Entry' = [i \in DOMAIN Entry \ {id} |-> Entry[i]]
      BY <2>1, <3>1, EntryDropped
    <3>3. Store!Take(id)
      BY <2>1, <3>1, <3>2, EntryOf, SameUnlink
         DEF Store!Take, Store!Forget, Store!Returned, Returned
    <3> QED BY <3>3 DEF Store!Next
  <2>2. CASE id \notin DOMAIN data
    <3>1. /\ ret' = Failed /\ now' = now /\ send' = send /\ Entry' = Entry
      BY <1>5, <2>2 DEF erase, Entry
    <3>2. Store!Take(id)
      BY <2>2, <3>1, EntryOf DEF Store!Take, Store!Failed, Failed
    <3> QED BY <3>2 DEF Store!Next
  <2> QED BY <2>1, <2>2
<1>6. ASSUME NEW id \in Ids, get(id) PROVE Store!Next
  <2>1. /\ ret' = IF id \in DOMAIN Entry THEN Returned(Entry[id].ptr) ELSE Failed
        /\ send' = send /\ now' = now /\ Entry' = Entry
    BY <1>6, EntryOf DEF get, Entry
  <2>2. Store!Look(id)
    BY <2>1 DEF Store!Look, Store!Failed, Store!Returned, Failed, Returned
  <2> QED BY <2>2 DEF Store!Next
<1>7. CASE timeout
  <2>1. ASSUME NEW node \in time, IsFirst(node), node.key <= now,
               ret' = TimedOut(data[node.id].ptr),
               send' = IF data[node.id].hasSend THEN send
                                                ELSE Unlink(send, node.id),
               data' = DropData(node.id), now' = now
        PROVE  Store!Next
    <3>1. node.id \in DOMAIN data /\ data[node.id].timeIter = node
      BY DEF Consistent, TimeIteratorsLive
    <3>2. Entry' = [i \in DOMAIN Entry \ {node.id} |-> Entry[i]]
      BY <2>1, <3>1, EntryDropped
    <3>3. \A other \in DOMAIN Entry : Entry[node.id].deadline <= Entry[other].deadline
      BY <2>1, <3>1, EntryOf DEF IsFirst, Consistent, TimeIteratorsLive
    <3>4. Entry[node.id].deadline <= now
      BY <2>1, <3>1, EntryOf
    <3>5. Store!Forget(node.id)
      BY <2>1, <3>1, <3>2, EntryOf, SameUnlink DEF Store!Forget
    <3>6. ret' = Store!TimedOut(Entry[node.id].ptr)
      BY <2>1, <3>1, EntryOf DEF Store!TimedOut, TimedOut
    <3>7. Store!Expire
      BY <2>1, <3>1, <3>3, <3>4, <3>5, <3>6, EntryOf DEF Store!Expire
    <3> QED BY <3>7 DEF Store!Next
  <2>2. ASSUME \A node \in time : node.key > now, ret' = NoneDue,
               UNCHANGED <<uniqId, data, time, send, now>>
        PROVE  Store!Next
    <3>1. \A id \in DOMAIN Entry : Entry[id].deadline > now
      BY <2>2, EntryOf DEF Consistent, TimeIteratorsLive
    <3>2. Store!NothingDue
      BY <2>2, <3>1 DEF Store!NothingDue, Store!NoneDue, NoneDue, Entry
    <3> QED BY <3>2 DEF Store!Next
  <2> QED BY <1>7, <2>1, <2>2 DEF timeout
<1>8. CASE Tick
  <2>1. Store!Tick
    BY <1>8 DEF Tick, Store!Tick, Entry
  <2> QED BY <2>1 DEF Store!Next
<1>9. CASE UNCHANGED vars
  BY <1>9 DEF vars, Store!vars, Entry
<1> QED BY <1>1, <1>2, <1>3, <1>4, <1>5, <1>6, <1>7, <1>8, <1>9 DEF Next

(* TC_TimeoutQueueNew implements CallStore: hash map, multimap and list    *)
(* together behave as one store that returns each call at most once.       *)
THEOREM QueueImplementsStore == Spec => ImplementsCallStore
<1>1. Init => Store!Init
  BY DEF Init, Store!Init, Store!Failed, Failed, Entry
<1>2. Consistent /\ [Next]_vars => [Store!Next]_(Store!vars)
  BY StepImplements
<1> QED BY <1>1, <1>2, QueueConsistent, PTL DEF Spec, Store!Spec, ImplementsCallStore
=============================================================================
