-------------------------- MODULE RpcClientProofs --------------------------
(***************************************************************************)
(* What the client's network thread keeps true for any calls, adapters and *)
(* options: a call has one owner and is finished at most once; what an     *)
(* adapter sends leaves in order, in serial mode one at a time, and an     *)
(* answer goes to the call it answers; a connection that can send leaves   *)
(* nothing unsent; a synchronous call is held until it is finished.        *)
(***************************************************************************)
EXTENDS RpcClient, SequenceTheorems, FiniteSetTheorems, TLAPS

-----------------------------------------------------------------------------
(* The state of one adapter *)

CallMaps == UNION {[D -> Msgs] : D \in SUBSET Nat}
StoreSet == [call : CallMaps, unsent : Seq(Nat), last : Nat]
LinkSet  == [st : {"none", "connecting", "connected", "ready"}, buf : Req,
             wire : SUBSET Req, watched : BOOLEAN]
MsgSet   == [stat : {"new", "req", "rsp", "time", "exc"},
             adapter : Adapters \cup {NoAdapter}, fin : Nat, got : Msgs \cup {NoMsg}]

(* The requests that a connection has sent, or begun to. *)
Sends(l) == l.wire \cup ({l.buf} \ {NoReq})

(* The store: ids grow, unsent ones are stored and in order. *)
StoreOK(s) ==
  /\ \A id \in DOMAIN s.call : id > 0 /\ id <= s.last
  /\ \A k \in DOMAIN s.unsent : s.unsent[k] \in DOMAIN s.call
  /\ \A j, k \in DOMAIN s.unsent : j < k => s.unsent[j] < s.unsent[k]
  /\ Len(s.unsent) <= NoSendQueueLimit + 1

(* What was sent is older than what is not, and still the call its id says. *)
SentOK(s, l) ==
  \A r \in Sends(l) :
    /\ r.msg \in Msgs /\ r.id <= s.last
    /\ \A k \in DOMAIN s.unsent : r.id < s.unsent[k]
    /\ ~Serial /\ r.id \in DOMAIN s.call => s.call[r.id] = r.msg

(* _requestMsg: the one request of a serial connection. *)
CurrentOK(s, l, c) ==
  /\ ~Serial => c = NoMsg
  /\ Serial => /\ \A r \in Sends(l) : r.msg = c
               /\ \A q, r \in Sends(l) : q = r
               /\ l.buf = NoReq \/ l.wire = {}
  /\ c # NoMsg => \E id \in DOMAIN s.call :
                    s.call[id] = c /\ \A k \in DOMAIN s.unsent : s.unsent[k] # id

AdapterOK(s, l, c) ==
  /\ s \in StoreSet /\ l \in LinkSet /\ c \in Msgs \cup {NoMsg}
  /\ StoreOK(s) /\ SentOK(s, l) /\ CurrentOK(s, l, c)

AdapterInv ==
  /\ mode \in Modes
  /\ DOMAIN store = Adapters /\ DOMAIN link = Adapters /\ DOMAIN current = Adapters
  /\ store = [a \in Adapters |-> store[a]] /\ link = [a \in Adapters |-> link[a]]
  /\ current = [a \in Adapters |-> current[a]]
  /\ \A a \in Adapters : AdapterOK(store[a], link[a], current[a])

-----------------------------------------------------------------------------
(* The running handler *)

Carries(item) == item.do \in {"dispatch", "call"}

(* Only the item that runs holds a message; what is left to send, or to     *)
(* see to, is of the connection of the event.                               *)
TodoOK(t, e) ==
  /\ t \in Seq(Item)
  /\ \A i \in DOMAIN t :
       /\ Carries(t[i]) => i = 1 /\ t[i].msg \in Msgs
       /\ t[i].do \in {"flush", "completed"} => t[i].on = e.on /\ e.dir \in {"in", "out"}

HandlerInv ==
  /\ event \in [on : Adapters \cup {NoAdapter}, dir : {"none", "in", "out"}]
  /\ TodoOK(todo, event)

(* A connection that could send, and what will make it. *)
CanSend(s, l, c) ==
  /\ l.st = "ready" /\ l.watched /\ l.buf = NoReq /\ c = NoMsg
  /\ s.unsent # <<>>

Helped(a, t) == \E i \in DOMAIN t : t[i] \in {Flush(a), Completed(a)}

StallInv ==
  \A a \in Adapters : CanSend(store[a], link[a], current[a]) => Helped(a, todo)

-----------------------------------------------------------------------------
(* The owner of a call *)

Places == {"new", "queue", "store", "handler", "lost", "done"}

InQueue(w, q) ==
  /\ q \in Seq(Msgs)
  /\ \A i \in DOMAIN q : w[q[i]] = "queue"
  /\ \A i, j \in DOMAIN q : q[i] = q[j] => i = j
  /\ \A m \in Msgs : w[m] = "queue" => \E i \in DOMAIN q : q[i] = m

InStore(w, s) ==
  /\ \A a \in Adapters : \A i \in DOMAIN s[a].call : w[s[a].call[i]] = "store"
  /\ \A a, b \in Adapters : \A i \in DOMAIN s[a].call, j \in DOMAIN s[b].call :
       s[a].call[i] = s[b].call[j] => a = b /\ i = j
  /\ \A m \in Msgs : w[m] = "store" =>
       \E a \in Adapters : \E i \in DOMAIN s[a].call : s[a].call[i] = m

InTodo(w, t) ==
  /\ \A i \in DOMAIN t : Carries(t[i]) => w[t[i].msg] = "handler"
  /\ \A m \in Msgs : w[m] = "handler" => \E i \in DOMAIN t : Carries(t[i]) /\ t[i].msg = m

(* How far a call is; it is lost when a send threw, or without an adapter   *)
(* an asynchronous one.                                                     *)
Ended(w, f) ==
  \A m \in Msgs : /\ f[m].stat = "new" <=> w[m] = "new"
                  /\ f[m].fin = IF w[m] = "done" THEN 1 ELSE 0
                  /\ w[m] = "lost" => SendThrows \/ m \in Async
                  /\ f[m].got \in {NoMsg, m}

Owned(w) == InQueue(w, reqq) /\ InStore(w, store) /\ InTodo(w, todo) /\ Ended(w, msg)

OwnInv ==
  /\ valid \in BOOLEAN /\ expired \subseteq Msgs
  /\ msg \in [Msgs -> MsgSet]
  /\ \E w \in [Msgs -> Places] : Owned(w)

ClientInv == AdapterInv /\ HandlerInv /\ StallInv /\ OwnInv

-----------------------------------------------------------------------------
(* Sequences *)

LEMMA SeqFacts ==
  ASSUME NEW S, NEW s \in Seq(S)
  PROVE  /\ DOMAIN s = 1..Len(s) /\ Len(s) \in Nat
         /\ s = <<>> <=> Len(s) = 0
         /\ \A i \in DOMAIN s : s[i] \in S /\ i \in Nat /\ i > 0 /\ i <= Len(s)
BY LenProperties, EmptySeq, ElementOfSeq

LEMMA AppendFacts ==
  ASSUME NEW S, NEW s \in Seq(S), NEW e \in S
  PROVE  /\ Append(s, e) \in Seq(S) /\ Len(Append(s, e)) = Len(s) + 1 /\ Len(s) \in Nat
         /\ DOMAIN s = 1..Len(s) /\ DOMAIN Append(s, e) = 1..(Len(s) + 1)
         /\ Append(s, e)[Len(s) + 1] = e
         /\ \A i \in 1..Len(s) : Append(s, e)[i] = s[i]
         /\ Append(s, e) # <<>>
<1>1. /\ Append(s, e) \in Seq(S) /\ Len(Append(s, e)) = Len(s) + 1 /\ Len(s) \in Nat
      /\ Append(s, e)[Len(s) + 1] = e
      /\ \A i \in 1..Len(s) : Append(s, e)[i] = s[i]
  BY AppendProperties, LenProperties
<1>2. DOMAIN s = 1..Len(s) /\ DOMAIN Append(s, e) = 1..(Len(s) + 1)
  BY <1>1, LenProperties
<1>3. Append(s, e) # <<>>
  BY <1>1, SeqFacts
<1> QED BY <1>1, <1>2, <1>3

(* An element of Append(s, e) is one of s, or e at the end. *)
LEMMA AppendSplit ==
  ASSUME NEW S, NEW s \in Seq(S), NEW e \in S, NEW i \in DOMAIN Append(s, e)
  PROVE  \/ i \in DOMAIN s /\ Append(s, e)[i] = s[i] /\ i # Len(s) + 1
         \/ i = Len(s) + 1 /\ i \notin DOMAIN s /\ Append(s, e)[i] = e
<1>1. /\ Len(s) \in Nat /\ DOMAIN s = 1..Len(s) /\ DOMAIN Append(s, e) = 1..(Len(s) + 1)
      /\ Append(s, e)[Len(s) + 1] = e
      /\ \A k \in 1..Len(s) : Append(s, e)[k] = s[k]
  BY AppendFacts
<1>2. CASE i = Len(s) + 1
  BY <1>1, <1>2
<1>3. CASE i # Len(s) + 1
  BY <1>1, <1>3
<1> QED BY <1>2, <1>3

LEMMA TailFacts ==
  ASSUME NEW S, NEW s \in Seq(S), s # <<>>
  PROVE  /\ Head(s) = s[1] /\ 1 \in DOMAIN s /\ Head(s) \in S /\ Len(s) > 0
         /\ Tail(s) \in Seq(S) /\ Len(Tail(s)) = Len(s) - 1
         /\ DOMAIN Tail(s) = 1..(Len(s) - 1)
         /\ \A i \in DOMAIN Tail(s) : i + 1 \in DOMAIN s /\ Tail(s)[i] = s[i + 1] /\ i \in Nat /\ i > 0
         /\ \A i \in DOMAIN s : i # 1 => i - 1 \in DOMAIN Tail(s) /\ Tail(s)[i - 1] = s[i]
<1>1. Len(s) \in Nat \ {0} /\ DOMAIN s = 1..Len(s)
  BY SeqFacts
<1>2. Head(s) = s[1] /\ 1 \in DOMAIN s
  BY <1>1
<1>3. /\ Head(s) \in S /\ Tail(s) \in Seq(S) /\ Len(Tail(s)) = Len(s) - 1
      /\ \A i \in 1..Len(Tail(s)) : Tail(s)[i] = s[i + 1]
  BY HeadTailProperties
<1>4. DOMAIN Tail(s) = 1..(Len(s) - 1)
  BY <1>3, LenProperties
<1>5. ASSUME NEW i \in DOMAIN Tail(s)
      PROVE  i + 1 \in DOMAIN s /\ Tail(s)[i] = s[i + 1] /\ i \in Nat /\ i > 0
  BY <1>1, <1>3, <1>4, <1>5
<1>6. ASSUME NEW i \in DOMAIN s, i # 1
      PROVE  i - 1 \in DOMAIN Tail(s) /\ Tail(s)[i - 1] = s[i]
  <2>1. i \in Nat /\ i > 1 /\ i <= Len(s)
    BY <1>1, <1>6
  <2>2. i - 1 \in DOMAIN Tail(s) /\ (i - 1) + 1 = i
    BY <1>1, <1>4, <2>1
  <2> QED BY <1>3, <1>4, <2>2
<1> QED BY <1>1, <1>2, <1>3, <1>4, <1>5, <1>6

LEMMA ConcatFacts ==
  ASSUME NEW S, NEW s \in Seq(S), NEW t \in Seq(S)
  PROVE  /\ s \o t \in Seq(S) /\ Len(s \o t) = Len(s) + Len(t)
         /\ Len(s) \in Nat /\ Len(t) \in Nat
         /\ DOMAIN (s \o t) = 1..(Len(s) + Len(t))
         /\ DOMAIN s = 1..Len(s) /\ DOMAIN t = 1..Len(t)
         /\ \A i \in 1..Len(s) : (s \o t)[i] = s[i]
         /\ \A i \in (Len(s) + 1)..(Len(s) + Len(t)) :
              i - Len(s) \in DOMAIN t /\ (s \o t)[i] = t[i - Len(s)]
<1>1. Len(s) \in Nat /\ Len(t) \in Nat /\ DOMAIN s = 1..Len(s) /\ DOMAIN t = 1..Len(t)
  BY LenProperties
<1>2. /\ s \o t \in Seq(S) /\ Len(s \o t) = Len(s) + Len(t)
      /\ \A i \in 1..(Len(s) + Len(t)) : (s \o t)[i] = IF i <= Len(s) THEN s[i] ELSE t[i - Len(s)]
  BY ConcatProperties
<1>3. DOMAIN (s \o t) = 1..(Len(s) + Len(t))
  BY <1>2, LenProperties
<1> QED BY <1>1, <1>2, <1>3

LEMMA RemoveFacts ==
  ASSUME NEW S, NEW s \in Seq(S), NEW k \in DOMAIN s
  PROVE  /\ RemoveAt(s, k) \in Seq(S) /\ Len(RemoveAt(s, k)) = Len(s) - 1
         /\ DOMAIN RemoveAt(s, k) = 1..(Len(s) - 1)
         /\ \A i \in DOMAIN RemoveAt(s, k) :
              RemoveAt(s, k)[i] = IF i < k THEN s[i] ELSE s[i + 1]
<1>1. Len(s) \in Nat /\ DOMAIN s = 1..Len(s) /\ k \in Nat /\ k > 0 /\ k <= Len(s)
  BY SeqFacts
<1> DEFINE p == SubSeq(s, 1, k - 1)
           q == SubSeq(s, k + 1, Len(s))
<1>2. \A i \in 1..Len(s) : s[i] \in S
  BY <1>1, SeqFacts
<1>3. p \in Seq(S) /\ Len(p) = k - 1 /\ \A i \in 1..(k - 1) : p[i] = s[i]
  <2>1. \A i \in 1..(k - 1) : s[i] \in S
    BY <1>1, <1>2
  <2> QED BY <1>1, <2>1, SubSeqProperties
<1>4. q \in Seq(S) /\ Len(q) = Len(s) - k /\ \A i \in 1..(Len(s) - k) : q[i] = s[k + i]
  <2>1. \A i \in (k + 1)..Len(s) : s[i] \in S
    BY <1>1, <1>2
  <2>2. /\ q \in Seq(S)
        /\ Len(q) = IF k + 1 <= Len(s) THEN Len(s) - (k + 1) + 1 ELSE 0
        /\ \A i \in 1..(Len(s) - (k + 1) + 1) : q[i] = s[(k + 1) + i - 1]
    BY <1>1, <2>1, SubSeqProperties
  <2>3. Len(q) = Len(s) - k
    BY <1>1, <2>2
  <2>4. ASSUME NEW i \in 1..(Len(s) - k) PROVE q[i] = s[k + i]
    <3>1. i \in 1..(Len(s) - (k + 1) + 1) /\ (k + 1) + i - 1 = k + i
      BY <1>1, <2>4
    <3> QED BY <2>2, <3>1
  <2> QED BY <2>2, <2>3, <2>4
<1> HIDE DEF p, q
<1>5. RemoveAt(s, k) = p \o q
  BY DEF RemoveAt, p, q
<1>6. /\ p \o q \in Seq(S) /\ Len(p \o q) = Len(p) + Len(q)
      /\ DOMAIN (p \o q) = 1..(Len(p) + Len(q))
      /\ \A i \in 1..Len(p) : (p \o q)[i] = p[i]
      /\ \A i \in (Len(p) + 1)..(Len(p) + Len(q)) :
           i - Len(p) \in DOMAIN q /\ (p \o q)[i] = q[i - Len(p)]
  <2>1. p \in Seq(S) /\ q \in Seq(S)
    BY <1>3, <1>4
  <2> QED BY <2>1, ConcatFacts
<1>7. Len(p) + Len(q) = Len(s) - 1
  BY <1>1, <1>3, <1>4
<1>8. ASSUME NEW i \in 1..(Len(s) - 1) PROVE (p \o q)[i] = IF i < k THEN s[i] ELSE s[i + 1]
  <2>1. CASE i < k
    BY <1>1, <1>3, <1>6, <2>1
  <2>2. CASE ~(i < k)
    <3>1. i \in (Len(p) + 1)..(Len(p) + Len(q)) /\ i - Len(p) \in 1..(Len(s) - k)
          /\ k + (i - Len(p)) = i + 1
      BY <1>1, <1>3, <1>4, <2>2
    <3> QED BY <1>4, <1>6, <2>2, <3>1
  <2> QED BY <2>1, <2>2
<1> QED BY <1>5, <1>6, <1>7, <1>8

-----------------------------------------------------------------------------
(* TC_TimeoutQueueNew as the adapters use it *)

LEMMA CallMapFacts ==
  ASSUME NEW f
  PROVE  f \in CallMaps <=> /\ f = [i \in DOMAIN f |-> f[i]] /\ DOMAIN f \subseteq Nat
                            /\ \A i \in DOMAIN f : f[i] \in Msgs
<1>1. ASSUME f \in CallMaps
      PROVE  /\ f = [i \in DOMAIN f |-> f[i]] /\ DOMAIN f \subseteq Nat
             /\ \A i \in DOMAIN f : f[i] \in Msgs
  <2>1. PICK D \in SUBSET Nat : f \in [D -> Msgs]
    BY <1>1 DEF CallMaps
  <2> QED BY <2>1
<1>2. ASSUME f = [i \in DOMAIN f |-> f[i]], DOMAIN f \subseteq Nat, \A i \in DOMAIN f : f[i] \in Msgs
      PROVE  f \in CallMaps
  <2>1. f \in [DOMAIN f -> Msgs]
    BY <1>2
  <2>2. DOMAIN f \in SUBSET Nat
    BY <1>2
  <2> QED BY <2>1, <2>2 DEF CallMaps
<1> QED BY <1>1, <1>2

LEMMA StoreFields ==
  ASSUME NEW s \in StoreSet
  PROVE  /\ s.call \in CallMaps /\ s.unsent \in Seq(Nat) /\ s.last \in Nat
         /\ DOMAIN s.call \subseteq Nat /\ \A i \in DOMAIN s.call : s.call[i] \in Msgs
         /\ DOMAIN s.unsent = 1..Len(s.unsent) /\ Len(s.unsent) \in Nat
         /\ \A k \in DOMAIN s.unsent : s.unsent[k] \in Nat /\ k \in Nat /\ k > 0
<1>1. s.call \in CallMaps /\ s.unsent \in Seq(Nat) /\ s.last \in Nat
  BY DEF StoreSet
<1> QED BY <1>1, CallMapFacts, SeqFacts

LEMMA PutFacts ==
  ASSUME NEW s \in StoreSet, NEW m \in Msgs, NEW id \in Nat, NEW sent \in BOOLEAN
  PROVE  /\ Put(s, m, id, sent) \in StoreSet
         /\ DOMAIN Put(s, m, id, sent).call = DOMAIN s.call \cup {id}
         /\ Put(s, m, id, sent).call[id] = m
         /\ \A i \in DOMAIN s.call : i # id => Put(s, m, id, sent).call[i] = s.call[i]
         /\ Put(s, m, id, sent).unsent = IF sent THEN s.unsent ELSE Append(s.unsent, id)
         /\ Put(s, m, id, sent).last = id
<1> DEFINE f == [i \in DOMAIN s.call \cup {id} |-> IF i = id THEN m ELSE s.call[i]]
           u == IF sent THEN s.unsent ELSE Append(s.unsent, id)
<1>1. /\ s.unsent \in Seq(Nat) /\ DOMAIN s.call \subseteq Nat
      /\ \A i \in DOMAIN s.call : s.call[i] \in Msgs
  BY StoreFields
<1>2. /\ DOMAIN f = DOMAIN s.call \cup {id} /\ f[id] = m
      /\ \A i \in DOMAIN s.call : i # id => f[i] = s.call[i]
  OBVIOUS
<1>3. f \in CallMaps
  <2>1. f \in [DOMAIN s.call \cup {id} -> Msgs] /\ DOMAIN s.call \cup {id} \in SUBSET Nat
    BY <1>1
  <2> QED BY <2>1 DEF CallMaps
<1>4. u \in Seq(Nat)
  BY <1>1, AppendFacts
<1> HIDE DEF f, u
<1>5. Put(s, m, id, sent) = [call |-> f, unsent |-> u, last |-> id]
  BY DEF Put, f, u
<1>6. [call |-> f, unsent |-> u, last |-> id] \in StoreSet
  BY <1>3, <1>4 DEF StoreSet
<1> QED BY <1>2, <1>5, <1>6 DEF u

LEMMA PutParked ==
  ASSUME NEW s \in StoreSet, NEW m \in Msgs, NEW id \in Nat
  PROVE  /\ Put(s, m, id, FALSE) \in StoreSet
         /\ DOMAIN Put(s, m, id, FALSE).call = DOMAIN s.call \cup {id}
         /\ Put(s, m, id, FALSE).call[id] = m
         /\ \A i \in DOMAIN s.call : i # id => Put(s, m, id, FALSE).call[i] = s.call[i]
         /\ Put(s, m, id, FALSE).unsent = Append(s.unsent, id)
         /\ Put(s, m, id, FALSE).last = id
<1>1. PICK b \in BOOLEAN : b = FALSE
  OBVIOUS
<1>2. /\ Put(s, m, id, b) \in StoreSet
      /\ DOMAIN Put(s, m, id, b).call = DOMAIN s.call \cup {id}
      /\ Put(s, m, id, b).call[id] = m
      /\ \A i \in DOMAIN s.call : i # id => Put(s, m, id, b).call[i] = s.call[i]
      /\ Put(s, m, id, b).unsent = IF b THEN s.unsent ELSE Append(s.unsent, id)
      /\ Put(s, m, id, b).last = id
  BY PutFacts
<1> QED BY <1>1, <1>2

(* An increasing list of ids without one of them. *)
LEMMA UnlinkFacts ==
  ASSUME NEW u \in Seq(Nat), NEW id \in Nat,
         \A j, k \in DOMAIN u : j < k => u[j] < u[k]
  PROVE  /\ Unlink(u, id) \in Seq(Nat) /\ Len(Unlink(u, id)) <= Len(u)
         /\ \A j, k \in DOMAIN Unlink(u, id) : j < k => Unlink(u, id)[j] < Unlink(u, id)[k]
         /\ \A k \in DOMAIN Unlink(u, id) :
              Unlink(u, id)[k] # id /\ \E j \in DOMAIN u : Unlink(u, id)[k] = u[j]
<1>1. DOMAIN u = 1..Len(u) /\ Len(u) \in Nat /\ \A i \in DOMAIN u : u[i] \in Nat /\ i \in Nat /\ i > 0
  BY SeqFacts
<1>2. CASE ~\E k \in DOMAIN u : u[k] = id
  <2>1. Unlink(u, id) = u
    BY <1>2 DEF Unlink
  <2> QED BY <1>1, <1>2, <2>1
<1>3. CASE \E k \in DOMAIN u : u[k] = id
  <2>1. PICK k : k = CHOOSE i \in DOMAIN u : u[i] = id
    OBVIOUS
  <2>2. k \in DOMAIN u /\ u[k] = id /\ Unlink(u, id) = RemoveAt(u, k)
    BY <1>3, <2>1 DEF Unlink
  <2>3. PICK v : v = RemoveAt(u, k)
    OBVIOUS
  <2>4. /\ v \in Seq(Nat) /\ Len(v) = Len(u) - 1 /\ DOMAIN v = 1..(Len(u) - 1)
        /\ \A i \in DOMAIN v : v[i] = IF i < k THEN u[i] ELSE u[i + 1]
    <3>1. /\ RemoveAt(u, k) \in Seq(Nat) /\ Len(RemoveAt(u, k)) = Len(u) - 1
          /\ DOMAIN RemoveAt(u, k) = 1..(Len(u) - 1)
          /\ \A i \in DOMAIN RemoveAt(u, k) :
               RemoveAt(u, k)[i] = IF i < k THEN u[i] ELSE u[i + 1]
      BY <2>2, RemoveFacts
    <3> QED BY <2>3, <3>1
  <2>5. ASSUME NEW i \in DOMAIN v
        PROVE  \E j \in DOMAIN u : v[i] = u[j] /\ j # k /\ (j = IF i < k THEN i ELSE i + 1)
    <3>1. i \in Nat /\ i >= 1 /\ i <= Len(u) - 1
      BY <1>1, <2>4
    <3>2. CASE i < k
      BY <1>1, <2>2, <2>4, <3>1, <3>2
    <3>3. CASE ~(i < k)
      <4>1. i + 1 \in DOMAIN u /\ i + 1 # k
        BY <1>1, <2>2, <3>1, <3>3
      <4> QED BY <2>4, <3>3, <4>1
    <3> QED BY <3>2, <3>3
  <2>6. \A i \in DOMAIN v : i \in Nat
    BY <1>1, <2>4
  <2>7. ASSUME NEW i \in DOMAIN v, NEW j \in DOMAIN v, i < j PROVE v[i] < v[j]
    <3>1. PICK x \in DOMAIN u : v[i] = u[x] /\ x = IF i < k THEN i ELSE i + 1
      BY <2>5
    <3>2. PICK y \in DOMAIN u : v[j] = u[y] /\ y = IF j < k THEN j ELSE j + 1
      BY <2>5
    <3>3. x < y
      BY <1>1, <2>2, <2>6, <2>7, <3>1, <3>2
    <3> QED BY <3>1, <3>2, <3>3
  <2>8. ASSUME NEW i \in DOMAIN v PROVE v[i] # id /\ \E j \in DOMAIN u : v[i] = u[j]
    <3>1. PICK x \in DOMAIN u : v[i] = u[x] /\ x # k
      BY <2>5
    <3>2. u[x] # u[k]
      <4>1. x < k \/ k < x
        BY <1>1, <2>2, <3>1
      <4>2. u[x] < u[k] \/ u[k] < u[x]
        BY <2>2, <4>1
      <4> QED BY <1>1, <2>2, <4>2
    <3> QED BY <2>2, <3>1, <3>2
  <2>9. Len(v) <= Len(u)
    BY <1>1, <2>4
  <2> QED BY <2>2, <2>3, <2>4, <2>7, <2>8, <2>9
<1> QED BY <1>2, <1>3

LEMMA EraseFacts ==
  ASSUME mode \in Modes, NEW s \in StoreSet, NEW id \in Nat, StoreOK(s)
  PROVE  /\ Erase(s, id) \in StoreSet /\ StoreOK(Erase(s, id))
         /\ DOMAIN Erase(s, id).call = DOMAIN s.call \ {id}
         /\ \A i \in DOMAIN s.call : i # id => Erase(s, id).call[i] = s.call[i]
         /\ \A k \in DOMAIN Erase(s, id).unsent :
              /\ Erase(s, id).unsent[k] # id
              /\ \E j \in DOMAIN s.unsent : Erase(s, id).unsent[k] = s.unsent[j]
         /\ Erase(s, id).last = s.last
         /\ s.unsent = <<>> => Erase(s, id).unsent = <<>>
<1>1. /\ s.unsent \in Seq(Nat) /\ DOMAIN s.call \subseteq Nat /\ s.last \in Nat
      /\ \A i \in DOMAIN s.call : s.call[i] \in Msgs
  BY StoreFields
<1>2. PICK f : f = [i \in DOMAIN s.call \ {id} |-> s.call[i]]
  OBVIOUS
<1>3. PICK u : u = Unlink(s.unsent, id)
  OBVIOUS
<1>4. /\ DOMAIN f = DOMAIN s.call \ {id}
      /\ \A i \in DOMAIN s.call : i # id => f[i] = s.call[i]
  BY <1>2
<1>5. f \in CallMaps
  <2>1. f \in [DOMAIN s.call \ {id} -> Msgs] /\ DOMAIN s.call \ {id} \in SUBSET Nat
    BY <1>1, <1>2
  <2> QED BY <2>1 DEF CallMaps
<1>6. /\ u \in Seq(Nat) /\ Len(u) <= Len(s.unsent)
      /\ \A j, k \in DOMAIN u : j < k => u[j] < u[k]
      /\ \A k \in DOMAIN u : u[k] # id /\ \E j \in DOMAIN s.unsent : u[k] = s.unsent[j]
  BY <1>1, <1>3, UnlinkFacts DEF StoreOK
<1>7. Erase(s, id) = [call |-> f, unsent |-> u, last |-> s.last]
  <2>1. Erase(s, id) = [s EXCEPT !.call = f, !.unsent = u]
    BY <1>2, <1>3 DEF Erase
  <2> QED BY <2>1 DEF StoreSet
<1>8. PICK e : e = Erase(s, id)
  OBVIOUS
<1>9. e \in StoreSet /\ e.call = f /\ e.unsent = u /\ e.last = s.last
  BY <1>1, <1>5, <1>6, <1>7, <1>8 DEF StoreSet
<1>10. StoreOK(e)
  <2>1. Len(u) \in Nat /\ Len(s.unsent) \in Nat /\ NoSendQueueLimit + 1 >= Len(s.unsent)
    BY <1>1, <1>6, SeqFacts DEF StoreOK
  <2>2. Len(u) <= NoSendQueueLimit + 1
    <3>1. NoSendQueueLimit \in Nat
      BY ModeAssumption DEF NoSendQueueLimit
    <3> QED BY <1>6, <2>1, <3>1
  <2>3. \A i \in DOMAIN f : i > 0 /\ i <= s.last
    BY <1>4 DEF StoreOK
  <2>4. \A k \in DOMAIN u : u[k] \in DOMAIN f
    BY <1>4, <1>6 DEF StoreOK
  <2> QED BY <1>6, <1>9, <2>2, <2>3, <2>4 DEF StoreOK
<1>11. s.unsent = <<>> => u = <<>>
  BY <1>3 DEF Unlink
<1> QED BY <1>4, <1>6, <1>8, <1>9, <1>10, <1>11

-----------------------------------------------------------------------------
(* What the operations of an adapter keep *)

(* s with another last id. *)
WithLast(s, n) == [s EXCEPT !.last = n]

LEMMA LastFacts ==
  ASSUME NEW s \in StoreSet, NEW n \in Nat
  PROVE  /\ WithLast(s, n) \in StoreSet /\ WithLast(s, n).call = s.call
         /\ WithLast(s, n).unsent = s.unsent /\ WithLast(s, n).last = n
BY DEF WithLast, StoreSet

LEMMA PopFacts ==
  ASSUME NEW s \in StoreSet, StoreOK(s), s.unsent # <<>>, mode \in Modes
  PROVE  /\ Head(s.unsent) \in DOMAIN s.call /\ Head(s.unsent) \in Nat /\ Head(s.unsent) > 0
         /\ \E k \in DOMAIN s.unsent : Head(s.unsent) = s.unsent[k]
         /\ PopSend(s) \in StoreSet /\ StoreOK(PopSend(s))
         /\ PopSend(s).call = s.call /\ PopSend(s).last = s.last
         /\ PopSend(s).unsent = Tail(s.unsent)
         /\ \A k \in DOMAIN PopSend(s).unsent :
              /\ Head(s.unsent) < PopSend(s).unsent[k]
              /\ \E j \in DOMAIN s.unsent : PopSend(s).unsent[k] = s.unsent[j]
         /\ \A k \in DOMAIN Erase(s, Head(s.unsent)).unsent :
              Head(s.unsent) < Erase(s, Head(s.unsent)).unsent[k]
<1>1. PICK u : u = s.unsent
  OBVIOUS
<1>2. u \in Seq(Nat) /\ u # <<>>
  BY <1>1, StoreFields
<1>3. /\ Head(u) = u[1] /\ 1 \in DOMAIN u /\ Tail(u) \in Seq(Nat)
      /\ Len(Tail(u)) = Len(u) - 1 /\ Len(u) > 0
      /\ \A i \in DOMAIN Tail(u) : i + 1 \in DOMAIN u /\ Tail(u)[i] = u[i + 1] /\ i \in Nat /\ i > 0
  BY <1>2, TailFacts
<1>4. PICK p : p = PopSend(s)
  OBVIOUS
<1>5. p \in StoreSet /\ p.call = s.call /\ p.last = s.last /\ p.unsent = Tail(u)
  BY <1>1, <1>3, <1>4 DEF PopSend, StoreSet
<1>6. /\ \A k \in DOMAIN u : u[k] \in DOMAIN s.call /\ k \in Nat /\ k > 0
      /\ \A j, k \in DOMAIN u : j < k => u[j] < u[k]
      /\ Len(u) <= NoSendQueueLimit + 1 /\ Len(u) \in Nat /\ NoSendQueueLimit \in Nat
      /\ \A id \in DOMAIN s.call : id > 0 /\ id \in Nat
  BY <1>1, <1>2, SeqFacts, StoreFields, ModeAssumption DEF StoreOK, NoSendQueueLimit
<1>7. \A k \in DOMAIN Tail(u) : Head(u) < Tail(u)[k] /\ \E j \in DOMAIN u : Tail(u)[k] = u[j]
  <2>1. TAKE k \in DOMAIN Tail(u)
  <2>2. 1 < k + 1 /\ k + 1 \in DOMAIN u /\ Tail(u)[k] = u[k + 1]
    BY <1>3
  <2> QED BY <1>3, <1>6, <2>2
<1>8. StoreOK(p)
  <2>1. \A k \in DOMAIN Tail(u) : Tail(u)[k] \in DOMAIN s.call
    BY <1>6, <1>7
  <2>2. ASSUME NEW j \in DOMAIN Tail(u), NEW k \in DOMAIN Tail(u), j < k
        PROVE  Tail(u)[j] < Tail(u)[k]
    <3>1. /\ j + 1 \in DOMAIN u /\ k + 1 \in DOMAIN u /\ j + 1 < k + 1
          /\ Tail(u)[j] = u[j + 1] /\ Tail(u)[k] = u[k + 1]
      BY <1>3, <2>2
    <3> QED BY <1>6, <3>1
  <2>3. Len(Tail(u)) <= NoSendQueueLimit + 1
    BY <1>3, <1>6
  <2> QED BY <1>5, <2>1, <2>2, <2>3 DEF StoreOK
<1>9. ASSUME NEW k \in DOMAIN Erase(s, Head(u)).unsent
      PROVE  Head(u) < Erase(s, Head(u)).unsent[k]
  <2>1. Head(u) \in Nat
    BY <1>3, <1>6
  <2>2. PICK j \in DOMAIN u : Erase(s, Head(u)).unsent[k] = u[j] /\ u[j] # Head(u)
    BY <1>1, <2>1, EraseFacts
  <2>3. j # 1 /\ 1 < j
    BY <1>3, <1>6, <2>2
  <2> QED BY <1>3, <1>6, <2>2, <2>3
<1> QED BY <1>1, <1>3, <1>4, <1>5, <1>6, <1>7, <1>8, <1>9

(* Connection k carries no more than l does. *)
Within(k, l) ==
  /\ k \in LinkSet /\ Sends(k) \subseteq Sends(l)
  /\ k.buf = NoReq \/ (k.buf = l.buf /\ k.wire \subseteq l.wire)

LEMMA LinkLess ==
  ASSUME NEW s, NEW l, NEW c, AdapterOK(s, l, c), NEW k, Within(k, l)
  PROVE  AdapterOK(s, k, c)
BY DEF AdapterOK, SentOK, CurrentOK, Within

LEMMA DownFacts ==
  /\ Down \in LinkSet /\ Sends(Down) = {} /\ NoReq \in Req
  /\ Down.st = "none" /\ Down.buf = NoReq /\ \A l : Within(Down, l)
<1>1. NoReq \in Req
  BY DEF NoReq, Req
<1>2. Down \in LinkSet /\ Down.wire = {} /\ Down.buf = NoReq /\ Down.st = "none"
  BY <1>1 DEF Down, LinkSet
<1>3. Sends(Down) = {}
  BY <1>2 DEF Sends
<1> QED BY <1>1, <1>2, <1>3 DEF Within

LEMMA AdapterBump ==
  ASSUME NEW s, NEW l, NEW c, AdapterOK(s, l, c), NEW n \in Nat, n >= s.last
  PROVE  AdapterOK(WithLast(s, n), l, c)
<1>1. s \in StoreSet /\ l \in LinkSet
  BY DEF AdapterOK
<1>2. PICK t : t = WithLast(s, n)
  OBVIOUS
<1>3. t \in StoreSet /\ t.call = s.call /\ t.unsent = s.unsent /\ t.last = n
  BY <1>1, <1>2, LastFacts
<1>4. s.last \in Nat /\ DOMAIN s.call \subseteq Nat
  BY <1>1, StoreFields
<1>5. StoreOK(t)
  BY <1>3, <1>4 DEF AdapterOK, StoreOK
<1>6. \A r \in Sends(l) : r.id \in Nat
  BY <1>1 DEF Sends, LinkSet, Req
<1>7. SentOK(t, l)
  BY <1>3, <1>4, <1>6 DEF AdapterOK, SentOK
<1>8. CurrentOK(t, l, c)
  BY <1>3 DEF AdapterOK, CurrentOK
<1> QED BY <1>2, <1>3, <1>5, <1>7, <1>8 DEF AdapterOK

LEMMA SendIds ==
  ASSUME NEW l \in LinkSet
  PROVE  \A r \in Sends(l) : r \in Req /\ r.id \in Nat
BY DEF Sends, LinkSet, Req

(* The unsent list of a store that a request is parked in. *)
LEMMA AdapterPark ==
  ASSUME mode \in Modes, NEW s, NEW l, NEW c, AdapterOK(s, l, c),
         NEW m \in Msgs, NEW id \in Nat, id > s.last, ~(Len(s.unsent) > NoSendQueueLimit)
  PROVE  AdapterOK(Put(s, m, id, FALSE), l, c)
<1>1. s \in StoreSet /\ l \in LinkSet /\ StoreOK(s) /\ SentOK(s, l) /\ CurrentOK(s, l, c)
  BY DEF AdapterOK
<1>2. PICK t : t = Put(s, m, id, FALSE)
  OBVIOUS
<1>3. /\ t \in StoreSet /\ DOMAIN t.call = DOMAIN s.call \cup {id} /\ t.call[id] = m
      /\ \A i \in DOMAIN s.call : i # id => t.call[i] = s.call[i]
      /\ t.unsent = Append(s.unsent, id) /\ t.last = id
  <2>1. /\ Put(s, m, id, FALSE) \in StoreSet
        /\ DOMAIN Put(s, m, id, FALSE).call = DOMAIN s.call \cup {id}
        /\ Put(s, m, id, FALSE).call[id] = m
        /\ \A i \in DOMAIN s.call : i # id => Put(s, m, id, FALSE).call[i] = s.call[i]
        /\ Put(s, m, id, FALSE).unsent = Append(s.unsent, id)
        /\ Put(s, m, id, FALSE).last = id
    BY <1>1, PutParked, ZenonT(60)
  <2> QED BY <1>2, <2>1
<1>4. /\ s.unsent \in Seq(Nat) /\ s.last \in Nat /\ DOMAIN s.call \subseteq Nat
      /\ Len(s.unsent) \in Nat
  BY <1>1, StoreFields
<1>5. \A i \in DOMAIN s.call : i # id /\ i < id /\ i \in Nat /\ i > 0
  BY <1>1, <1>4 DEF StoreOK
<1>6. PICK u : u = Append(s.unsent, id)
  OBVIOUS
<1>7. ASSUME NEW k \in DOMAIN u
      PROVE  \/ k \in DOMAIN s.unsent /\ u[k] = s.unsent[k] /\ k # Len(s.unsent) + 1
             \/ k = Len(s.unsent) + 1 /\ k \notin DOMAIN s.unsent /\ u[k] = id
  BY <1>4, <1>6, AppendSplit
<1>8. \A k \in DOMAIN s.unsent : s.unsent[k] < id /\ s.unsent[k] \in DOMAIN s.call /\ k <= Len(s.unsent) /\ k \in Nat
  BY <1>1, <1>4, <1>5, SeqFacts DEF StoreOK
<1>9. Len(u) = Len(s.unsent) + 1
  BY <1>4, <1>6, AppendFacts
<1>10. StoreOK(t)
  <2>1. \A i \in DOMAIN t.call : i > 0 /\ i <= id
    BY <1>3, <1>4, <1>5
  <2>2. \A k \in DOMAIN u : u[k] \in DOMAIN t.call
    BY <1>3, <1>7, <1>8
  <2>3. ASSUME NEW j \in DOMAIN u, NEW k \in DOMAIN u, j < k PROVE u[j] < u[k]
    <3>1. j \in DOMAIN s.unsent /\ u[j] = s.unsent[j]
      BY <1>4, <1>7, <1>8, <2>3
    <3>2. CASE k \in DOMAIN s.unsent
      <4>1. u[k] = s.unsent[k]
        BY <1>7, <3>2
      <4> QED BY <1>1, <2>3, <3>1, <3>2, <4>1 DEF StoreOK
    <3>3. CASE k \notin DOMAIN s.unsent
      BY <1>7, <1>8, <3>1, <3>3
    <3> QED BY <3>2, <3>3
  <2>4. Len(u) <= NoSendQueueLimit + 1
    BY <1>4, <1>9, ModeAssumption DEF NoSendQueueLimit
  <2> QED BY <1>3, <1>6, <2>1, <2>2, <2>3, <2>4 DEF StoreOK
<1>11. SentOK(t, l)
  <2>1. SUFFICES ASSUME NEW r \in Sends(l)
                 PROVE  /\ r.msg \in Msgs /\ r.id <= t.last
                        /\ \A k \in DOMAIN t.unsent : r.id < t.unsent[k]
                        /\ ~Serial /\ r.id \in DOMAIN t.call => t.call[r.id] = r.msg
    BY DEF SentOK
  <2>2. r.id \in Nat /\ r.msg \in Msgs /\ r.id <= s.last /\ r.id < id
        /\ \A k \in DOMAIN s.unsent : r.id < s.unsent[k]
    BY <1>1, <1>4, SendIds DEF SentOK
  <2>3. \A k \in DOMAIN u : r.id < u[k]
    BY <1>7, <2>2
  <2>4. ~Serial /\ r.id \in DOMAIN t.call => t.call[r.id] = r.msg
    BY <1>1, <1>3, <2>2 DEF SentOK
  <2> QED BY <1>3, <1>6, <2>2, <2>3, <2>4
<1>12. CurrentOK(t, l, c)
  <2>1. ASSUME c # NoMsg
        PROVE  \E i \in DOMAIN t.call : t.call[i] = c /\ \A k \in DOMAIN u : u[k] # i
    <3>1. PICK i \in DOMAIN s.call : s.call[i] = c /\ \A k \in DOMAIN s.unsent : s.unsent[k] # i
      BY <1>1, <2>1 DEF CurrentOK
    <3>2. i \in DOMAIN t.call /\ t.call[i] = c /\ \A k \in DOMAIN u : u[k] # i
      BY <1>3, <1>5, <1>7, <3>1
    <3> QED BY <3>2
  <2> QED BY <1>1, <1>3, <1>6, <2>1 DEF CurrentOK
<1> QED BY <1>2, <1>3, <1>10, <1>11, <1>12 DEF AdapterOK

(* A request that is sent at once, and stored for its answer. *)
LEMMA AdapterSent ==
  ASSUME mode \in Modes, NEW s, NEW l, AdapterOK(s, l, NoMsg), Len(s.unsent) = 0,
         NEW m \in Msgs, NEW id \in Nat, id > s.last, NEW r \in [id : Nat, msg : {m}],
         Serial => r.id = id - 1, ~Serial => r.id = id,
         NEW k \in LinkSet, Sends(k) = Sends(l) \cup {r}, k.buf = NoReq \/ k.wire = l.wire
  PROVE  AdapterOK(Put(s, m, id, TRUE), k, IF Serial THEN m ELSE NoMsg)
<1>1. s \in StoreSet /\ l \in LinkSet /\ StoreOK(s) /\ SentOK(s, l) /\ CurrentOK(s, l, NoMsg)
  BY DEF AdapterOK
<1>2. PICK t : t = Put(s, m, id, TRUE)
  OBVIOUS
<1>3. /\ t \in StoreSet /\ DOMAIN t.call = DOMAIN s.call \cup {id} /\ t.call[id] = m
      /\ \A i \in DOMAIN s.call : i # id => t.call[i] = s.call[i]
      /\ DOMAIN t.unsent = {} /\ Len(t.unsent) = 0 /\ t.last = id
  <2>1. PICK b \in BOOLEAN : b = TRUE
    OBVIOUS
  <2>2. /\ Put(s, m, id, b) \in StoreSet
        /\ DOMAIN Put(s, m, id, b).call = DOMAIN s.call \cup {id}
        /\ Put(s, m, id, b).call[id] = m
        /\ \A i \in DOMAIN s.call : i # id => Put(s, m, id, b).call[i] = s.call[i]
        /\ Put(s, m, id, b).unsent = IF b THEN s.unsent ELSE Append(s.unsent, id)
        /\ Put(s, m, id, b).last = id
    BY <1>1, PutFacts
  <2>3. DOMAIN s.unsent = {}
    BY <1>1, StoreFields
  <2>4. t = Put(s, m, id, b)
    BY <1>2, <2>1
  <2>5. t.unsent = s.unsent
    BY <2>1, <2>2, <2>4
  <2> QED BY <2>2, <2>3, <2>4, <2>5
<1>4. /\ s.last \in Nat /\ DOMAIN s.call \subseteq Nat /\ NoSendQueueLimit \in Nat
      /\ r.id \in Nat /\ r.msg = m
  BY <1>1, StoreFields, ModeAssumption DEF NoSendQueueLimit
<1>5. \A i \in DOMAIN s.call : i # id /\ i < id /\ i \in Nat /\ i > 0
  BY <1>1, <1>4 DEF StoreOK
<1>6. StoreOK(t)
  <2>1. \A i \in DOMAIN t.call : i > 0 /\ i <= id
    BY <1>3, <1>4, <1>5
  <2>2. DOMAIN t.unsent = {} /\ Len(t.unsent) = 0
    BY <1>3
  <2> QED BY <1>3, <1>4, <2>1, <2>2 DEF StoreOK
<1>7. r.id <= id /\ NoMsg \notin Msgs
  BY <1>4, NullAssumption
<1>8. SentOK(t, k)
  <2>1. SUFFICES ASSUME NEW q \in Sends(k)
                 PROVE  /\ q.msg \in Msgs /\ q.id <= t.last
                        /\ \A j \in DOMAIN t.unsent : q.id < t.unsent[j]
                        /\ ~Serial /\ q.id \in DOMAIN t.call => t.call[q.id] = q.msg
    BY DEF SentOK
  <2>2. DOMAIN t.unsent = {}
    BY <1>3
  <2>3. CASE q = r
    BY <1>3, <1>7, <2>2, <2>3
  <2>4. CASE q \in Sends(l)
    <3>1. /\ q.msg \in Msgs /\ q.id <= s.last /\ q.id \in Nat
          /\ ~Serial /\ q.id \in DOMAIN s.call => s.call[q.id] = q.msg
      BY <1>1, <2>4, SendIds DEF SentOK
    <3>2. q.id <= id /\ q.id # id
      BY <1>4, <3>1
    <3> QED BY <1>3, <2>2, <3>1, <3>2
  <2> QED BY <2>1, <2>3, <2>4
<1>9. PICK c : c = IF Serial THEN m ELSE NoMsg
  OBVIOUS
<1>10. CurrentOK(t, k, c)
  <2>1. CASE ~Serial
    BY <1>9, <2>1 DEF CurrentOK
  <2>2. CASE Serial
    <3>1. Sends(l) = {}
      BY <1>1, <1>7, <2>2 DEF CurrentOK, SentOK
    <3>0. k.buf = NoReq \/ k.wire = {}
      BY <3>1 DEF Sends
    <3>2. Sends(k) = {r} /\ c = m
      BY <1>9, <2>2, <3>1
    <3>3. id \in DOMAIN t.call /\ t.call[id] = c /\ DOMAIN t.unsent = {}
      BY <1>3, <3>2
    <3>4. /\ \A q \in Sends(k) : q.msg = c
          /\ \A p, q \in Sends(k) : p = q
      BY <3>2
    <3> QED BY <2>2, <3>0, <3>3, <3>4 DEF CurrentOK
  <2> QED BY <2>1, <2>2
<1> QED BY <1>2, <1>3, <1>6, <1>8, <1>9, <1>10 DEF AdapterOK

(* The oldest unsent request is sent; t is the store without it. *)
LEMMA AdapterFlush ==
  ASSUME mode \in Modes, NEW s, NEW l, AdapterOK(s, l, NoMsg), s.unsent # <<>>,
         NEW r \in Req, r.msg = s.call[Head(s.unsent)],
         Serial => r.id = Head(s.unsent) - 1, ~Serial => r.id = Head(s.unsent),
         NEW k \in LinkSet, Sends(k) = Sends(l) \cup {r}, k.buf = NoReq \/ k.wire = l.wire,
         NEW t, t = PopSend(s) \/ (~Serial /\ t = Erase(s, Head(s.unsent)))
  PROVE  AdapterOK(t, k, IF Serial THEN r.msg ELSE NoMsg)
<1>1. s \in StoreSet /\ l \in LinkSet /\ StoreOK(s) /\ SentOK(s, l) /\ CurrentOK(s, l, NoMsg)
  BY DEF AdapterOK
<1>2. PICK id : id = Head(s.unsent)
  OBVIOUS
<1>3. /\ id \in DOMAIN s.call /\ id \in Nat /\ id > 0 /\ \E j \in DOMAIN s.unsent : id = s.unsent[j]
      /\ PopSend(s) \in StoreSet /\ StoreOK(PopSend(s))
      /\ PopSend(s).call = s.call /\ PopSend(s).last = s.last
      /\ \A j \in DOMAIN PopSend(s).unsent :
           /\ id < PopSend(s).unsent[j]
           /\ \E i \in DOMAIN s.unsent : PopSend(s).unsent[j] = s.unsent[i]
      /\ \A j \in DOMAIN Erase(s, id).unsent : id < Erase(s, id).unsent[j]
  BY <1>1, <1>2, PopFacts
<1>4. /\ Erase(s, id) \in StoreSet /\ StoreOK(Erase(s, id))
      /\ DOMAIN Erase(s, id).call = DOMAIN s.call \ {id}
      /\ \A i \in DOMAIN s.call : i # id => Erase(s, id).call[i] = s.call[i]
      /\ \A j \in DOMAIN Erase(s, id).unsent :
           \E i \in DOMAIN s.unsent : Erase(s, id).unsent[j] = s.unsent[i]
      /\ Erase(s, id).last = s.last
  <2>1. id \in Nat
    BY <1>3
  <2> QED BY <1>1, <2>1, EraseFacts
<1>5. /\ t \in StoreSet /\ StoreOK(t) /\ t.last = s.last
      /\ DOMAIN t.call \subseteq DOMAIN s.call
      /\ \A i \in DOMAIN t.call : t.call[i] = s.call[i]
      /\ \A j \in DOMAIN t.unsent :
           id < t.unsent[j] /\ \E i \in DOMAIN s.unsent : t.unsent[j] = s.unsent[i]
  <2>1. CASE t = PopSend(s)
    BY <1>3, <2>1
  <2>2. CASE t = Erase(s, id)
    BY <1>3, <1>4, <2>2
  <2> QED BY <1>2, <2>1, <2>2
<1>6. s.last \in Nat /\ DOMAIN t.unsent \subseteq Nat /\ \A j \in DOMAIN t.unsent : t.unsent[j] \in Nat
  BY <1>1, <1>5, StoreFields
<1>7. s.call[id] \in Msgs /\ id <= s.last /\ r.id \in Nat /\ r.id <= id /\ NoMsg \notin Msgs
  BY <1>1, <1>2, <1>3, StoreFields, NullAssumption DEF StoreOK, Req
<1>8. SentOK(t, k)
  <2>1. SUFFICES ASSUME NEW q \in Sends(k)
                 PROVE  /\ q.msg \in Msgs /\ q.id <= t.last
                        /\ \A j \in DOMAIN t.unsent : q.id < t.unsent[j]
                        /\ ~Serial /\ q.id \in DOMAIN t.call => t.call[q.id] = q.msg
    BY DEF SentOK
  <2>2. CASE q = r
    BY <1>2, <1>3, <1>5, <1>6, <1>7, <2>2
  <2>3. CASE q \in Sends(l)
    <3>1. /\ q.msg \in Msgs /\ q.id <= s.last /\ q.id \in Nat
          /\ \A j \in DOMAIN s.unsent : q.id < s.unsent[j]
          /\ ~Serial /\ q.id \in DOMAIN s.call => s.call[q.id] = q.msg
      BY <1>1, <2>3, SendIds DEF SentOK
    <3> QED BY <1>5, <3>1
  <2> QED BY <2>1, <2>2, <2>3
<1>9. PICK c : c = IF Serial THEN r.msg ELSE NoMsg
  OBVIOUS
<1>10. CurrentOK(t, k, c)
  <2>1. CASE ~Serial
    BY <1>9, <2>1 DEF CurrentOK
  <2>2. CASE Serial
    <3>1. Sends(l) = {}
      BY <1>1, <1>7, <2>2 DEF CurrentOK, SentOK
    <3>0. k.buf = NoReq \/ k.wire = {}
      BY <3>1 DEF Sends
    <3>2. Sends(k) = {r} /\ c = r.msg
      BY <1>9, <2>2, <3>1
    <3>3. id \in DOMAIN t.call /\ t.call[id] = c
      BY <1>2, <1>3, <2>2, <3>2
    <3>4. \A j \in DOMAIN t.unsent : t.unsent[j] # id
      BY <1>3, <1>5, <1>6
    <3>5. /\ \A q \in Sends(k) : q.msg = c
          /\ \A p, q \in Sends(k) : p = q
      BY <3>2
    <3> QED BY <2>2, <3>0, <3>3, <3>4, <3>5 DEF CurrentOK
  <2> QED BY <2>1, <2>2
<1>11. c \in Msgs \cup {NoMsg}
  BY <1>2, <1>7, <1>9
<1> QED BY <1>5, <1>8, <1>9, <1>10, <1>11 DEF AdapterOK

(* A call leaves the store, and with it the request in progress. *)
LEMMA AdapterErase ==
  ASSUME mode \in Modes, NEW s, NEW l, NEW c, AdapterOK(s, l, c), NEW id \in DOMAIN s.call,
         NEW k, Within(k, l), NEW d,
         \/ d = c /\ s.call[id] # c
         \/ d = NoMsg /\ (Serial => Sends(k) = {})
  PROVE  AdapterOK(Erase(s, id), k, d)
<1>1. s \in StoreSet /\ l \in LinkSet /\ StoreOK(s) /\ SentOK(s, l) /\ CurrentOK(s, l, c)
      /\ c \in Msgs \cup {NoMsg} /\ k \in LinkSet /\ Sends(k) \subseteq Sends(l)
  BY DEF AdapterOK, Within
<1>2. PICK t : t = Erase(s, id)
  OBVIOUS
<1>3. id \in Nat
  BY <1>1, StoreFields
<1>4. /\ Erase(s, id) \in StoreSet /\ StoreOK(Erase(s, id))
      /\ DOMAIN Erase(s, id).call = DOMAIN s.call \ {id}
      /\ \A i \in DOMAIN s.call : i # id => Erase(s, id).call[i] = s.call[i]
      /\ \A j \in DOMAIN Erase(s, id).unsent :
           \E i \in DOMAIN s.unsent : Erase(s, id).unsent[j] = s.unsent[i]
      /\ Erase(s, id).last = s.last
  BY <1>1, <1>3, EraseFacts, SMTT(30)
<1>5. SentOK(t, k)
  BY <1>1, <1>2, <1>4 DEF SentOK
<1>6. CurrentOK(t, k, d)
  <2>1. CASE d = c /\ s.call[id] # c
    BY <1>1, <1>2, <1>4, <2>1 DEF CurrentOK, Within
  <2>2. CASE d = NoMsg /\ (Serial => Sends(k) = {})
    BY <1>1, <2>2 DEF CurrentOK, Within
  <2> QED BY <2>1, <2>2
<1> QED BY <1>1, <1>2, <1>4, <1>5, <1>6 DEF AdapterOK

-----------------------------------------------------------------------------
(* How a step changes the adapters *)

(* Adapter a is given another store, connection and request in progress. *)
Updates(a, s, l, c) ==
  /\ store' = [store EXCEPT ![a] = s] /\ link' = [link EXCEPT ![a] = l]
  /\ current' = [current EXCEPT ![a] = c]

(* The connections are those of k, which have sent no more than before. *)
Less(k) ==
  /\ k = [b \in Adapters |-> k[b]]
  /\ \A b \in Adapters : Within(k[b], link[b])

LEMMA AdapterFields ==
  ASSUME AdapterInv, NEW a \in Adapters
  PROVE  /\ mode \in Modes
         /\ DOMAIN store = Adapters /\ DOMAIN link = Adapters /\ DOMAIN current = Adapters
         /\ AdapterOK(store[a], link[a], current[a])
         /\ store[a] \in StoreSet /\ link[a] \in LinkSet /\ current[a] \in Msgs \cup {NoMsg}
         /\ StoreOK(store[a]) /\ SentOK(store[a], link[a])
         /\ CurrentOK(store[a], link[a], current[a])
BY DEF AdapterInv, AdapterOK

LEMMA UpdatesFacts ==
  ASSUME AdapterInv, NEW a \in Adapters, NEW s, NEW l, NEW c, Updates(a, s, l, c)
  PROVE  /\ DOMAIN store' = Adapters /\ DOMAIN link' = Adapters /\ DOMAIN current' = Adapters
         /\ store' = [b \in Adapters |-> store'[b]] /\ link' = [b \in Adapters |-> link'[b]]
         /\ current' = [b \in Adapters |-> current'[b]]
         /\ store'[a] = s /\ link'[a] = l /\ current'[a] = c
         /\ \A b \in Adapters : b # a =>
              store'[b] = store[b] /\ link'[b] = link[b] /\ current'[b] = current[b]
BY DEF AdapterInv, Updates

LEMMA SameMode ==
  ASSUME mode' = mode, NEW s, NEW l, NEW c
  PROVE  AdapterOK(s, l, c)' <=> AdapterOK(s, l, c)
BY DEF AdapterOK, StoreOK, SentOK, CurrentOK, Serial, NoSendQueueLimit

LEMMA UpdateAdapter ==
  ASSUME AdapterInv, mode' = mode, NEW a \in Adapters, NEW s, NEW l, NEW c,
         Updates(a, s, l, c), AdapterOK(s, l, c)
  PROVE  AdapterInv'
<1>1. /\ DOMAIN store' = Adapters /\ DOMAIN link' = Adapters /\ DOMAIN current' = Adapters
      /\ store' = [b \in Adapters |-> store'[b]] /\ link' = [b \in Adapters |-> link'[b]]
      /\ current' = [b \in Adapters |-> current'[b]]
      /\ store'[a] = s /\ link'[a] = l /\ current'[a] = c
      /\ \A b \in Adapters : b # a =>
           store'[b] = store[b] /\ link'[b] = link[b] /\ current'[b] = current[b]
  BY UpdatesFacts
<1>2. ASSUME NEW b \in Adapters
      PROVE  AdapterOK(store[b], link[b], current[b])'
  <2>1. PICK t, k, d : t = store'[b] /\ k = link'[b] /\ d = current'[b]
    OBVIOUS
  <2>2. AdapterOK(t, k, d)
    <3>1. CASE b = a
      BY <1>1, <2>1, <3>1
    <3>2. CASE b # a
      BY <1>1, <2>1, <3>2, AdapterFields
    <3> QED BY <3>1, <3>2
  <2>3. AdapterOK(t, k, d)'
    BY <2>2, SameMode
  <2> QED BY <2>1, <2>3 DEF AdapterOK, StoreOK, SentOK, CurrentOK
<1>3. mode' \in Modes
  BY DEF AdapterInv
<1> QED BY <1>1, <1>2, <1>3 DEF AdapterInv

(* A step that stores nothing, but may lose connections. *)
LEMMA LinksAdapter ==
  ASSUME AdapterInv, mode' = mode, NEW a \in Adapters, NEW s, AdapterOK(s, link[a], current[a]),
         store' = [store EXCEPT ![a] = s], current' = current, Less(link')
  PROVE  AdapterInv'
<1>1. /\ DOMAIN store' = Adapters /\ DOMAIN link' = Adapters /\ DOMAIN current' = Adapters
      /\ store' = [b \in Adapters |-> store'[b]] /\ link' = [b \in Adapters |-> link'[b]]
      /\ current' = [b \in Adapters |-> current'[b]]
      /\ store'[a] = s /\ \A b \in Adapters : b # a => store'[b] = store[b]
  BY DEF AdapterInv, Less
<1>2. ASSUME NEW b \in Adapters
      PROVE  AdapterOK(store[b], link[b], current[b])'
  <2>1. PICK t, k, d : t = store'[b] /\ k = link'[b] /\ d = current[b]
    OBVIOUS
  <2>2. AdapterOK(t, link[b], d)
    <3>1. CASE b = a
      BY <1>1, <2>1, <3>1
    <3>2. CASE b # a
      BY <1>1, <2>1, <3>2, AdapterFields
    <3> QED BY <3>1, <3>2
  <2>3. Within(k, link[b])
    BY <2>1 DEF Less
  <2>4. AdapterOK(t, k, d)
    BY <2>2, <2>3, LinkLess
  <2>5. AdapterOK(t, k, d)'
    BY <2>4, SameMode
  <2> QED BY <2>1, <2>5 DEF AdapterOK, StoreOK, SentOK, CurrentOK
<1>3. mode' \in Modes
  BY DEF AdapterInv
<1> QED BY <1>1, <1>2, <1>3 DEF AdapterInv

LEMMA ConnectingFacts ==
  ASSUME AdapterInv, NEW C
  PROVE  /\ Less(Connecting(C))
         /\ \A b \in Adapters : Connecting(C)[b] = link[b] \/ Connecting(C)[b].st = "connecting"
<1>1. PICK d : d = [Down EXCEPT !.st = "connecting"]
  OBVIOUS
<1>2. d \in LinkSet /\ Sends(d) = {} /\ d.st = "connecting" /\ d.buf = NoReq
  BY <1>1, DownFacts DEF LinkSet, Sends, Down, NoReq
<1>3. PICK k : k = Connecting(C)
  OBVIOUS
<1>4. /\ k = [b \in Adapters |-> k[b]]
      /\ \A b \in Adapters : k[b] = link[b] \/ k[b] = d
  BY <1>1, <1>3 DEF Connecting
<1>5. \A b \in Adapters : link[b] \in LinkSet
  BY AdapterFields
<1>6. Less(k)
  <2>1. \A b \in Adapters : Within(link[b], link[b]) /\ Within(d, link[b])
    BY <1>2, <1>5 DEF Within
  <2> QED BY <1>4, <2>1 DEF Less
<1> QED BY <1>2, <1>3, <1>4, <1>6

LEMMA ThrownFacts ==
  ASSUME AdapterInv, HandlerInv, NEW a \in Adapters, NEW k \in Thrown(a)
  PROVE  /\ Less(k) /\ k[a] = Down
         /\ \A b \in Adapters : k[b] = link[b] \/ ~(k[b].st = "ready" /\ k[b].watched)
         /\ \A b \in Adapters : event.on = b /\ event.dir \in {"in", "out"} =>
                                  ~(k[b].st = "ready" /\ k[b].watched)
<1>1. /\ link = [b \in Adapters |-> link[b]] /\ \A b \in Adapters : link[b] \in LinkSet
      /\ event.on \in Adapters \cup {NoAdapter} /\ event.dir \in {"none", "in", "out"}
  BY AdapterFields DEF AdapterInv, HandlerInv
<1>2. PICK e : e = event.on
  OBVIOUS
<1>3. PICK n : n = [link EXCEPT ![a] = Down]
  OBVIOUS
<1>4. /\ n = [b \in Adapters |-> n[b]] /\ n[a] = Down
      /\ \A b \in Adapters : b # a => n[b] = link[b]
  BY <1>1, <1>3
<1>5. Less(n)
  BY <1>1, <1>4, DownFacts DEF Less, Within
<1>6. CASE k = n /\ (event.dir = "none" \/ a = e)
  BY <1>2, <1>4, <1>5, <1>6, DownFacts
<1>7. ASSUME NEW l, Within(l, link[e]),
             ~(l.st = "ready" /\ l.watched), k = [n EXCEPT ![e] = l], a # e
      PROVE  /\ Less(k) /\ k[a] = Down
             /\ \A b \in Adapters : k[b] = link[b] \/ ~(k[b].st = "ready" /\ k[b].watched)
             /\ \A b \in Adapters : event.on = b /\ event.dir \in {"in", "out"} =>
                                      ~(k[b].st = "ready" /\ k[b].watched)
  <2>1. /\ k = [b \in Adapters |-> k[b]] /\ k[a] = Down /\ (e \in Adapters => k[e] = l)
        /\ \A b \in Adapters : b # a /\ b # e => k[b] = link[b]
    BY <1>4, <1>7
  <2>2. Less(k)
    BY <1>1, <1>7, <2>1, DownFacts DEF Less, Within
  <2> QED BY <1>2, <1>7, <2>1, <2>2, DownFacts
<1>8. CASE event.dir = "in" /\ a # e
  <2>1. k = [n EXCEPT ![e] = Down]
    BY <1>2, <1>3, <1>8 DEF Thrown
  <2> QED BY <1>7, <1>8, <2>1, DownFacts
<1>9. CASE event.dir = "out" /\ a # e
  <2>1. PICK l \in {Down, IF hasConnected(e) THEN [link[e] EXCEPT !.watched = FALSE] ELSE link[e]} :
          k = [n EXCEPT ![e] = l]
    BY <1>2, <1>3, <1>9 DEF Thrown
  <2>2. CASE l = Down
    BY <1>7, <1>9, <2>1, <2>2, DownFacts
  <2>3. CASE e \in Adapters /\ hasConnected(e) /\ l = [link[e] EXCEPT !.watched = FALSE]
    <3>1. Within(l, link[e]) /\ ~l.watched
      BY <1>1, <2>3 DEF LinkSet, Sends, Within
    <3> QED BY <1>7, <1>9, <2>1, <3>1
  <2>4. CASE e \in Adapters /\ ~hasConnected(e) /\ l = link[e]
    <3>1. Within(l, link[e]) /\ l.st # "ready"
      BY <1>1, <2>4 DEF hasConnected, Within
    <3> QED BY <1>7, <1>9, <2>1, <3>1
  <2>5. CASE e \notin Adapters
    <3>1. k = n
      BY <1>4, <2>1, <2>5
    <3> QED BY <1>2, <1>4, <1>5, <2>5, <3>1, DownFacts
  <2> QED BY <2>1, <2>2, <2>3, <2>4, <2>5
<1>10. CASE event.dir = "none" \/ a = e
  <2>1. k = n
    BY <1>2, <1>3, <1>10 DEF Thrown
  <2> QED BY <1>6, <1>10, <2>1
<1> QED BY <1>1, <1>8, <1>9, <1>10

-----------------------------------------------------------------------------
(* What AdapterProxy::invoke may do *)

NextId(a) == store[a].last + (IF Serial THEN 2 ELSE 1)
Busy(a) == ~SendNow(a) \/ link[a].buf # NoReq \/ link[a].st # "ready"

(* The bytes of a request, which in serial mode hold the id before. *)
Encoded(m, id) == [id |-> IF Serial THEN id - 1 ELSE id, msg |-> m]

(* The connection after it took request r, whole or in part. *)
Loaded(l, r) == {[l EXCEPT !.wire = @ \cup {r}], [l EXCEPT !.buf = r]}

(* Message m was given to a, and finished with a status. *)
Told(m, a, status) == msg' = [msg EXCEPT ![m] = Done([@ EXCEPT !.adapter = a], status)]
Given(m, a) == msg' = [msg EXCEPT ![m].adapter = a]

Refused(m, a, rest) ==
  \E id \in Nat, l \in {link[a], Down} :
    /\ id >= store[a].last /\ Updates(a, WithLast(store[a], id), l, current[a])
    /\ Told(m, a, "exc") /\ todo' = rest

Parked(m, a, rest) ==
  /\ ~UnsentFull(a) /\ Busy(a)
  /\ Updates(a, Put(store[a], m, NextId(a), FALSE), link[a], current[a])
  /\ Given(m, a) /\ todo' = rest

Launched(m, a, rest) ==
  /\ ~Busy(a) /\ todo' = rest
  /\ \E l \in Loaded(link[a], Encoded(m, NextId(a))) :
       \/ /\ ~Serial /\ m \in NoReply
          /\ Updates(a, WithLast(store[a], NextId(a)), l, current[a])
          /\ Told(m, a, "req")
       \/ /\ Updates(a, Put(store[a], m, NextId(a), TRUE), l, IF Serial THEN m ELSE NoMsg)
          /\ Given(m, a)

Unwound(m, a) ==
  /\ SendThrows /\ Given(m, a) /\ todo' = <<>>
  /\ store' = [store EXCEPT ![a] = WithLast(store[a], NextId(a))]
  /\ link' \in Thrown(a) /\ current' = current

LEMMA SendSplit ==
  ASSUME AdapterInv, NEW a \in Adapters, NEW r, NEW o \in sendRequest(a, r)
  PROVE  \/ o.ret = "NotSend" /\ o.link = link[a] /\ (link[a].buf # NoReq \/ link[a].st # "ready")
         \/ /\ o.ret \in {"Ok", "Full"} /\ o.link \in Loaded(link[a], r)
            /\ link[a].buf = NoReq /\ link[a].st = "ready"
            /\ o.ret = "Full" => o.link = [link[a] EXCEPT !.buf = r]
         \/ o.ret = "Throw" /\ SendThrows /\ link[a].buf = NoReq /\ link[a].st = "ready"
         \/ o.ret = "Error" /\ o.link = Down /\ link[a].buf = NoReq /\ link[a].st = "ready"
<1>1. CASE link[a].buf # NoReq \/ link[a].st # "ready"
  BY <1>1 DEF sendRequest
<1>2. CASE ~(link[a].buf # NoReq \/ link[a].st # "ready")
  <2>1. PICK x, y : x = [link[a] EXCEPT !.wire = @ \cup {r}] /\ y = [link[a] EXCEPT !.buf = r]
    OBVIOUS
  <2>2. \/ o = [ret |-> "Ok", link |-> x]
        \/ o = [ret |-> "Full", link |-> y]
        \/ o = [ret |-> "Throw", link |-> Down] /\ SendThrows
        \/ o = [ret |-> "Error", link |-> Down]
    BY <1>2, <2>1 DEF sendRequest
  <2>3. x \in Loaded(link[a], r) /\ y \in Loaded(link[a], r)
    BY <2>1 DEF Loaded
  <2> QED BY <1>2, <2>1, <2>2, <2>3
<1> QED BY <1>1, <1>2

LEMMA SameAdapter ==
  ASSUME AdapterInv, NEW a \in Adapters
  PROVE  /\ store = [store EXCEPT ![a] = store[a]] /\ link = [link EXCEPT ![a] = link[a]]
         /\ current = [current EXCEPT ![a] = current[a]]
BY DEF AdapterInv

LEMMA IdFacts ==
  ASSUME AdapterInv, NEW a \in Adapters
  PROVE  NextId(a) \in Nat /\ NextId(a) > store[a].last /\ store[a].last \in Nat
<1>1. store[a].last \in Nat
  BY AdapterFields, StoreFields
<1> QED BY <1>1 DEF NextId

LEMMA InvokeSplit ==
  ASSUME AdapterInv, NEW m \in Msgs, NEW a \in Adapters, NEW rest, AdapterInvoke(m, a, rest)
  PROVE  Refused(m, a, rest) \/ Parked(m, a, rest) \/ Launched(m, a, rest) \/ Unwound(m, a)
<1>1. /\ store = [store EXCEPT ![a] = store[a]] /\ link = [link EXCEPT ![a] = link[a]]
      /\ current = [current EXCEPT ![a] = current[a]]
  BY SameAdapter
<1>2. NextId(a) \in Nat /\ NextId(a) > store[a].last /\ store[a].last \in Nat
  BY IdFacts
<1>3. ASSUME NEW id, Refuse(m, a, id, rest) PROVE
             /\ store' = [store EXCEPT ![a] = WithLast(store[a], id)] /\ Told(m, a, "exc")
             /\ todo' = rest /\ current' = [current EXCEPT ![a] = current[a]]
  BY <1>1, <1>3 DEF Refuse, WithLast, Told
<1>4. ASSUME UnsentFull(a), Refuse(m, a, store[a].last, rest), UNCHANGED link
      PROVE  Refused(m, a, rest)
  BY <1>1, <1>2, <1>3, <1>4 DEF Refused, Updates
<1>5. ASSUME NEW id, id = NextId(a), Refuse(m, a, id, rest), link' = [link EXCEPT ![a] = Down]
      PROVE  Refused(m, a, rest)
  <2>1. id \in Nat /\ id >= store[a].last
    BY <1>2, <1>5
  <2> QED BY <1>3, <1>5, <2>1 DEF Refused, Updates
<1>6. ASSUME NEW id, id = NextId(a), Park(m, a, id, rest), ~UnsentFull(a), Busy(a)
      PROVE  Parked(m, a, rest)
  BY <1>1, <1>6 DEF Parked, Park, Updates, Given
<1>7. ASSUME NEW id, id = NextId(a), Unwind(m, a, id), SendThrows PROVE Unwound(m, a)
  BY <1>7 DEF Unwound, Unwind, Given, WithLast
<1>8. CASE ~UnsentFull(a) /\ Serial /\ invoke_connection_serial(m, a, rest)
  <2>1. PICK id : id = store[a].last + 2
    OBVIOUS
  <2>2. id = NextId(a) /\ [id |-> id - 1, msg |-> m] = Encoded(m, NextId(a))
    BY <1>8, <2>1 DEF NextId, Encoded
  <2>3. CASE ~SendNow(a)
    <3>1. Park(m, a, id, rest)
      BY <1>8, <2>1, <2>3 DEF invoke_connection_serial
    <3> QED BY <1>6, <1>8, <2>2, <2>3, <3>1 DEF Busy
  <2>4. CASE SendNow(a)
    <3>1. PICK o \in sendRequest(a, [id |-> id - 1, msg |-> m]) :
             \/ /\ o.ret = "NotSend"
                /\ Park(m, a, id, rest)
             \/ /\ o.ret \in {"Ok", "Full"}
                /\ link' = [link EXCEPT ![a] = o.link]
                /\ current' = [current EXCEPT ![a] = m]
                /\ store' = [store EXCEPT ![a] = Put(@, m, id, TRUE)]
                /\ msg' = [msg EXCEPT ![m].adapter = a]
                /\ todo' = rest
             \/ /\ o.ret = "Error"
                /\ link' = [link EXCEPT ![a] = o.link]
                /\ Refuse(m, a, id, rest)
             \/ /\ o.ret = "Throw"
                /\ Unwind(m, a, id)
      BY <1>8, <2>1, <2>4 DEF invoke_connection_serial
    <3>2. CASE o.ret = "NotSend" /\ Park(m, a, id, rest)
      <4>1. Busy(a)
        BY <3>2, SendSplit DEF Busy
      <4> QED BY <1>6, <1>8, <2>2, <3>2, <4>1
    <3>3. CASE /\ o.ret \in {"Ok", "Full"}
               /\ link' = [link EXCEPT ![a] = o.link]
               /\ current' = [current EXCEPT ![a] = m]
               /\ store' = [store EXCEPT ![a] = Put(@, m, id, TRUE)]
               /\ msg' = [msg EXCEPT ![m].adapter = a]
               /\ todo' = rest
      <4>1. o.link \in Loaded(link[a], [id |-> id - 1, msg |-> m]) /\ ~Busy(a)
        BY <2>4, <3>3, SendSplit DEF Busy
      <4>2. Updates(a, Put(store[a], m, NextId(a), TRUE), o.link, IF Serial THEN m ELSE NoMsg)
        BY <1>8, <2>2, <3>3 DEF Updates
      <4>3. todo' = rest /\ Given(m, a)
        BY <3>3 DEF Given
      <4> QED BY <2>2, <4>1, <4>2, <4>3 DEF Launched
    <3>4. CASE o.ret = "Error" /\ link' = [link EXCEPT ![a] = o.link] /\ Refuse(m, a, id, rest)
      <4>1. o.link = Down
        BY <3>4, SendSplit
      <4> QED BY <1>5, <2>2, <3>4, <4>1
    <3>5. CASE o.ret = "Throw" /\ Unwind(m, a, id)
      <4>1. SendThrows
        BY <3>5, SendSplit
      <4> QED BY <1>7, <2>2, <3>5, <4>1
    <3> QED BY <3>1, <3>2, <3>3, <3>4, <3>5
  <2> QED BY <2>3, <2>4
<1>9. CASE ~UnsentFull(a) /\ ~Serial /\ invoke_connection_parallel(m, a, rest)
  <2>1. PICK id : id = store[a].last + 1
    OBVIOUS
  <2>2. id = NextId(a) /\ [id |-> id, msg |-> m] = Encoded(m, NextId(a))
    BY <1>9, <2>1 DEF NextId, Encoded
  <2>3. CASE ~SendNow(a)
    <3>1. Park(m, a, id, rest)
      BY <1>9, <2>1, <2>3 DEF invoke_connection_parallel
    <3> QED BY <1>6, <1>9, <2>2, <2>3, <3>1 DEF Busy
  <2>4. CASE SendNow(a)
    <3>1. PICK o \in sendRequest(a, [id |-> id, msg |-> m]) :
             \/ /\ o.ret = "NotSend"
                /\ Park(m, a, id, rest)
             \/ /\ o.ret \in {"Ok", "Full"}
                /\ link' = [link EXCEPT ![a] = o.link]
                /\ store' = [store EXCEPT ![a] = IF m \in NoReply
                                                   THEN [@ EXCEPT !.last = id]
                                                   ELSE Put(@, m, id, TRUE)]
                /\ msg' = [msg EXCEPT ![m] =
                             IF m \in NoReply THEN Done([@ EXCEPT !.adapter = a], "req")
                                              ELSE [@ EXCEPT !.adapter = a]]
                /\ todo' = rest
                /\ UNCHANGED current
             \/ /\ o.ret = "Error"
                /\ link' = [link EXCEPT ![a] = o.link]
                /\ Refuse(m, a, id, rest)
             \/ /\ o.ret = "Throw"
                /\ Unwind(m, a, id)
      BY <1>9, <2>1, <2>4 DEF invoke_connection_parallel
    <3>2. CASE o.ret = "NotSend" /\ Park(m, a, id, rest)
      <4>1. Busy(a)
        BY <3>2, SendSplit DEF Busy
      <4> QED BY <1>6, <1>9, <2>2, <3>2, <4>1
    <3>3. CASE /\ o.ret \in {"Ok", "Full"}
               /\ link' = [link EXCEPT ![a] = o.link]
               /\ store' = [store EXCEPT ![a] = IF m \in NoReply
                                                  THEN [@ EXCEPT !.last = id]
                                                  ELSE Put(@, m, id, TRUE)]
               /\ msg' = [msg EXCEPT ![m] =
                            IF m \in NoReply THEN Done([@ EXCEPT !.adapter = a], "req")
                                             ELSE [@ EXCEPT !.adapter = a]]
               /\ todo' = rest
               /\ UNCHANGED current
      <4>1. o.link \in Loaded(link[a], [id |-> id, msg |-> m]) /\ ~Busy(a)
        BY <2>4, <3>3, SendSplit DEF Busy
      <4>2. current' = [current EXCEPT ![a] = current[a]] /\ current[a] = NoMsg
        BY <1>1, <2>4, <3>3 DEF SendNow
      <4>3. CASE m \in NoReply
        <5>1. Updates(a, WithLast(store[a], NextId(a)), o.link, current[a])
          BY <2>2, <3>3, <4>2, <4>3 DEF Updates, WithLast
        <5>2. todo' = rest /\ Told(m, a, "req")
          BY <3>3, <4>3 DEF Told
        <5> QED BY <1>9, <2>2, <4>1, <4>3, <5>1, <5>2 DEF Launched
      <4>4. CASE m \notin NoReply
        <5>1. Updates(a, Put(store[a], m, NextId(a), TRUE), o.link, IF Serial THEN m ELSE NoMsg)
          BY <1>9, <2>2, <3>3, <4>2, <4>4 DEF Updates
        <5>2. todo' = rest /\ Given(m, a)
          BY <3>3, <4>4 DEF Given
        <5> QED BY <2>2, <4>1, <5>1, <5>2 DEF Launched
      <4> QED BY <4>3, <4>4
    <3>4. CASE o.ret = "Error" /\ link' = [link EXCEPT ![a] = o.link] /\ Refuse(m, a, id, rest)
      <4>1. o.link = Down
        BY <3>4, SendSplit
      <4> QED BY <1>5, <2>2, <3>4, <4>1
    <3>5. CASE o.ret = "Throw" /\ Unwind(m, a, id)
      <4>1. SendThrows
        BY <3>5, SendSplit
      <4> QED BY <1>7, <2>2, <3>5, <4>1
    <3> QED BY <3>1, <3>2, <3>3, <3>4, <3>5
  <2> QED BY <2>3, <2>4
<1> QED BY <1>4, <1>8, <1>9 DEF AdapterInvoke

-----------------------------------------------------------------------------
(* AdapterInv *)

LEMMA LoadedFacts ==
  ASSUME NEW l \in LinkSet, l.buf = NoReq, NEW r \in Req, r.msg # NoMsg, NEW k \in Loaded(l, r)
  PROVE  /\ k \in LinkSet /\ Sends(k) = Sends(l) \cup {r} /\ k.st = l.st
         /\ k.watched = l.watched /\ (k.buf = NoReq \/ k.wire = l.wire)
<1>1. r # NoReq
  BY DEF NoReq
<1>2. CASE k = [l EXCEPT !.wire = @ \cup {r}]
  <2>1. k \in LinkSet /\ k.wire = l.wire \cup {r} /\ k.buf = l.buf /\ k.st = l.st /\ k.watched = l.watched
    BY <1>2 DEF LinkSet
  <2> QED BY <2>1 DEF Sends
<1>3. CASE k = [l EXCEPT !.buf = r]
  <2>1. k \in LinkSet /\ k.wire = l.wire /\ k.buf = r /\ k.st = l.st /\ k.watched = l.watched
    BY <1>3 DEF LinkSet
  <2> QED BY <1>1, <2>1 DEF Sends
<1> QED BY <1>2, <1>3 DEF Loaded

(* A one-way request leaves nothing behind but its id. *)
LEMMA AdapterOneWay ==
  ASSUME mode \in Modes, NEW s, NEW l, NEW c, AdapterOK(s, l, c), Len(s.unsent) = 0, ~Serial,
         NEW id \in Nat, id > s.last, NEW r \in Req, r.id = id, r.msg \in Msgs,
         NEW k \in LinkSet, Sends(k) = Sends(l) \cup {r}
  PROVE  AdapterOK(WithLast(s, id), k, c)
<1>1. s \in StoreSet /\ s.last \in Nat /\ DOMAIN s.call \subseteq Nat /\ StoreOK(s)
      /\ DOMAIN s.unsent = {}
  <2>1. s \in StoreSet /\ StoreOK(s)
    BY DEF AdapterOK
  <2> QED BY <2>1, StoreFields
<1>2. id >= s.last
  BY <1>1
<1>3. AdapterOK(WithLast(s, id), l, c)
  BY <1>2, AdapterBump
<1>4. PICK t : t = WithLast(s, id)
  OBVIOUS
<1>5. t.call = s.call /\ t.last = id /\ t.unsent = s.unsent
  BY <1>1, <1>4, LastFacts
<1>6. id \notin DOMAIN s.call
  BY <1>1 DEF StoreOK
<1>7. t \in StoreSet /\ c \in Msgs \cup {NoMsg} /\ StoreOK(t) /\ SentOK(t, l) /\ CurrentOK(t, l, c)
  BY <1>3, <1>4 DEF AdapterOK
<1>8. SentOK(t, k)
  <2>1. r.id <= t.last /\ r.id \notin DOMAIN t.call
    BY <1>5, <1>6
  <2> QED BY <1>1, <1>5, <1>7, <2>1 DEF SentOK
<1>9. CurrentOK(t, k, c)
  BY <1>7 DEF CurrentOK
<1> QED BY <1>4, <1>7, <1>8, <1>9 DEF AdapterOK

LEMMA InvokeAdapter ==
  ASSUME AdapterInv, HandlerInv, mode' = mode, NEW m \in Msgs, NEW a \in Adapters, NEW rest,
         AdapterInvoke(m, a, rest)
  PROVE  AdapterInv'
<1>1. PICK s, l, c, n : s = store[a] /\ l = link[a] /\ c = current[a] /\ n = NextId(a)
  OBVIOUS
<1>2. /\ AdapterOK(s, l, c) /\ s \in StoreSet /\ l \in LinkSet /\ mode \in Modes
      /\ n \in Nat /\ n > s.last /\ n >= s.last /\ s.last \in Nat
  BY <1>1, AdapterFields, IdFacts
<1>3. CASE Refused(m, a, rest)
  <2>1. PICK id \in Nat, k \in {l, Down} :
          id >= s.last /\ Updates(a, WithLast(s, id), k, c)
    BY <1>1, <1>3 DEF Refused
  <2>2. AdapterOK(WithLast(s, id), l, c)
    BY <1>2, <2>1, AdapterBump
  <2>3. Within(k, l)
    BY <1>2, DownFacts DEF Within
  <2>4. AdapterOK(WithLast(s, id), k, c)
    BY <2>2, <2>3, LinkLess
  <2> QED BY <2>1, <2>4, UpdateAdapter
<1>4. CASE Parked(m, a, rest)
  <2>1. Updates(a, Put(s, m, n, FALSE), l, c) /\ ~(Len(s.unsent) > NoSendQueueLimit)
    BY <1>1, <1>4 DEF Parked, UnsentFull
  <2>2. AdapterOK(Put(s, m, n, FALSE), l, c)
    BY <1>2, <2>1, AdapterPark
  <2> QED BY <2>1, <2>2, UpdateAdapter
<1>5. CASE Launched(m, a, rest)
  <2>1. PICK k \in Loaded(l, Encoded(m, n)) :
          \/ /\ ~Serial /\ Updates(a, WithLast(s, n), k, c)
          \/ /\ Updates(a, Put(s, m, n, TRUE), k, IF Serial THEN m ELSE NoMsg)
    BY <1>1, <1>5 DEF Launched
  <2>2. c = NoMsg /\ l.buf = NoReq /\ Len(s.unsent) = 0
    BY <1>1, <1>5 DEF Launched, Busy, SendNow
  <2>3. PICK r : r = Encoded(m, n)
    OBVIOUS
  <2>4. /\ r \in [id : Nat, msg : {m}] /\ r \in Req /\ r.msg = m
        /\ Serial => r.id = n - 1
        /\ ~Serial => r.id = n
    BY <1>2, <2>3 DEF Encoded, Req
  <2>5. r.msg \in Msgs /\ r.msg # NoMsg
    BY <2>4, NullAssumption
  <2>6. k \in LinkSet /\ Sends(k) = Sends(l) \cup {r} /\ (k.buf = NoReq \/ k.wire = l.wire)
    BY <1>2, <2>1, <2>2, <2>3, <2>4, <2>5, LoadedFacts
  <2>7. CASE ~Serial /\ Updates(a, WithLast(s, n), k, c)
    <3>1. AdapterOK(WithLast(s, n), k, c)
      BY <1>2, <2>2, <2>4, <2>5, <2>6, <2>7, AdapterOneWay
    <3> QED BY <2>7, <3>1, UpdateAdapter
  <2>8. CASE Updates(a, Put(s, m, n, TRUE), k, IF Serial THEN m ELSE NoMsg)
    <3>1. AdapterOK(s, l, NoMsg)
      BY <1>2, <2>2
    <3>2. AdapterOK(Put(s, m, n, TRUE), k, IF Serial THEN m ELSE NoMsg)
      BY <1>2, <2>2, <2>4, <2>6, <3>1, AdapterSent
    <3> QED BY <2>8, <3>2, UpdateAdapter
  <2> QED BY <2>1, <2>7, <2>8
<1>6. CASE Unwound(m, a)
  <2>1. AdapterOK(WithLast(s, n), l, c)
    BY <1>2, AdapterBump
  <2>2. Less(link')
    BY <1>6, ThrownFacts DEF Unwound
  <2>3. store' = [store EXCEPT ![a] = WithLast(s, n)] /\ current' = current
    BY <1>1, <1>6 DEF Unwound
  <2> QED BY <1>1, <2>1, <2>2, <2>3, LinksAdapter
<1> QED BY <1>3, <1>4, <1>5, <1>6, InvokeSplit

(* A step that only loses connections, or begins some. *)
LEMMA OnlyLinks ==
  ASSUME AdapterInv, mode' = mode, store' = store, current' = current, Less(link')
  PROVE  AdapterInv'
<1>1. CASE Adapters = {}
  BY <1>1 DEF AdapterInv, Less
<1>2. ASSUME NEW a \in Adapters PROVE AdapterInv'
  <2>1. store' = [store EXCEPT ![a] = store[a]]
    BY SameAdapter
  <2>2. AdapterOK(store[a], link[a], current[a])
    BY AdapterFields
  <2> QED BY <2>1, <2>2, LinksAdapter
<1> QED BY <1>1, <1>2

LEMMA LessFacts ==
  ASSUME AdapterInv
  PROVE  /\ Less(link)
         /\ \A a \in Adapters : \A l : Within(l, link[a]) => Less([link EXCEPT ![a] = l])
<1>1. link = [b \in Adapters |-> link[b]] /\ \A b \in Adapters : link[b] \in LinkSet
  BY AdapterFields DEF AdapterInv
<1>2. Less(link)
  BY <1>1 DEF Less, Within
<1>3. ASSUME NEW a \in Adapters, NEW l, Within(l, link[a])
      PROVE  Less([link EXCEPT ![a] = l])
  <2>1. PICK k : k = [link EXCEPT ![a] = l]
    OBVIOUS
  <2>2. /\ k = [b \in Adapters |-> k[b]] /\ k[a] = l
        /\ \A b \in Adapters : b # a => k[b] = link[b]
    BY <1>1, <2>1
  <2>3. Less(k)
    BY <1>1, <1>3, <2>2 DEF Less, Within
  <2> QED BY <2>1, <2>3
<1> QED BY <1>2, <1>3

-----------------------------------------------------------------------------
(* What a turn of doInvoke may do *)

First(a) == Head(store[a].unsent)
Oldest(a) == store[a].call[First(a)]

Flushed(a) ==
  \E l \in Loaded(link[a], Encoded(Oldest(a), First(a))) :
    /\ link[a].buf = NoReq /\ link[a].st = "ready"
    /\ \/ /\ Updates(a, PopSend(store[a]), l, IF Serial THEN Oldest(a) ELSE NoMsg)
          /\ msg' = msg
       \/ /\ ~Serial /\ Updates(a, Erase(store[a], First(a)), l, NoMsg)
          /\ msg' = [msg EXCEPT ![Oldest(a)] = Done(@, "req")]
    /\ \/ todo' = todo
       \/ todo' = Tail(todo) /\ (Serial \/ l.buf # NoReq)

FlushStuck(a) ==
  /\ link[a].buf # NoReq \/ link[a].st # "ready"
  /\ store' = store /\ link' = link /\ current' = current /\ msg' = msg
  /\ todo' = Tail(todo)

FlushBroken(a) ==
  /\ todo' = Tail(todo)
  /\ \/ /\ Updates(a, store[a], Down, current[a])
        /\ msg' = msg
     \/ /\ Updates(a, Erase(store[a], First(a)), Down, current[a])
        /\ msg' = [msg EXCEPT ![Oldest(a)] = Done(@, "req")]

FlushThrown(a) ==
  /\ SendThrows /\ todo' = <<>> /\ link' \in Thrown(a)
  /\ store' = store /\ current' = current /\ msg' = msg

LEMMA FlushSplit ==
  ASSUME AdapterInv, NEW a \in Adapters, store[a].unsent # <<>>,
         \/ ~Serial /\ doInvoke_parallel(a)
         \/ Serial /\ current[a] = NoMsg /\ doInvoke_serial(a)
  PROVE  /\ current[a] = NoMsg
         /\ Flushed(a) \/ FlushStuck(a) \/ FlushBroken(a) \/ FlushThrown(a)
<1>1. /\ store = [store EXCEPT ![a] = store[a]] /\ link = [link EXCEPT ![a] = link[a]]
      /\ current = [current EXCEPT ![a] = current[a]]
  BY SameAdapter
<1>2. /\ link[a] \in LinkSet /\ StoreOK(store[a]) /\ store[a] \in StoreSet /\ mode \in Modes
      /\ current[a] = NoMsg
  BY AdapterFields DEF CurrentOK
<1>3. PICK id, m, r : id = First(a) /\ m = Oldest(a) /\ r = Encoded(m, id)
  OBVIOUS
<1>4. id \in Nat /\ m \in Msgs /\ id \in DOMAIN store[a].call /\ id > 0
  BY <1>2, <1>3, PopFacts, StoreFields DEF First, Oldest
<1>5. r \in Req /\ r.msg # NoMsg /\ r # NoReq
  BY <1>3, <1>4, NullAssumption DEF Encoded, Req, NoReq
<1>6. ASSUME NEW o \in sendRequest(a, r), o.ret = "Full"
      PROVE  o.link.buf # NoReq
  <2>1. o.link = [link[a] EXCEPT !.buf = r]
    BY <1>6, SendSplit
  <2> QED BY <1>2, <1>5, <2>1 DEF LinkSet
<1>7. CASE ~Serial /\ doInvoke_parallel(a)
  <2>1. r = [id |-> id, msg |-> m]
    BY <1>3, <1>7 DEF Encoded
  <2>2. PICK o \in sendRequest(a, r) :
          /\ link' \in IF o.ret = "Throw" THEN Thrown(a) ELSE {[link EXCEPT ![a] = o.link]}
          /\ \/ /\ o.ret \in {"Ok", "Full"}
                /\ store' = [store EXCEPT ![a] = IF m \in NoReply THEN Erase(@, id)
                                                                  ELSE PopSend(@)]
                /\ msg' = IF m \in NoReply THEN [msg EXCEPT ![m] = Done(@, "req")]
                                           ELSE msg
                /\ todo' = IF o.ret = "Full" THEN Tail(todo) ELSE todo
             \/ /\ o.ret \in {"NotSend", "Error"}
                /\ todo' = Tail(todo)
                /\ UNCHANGED <<store, msg>>
             \/ /\ o.ret = "Throw"
                /\ todo' = <<>>
                /\ UNCHANGED <<store, msg>>
    BY <1>3, <1>7, <2>1 DEF doInvoke_parallel, First, Oldest
  <2>3. current' = current
    BY <1>7 DEF doInvoke_parallel
  <2>4. CASE o.ret \in {"Ok", "Full"}
    <3>1. /\ o.link \in Loaded(link[a], r) /\ link[a].buf = NoReq /\ link[a].st = "ready"
          /\ link' = [link EXCEPT ![a] = o.link]
          /\ current' = [current EXCEPT ![a] = NoMsg]
      BY <1>1, <1>2, <2>2, <2>3, <2>4, SendSplit
    <3>2. \/ todo' = todo
          \/ todo' = Tail(todo) /\ (Serial \/ o.link.buf # NoReq)
      BY <1>6, <2>2, <2>4
    <3>3. CASE m \in NoReply
      <4>1. /\ store' = [store EXCEPT ![a] = Erase(store[a], id)]
            /\ msg' = [msg EXCEPT ![m] = Done(@, "req")]
        BY <2>2, <2>4, <3>3
      <4>2. Updates(a, Erase(store[a], First(a)), o.link, NoMsg)
            /\ msg' = [msg EXCEPT ![Oldest(a)] = Done(@, "req")]
        BY <1>3, <3>1, <4>1 DEF Updates
      <4> QED BY <1>2, <1>3, <1>7, <3>1, <3>2, <4>2 DEF Flushed
    <3>4. CASE m \notin NoReply
      <4>1. store' = [store EXCEPT ![a] = PopSend(store[a])] /\ msg' = msg
        BY <2>2, <2>4, <3>4
      <4>2. Updates(a, PopSend(store[a]), o.link, IF Serial THEN Oldest(a) ELSE NoMsg)
        BY <1>7, <3>1, <4>1 DEF Updates
      <4> QED BY <1>2, <1>3, <3>1, <3>2, <4>1, <4>2 DEF Flushed
    <3> QED BY <3>3, <3>4
  <2>5. CASE o.ret = "NotSend"
    <3>1. link' = link /\ (link[a].buf # NoReq \/ link[a].st # "ready")
      BY <1>1, <2>2, <2>5, SendSplit
    <3> QED BY <1>2, <2>2, <2>3, <2>5, <3>1 DEF FlushStuck
  <2>6. CASE o.ret = "Error"
    <3>1. link' = [link EXCEPT ![a] = Down]
      BY <2>2, <2>6, SendSplit
    <3>2. store' = [store EXCEPT ![a] = store[a]] /\ current' = [current EXCEPT ![a] = current[a]]
          /\ msg' = msg /\ todo' = Tail(todo)
      BY <1>1, <2>2, <2>3, <2>6
    <3> QED BY <1>2, <3>1, <3>2 DEF FlushBroken, Updates
  <2>7. CASE o.ret = "Throw"
    BY <1>2, <2>2, <2>3, <2>7, SendSplit DEF FlushThrown
  <2> QED BY <2>2, <2>4, <2>5, <2>6, <2>7
<1>8. CASE Serial /\ doInvoke_serial(a)
  <2>1. r = [id |-> id - 1, msg |-> m]
    BY <1>3, <1>8 DEF Encoded
  <2>2. PICK o \in sendRequest(a, r) :
          /\ link' \in IF o.ret = "Throw" THEN Thrown(a) ELSE {[link EXCEPT ![a] = o.link]}
          /\ \/ /\ o.ret \in {"Ok", "Full"}
                /\ current' = [current EXCEPT ![a] = m]
                /\ store' = [store EXCEPT ![a] = PopSend(@)]
                /\ todo' = Tail(todo)
                /\ UNCHANGED msg
             \/ /\ o.ret = "Error"
                /\ store' = [store EXCEPT ![a] = Erase(@, id)]
                /\ msg' = [msg EXCEPT ![m] = Done(@, "req")]
                /\ todo' = Tail(todo)
                /\ UNCHANGED current
             \/ /\ o.ret \in {"NotSend", "Throw"}
                /\ todo' = IF o.ret = "Throw" THEN <<>> ELSE Tail(todo)
                /\ UNCHANGED <<store, current, msg>>
    BY <1>3, <1>8, <2>1 DEF doInvoke_serial, First, Oldest
  <2>4. CASE o.ret \in {"Ok", "Full"}
    <3>1. /\ o.link \in Loaded(link[a], r) /\ link[a].buf = NoReq /\ link[a].st = "ready"
          /\ link' = [link EXCEPT ![a] = o.link]
          /\ current' = [current EXCEPT ![a] = m]
          /\ store' = [store EXCEPT ![a] = PopSend(store[a])]
          /\ todo' = Tail(todo) /\ msg' = msg
      BY <2>2, <2>4, SendSplit
    <3>2. Updates(a, PopSend(store[a]), o.link, IF Serial THEN Oldest(a) ELSE NoMsg)
      BY <1>3, <1>8, <3>1 DEF Updates
    <3> QED BY <1>2, <1>3, <1>8, <3>1, <3>2 DEF Flushed
  <2>5. CASE o.ret = "NotSend"
    <3>1. link' = link /\ (link[a].buf # NoReq \/ link[a].st # "ready")
      BY <1>1, <2>2, <2>5, SendSplit
    <3> QED BY <1>2, <2>2, <2>5, <3>1 DEF FlushStuck
  <2>6. CASE o.ret = "Error"
    <3>1. link' = [link EXCEPT ![a] = Down]
      BY <2>2, <2>6, SendSplit, ZenonT(60)
    <3>2. /\ store' = [store EXCEPT ![a] = Erase(store[a], First(a))]
          /\ current' = [current EXCEPT ![a] = current[a]]
          /\ msg' = [msg EXCEPT ![Oldest(a)] = Done(@, "req")] /\ todo' = Tail(todo)
      BY <1>1, <1>3, <2>2, <2>6
    <3> QED BY <1>2, <3>1, <3>2 DEF FlushBroken, Updates
  <2>7. CASE o.ret = "Throw"
    BY <1>2, <2>2, <2>7, SendSplit DEF FlushThrown
  <2> QED BY <2>2, <2>4, <2>5, <2>6, <2>7
<1> QED BY <1>2, <1>7, <1>8

LEMMA OldestFacts ==
  ASSUME AdapterInv, NEW a \in Adapters, store[a].unsent # <<>>
  PROVE  /\ First(a) \in DOMAIN store[a].call /\ First(a) \in Nat /\ First(a) > 0
         /\ Oldest(a) \in Msgs
         /\ Encoded(Oldest(a), First(a)) \in Req
         /\ Encoded(Oldest(a), First(a)).msg = Oldest(a)
         /\ Serial => Encoded(Oldest(a), First(a)).id = First(a) - 1
         /\ ~Serial => Encoded(Oldest(a), First(a)).id = First(a)
<1>1. StoreOK(store[a]) /\ store[a] \in StoreSet /\ mode \in Modes
  BY AdapterFields
<1>2. /\ First(a) \in DOMAIN store[a].call /\ First(a) \in Nat /\ First(a) > 0
      /\ Oldest(a) \in Msgs
  BY <1>1, PopFacts, StoreFields DEF First, Oldest
<1> QED BY <1>2 DEF Encoded, Req

LEMMA FlushAdapter ==
  ASSUME AdapterInv, HandlerInv, mode' = mode, NEW a \in Adapters, store[a].unsent # <<>>,
         \/ ~Serial /\ doInvoke_parallel(a)
         \/ Serial /\ current[a] = NoMsg /\ doInvoke_serial(a)
  PROVE  AdapterInv'
<1>1. PICK s, l, id, m, r : /\ s = store[a] /\ l = link[a] /\ id = First(a) /\ m = Oldest(a)
                            /\ r = Encoded(m, id)
  OBVIOUS
<1>2. current[a] = NoMsg
  BY FlushSplit
<1>3. /\ AdapterOK(s, l, NoMsg) /\ s \in StoreSet /\ l \in LinkSet /\ mode \in Modes
      /\ id \in DOMAIN s.call /\ id \in Nat /\ m \in Msgs
      /\ r \in Req /\ r.msg = m /\ r.msg # NoMsg
      /\ Serial => r.id = id - 1
      /\ ~Serial => r.id = id
      /\ m = s.call[id] /\ s.unsent # <<>> /\ id = Head(s.unsent)
  <2>1. First(a) = Head(store[a].unsent) /\ Oldest(a) = store[a].call[First(a)]
    BY DEF First, Oldest
  <2> QED BY <1>1, <1>2, <2>1, AdapterFields, OldestFacts, NullAssumption
<1>4. CASE Flushed(a)
  <2>1. PICK k, t :
          /\ k \in Loaded(l, r) /\ Updates(a, t, k, IF Serial THEN m ELSE NoMsg)
          /\ t = PopSend(s) \/ (~Serial /\ t = Erase(s, id))
          /\ l.buf = NoReq
    <3>1. PICK k \in Loaded(l, r) :
           /\ l.buf = NoReq
           /\ \/ Updates(a, PopSend(s), k, IF Serial THEN m ELSE NoMsg)
              \/ ~Serial /\ Updates(a, Erase(s, id), k, NoMsg)
      BY <1>1, <1>4 DEF Flushed
    <3>2. CASE Updates(a, PopSend(s), k, IF Serial THEN m ELSE NoMsg)
      BY <3>1, <3>2
    <3>3. CASE ~Serial /\ Updates(a, Erase(s, id), k, NoMsg)
      BY <3>1, <3>3
    <3> QED BY <3>1, <3>2, <3>3
  <2>2. k \in LinkSet /\ Sends(k) = Sends(l) \cup {r} /\ (k.buf = NoReq \/ k.wire = l.wire)
    BY <1>3, <2>1, LoadedFacts
  <2>3. AdapterOK(t, k, IF Serial THEN r.msg ELSE NoMsg)
    BY <1>3, <2>1, <2>2, AdapterFlush
  <2> QED BY <1>3, <2>1, <2>3, UpdateAdapter
<1>5. CASE FlushStuck(a)
  <2>1. Less(link')
    BY <1>5, LessFacts DEF FlushStuck
  <2> QED BY <1>5, <2>1, OnlyLinks DEF FlushStuck
<1>6. CASE FlushBroken(a)
  <2>1. CASE Updates(a, store[a], Down, current[a])
    <3>1. AdapterOK(s, Down, NoMsg)
      BY <1>3, LinkLess, DownFacts
    <3> QED BY <1>1, <1>2, <2>1, <3>1, UpdateAdapter
  <2>2. CASE Updates(a, Erase(store[a], First(a)), Down, current[a])
    <3>1. AdapterOK(Erase(s, id), Down, NoMsg)
      BY <1>3, AdapterErase, DownFacts
    <3> QED BY <1>1, <1>2, <2>2, <3>1, UpdateAdapter
  <2> QED BY <1>6, <2>1, <2>2 DEF FlushBroken
<1>7. CASE FlushThrown(a)
  <2>1. Less(link')
    BY <1>7, ThrownFacts DEF FlushThrown
  <2> QED BY <1>7, <2>1, OnlyLinks DEF FlushThrown
<1> QED BY <1>4, <1>5, <1>6, <1>7, FlushSplit

(* What an answer may do: nobody waits for it, or the call it is the answer *)
(* to is finished.                                                          *)
Answered(a) ==
  \E id \in DOMAIN store[a].call, l \in LinkSet :
    /\ Within(l, link[a]) /\ (Serial => Sends(l) = {})
    /\ l = Down \/ (l.st = link[a].st /\ l.watched = link[a].watched /\ l.buf = link[a].buf)
    /\ Updates(a, Erase(store[a], id), l, NoMsg)
    /\ msg' = [msg EXCEPT ![store[a].call[id]] = Answer(store[a].call[id], store[a].call[id])]

Dropped(a) ==
  \E l \in LinkSet :
    /\ Within(l, link[a])
    /\ l.st = link[a].st /\ l.watched = link[a].watched /\ l.buf = link[a].buf
    /\ Updates(a, store[a], l, current[a]) /\ msg' = msg

LEMMA AnswerSplit ==
  ASSUME AdapterInv, NEW a \in Adapters, onParserCallback(a)
  PROVE  Answered(a) \/ Dropped(a)
<1>1. /\ store = [store EXCEPT ![a] = store[a]] /\ link = [link EXCEPT ![a] = link[a]]
      /\ current = [current EXCEPT ![a] = current[a]]
  BY SameAdapter
<1>2. /\ link[a] \in LinkSet /\ SentOK(store[a], link[a]) /\ CurrentOK(store[a], link[a], current[a])
      /\ mode \in Modes
  BY AdapterFields
<1>3. PICK r, l : /\ r \in link[a].wire /\ l = [link[a] EXCEPT !.wire = @ \ {r}]
                  /\ IF Serial THEN finishInvoke_serial(a, r, l) ELSE finishInvoke_parallel(a, r, l)
  BY DEF onParserCallback
<1>4. /\ l \in LinkSet /\ l.wire = link[a].wire \ {r} /\ l.buf = link[a].buf
      /\ l.st = link[a].st /\ l.watched = link[a].watched
  BY <1>2, <1>3 DEF LinkSet
<1>5. Within(l, link[a]) /\ r \in Sends(link[a])
  BY <1>3, <1>4 DEF Within, Sends
<1>6. Serial => Sends(l) = {}
  <2>1. SUFFICES ASSUME Serial PROVE Sends(l) = {}
    OBVIOUS
  <2>2. /\ \A q \in Sends(link[a]) : q = r
        /\ link[a].buf = NoReq \/ link[a].wire = {}
    BY <1>2, <1>5, <2>1 DEF CurrentOK
  <2>3. link[a].buf = NoReq /\ \A q \in link[a].wire : q = r
    BY <1>3, <2>2 DEF Sends
  <2> QED BY <1>4, <2>3 DEF Sends
<1>7. ASSUME NEW s \in Shield(l)
      PROVE  /\ s \in LinkSet /\ Within(s, link[a]) /\ (Serial => Sends(s) = {})
             /\ s = Down \/ (s.st = link[a].st /\ s.watched = link[a].watched /\ s.buf = link[a].buf)
  BY <1>4, <1>5, <1>6, <1>7, DownFacts DEF Shield
<1>8. ASSUME NEW id \in DOMAIN store[a].call, NEW s \in Shield(l), r.msg = store[a].call[id],
             store' = [store EXCEPT ![a] = Erase(store[a], id)], link' = [link EXCEPT ![a] = s],
             current' = [current EXCEPT ![a] = NoMsg],
             msg' = [msg EXCEPT ![store[a].call[id]] = Answer(store[a].call[id], r.msg)]
      PROVE  Answered(a)
  <2>1. Updates(a, Erase(store[a], id), s, NoMsg)
    BY <1>8 DEF Updates
  <2>2. msg' = [msg EXCEPT ![store[a].call[id]] = Answer(store[a].call[id], store[a].call[id])]
    BY <1>8
  <2> QED BY <1>7, <2>1, <2>2 DEF Answered
<1>9. ASSUME store' = store, current' = current, msg' = msg, link' = [link EXCEPT ![a] = l]
      PROVE  Dropped(a)
  <2>1. Updates(a, store[a], l, current[a])
    BY <1>1, <1>9 DEF Updates
  <2> QED BY <1>4, <1>5, <1>9, <2>1 DEF Dropped
<1>10. CASE Serial /\ finishInvoke_serial(a, r, l)
  <2>1. CASE current[a] = NoMsg
    BY <1>9, <1>10, <2>1 DEF finishInvoke_serial
  <2>2. CASE current[a] # NoMsg
    <3>1. PICK c, id : c = current[a] /\ id = IdOf(a, c)
      OBVIOUS
    <3>2. id \in DOMAIN store[a].call /\ store[a].call[id] = c
      <4>1. \E i \in DOMAIN store[a].call : store[a].call[i] = c
        BY <1>2, <2>2, <3>1 DEF CurrentOK
      <4> QED BY <3>1, <4>1 DEF IdOf
    <3>3. r.msg = c
      BY <1>2, <1>5, <1>10, <3>1 DEF CurrentOK
    <3>4. PICK s \in Shield(l) :
            /\ store' = [store EXCEPT ![a] = Erase(store[a], id)]
            /\ current' = [current EXCEPT ![a] = NoMsg]
            /\ msg' = [msg EXCEPT ![c] = Answer(c, r.msg)]
            /\ link' = [link EXCEPT ![a] = s]
      BY <1>10, <2>2, <3>1 DEF finishInvoke_serial
    <3> QED BY <1>8, <3>2, <3>3, <3>4
  <2> QED BY <2>1, <2>2
<1>11. CASE ~Serial /\ finishInvoke_parallel(a, r, l)
  <2>1. current' = current /\ current' = [current EXCEPT ![a] = NoMsg]
    BY <1>1, <1>2, <1>11 DEF finishInvoke_parallel, CurrentOK
  <2>2. CASE Matching(a, r) = {} /\ link' = [link EXCEPT ![a] = l] /\ UNCHANGED <<store, msg>>
    BY <1>9, <2>1, <2>2
  <2>3. CASE \E id \in Matching(a, r) :
                LET m == store[a].call[id] IN
                /\ store' = [store EXCEPT ![a] = Erase(@, id)]
                /\ msg' = [msg EXCEPT ![m] = Answer(m, r.msg)]
                /\ \E s \in Shield(l) : link' = [link EXCEPT ![a] = s]
    <3>1. PICK id \in Matching(a, r), s \in Shield(l) :
                /\ store' = [store EXCEPT ![a] = Erase(store[a], id)]
                /\ msg' = [msg EXCEPT ![store[a].call[id]] = Answer(store[a].call[id], r.msg)]
                /\ link' = [link EXCEPT ![a] = s]
      BY <2>3
    <3>2. id \in DOMAIN store[a].call /\ id = r.id
      BY <3>1 DEF Matching
    <3>3. r.msg = store[a].call[id]
      BY <1>2, <1>5, <1>11, <3>2 DEF SentOK
    <3> QED BY <1>8, <2>1, <3>1, <3>2, <3>3
  <2> QED BY <1>11, <2>2, <2>3 DEF finishInvoke_parallel
<1> QED BY <1>3, <1>10, <1>11

LEMMA AnswerAdapter ==
  ASSUME AdapterInv, mode' = mode, NEW a \in Adapters, onParserCallback(a)
  PROVE  AdapterInv'
<1>1. AdapterOK(store[a], link[a], current[a]) /\ mode \in Modes
  BY AdapterFields
<1>2. CASE Answered(a)
  <2>1. PICK id \in DOMAIN store[a].call, l \in LinkSet :
          /\ Within(l, link[a]) /\ (Serial => Sends(l) = {})
          /\ Updates(a, Erase(store[a], id), l, NoMsg)
    BY <1>2 DEF Answered
  <2>2. AdapterOK(Erase(store[a], id), l, NoMsg)
    BY <1>1, <2>1, AdapterErase
  <2> QED BY <2>1, <2>2, UpdateAdapter
<1>3. CASE Dropped(a)
  <2>1. PICK l \in LinkSet : Within(l, link[a]) /\ Updates(a, store[a], l, current[a])
    BY <1>3 DEF Dropped
  <2>2. AdapterOK(store[a], l, current[a])
    BY <1>1, <2>1, LinkLess
  <2> QED BY <2>1, <2>2, UpdateAdapter
<1> QED BY <1>2, <1>3, AnswerSplit

(* One turn of AdapterProxy::doTimeout. *)
TimedOut(a) ==
  \E id \in DOMAIN store[a].call, l \in {link[a], Down} :
    LET m == store[a].call[id]
        d == IF current[a] = m THEN NoMsg ELSE current[a]
    IN
    /\ m = current[a] => l = Down
    /\ Updates(a, Erase(store[a], id), l, d)
    /\ msg' = [msg EXCEPT ![m] = Done(@, "time")]

LEMMA TimeoutSplit ==
  ASSUME AdapterInv, NEW a \in Adapters, AdapterTimeout(a)
  PROVE  TimedOut(a)
<1>1. PICK id \in DOMAIN store[a].call :
        LET m == store[a].call[id]
            l == TimedOutLink(a, m)
        IN
         /\ store' = [store EXCEPT ![a] = Erase(@, id)]
         /\ current' = [current EXCEPT ![a] = IF @ = m THEN NoMsg ELSE @]
         /\ msg' = [msg EXCEPT ![m] = Done(@, "time")]
         /\ \E s \in IF m \in NoReply THEN {l} ELSE Shield(l) :
              link' = [link EXCEPT ![a] = s]
  BY DEF AdapterTimeout
<1>2. PICK m, l : m = store[a].call[id] /\ l = TimedOutLink(a, m)
  OBVIOUS
<1>3. PICK s : link' = [link EXCEPT ![a] = s] /\ s \in {l, Down}
  BY <1>1, <1>2 DEF Shield
<1>4. s \in {link[a], Down} /\ (m = current[a] => s = Down)
  BY <1>2, <1>3 DEF TimedOutLink
<1>5. PICK d : d = IF current[a] = m THEN NoMsg ELSE current[a]
  OBVIOUS
<1>6. /\ store' = [store EXCEPT ![a] = Erase(store[a], id)] /\ current' = [current EXCEPT ![a] = d]
      /\ msg' = [msg EXCEPT ![m] = Done(@, "time")]
  BY <1>1, <1>2, <1>5
<1>7. Updates(a, Erase(store[a], id), s, d)
  BY <1>3, <1>6 DEF Updates
<1> QED BY <1>2, <1>4, <1>5, <1>6, <1>7 DEF TimedOut

LEMMA TimeoutAdapter ==
  ASSUME AdapterInv, mode' = mode, NEW a \in Adapters, AdapterTimeout(a)
  PROVE  AdapterInv'
<1>1. AdapterOK(store[a], link[a], current[a]) /\ mode \in Modes /\ link[a] \in LinkSet
  BY AdapterFields
<1>2. PICK id, l, m, d :
        /\ id \in DOMAIN store[a].call /\ l \in {link[a], Down}
        /\ m = store[a].call[id] /\ d = IF current[a] = m THEN NoMsg ELSE current[a]
        /\ m = current[a] => l = Down
        /\ Updates(a, Erase(store[a], id), l, d)
  BY TimeoutSplit DEF TimedOut
<1>3. Within(l, link[a])
  BY <1>1, <1>2, DownFacts DEF Within
<1>4. \/ d = current[a] /\ store[a].call[id] # current[a]
      \/ d = NoMsg /\ (Serial => Sends(l) = {})
  BY <1>2, DownFacts
<1>5. AdapterOK(Erase(store[a], id), l, d)
  BY <1>1, <1>2, <1>3, <1>4, AdapterErase
<1> QED BY <1>2, <1>5, UpdateAdapter

LEMMA StateLink ==
  ASSUME AdapterInv, NEW a \in Adapters, NEW x \in {"none", "connecting", "connected", "ready"}
  PROVE  /\ Within([link[a] EXCEPT !.st = x], link[a])
         /\ [link[a] EXCEPT !.st = x].buf = link[a].buf
<1>1. link[a] \in LinkSet
  BY AdapterFields
<1>2. PICK k : k = [link[a] EXCEPT !.st = x]
  OBVIOUS
<1>3. k \in LinkSet /\ k.buf = link[a].buf /\ k.wire = link[a].wire
  BY <1>1, <1>2 DEF LinkSet
<1> QED BY <1>2, <1>3 DEF Within, Sends

LEMMA FlushedLink ==
  ASSUME AdapterInv, NEW a \in Adapters, doRequest(a)
  PROVE  \E l : /\ link' = [link EXCEPT ![a] = l] /\ Within(l, link[a])
                /\ l.st = link[a].st /\ l.watched = link[a].watched
<1>1. link[a] \in LinkSet /\ link = [b \in Adapters |-> link[b]]
  BY AdapterFields DEF AdapterInv
<1>2. PICK w, l : /\ w = link[a].wire \cup ({link[a].buf} \ {NoReq})
                  /\ l = [link[a] EXCEPT !.wire = w, !.buf = NoReq]
  OBVIOUS
<1>3. w \subseteq Req
  BY <1>1, <1>2 DEF LinkSet
<1>4. /\ l \in LinkSet /\ l.wire = w /\ l.buf = NoReq /\ l.st = link[a].st
      /\ l.watched = link[a].watched
  BY <1>1, <1>2, <1>3, DownFacts DEF LinkSet
<1>5. Within(l, link[a])
  BY <1>2, <1>4 DEF Within, Sends
<1>6. link' = [link EXCEPT ![a] = l]
  BY <1>1, <1>2 DEF doRequest
<1> QED BY <1>4, <1>5, <1>6

(* The events that only change connections. *)
LEMMA LinkEvents ==
  ASSUME AdapterInv, NEW a \in Adapters,
         \/ connect(a) \/ setConnected(a) \/ doAuthCheck(a) \/ tcpClose(a) \/ doRequest(a)
         \/ doProtocolAnalysis(a)
  PROVE  Less(link') /\ store' = store /\ current' = current /\ mode' = mode
<1>1. \A l : Within(l, link[a]) => Less([link EXCEPT ![a] = l])
  BY LessFacts
<1>2. CASE connect(a)
  <2>1. PICK C : link' = Connecting(C)
    BY <1>2 DEF connect
  <2> QED BY <1>2, <2>1, ConnectingFacts DEF connect
<1>3. ASSUME NEW x \in {"none", "connecting", "connected", "ready"}, link' = [link EXCEPT ![a].st = x]
      PROVE  Less(link')
  <2>1. link' = [link EXCEPT ![a] = [link[a] EXCEPT !.st = x]]
    BY <1>3
  <2> QED BY <1>1, <2>1, StateLink
<1>4. CASE setConnected(a)
  <2>1. PICK x \in {"none", "connecting", "connected", "ready"} : link' = [link EXCEPT ![a].st = x]
    BY <1>4 DEF setConnected
  <2> QED BY <1>3, <1>4, <2>1 DEF setConnected
<1>5. CASE doAuthCheck(a)
  <2>1. PICK x \in {"none", "connecting", "connected", "ready"} : link' = [link EXCEPT ![a].st = x]
    BY <1>5 DEF doAuthCheck
  <2> QED BY <1>3, <1>5, <2>1 DEF doAuthCheck
<1>6. CASE tcpClose(a)
  BY <1>1, <1>6, DownFacts DEF tcpClose
<1>7. CASE doRequest(a)
  <2>1. Less(link')
    BY <1>1, <1>7, FlushedLink
  <2> QED BY <1>7, <2>1 DEF doRequest
<1>8. CASE doProtocolAnalysis(a)
  BY <1>8, LessFacts DEF doProtocolAnalysis
<1> QED BY <1>2, <1>4, <1>5, <1>6, <1>7, <1>8

LEMMA HandlerAdapter ==
  ASSUME AdapterInv, HandlerInv, reqq \in Seq(Msgs), HandlerStep
  PROVE  AdapterInv'
<1>1. CASE DispatchStep
  <2>1. PICK m \in Msgs, a \in Adapters \cup {NoAdapter} :
          /\ mode' = mode
          /\ \/ UNCHANGED <<store, current, link>>
             \/ a # NoAdapter /\ AdapterInvoke(m, a, Tail(todo))
    BY <1>1 DEF DispatchStep
  <2>2. CASE UNCHANGED <<store, current, link>>
    BY <2>1, <2>2, LessFacts, OnlyLinks
  <2> QED BY <2>1, <2>2, InvokeAdapter
<1>2. CASE CallStep
  BY <1>2, InvokeAdapter DEF CallStep
<1>3. CASE prepareConnection
  <2>1. PICK a \in Adapters :
          /\ mode' = mode
          /\ \/ UNCHANGED <<store, current, link>>
             \/ reqq # <<>> /\ AdapterInvoke(Head(reqq), a, todo)
             \/ UNCHANGED <<store, current>> /\ \E C : link' = Connecting(C)
    BY <1>3 DEF prepareConnection
  <2>2. CASE UNCHANGED <<store, current, link>>
    BY <2>1, <2>2, LessFacts, OnlyLinks
  <2>3. CASE UNCHANGED <<store, current>> /\ \E C : link' = Connecting(C)
    BY <2>1, <2>3, ConnectingFacts, OnlyLinks
  <2>4. CASE reqq # <<>> /\ AdapterInvoke(Head(reqq), a, todo)
    <3>1. Head(reqq) \in Msgs
      BY <2>4, TailFacts
    <3> QED BY <2>1, <2>4, <3>1, InvokeAdapter
  <2> QED BY <2>1, <2>2, <2>3, <2>4
<1>4. CASE doInvoke
  <2>1. PICK a \in Adapters :
          /\ mode' = mode
          /\ \/ UNCHANGED <<store, current, link>>
             \/ /\ store[a].unsent # <<>>
                /\ \/ ~Serial /\ doInvoke_parallel(a)
                   \/ Serial /\ current[a] = NoMsg /\ doInvoke_serial(a)
    BY <1>4 DEF doInvoke
  <2>2. CASE UNCHANGED <<store, current, link>>
    BY <2>1, <2>2, LessFacts, OnlyLinks
  <2> QED BY <2>1, <2>2, FlushAdapter
<1>5. CASE onCompletePackage
  <2>1. /\ mode' = mode /\ UNCHANGED <<store, current>>
        /\ link' = link \/ \E C : link' = Connecting(C)
    BY <1>5 DEF onCompletePackage
  <2>2. Less(link')
    BY <2>1, LessFacts, ConnectingFacts
  <2> QED BY <2>1, <2>2, OnlyLinks
<1> QED BY <1>1, <1>2, <1>3, <1>4, <1>5 DEF HandlerStep

LEMMA InitAdapter == ASSUME Init PROVE AdapterInv
<1>1. mode \in Modes /\ link = [a \in Adapters |-> Down] /\ current = [a \in Adapters |-> NoMsg]
      /\ store = [a \in Adapters |-> [call |-> <<>>, unsent |-> <<>>, last |-> 0]]
  BY DEF Init
<1>2. PICK s : s = [call |-> <<>>, unsent |-> <<>>, last |-> 0]
  OBVIOUS
<1>3. /\ s.call = <<>> /\ s.unsent = <<>> /\ s.last = 0 /\ DOMAIN s.call = {}
      /\ DOMAIN s.unsent = {} /\ Len(s.unsent) = 0
  BY <1>2
<1>4. s \in StoreSet
  <2>1. PICK f : f = [i \in {} |-> NoMsg]
    OBVIOUS
  <2>2. f = <<>>
    BY <2>1
  <2>3. f \in [{} -> Msgs] /\ {} \in SUBSET Nat
    BY <2>1
  <2>4. f \in CallMaps
    BY <2>3 DEF CallMaps
  <2> QED BY <1>2, <2>2, <2>4 DEF StoreSet
<1>5. NoSendQueueLimit \in Nat
  BY <1>1, ModeAssumption DEF NoSendQueueLimit
<1>6. StoreOK(s)
  BY <1>3, <1>5 DEF StoreOK
<1>7. AdapterOK(s, Down, NoMsg)
  BY <1>4, <1>6, DownFacts DEF AdapterOK, SentOK, CurrentOK
<1>8. \A a \in Adapters : store[a] = s /\ link[a] = Down /\ current[a] = NoMsg
  BY <1>1, <1>2
<1>9. /\ DOMAIN store = Adapters /\ DOMAIN link = Adapters /\ DOMAIN current = Adapters
      /\ store = [a \in Adapters |-> store[a]] /\ link = [a \in Adapters |-> link[a]]
      /\ current = [a \in Adapters |-> current[a]]
  BY <1>1
<1>10. \A a \in Adapters : AdapterOK(store[a], link[a], current[a])
  BY <1>7, <1>8
<1> QED BY <1>1, <1>9, <1>10 DEF AdapterInv

LEMMA NextAdapter ==
  ASSUME AdapterInv, HandlerInv, reqq \in Seq(Msgs), [Next]_vars
  PROVE  AdapterInv'
<1>1. CASE HandlerStep
  BY <1>1, HandlerAdapter
<1>2. ASSUME NEW m \in Msgs, Invoke(m) PROVE AdapterInv'
  <2>1. /\ mode' = mode /\ store' = store /\ current' = current
        /\ link' = link \/ \E C : link' = Connecting(C)
    BY <1>2 DEF Invoke
  <2> QED BY <2>1, LessFacts, ConnectingFacts, OnlyLinks
<1>3. ASSUME NEW m, NEW a \in Adapters, doKeepAlive(m, a) PROVE AdapterInv'
  BY <1>3, LessFacts, OnlyLinks DEF doKeepAlive
<1>4. CASE RegistryAnswer
  <2>1. /\ mode' = mode /\ store' = store /\ current' = current
        /\ link' = link \/ \E C : link' = Connecting(C)
    BY <1>4 DEF RegistryAnswer
  <2> QED BY <2>1, LessFacts, ConnectingFacts, OnlyLinks
<1>5. ASSUME NEW a \in Adapters, Event(a) PROVE AdapterInv'
  <2>1. CASE onParserCallback(a)
    <3>1. mode' = mode
      BY <2>1 DEF onParserCallback
    <3> QED BY <2>1, <3>1, AnswerAdapter
  <2>2. CASE AdapterTimeout(a)
    <3>1. mode' = mode
      BY <2>2 DEF AdapterTimeout
    <3> QED BY <2>2, <3>1, TimeoutAdapter
  <2>3. CASE \/ connect(a) \/ setConnected(a) \/ doAuthCheck(a) \/ tcpClose(a) \/ doRequest(a)
             \/ doProtocolAnalysis(a)
    BY <2>3, LinkEvents, OnlyLinks
  <2> QED BY <1>5, <2>1, <2>2, <2>3 DEF Event
<1>6. ASSUME NEW m \in Msgs, Expire(m) PROVE AdapterInv'
  BY <1>6, LessFacts, OnlyLinks DEF Expire
<1>7. CASE ReqTimeout
  BY <1>7, LessFacts, OnlyLinks DEF ReqTimeout
<1>8. CASE vars' = vars
  BY <1>8, LessFacts, OnlyLinks DEF vars
<1> QED BY <1>1, <1>2, <1>3, <1>4, <1>5, <1>6, <1>7, <1>8 DEF Next

-----------------------------------------------------------------------------
(* HandlerInv *)

NoCarry(t) == \A i \in DOMAIN t : ~Carries(t[i])

LEMMA ItemFacts ==
  ASSUME NEW a
  PROVE  /\ ~Carries(Drain(a)) /\ Drain(a).do = "drain"
         /\ ~Carries(Flush(a)) /\ Flush(a).do = "flush" /\ Flush(a).on = a
         /\ ~Carries(Completed(a)) /\ Completed(a).do = "completed" /\ Completed(a).on = a
         /\ a \in Adapters => Drain(a) \in Item /\ Flush(a) \in Item /\ Completed(a) \in Item
BY DEF Carries, Drain, Flush, Completed, Item

LEMMA CallFacts ==
  ASSUME NEW m \in Msgs, NEW a
  PROVE  /\ Carries(Dispatch(m, a)) /\ Dispatch(m, a).msg = m /\ Dispatch(m, a).do = "dispatch"
         /\ Carries(Call(m, a)) /\ Call(m, a).msg = m /\ Call(m, a).do = "call"
         /\ a \in Adapters \cup {NoAdapter} => Dispatch(m, a) \in Item
         /\ a \in Adapters => Call(m, a) \in Item
BY DEF Carries, Dispatch, Call, Item

LEMMA EmptyTodo ==
  ASSUME NEW t, NEW e, t = <<>>
  PROVE  TodoOK(t, e) /\ NoCarry(t)
<1>1. t \in Seq(Item) /\ DOMAIN t = {}
  OBVIOUS
<1> QED BY <1>1 DEF TodoOK, NoCarry

LEMMA TodoTail ==
  ASSUME NEW t, NEW e, TodoOK(t, e), t # <<>>
  PROVE  TodoOK(Tail(t), e) /\ NoCarry(Tail(t)) /\ Head(t) = t[1] /\ 1 \in DOMAIN t
         /\ (~Carries(Head(t)) => NoCarry(t))
<1>1. t \in Seq(Item)
  BY DEF TodoOK
<1>2. PICK u : u = Tail(t)
  OBVIOUS
<1>3. /\ u \in Seq(Item) /\ Head(t) = t[1] /\ 1 \in DOMAIN t
      /\ \A i \in DOMAIN u : i + 1 \in DOMAIN t /\ u[i] = t[i + 1] /\ i + 1 # 1
  <2>1. /\ Head(t) = t[1] /\ 1 \in DOMAIN t /\ Tail(t) \in Seq(Item)
        /\ \A i \in DOMAIN Tail(t) : i + 1 \in DOMAIN t /\ Tail(t)[i] = t[i + 1] /\ i \in Nat /\ i > 0
    BY <1>1, TailFacts
  <2>2. \A i \in Nat : i > 0 => i + 1 # 1
    OBVIOUS
  <2> QED BY <1>2, <2>1, <2>2
<1>4. \A i \in DOMAIN u : ~Carries(u[i])
  BY <1>3 DEF TodoOK
<1>5. TodoOK(u, e)
  BY <1>3, <1>4 DEF TodoOK
<1>6. ~Carries(Head(t)) => NoCarry(t)
  BY <1>3 DEF TodoOK, NoCarry
<1> QED BY <1>2, <1>3, <1>4, <1>5, <1>6 DEF NoCarry

(* What runs first, and then what is left. *)
LEMMA TodoPrefix ==
  ASSUME NEW p \in Seq(Item), NEW t, NEW e, TodoOK(t, e), NoCarry(t),
         \A i \in DOMAIN p : /\ Carries(p[i]) => i = 1 /\ p[i].msg \in Msgs
                             /\ p[i].do \in {"flush", "completed"} => p[i].on = e.on /\ e.dir \in {"in", "out"}
  PROVE  /\ TodoOK(p \o t, e)
         /\ \A i \in DOMAIN p : i \in DOMAIN (p \o t) /\ (p \o t)[i] = p[i]
         /\ \A i \in DOMAIN t : \E j \in DOMAIN (p \o t) : (p \o t)[j] = t[i]
         /\ \A j \in DOMAIN (p \o t) : Carries((p \o t)[j]) => j \in DOMAIN p
<1>1. t \in Seq(Item)
  BY DEF TodoOK
<1>2. PICK u, n, k : u = p \o t /\ n = Len(p) /\ k = Len(t)
  OBVIOUS
<1>3. /\ u \in Seq(Item) /\ n \in Nat /\ k \in Nat /\ DOMAIN u = 1..(n + k)
      /\ DOMAIN p = 1..n /\ DOMAIN t = 1..k
      /\ \A i \in 1..n : u[i] = p[i]
      /\ \A i \in (n + 1)..(n + k) : i - n \in DOMAIN t /\ u[i] = t[i - n]
  BY <1>1, <1>2, ConcatFacts
<1>4. ASSUME NEW i \in DOMAIN u
      PROVE  \/ i \in DOMAIN p /\ u[i] = p[i]
             \/ ~Carries(u[i]) /\ \E j \in DOMAIN t : u[i] = t[j]
  <2>1. CASE i \in 1..n
    BY <1>3, <2>1
  <2>2. CASE i \notin 1..n
    <3>1. i \in (n + 1)..(n + k)
      BY <1>3, <2>2
    <3> QED BY <1>3, <3>1 DEF NoCarry
  <2> QED BY <2>1, <2>2
<1>5. TodoOK(u, e)
  BY <1>3, <1>4 DEF TodoOK
<1>6. ASSUME NEW i \in DOMAIN t PROVE \E j \in DOMAIN u : u[j] = t[i]
  <2>1. n + i \in (n + 1)..(n + k) /\ (n + i) - n = i /\ n + i \in DOMAIN u
    BY <1>3
  <2> QED BY <1>3, <2>1
<1>7. \A i \in DOMAIN p : i \in DOMAIN u /\ u[i] = p[i]
  BY <1>3
<1> QED BY <1>2, <1>4, <1>5, <1>6, <1>7

(* What is left of the handler after one of its steps. *)
LEMMA HandlerTodo ==
  ASSUME AdapterInv, HandlerInv, reqq \in Seq(Msgs), HandlerStep
  PROVE  /\ todo # <<>>
         /\ \/ todo' = Tail(todo)
            \/ todo' = todo /\ ~Carries(Head(todo))
            \/ todo' = <<>>
            \/ \E m \in Msgs, b \in Adapters : todo' = <<Call(m, b), Drain(b)>> \o Tail(todo)
            \/ \E a \in Adapters : Head(todo) = Completed(a) /\ todo' = <<Flush(a)>> \o Tail(todo)
<1>1. ASSUME NEW m \in Msgs, NEW a \in Adapters, NEW rest, AdapterInvoke(m, a, rest)
      PROVE  todo' = rest \/ todo' = <<>>
  BY <1>1, InvokeSplit DEF Refused, Parked, Launched, Unwound
<1>2. CASE DispatchStep
  <2>1. PICK m \in Msgs, a \in Adapters \cup {NoAdapter} :
          /\ Running(Dispatch(m, a))
          /\ \/ todo' = Tail(todo)
             \/ a # NoAdapter /\ AdapterInvoke(m, a, Tail(todo))
    BY <1>2 DEF DispatchStep
  <2>2. todo' = Tail(todo) \/ todo' = <<>>
    BY <1>1, <2>1
  <2> QED BY <2>1, <2>2 DEF Running
<1>3. CASE CallStep
  <2>1. PICK m \in Msgs, a \in Adapters : Running(Call(m, a)) /\ AdapterInvoke(m, a, Tail(todo))
    BY <1>3 DEF CallStep
  <2>2. todo' = Tail(todo) \/ todo' = <<>>
    BY <1>1, <2>1
  <2> QED BY <2>1, <2>2 DEF Running
<1>4. CASE prepareConnection
  <2>1. PICK a \in Adapters :
          /\ Running(Drain(a))
          /\ \/ todo' = Tail(todo)
             \/ reqq # <<>> /\ AdapterInvoke(Head(reqq), a, todo)
             \/ /\ reqq # <<>>
                /\ \E b \in Adapters : todo' = <<Call(Head(reqq), b), Drain(b)>> \o Tail(todo)
    BY <1>4 DEF prepareConnection
  <2>2. reqq # <<>> => Head(reqq) \in Msgs
    BY TailFacts
  <2>3. todo # <<>> /\ ~Carries(Head(todo))
    BY <2>1, ItemFacts DEF Running
  <2>4. CASE reqq # <<>> /\ AdapterInvoke(Head(reqq), a, todo)
    BY <1>1, <2>2, <2>3, <2>4
  <2> QED BY <2>1, <2>2, <2>3, <2>4
<1>5. CASE doInvoke
  <2>1. PICK a \in Adapters :
          /\ Running(Flush(a))
          /\ \/ todo' = Tail(todo)
             \/ /\ store[a].unsent # <<>>
                /\ \/ ~Serial /\ doInvoke_parallel(a)
                   \/ Serial /\ current[a] = NoMsg /\ doInvoke_serial(a)
    BY <1>5 DEF doInvoke
  <2>2. todo # <<>> /\ ~Carries(Head(todo))
    BY <2>1, ItemFacts DEF Running
  <2>3. todo' = Tail(todo) \/ todo' = todo \/ todo' = <<>>
    BY <2>1, FlushSplit DEF Flushed, FlushStuck, FlushBroken, FlushThrown
  <2> QED BY <2>2, <2>3
<1>6. CASE onCompletePackage
  <2>1. PICK a \in Adapters :
          /\ Running(Completed(a))
          /\ todo' = Tail(todo) \/ todo' = <<Flush(a)>> \o Tail(todo)
    BY <1>6 DEF onCompletePackage
  <2> QED BY <2>1 DEF Running
<1> QED BY <1>2, <1>3, <1>4, <1>5, <1>6 DEF HandlerStep

LEMMA FrontFacts ==
  ASSUME AdapterInv, HandlerInv, todo # <<>>
  PROVE  /\ \A m \in Msgs, b \in Adapters :
              /\ TodoOK(<<Call(m, b), Drain(b)>> \o Tail(todo), event)
              /\ \E j \in DOMAIN (<<Call(m, b), Drain(b)>> \o Tail(todo)) :
                   (<<Call(m, b), Drain(b)>> \o Tail(todo))[j] = Call(m, b)
              /\ \A j \in DOMAIN (<<Call(m, b), Drain(b)>> \o Tail(todo)) :
                   Carries((<<Call(m, b), Drain(b)>> \o Tail(todo))[j])
                     => (<<Call(m, b), Drain(b)>> \o Tail(todo))[j] = Call(m, b)
              /\ \A i \in DOMAIN Tail(todo) :
                   \E j \in DOMAIN (<<Call(m, b), Drain(b)>> \o Tail(todo)) :
                     (<<Call(m, b), Drain(b)>> \o Tail(todo))[j] = Tail(todo)[i]
         /\ \A a \in Adapters : Head(todo) = Completed(a) =>
              /\ TodoOK(<<Flush(a)>> \o Tail(todo), event) /\ NoCarry(<<Flush(a)>> \o Tail(todo))
              /\ \E j \in DOMAIN (<<Flush(a)>> \o Tail(todo)) :
                   (<<Flush(a)>> \o Tail(todo))[j] = Flush(a)
              /\ \A i \in DOMAIN Tail(todo) :
                   \E j \in DOMAIN (<<Flush(a)>> \o Tail(todo)) :
                     (<<Flush(a)>> \o Tail(todo))[j] = Tail(todo)[i]
<1>1. PICK t : t = Tail(todo)
  OBVIOUS
<1>2. TodoOK(t, event) /\ NoCarry(t) /\ Head(todo) = todo[1] /\ 1 \in DOMAIN todo
  BY <1>1, TodoTail DEF HandlerInv
<1>3. ASSUME NEW m \in Msgs, NEW b \in Adapters
      PROVE  /\ TodoOK(<<Call(m, b), Drain(b)>> \o t, event)
             /\ \E j \in DOMAIN (<<Call(m, b), Drain(b)>> \o t) :
                  (<<Call(m, b), Drain(b)>> \o t)[j] = Call(m, b)
             /\ \A j \in DOMAIN (<<Call(m, b), Drain(b)>> \o t) :
                  Carries((<<Call(m, b), Drain(b)>> \o t)[j])
                     => (<<Call(m, b), Drain(b)>> \o t)[j] = Call(m, b)
             /\ \A i \in DOMAIN t :
                  \E j \in DOMAIN (<<Call(m, b), Drain(b)>> \o t) :
                    (<<Call(m, b), Drain(b)>> \o t)[j] = t[i]
  <2>1. PICK c, d, p : c = Call(m, b) /\ d = Drain(b) /\ p = <<c, d>>
    OBVIOUS
  <2>2. /\ c \in Item /\ Carries(c) /\ c.msg = m /\ c.do = "call"
        /\ d \in Item /\ ~Carries(d) /\ d.do = "drain"
    BY <2>1, ItemFacts, CallFacts
  <2>3. p \in Seq(Item) /\ DOMAIN p = {1, 2} /\ p[1] = c /\ p[2] = d
    BY <2>1, <2>2
  <2>4. \A i \in DOMAIN p :
          /\ Carries(p[i]) => i = 1 /\ p[i].msg \in Msgs
          /\ p[i].do \in {"flush", "completed"} => p[i].on = event.on /\ event.dir \in {"in", "out"}
    BY <2>2, <2>3
  <2>5. PICK u : u = p \o t
    OBVIOUS
  <2>6. /\ TodoOK(u, event)
        /\ \A i \in DOMAIN p : i \in DOMAIN u /\ u[i] = p[i]
        /\ \A i \in DOMAIN t : \E j \in DOMAIN u : u[j] = t[i]
        /\ \A j \in DOMAIN u : Carries(u[j]) => j \in DOMAIN p
    <3>1. /\ TodoOK(p \o t, event)
          /\ \A i \in DOMAIN p : i \in DOMAIN (p \o t) /\ (p \o t)[i] = p[i]
          /\ \A i \in DOMAIN t : \E j \in DOMAIN (p \o t) : (p \o t)[j] = t[i]
          /\ \A j \in DOMAIN (p \o t) : Carries((p \o t)[j]) => j \in DOMAIN p
      BY <1>2, <2>3, <2>4, TodoPrefix
    <3> QED BY <2>5, <3>1
  <2>7. /\ \E j \in DOMAIN u : u[j] = c
        /\ \A j \in DOMAIN u : Carries(u[j]) => u[j] = c
    BY <2>2, <2>3, <2>6
  <2> QED BY <2>1, <2>5, <2>6, <2>7
<1>4. ASSUME NEW a \in Adapters, Head(todo) = Completed(a)
      PROVE  /\ TodoOK(<<Flush(a)>> \o t, event) /\ NoCarry(<<Flush(a)>> \o t)
             /\ \E j \in DOMAIN (<<Flush(a)>> \o t) : (<<Flush(a)>> \o t)[j] = Flush(a)
             /\ \A i \in DOMAIN t : \E j \in DOMAIN (<<Flush(a)>> \o t) : (<<Flush(a)>> \o t)[j] = t[i]
  <2>1. PICK c, p : c = Flush(a) /\ p = <<c>>
    OBVIOUS
  <2>2. c \in Item /\ ~Carries(c) /\ c.do = "flush" /\ c.on = a
    BY <2>1, ItemFacts
  <2>3. p \in Seq(Item) /\ DOMAIN p = {1} /\ p[1] = c
    BY <2>1, <2>2
  <2>4. a = event.on /\ event.dir \in {"in", "out"}
    <3>1. todo[1].do = "completed" /\ todo[1].on = a
      BY <1>2, <1>4, ItemFacts
    <3> QED BY <1>2, <3>1 DEF HandlerInv, TodoOK
  <2>5. \A i \in DOMAIN p :
          /\ Carries(p[i]) => i = 1 /\ p[i].msg \in Msgs
          /\ p[i].do \in {"flush", "completed"} => p[i].on = event.on /\ event.dir \in {"in", "out"}
    BY <2>2, <2>3, <2>4
  <2>6. PICK u : u = p \o t
    OBVIOUS
  <2>7. /\ TodoOK(u, event)
        /\ \A i \in DOMAIN p : i \in DOMAIN u /\ u[i] = p[i]
        /\ \A i \in DOMAIN t : \E j \in DOMAIN u : u[j] = t[i]
        /\ \A j \in DOMAIN u : Carries(u[j]) => j \in DOMAIN p
    <3>1. /\ TodoOK(p \o t, event)
          /\ \A i \in DOMAIN p : i \in DOMAIN (p \o t) /\ (p \o t)[i] = p[i]
          /\ \A i \in DOMAIN t : \E j \in DOMAIN (p \o t) : (p \o t)[j] = t[i]
          /\ \A j \in DOMAIN (p \o t) : Carries((p \o t)[j]) => j \in DOMAIN p
      BY <1>2, <2>3, <2>5, TodoPrefix
    <3> QED BY <2>6, <3>1
  <2>8. NoCarry(u) /\ \E j \in DOMAIN u : u[j] = c
    BY <2>2, <2>3, <2>7 DEF NoCarry
  <2> QED BY <2>1, <2>6, <2>7, <2>8
<1> QED BY <1>1, <1>3, <1>4

LEMMA HandlerHandler ==
  ASSUME AdapterInv, HandlerInv, reqq \in Seq(Msgs), HandlerStep
  PROVE  HandlerInv'
<1>1. todo # <<>>
  BY HandlerTodo
<1>2. PICK t, e : t = todo' /\ e = event'
  OBVIOUS
<1>3. e = IF t = <<>> THEN NoEvent ELSE event
  BY <1>2 DEF HandlerStep
<1>4. TodoOK(t, event)
  <2>1. TodoOK(todo, event) /\ TodoOK(Tail(todo), event)
    BY <1>1, TodoTail DEF HandlerInv
  <2>2. CASE todo' = <<>>
    BY <1>2, <2>2, EmptyTodo
  <2>3. CASE todo' = Tail(todo) \/ todo' = todo
    BY <1>2, <2>1, <2>3
  <2>4. CASE \E m \in Msgs, b \in Adapters : todo' = <<Call(m, b), Drain(b)>> \o Tail(todo)
    BY <1>1, <1>2, <2>4, FrontFacts
  <2>5. CASE \E a \in Adapters : Head(todo) = Completed(a) /\ todo' = <<Flush(a)>> \o Tail(todo)
    BY <1>1, <1>2, <2>5, FrontFacts
  <2> QED BY <2>2, <2>3, <2>4, <2>5, HandlerTodo
<1>5. TodoOK(t, e)
  BY <1>3, <1>4, EmptyTodo
<1>6. e \in [on : Adapters \cup {NoAdapter}, dir : {"none", "in", "out"}]
  BY <1>3 DEF NoEvent, HandlerInv
<1> QED BY <1>2, <1>5, <1>6 DEF HandlerInv

(* The handlers of the events of a connection. *)
Steps(a) == {Drain(a), Flush(a), Completed(a)}

LEMMA EventTodo ==
  ASSUME NEW a \in Adapters, NEW dir \in {"in", "out"}, NEW t \in Seq(Steps(a)), NEW e,
         e = IF t = <<>> THEN NoEvent ELSE [on |-> a, dir |-> dir]
  PROVE  /\ TodoOK(t, e) /\ NoCarry(t)
         /\ e \in [on : Adapters \cup {NoAdapter}, dir : {"none", "in", "out"}]
<1>1. e \in [on : Adapters \cup {NoAdapter}, dir : {"none", "in", "out"}]
  BY DEF NoEvent
<1>2. CASE t = <<>>
  BY <1>1, <1>2, EmptyTodo
<1>3. CASE t # <<>>
  <2>1. e.on = a /\ e.dir \in {"in", "out"}
    BY <1>3
  <2>2. \A i \in DOMAIN t : t[i] \in Steps(a)
    BY SeqFacts
  <2>3. \A x \in Steps(a) : x \in Item /\ ~Carries(x) /\ (x.do \in {"flush", "completed"} => x.on = a)
    BY ItemFacts DEF Steps
  <2>4. t \in Seq(Item)
    <3>1. Steps(a) \subseteq Item
      BY <2>3
    <3> QED BY <3>1
  <2>5. TodoOK(t, e)
    BY <2>1, <2>2, <2>3, <2>4 DEF TodoOK
  <2> QED BY <1>1, <2>2, <2>3, <2>5 DEF NoCarry
<1> QED BY <1>2, <1>3

LEMMA StepSeqs ==
  ASSUME NEW a \in Adapters
  PROVE  /\ <<Drain(a)>> \o (IF NeedAuth THEN <<>> ELSE OnRequest(a)) \in Seq(Steps(a))
         /\ OnRequest(a) \o AfterPackage(a) \in Seq(Steps(a))
         /\ OnRequest(a) \in Seq(Steps(a))
         /\ AfterPackage(a) \o AfterPackage(a) \in Seq(Steps(a))
         /\ AfterPackage(a) \in Seq(Steps(a))
         /\ ~NeedAuth => \E i \in DOMAIN (<<Drain(a)>> \o (IF NeedAuth THEN <<>> ELSE OnRequest(a))) :
              (<<Drain(a)>> \o (IF NeedAuth THEN <<>> ELSE OnRequest(a)))[i] = Flush(a)
         /\ \E i \in DOMAIN (OnRequest(a) \o AfterPackage(a)) :
              (OnRequest(a) \o AfterPackage(a))[i] = Flush(a)
         /\ \E i \in DOMAIN OnRequest(a) : OnRequest(a)[i] = Flush(a)
         /\ Serial => \E i \in DOMAIN (AfterPackage(a) \o AfterPackage(a)) :
              (AfterPackage(a) \o AfterPackage(a))[i] = Completed(a)
<1>1. PICK d, f, c : d = Drain(a) /\ f = Flush(a) /\ c = Completed(a)
  OBVIOUS
<1>2. d \in Steps(a) /\ f \in Steps(a) /\ c \in Steps(a)
  BY <1>1 DEF Steps
<1>3. PICK o, p, q : o = OnRequest(a) /\ p = AfterPackage(a) /\ q = <<d>>
  OBVIOUS
<1>4. o = <<f>> /\ p = IF Serial THEN <<d, c>> ELSE <<>>
  BY <1>1, <1>3 DEF OnRequest, AfterPackage
<1>5. /\ o \in Seq(Steps(a)) /\ p \in Seq(Steps(a)) /\ q \in Seq(Steps(a)) /\ <<>> \in Seq(Steps(a))
      /\ Len(o) = 1 /\ o[1] = f /\ 1 \in DOMAIN o
      /\ Len(q) = 1
      /\ Serial => Len(p) = 2 /\ p[2] = c
  BY <1>2, <1>3, <1>4
<1>6. PICK n : n = IF NeedAuth THEN <<>> ELSE o
  OBVIOUS
<1>7. n \in Seq(Steps(a)) /\ (~NeedAuth => Len(n) = 1 /\ n[1] = f)
  BY <1>5, <1>6
<1>8. /\ q \o n \in Seq(Steps(a))
      /\ ~NeedAuth => 2 \in DOMAIN (q \o n) /\ (q \o n)[2] = f
  <2>1. /\ q \o n \in Seq(Steps(a)) /\ Len(n) \in Nat
        /\ DOMAIN (q \o n) = 1..(Len(q) + Len(n))
        /\ \A i \in (Len(q) + 1)..(Len(q) + Len(n)) : (q \o n)[i] = n[i - Len(q)]
    <3>1. q \in Seq(Steps(a)) /\ n \in Seq(Steps(a))
      BY <1>5, <1>7
    <3> QED BY <3>1, ConcatFacts
  <2>2. ASSUME ~NeedAuth PROVE 2 \in DOMAIN (q \o n) /\ (q \o n)[2] = f
    <3>1. 2 \in (Len(q) + 1)..(Len(q) + Len(n)) /\ 2 - Len(q) = 1 /\ 2 \in 1..(Len(q) + Len(n))
      <4>1. Len(q) = 1 /\ Len(n) = 1
        BY <1>5, <1>7, <2>2
      <4> QED BY <4>1
    <3> QED BY <1>7, <2>1, <2>2, <3>1
  <2> QED BY <2>1, <2>2
<1>9. o \o p \in Seq(Steps(a)) /\ 1 \in DOMAIN (o \o p) /\ (o \o p)[1] = f
  <2>1. /\ o \o p \in Seq(Steps(a)) /\ Len(p) \in Nat
        /\ DOMAIN (o \o p) = 1..(Len(o) + Len(p))
        /\ \A i \in 1..Len(o) : (o \o p)[i] = o[i]
    <3>1. o \in Seq(Steps(a)) /\ p \in Seq(Steps(a))
      BY <1>5
    <3> QED BY <3>1, ConcatFacts
  <2> QED BY <1>5, <2>1
<1>10. /\ p \o p \in Seq(Steps(a))
       /\ Serial => 2 \in DOMAIN (p \o p) /\ (p \o p)[2] = c
  <2>1. /\ p \o p \in Seq(Steps(a)) /\ Len(p) \in Nat
        /\ DOMAIN (p \o p) = 1..(Len(p) + Len(p))
        /\ \A i \in 1..Len(p) : (p \o p)[i] = p[i]
    BY <1>5, ConcatFacts
  <2> QED BY <1>5, <2>1
<1>11. <<Drain(a)>> \o (IF NeedAuth THEN <<>> ELSE OnRequest(a)) = q \o n
  BY <1>1, <1>3, <1>6
<1> QED BY <1>1, <1>3, <1>5, <1>8, <1>9, <1>10, <1>11

LEMMA NextHandler ==
  ASSUME AdapterInv, HandlerInv, reqq \in Seq(Msgs), [Next]_vars
  PROVE  HandlerInv'
<1>1. CASE HandlerStep
  BY <1>1, HandlerHandler
<1>2. ASSUME todo' = todo, event' = event PROVE HandlerInv'
  BY <1>2 DEF HandlerInv, TodoOK
<1>3. ASSUME event' = event, NEW x \in Item, todo' = <<x>>, Carries(x), x.msg \in Msgs PROVE HandlerInv'
  <2>1. x.do \notin {"flush", "completed"}
    BY <1>3 DEF Carries
  <2>2. PICK t : t = <<x>>
    OBVIOUS
  <2>3. t \in Seq(Item) /\ \A i \in DOMAIN t : i = 1 /\ t[i] = x
    BY <2>2
  <2>4. TodoOK(t, event)
    BY <1>3, <2>1, <2>3 DEF TodoOK
  <2>5. TodoOK(todo', event')
    BY <1>3, <2>2, <2>4
  <2> QED BY <1>3, <2>5 DEF HandlerInv, TodoOK
<1>4. ASSUME NEW a \in Adapters, NEW dir \in {"in", "out"}, NEW rest \in Seq(Steps(a)), Take(a, dir, rest)
      PROVE  HandlerInv'
  <2>1. PICK e : e = event'
    OBVIOUS
  <2>2. e = (IF rest = <<>> THEN NoEvent ELSE [on |-> a, dir |-> dir]) /\ todo' = rest
    BY <1>4, <2>1 DEF Take
  <2>3. /\ TodoOK(rest, e)
        /\ e \in [on : Adapters \cup {NoAdapter}, dir : {"none", "in", "out"}]
    BY <2>2, EventTodo
  <2> QED BY <2>1, <2>2, <2>3 DEF HandlerInv
<1>5. ASSUME NEW m \in Msgs, Invoke(m) PROVE HandlerInv'
  <2>1. event' = event /\ (todo' = todo \/ \E a \in Adapters \cup {NoAdapter} : todo' = <<Dispatch(m, a)>>)
    BY <1>5 DEF Invoke
  <2> QED BY <1>2, <1>3, <2>1, CallFacts
<1>6. ASSUME NEW m \in Msgs, NEW a \in Adapters, doKeepAlive(m, a) PROVE HandlerInv'
  <2>1. event' = event /\ todo' = <<Call(m, a)>>
    BY <1>6 DEF doKeepAlive
  <2> QED BY <1>3, <2>1, CallFacts
<1>7. CASE RegistryAnswer
  BY <1>2, <1>7 DEF RegistryAnswer
<1>8. ASSUME NEW a \in Adapters, Event(a) PROVE HandlerInv'
  <2>1. CASE connect(a) \/ tcpClose(a) \/ AdapterTimeout(a)
    BY <1>2, <2>1 DEF connect, tcpClose, AdapterTimeout
  <2>2. CASE setConnected(a) \/ doAuthCheck(a) \/ doRequest(a) \/ onParserCallback(a) \/ doProtocolAnalysis(a)
    <3>1. \E dir \in {"in", "out"}, rest \in Seq(Steps(a)) : Take(a, dir, rest)
      BY <2>2, StepSeqs DEF setConnected, doAuthCheck, doRequest, onParserCallback, doProtocolAnalysis
    <3> QED BY <1>4, <3>1
  <2> QED BY <1>8, <2>1, <2>2 DEF Event
<1>9. ASSUME NEW m \in Msgs, Expire(m) PROVE HandlerInv'
  BY <1>2, <1>9 DEF Expire
<1>10. CASE ReqTimeout
  BY <1>2, <1>10 DEF ReqTimeout
<1>11. CASE vars' = vars
  BY <1>2, <1>11 DEF vars
<1>12. Ping \subseteq Msgs
  BY DEF Msgs
<1> QED BY <1>1, <1>5, <1>6, <1>7, <1>8, <1>9, <1>10, <1>11, <1>12 DEF Next

-----------------------------------------------------------------------------
(* StallInv *)

LEMMA HelpTail ==
  ASSUME HandlerInv, NEW a, Helped(a, todo)
  PROVE  /\ todo # <<>>
         /\ Head(todo).do \notin {"flush", "completed"} \/ Head(todo).on # a => Helped(a, Tail(todo))
         /\ event.on = a /\ event.dir \in {"in", "out"}
<1>1. PICK i \in DOMAIN todo : todo[i] \in {Flush(a), Completed(a)}
  BY DEF Helped
<1>2. todo[i].do \in {"flush", "completed"} /\ todo[i].on = a
  BY <1>1, ItemFacts
<1>3. event.on = a /\ event.dir \in {"in", "out"} /\ todo \in Seq(Item)
  BY <1>2 DEF HandlerInv, TodoOK
<1>4. todo # <<>>
  BY <1>1
<1>5. ASSUME Head(todo).do \notin {"flush", "completed"} \/ Head(todo).on # a
      PROVE  Helped(a, Tail(todo))
  <2>1. /\ Head(todo) = todo[1]
        /\ \A k \in DOMAIN todo : k # 1 => k - 1 \in DOMAIN Tail(todo) /\ Tail(todo)[k - 1] = todo[k]
    BY <1>3, <1>4, TailFacts
  <2>2. i # 1
    BY <1>2, <1>5, <2>1
  <2>3. i - 1 \in DOMAIN Tail(todo) /\ Tail(todo)[i - 1] \in {Flush(a), Completed(a)}
    BY <1>1, <2>1, <2>2
  <2> QED BY <2>3 DEF Helped
<1> QED BY <1>3, <1>4, <1>5

(* It is enough that whoever can send now could before. *)
LEMMA StallKeeps ==
  ASSUME StallInv,
         \A b \in Adapters : CanSend(store'[b], link'[b], current'[b]) =>
           \/ Helped(b, todo')
           \/ /\ CanSend(store[b], link[b], current[b])
              /\ Helped(b, todo) => Helped(b, todo')
  PROVE  StallInv'
BY DEF StallInv, CanSend, Helped, Flush, Completed

(* A throw ends the handler, but also the connection it would have seen to. *)
LEMMA ThrowStall ==
  ASSUME AdapterInv, HandlerInv, StallInv, NEW a \in Adapters, link' \in Thrown(a),
         current' = current, \A b \in Adapters : store'[b].unsent = store[b].unsent
  PROVE  StallInv'
<1>1. SUFFICES ASSUME NEW b \in Adapters, CanSend(store'[b], link'[b], current'[b]) PROVE FALSE
  BY DEF StallInv, CanSend, Helped, Flush, Completed
<1>2. PICK k : k = link'
  OBVIOUS
<1>3. /\ k[b] = link[b] \/ ~(k[b].st = "ready" /\ k[b].watched)
      /\ event.on = b /\ event.dir \in {"in", "out"} => ~(k[b].st = "ready" /\ k[b].watched)
  BY <1>2, ThrownFacts
<1>4. CanSend(store[b], link[b], current[b]) /\ k[b].st = "ready" /\ k[b].watched
  BY <1>1, <1>2, <1>3 DEF CanSend
<1>5. Helped(b, todo)
  BY <1>4 DEF StallInv
<1> QED BY <1>3, <1>4, <1>5, HelpTail

LEMMA InvokeStall ==
  ASSUME AdapterInv, HandlerInv, StallInv, NEW m \in Msgs, NEW a \in Adapters, NEW rest,
         AdapterInvoke(m, a, rest), \A b \in Adapters : Helped(b, todo) => Helped(b, rest)
  PROVE  StallInv'
<1>1. store[a] \in StoreSet /\ NextId(a) \in Nat
  BY AdapterFields, IdFacts
<1>2. ASSUME NEW s, NEW l, NEW c, Updates(a, s, l, c), todo' = rest,
             CanSend(s, l, c) => CanSend(store[a], link[a], current[a])
      PROVE  StallInv'
  <2>1. /\ store'[a] = s /\ link'[a] = l /\ current'[a] = c
        /\ \A b \in Adapters : b # a =>
             store'[b] = store[b] /\ link'[b] = link[b] /\ current'[b] = current[b]
    BY <1>2, UpdatesFacts
  <2>2. ASSUME NEW b \in Adapters, CanSend(store'[b], link'[b], current'[b])
        PROVE  CanSend(store[b], link[b], current[b]) /\ (Helped(b, todo) => Helped(b, todo'))
    <3>1. Helped(b, todo) => Helped(b, todo')
      BY <1>2
    <3>2. CASE b = a
      BY <1>2, <2>1, <2>2, <3>1, <3>2
    <3>3. CASE b # a
      <4>1. store'[b] = store[b] /\ link'[b] = link[b] /\ current'[b] = current[b]
        BY <2>1, <3>3
      <4> QED BY <2>2, <3>1, <4>1
    <3> QED BY <3>2, <3>3
  <2> QED BY <2>2, StallKeeps
<1>3. CASE Refused(m, a, rest)
  <2>1. PICK id \in Nat, l \in {link[a], Down} :
          Updates(a, WithLast(store[a], id), l, current[a]) /\ todo' = rest
    BY <1>3 DEF Refused
  <2>2. PICK s : s = WithLast(store[a], id)
    OBVIOUS
  <2>3. s.unsent = store[a].unsent
    BY <1>1, <2>2, LastFacts
  <2>4. CanSend(s, l, current[a]) => CanSend(store[a], link[a], current[a])
    BY <2>3, DownFacts DEF CanSend
  <2> QED BY <1>2, <2>1, <2>2, <2>4
<1>4. CASE Parked(m, a, rest)
  <2>1. /\ Updates(a, Put(store[a], m, NextId(a), FALSE), link[a], current[a])
        /\ todo' = rest /\ Busy(a)
    BY <1>4 DEF Parked
  <2>2. PICK s : s = Put(store[a], m, NextId(a), FALSE)
    OBVIOUS
  <2>3. CanSend(s, link[a], current[a]) => CanSend(store[a], link[a], current[a])
    BY <2>1 DEF CanSend, Busy, SendNow
  <2> QED BY <1>2, <2>1, <2>2, <2>3
<1>5. CASE Launched(m, a, rest)
  <2>1. PICK s, l, c :
          /\ Updates(a, s, l, c) /\ todo' = rest
          /\ s = WithLast(store[a], NextId(a)) \/ s = Put(store[a], m, NextId(a), TRUE)
    BY <1>5 DEF Launched
  <2>2. store[a].unsent = <<>>
    BY <1>5 DEF Launched, Busy, SendNow
  <2>3. s.unsent = store[a].unsent
    <3>1. CASE s = WithLast(store[a], NextId(a))
      BY <1>1, <3>1, LastFacts
    <3>2. CASE s = Put(store[a], m, NextId(a), TRUE)
      BY <3>2 DEF Put
    <3> QED BY <2>1, <3>1, <3>2
  <2>4. ~CanSend(s, l, c)
    BY <2>2, <2>3 DEF CanSend
  <2> QED BY <1>2, <2>1, <2>4
<1>6. CASE Unwound(m, a)
  <2>1. PICK s : s = WithLast(store[a], NextId(a))
    OBVIOUS
  <2>2. s.unsent = store[a].unsent
    BY <1>1, <2>1, LastFacts
  <2>3. store' = [store EXCEPT ![a] = s] /\ current' = current /\ link' \in Thrown(a)
    BY <1>6, <2>1 DEF Unwound
  <2>4. \A b \in Adapters : store'[b].unsent = store[b].unsent
    BY <2>2, <2>3 DEF AdapterInv
  <2> QED BY <2>3, <2>4, ThrowStall
<1> QED BY <1>3, <1>4, <1>5, <1>6, InvokeSplit

LEMMA FlushStall ==
  ASSUME AdapterInv, HandlerInv, StallInv, NEW a \in Adapters, store[a].unsent # <<>>,
         Running(Flush(a)),
         \/ ~Serial /\ doInvoke_parallel(a)
         \/ Serial /\ current[a] = NoMsg /\ doInvoke_serial(a)
  PROVE  StallInv'
<1>1. Head(todo).on = a /\ todo # <<>> /\ Head(todo) = Flush(a)
  BY ItemFacts DEF Running
<1>2. \A b \in Adapters : b # a /\ Helped(b, todo) => Helped(b, Tail(todo))
  BY <1>1, HelpTail
<1>3. /\ link[a] \in LinkSet /\ Oldest(a) \in Msgs /\ Oldest(a) # NoMsg
      /\ Encoded(Oldest(a), First(a)) \in Req
      /\ Encoded(Oldest(a), First(a)).msg = Oldest(a)
  BY AdapterFields, OldestFacts, NullAssumption
<1>4. Helped(a, todo)
  <2>1. 1 \in DOMAIN todo /\ todo[1] = Flush(a)
    BY <1>1, TodoTail DEF HandlerInv
  <2> QED BY <2>1 DEF Helped
<1>5. ASSUME NEW s, NEW l, NEW c, Updates(a, s, l, c), todo' = todo \/ todo' = Tail(todo),
             CanSend(s, l, c) => todo' = todo
      PROVE  StallInv'
  <2>1. /\ store'[a] = s /\ link'[a] = l /\ current'[a] = c
        /\ \A b \in Adapters : b # a =>
             store'[b] = store[b] /\ link'[b] = link[b] /\ current'[b] = current[b]
    BY <1>5, UpdatesFacts
  <2>2. ASSUME NEW b \in Adapters, CanSend(store'[b], link'[b], current'[b])
        PROVE  \/ Helped(b, todo')
               \/ CanSend(store[b], link[b], current[b]) /\ (Helped(b, todo) => Helped(b, todo'))
    <3>1. CASE b = a
      <4>1. CanSend(s, l, c)
        BY <2>1, <2>2, <3>1
      <4> QED BY <1>4, <1>5, <3>1, <4>1
    <3>2. CASE b # a
      <4>1. store'[b] = store[b] /\ link'[b] = link[b] /\ current'[b] = current[b]
        BY <2>1, <3>2
      <4>2. Helped(b, todo) => Helped(b, todo')
        BY <1>2, <1>5, <3>2
      <4> QED BY <2>2, <4>1, <4>2
    <3> QED BY <3>1, <3>2
  <2> QED BY <2>2, StallKeeps
<1>6. CASE Flushed(a)
  <2>1. PICK s, l, c :
          /\ Updates(a, s, l, c) /\ (Serial => c = Oldest(a))
          /\ \/ todo' = todo
             \/ todo' = Tail(todo) /\ (Serial \/ l.buf # NoReq)
    <3>1. PICK l \in Loaded(link[a], Encoded(Oldest(a), First(a))) :
            /\ \/ Updates(a, PopSend(store[a]), l, IF Serial THEN Oldest(a) ELSE NoMsg)
               \/ ~Serial /\ Updates(a, Erase(store[a], First(a)), l, NoMsg)
            /\ \/ todo' = todo
               \/ todo' = Tail(todo) /\ (Serial \/ l.buf # NoReq)
      BY <1>6 DEF Flushed
    <3>2. CASE Updates(a, PopSend(store[a]), l, IF Serial THEN Oldest(a) ELSE NoMsg)
      BY <3>1, <3>2
    <3>3. CASE ~Serial /\ Updates(a, Erase(store[a], First(a)), l, NoMsg)
      BY <3>1, <3>3
    <3> QED BY <3>1, <3>2, <3>3
  <2>2. CanSend(s, l, c) => todo' = todo
    BY <1>3, <2>1 DEF CanSend
  <2> QED BY <1>5, <2>1, <2>2
<1>7. CASE FlushStuck(a)
  <2>1. Updates(a, store[a], link[a], current[a]) /\ todo' = Tail(todo)
    BY <1>7, SameAdapter DEF FlushStuck, Updates
  <2>2. ~CanSend(store[a], link[a], current[a])
    BY <1>7 DEF FlushStuck, CanSend
  <2> QED BY <1>5, <2>1, <2>2
<1>8. CASE FlushBroken(a)
  <2>1. PICK s, c : Updates(a, s, Down, c) /\ todo' = Tail(todo)
    BY <1>8 DEF FlushBroken
  <2>2. ~CanSend(s, Down, c)
    BY DownFacts DEF CanSend
  <2> QED BY <1>5, <2>1, <2>2
<1>9. CASE FlushThrown(a)
  <2>1. link' \in Thrown(a) /\ current' = current /\ store' = store
    BY <1>9 DEF FlushThrown
  <2> QED BY <2>1, ThrowStall
<1> QED BY <1>6, <1>7, <1>8, <1>9, FlushSplit

(* A step that leaves the stores alone and only begins connections. *)
LEMMA BeginStall ==
  ASSUME AdapterInv, StallInv, store' = store, current' = current,
         link' = link \/ \E C : link' = Connecting(C),
         \A b \in Adapters : CanSend(store[b], link[b], current[b]) /\ Helped(b, todo) => Helped(b, todo')
  PROVE  StallInv'
<1>1. PICK k : k = link'
  OBVIOUS
<1>2. \A b \in Adapters : k[b] = link[b] \/ k[b].st = "connecting"
  BY <1>1, ConnectingFacts
<1>3. ASSUME NEW b \in Adapters, CanSend(store'[b], link'[b], current'[b])
      PROVE  CanSend(store[b], link[b], current[b]) /\ (Helped(b, todo) => Helped(b, todo'))
  <2>1. CanSend(store[b], link[b], current[b])
    BY <1>1, <1>2, <1>3 DEF CanSend
  <2> QED BY <2>1
<1> QED BY <1>3, StallKeeps

LEMMA HandlerStall ==
  ASSUME AdapterInv, HandlerInv, StallInv, reqq \in Seq(Msgs), HandlerStep
  PROVE  StallInv'
<1>1. ASSUME Head(todo).do \notin {"flush", "completed"}, NEW b \in Adapters, Helped(b, todo)
      PROVE  Helped(b, Tail(todo))
  BY <1>1, HelpTail
<1>2. CASE DispatchStep
  <2>1. PICK m \in Msgs, a \in Adapters \cup {NoAdapter} :
          /\ Running(Dispatch(m, a))
          /\ \/ todo' = Tail(todo) /\ UNCHANGED <<store, current, link>>
             \/ a # NoAdapter /\ AdapterInvoke(m, a, Tail(todo))
    BY <1>2 DEF DispatchStep
  <2>2. Head(todo).do \notin {"flush", "completed"}
    BY <2>1, CallFacts DEF Running
  <2>3. CASE todo' = Tail(todo) /\ UNCHANGED <<store, current, link>>
    BY <1>1, <2>2, <2>3, BeginStall
  <2>4. CASE a # NoAdapter /\ AdapterInvoke(m, a, Tail(todo))
    BY <1>1, <2>2, <2>4, InvokeStall
  <2> QED BY <2>1, <2>3, <2>4
<1>3. CASE CallStep
  <2>1. PICK m \in Msgs, a \in Adapters : Running(Call(m, a)) /\ AdapterInvoke(m, a, Tail(todo))
    BY <1>3 DEF CallStep
  <2>2. Head(todo).do \notin {"flush", "completed"}
    BY <2>1, CallFacts DEF Running
  <2> QED BY <1>1, <2>1, <2>2, InvokeStall
<1>4. CASE prepareConnection
  <2>1. PICK a \in Adapters :
          /\ Running(Drain(a))
          /\ \/ todo' = Tail(todo) /\ UNCHANGED <<store, current, link>>
             \/ reqq # <<>> /\ AdapterInvoke(Head(reqq), a, todo)
             \/ /\ reqq # <<>> /\ UNCHANGED <<store, current>> /\ \E C : link' = Connecting(C)
                /\ \E b \in Adapters : todo' = <<Call(Head(reqq), b), Drain(b)>> \o Tail(todo)
    BY <1>4 DEF prepareConnection
  <2>2. Head(todo).do \notin {"flush", "completed"} /\ todo # <<>>
    BY <2>1, ItemFacts DEF Running
  <2>3. CASE todo' = Tail(todo) /\ UNCHANGED <<store, current, link>>
    BY <1>1, <2>2, <2>3, BeginStall
  <2>4. reqq # <<>> => Head(reqq) \in Msgs
    BY TailFacts
  <2>5. CASE reqq # <<>> /\ AdapterInvoke(Head(reqq), a, todo)
    BY <2>4, <2>5, InvokeStall
  <2>6. CASE /\ reqq # <<>> /\ UNCHANGED <<store, current>> /\ \E C : link' = Connecting(C)
             /\ \E b \in Adapters : todo' = <<Call(Head(reqq), b), Drain(b)>> \o Tail(todo)
    <3>1. PICK b, u : b \in Adapters /\ u = todo' /\ todo' = <<Call(Head(reqq), b), Drain(b)>> \o Tail(todo)
      BY <2>6
    <3>2. \A i \in DOMAIN Tail(todo) : \E j \in DOMAIN u : u[j] = Tail(todo)[i]
      BY <2>2, <2>4, <2>6, <3>1, FrontFacts, ZenonT(60)
    <3>3. \A c \in Adapters : Helped(c, todo) => Helped(c, u)
      BY <1>1, <2>2, <3>2 DEF Helped
    <3> QED BY <2>6, <3>1, <3>3, BeginStall
  <2> QED BY <2>1, <2>3, <2>5, <2>6
<1>5. CASE doInvoke
  <2>1. PICK a \in Adapters :
          /\ Running(Flush(a))
          /\ \/ /\ store[a].unsent = <<>> \/ (Serial /\ current[a] # NoMsg)
                /\ todo' = Tail(todo) /\ UNCHANGED <<store, current, link>>
             \/ /\ store[a].unsent # <<>>
                /\ \/ ~Serial /\ doInvoke_parallel(a)
                   \/ Serial /\ current[a] = NoMsg /\ doInvoke_serial(a)
    BY <1>5 DEF doInvoke
  <2>2. CASE /\ store[a].unsent = <<>> \/ (Serial /\ current[a] # NoMsg)
             /\ todo' = Tail(todo) /\ UNCHANGED <<store, current, link>>
    <3>1. ~CanSend(store[a], link[a], current[a])
      BY <2>2 DEF CanSend
    <3>2. Head(todo).on = a
      BY <2>1, ItemFacts DEF Running
    <3>3. \A b \in Adapters : b # a /\ Helped(b, todo) => Helped(b, Tail(todo))
      BY <3>2, HelpTail
    <3> QED BY <2>2, <3>1, <3>3, BeginStall
  <2> QED BY <2>1, <2>2, FlushStall
<1>6. CASE onCompletePackage
  <2>1. PICK a \in Adapters :
          /\ Running(Completed(a)) /\ UNCHANGED <<store, current>>
          /\ \/ todo' = <<Flush(a)>> \o Tail(todo) /\ link' = link
             \/ /\ store[a].unsent = <<>> \/ ~hasConnected(a)
                /\ todo' = Tail(todo) /\ (link' = link \/ \E C : link' = Connecting(C))
    BY <1>6 DEF onCompletePackage
  <2>2. Head(todo).on = a /\ todo # <<>> /\ Head(todo) = Completed(a)
    BY <2>1, ItemFacts DEF Running
  <2>3. \A b \in Adapters : b # a /\ Helped(b, todo) => Helped(b, Tail(todo))
    BY <2>2, HelpTail
  <2>4. CASE todo' = <<Flush(a)>> \o Tail(todo) /\ link' = link
    <3>1. PICK u : u = todo'
      OBVIOUS
    <3>2. /\ \A i \in DOMAIN Tail(todo) : \E j \in DOMAIN u : u[j] = Tail(todo)[i]
          /\ \E j \in DOMAIN u : u[j] = Flush(a)
      BY <2>2, <2>4, <3>1, FrontFacts
    <3>3. Helped(a, u)
      BY <3>2 DEF Helped
    <3>4. \A b \in Adapters : Helped(b, todo) => Helped(b, u)
      BY <2>3, <3>2, <3>3 DEF Helped
    <3> QED BY <2>1, <2>4, <3>1, <3>4, BeginStall
  <2>5. CASE /\ store[a].unsent = <<>> \/ ~hasConnected(a)
             /\ todo' = Tail(todo) /\ (link' = link \/ \E C : link' = Connecting(C))
    <3>1. ~CanSend(store[a], link[a], current[a])
      BY <2>5 DEF CanSend, hasConnected
    <3> QED BY <2>1, <2>3, <2>5, <3>1, BeginStall
  <2> QED BY <2>1, <2>4, <2>5
<1> QED BY <1>2, <1>3, <1>4, <1>5, <1>6 DEF HandlerStep

(* An event of connection a, taken when nothing runs. *)
LEMMA EventStall ==
  ASSUME AdapterInv, StallInv, todo = <<>>, NEW a \in Adapters, NEW s, NEW l, NEW c,
         Updates(a, s, l, c),
         CanSend(s, l, c) => Helped(a, todo') \/ CanSend(store[a], link[a], current[a])
  PROVE  StallInv'
<1>1. \A b \in Adapters : ~CanSend(store[b], link[b], current[b])
  <2>1. DOMAIN todo = {}
    OBVIOUS
  <2> QED BY <2>1 DEF StallInv, Helped
<1>2. /\ store'[a] = s /\ link'[a] = l /\ current'[a] = c
      /\ \A b \in Adapters : b # a =>
           store'[b] = store[b] /\ link'[b] = link[b] /\ current'[b] = current[b]
  BY UpdatesFacts
<1>3. ASSUME NEW b \in Adapters, CanSend(store'[b], link'[b], current'[b])
      PROVE  Helped(b, todo')
  <2>1. CASE b = a
    BY <1>1, <1>2, <1>3, <2>1
  <2>2. CASE b # a
    <3>1. store'[b] = store[b] /\ link'[b] = link[b] /\ current'[b] = current[b]
      BY <1>2, <2>2
    <3> QED BY <1>1, <1>3, <3>1
  <2> QED BY <2>1, <2>2
<1> QED BY <1>3, StallKeeps

LEMMA EventsStall ==
  ASSUME AdapterInv, HandlerInv, StallInv, NEW a \in Adapters, Event(a)
  PROVE  StallInv'
<1>1. AdapterOK(store[a], link[a], current[a]) /\ store[a] \in StoreSet /\ link[a] \in LinkSet
      /\ StoreOK(store[a]) /\ mode \in Modes /\ CurrentOK(store[a], link[a], current[a])
  BY AdapterFields
<1>2. ASSUME NEW l, link' = [link EXCEPT ![a] = l], store' = store, current' = current
      PROVE  Updates(a, store[a], l, current[a])
  BY <1>2, SameAdapter DEF Updates
<1>3. ASSUME NEW x, link' = [link EXCEPT ![a].st = x], store' = store, current' = current,
             todo = <<>>, x = "ready" => Helped(a, todo')
      PROVE  StallInv'
  <2>1. PICK l : l = [link[a] EXCEPT !.st = x]
    OBVIOUS
  <2>2. l.st = x
    BY <1>1, <2>1 DEF LinkSet
  <2>3. Updates(a, store[a], l, current[a])
    BY <1>2, <1>3, <2>1
  <2>4. CanSend(store[a], l, current[a]) => Helped(a, todo')
    BY <1>3, <2>2 DEF CanSend
  <2> QED BY <1>3, <2>3, <2>4, EventStall
<1>4. CASE connect(a)
  <2>1. /\ store' = store /\ current' = current /\ \E C : link' = Connecting(C)
        /\ todo' = todo
    BY <1>4 DEF connect
  <2> QED BY <2>1, BeginStall
<1>5. CASE setConnected(a)
  <2>1. /\ link' = [link EXCEPT ![a].st = IF NeedAuth THEN "connected" ELSE "ready"]
        /\ store' = store /\ current' = current /\ todo = <<>>
        /\ todo' = <<Drain(a)>> \o (IF NeedAuth THEN <<>> ELSE OnRequest(a))
    BY <1>5 DEF setConnected, Take
  <2>2. PICK u, x : u = todo' /\ x = IF NeedAuth THEN "connected" ELSE "ready"
    OBVIOUS
  <2>3. ~NeedAuth => \E i \in DOMAIN u : u[i] = Flush(a)
    BY <2>1, <2>2, StepSeqs
  <2>4. x = "ready" => Helped(a, u)
    BY <2>2, <2>3 DEF Helped
  <2> QED BY <1>3, <2>1, <2>2, <2>4
<1>6. CASE doAuthCheck(a)
  <2>1. /\ link' = [link EXCEPT ![a].st = "ready"]
        /\ store' = store /\ current' = current /\ todo = <<>>
        /\ todo' = OnRequest(a) \o AfterPackage(a)
    BY <1>6 DEF doAuthCheck, Take
  <2>2. PICK u : u = todo'
    OBVIOUS
  <2>3. \E i \in DOMAIN u : u[i] = Flush(a)
    BY <2>1, <2>2, StepSeqs
  <2>4. Helped(a, u)
    BY <2>3 DEF Helped
  <2> QED BY <1>3, <2>1, <2>2, <2>4
<1>7. CASE tcpClose(a)
  <2>1. Updates(a, store[a], Down, current[a]) /\ todo = <<>>
    BY <1>2, <1>7 DEF tcpClose
  <2>2. ~CanSend(store[a], Down, current[a])
    BY DownFacts DEF CanSend
  <2> QED BY <2>1, <2>2, EventStall
<1>8. CASE doRequest(a)
  <2>1. PICK l : link' = [link EXCEPT ![a] = l]
    BY <1>8, FlushedLink
  <2>2. Updates(a, store[a], l, current[a]) /\ todo = <<>>
    BY <1>2, <1>8, <2>1 DEF doRequest
  <2>3. PICK u : u = todo'
    OBVIOUS
  <2>4. u = OnRequest(a)
    BY <1>8, <2>3 DEF doRequest, Take
  <2>5. Helped(a, u)
    BY <2>4, StepSeqs DEF Helped
  <2> QED BY <2>2, <2>3, <2>5, EventStall
<1>9. CASE onParserCallback(a)
  <2>1. todo = <<>> /\ todo' = AfterPackage(a) \o AfterPackage(a)
    BY <1>9 DEF onParserCallback, Take
  <2>2. PICK u : u = todo'
    OBVIOUS
  <2>3. Serial => Helped(a, u)
    BY <2>1, <2>2, StepSeqs DEF Helped
  <2>4. CASE Answered(a)
    <3>1. PICK id \in DOMAIN store[a].call, l \in LinkSet :
            /\ l = Down \/ (l.st = link[a].st /\ l.watched = link[a].watched /\ l.buf = link[a].buf)
            /\ Updates(a, Erase(store[a], id), l, NoMsg)
      BY <2>4 DEF Answered
    <3>2. PICK s : s = Erase(store[a], id)
      OBVIOUS
    <3>3. s.unsent # <<>> => store[a].unsent # <<>>
      <4>1. id \in Nat
        BY <1>1, StoreFields
      <4> QED BY <1>1, <3>2, <4>1, EraseFacts
    <3>4. ~Serial => current[a] = NoMsg
      BY <1>1 DEF CurrentOK
    <3>5. CanSend(s, l, NoMsg) => Helped(a, u) \/ CanSend(store[a], link[a], current[a])
      BY <2>3, <3>1, <3>3, <3>4, DownFacts DEF CanSend
    <3> QED BY <2>1, <2>2, <3>1, <3>2, <3>5, EventStall
  <2>5. CASE Dropped(a)
    <3>1. PICK l \in LinkSet :
            /\ l.st = link[a].st /\ l.watched = link[a].watched /\ l.buf = link[a].buf
            /\ Updates(a, store[a], l, current[a])
      BY <2>5 DEF Dropped
    <3>2. CanSend(store[a], l, current[a]) => CanSend(store[a], link[a], current[a])
      BY <3>1 DEF CanSend
    <3> QED BY <2>1, <3>1, <3>2, EventStall
  <2> QED BY <1>9, <2>4, <2>5, AnswerSplit
<1>10. CASE doProtocolAnalysis(a)
  <2>1. store' = store /\ current' = current /\ link' = link /\ todo = <<>>
    BY <1>10 DEF doProtocolAnalysis
  <2>2. \A b \in Adapters : ~Helped(b, todo)
    BY <2>1 DEF Helped
  <2> QED BY <2>1, <2>2, BeginStall
<1>11. CASE AdapterTimeout(a)
  <2>1. PICK id \in DOMAIN store[a].call, l \in {link[a], Down} :
          LET m == store[a].call[id]
              d == IF current[a] = m THEN NoMsg ELSE current[a]
          IN
          /\ m = current[a] => l = Down
          /\ Updates(a, Erase(store[a], id), l, d)
    BY <1>11, TimeoutSplit DEF TimedOut
  <2>2. PICK s, d : s = Erase(store[a], id) /\ d = IF current[a] = store[a].call[id] THEN NoMsg ELSE current[a]
    OBVIOUS
  <2>3. s.unsent # <<>> => store[a].unsent # <<>>
    <3>1. id \in Nat
      BY <1>1, StoreFields
    <3> QED BY <1>1, <2>2, <3>1, EraseFacts
  <2>4. Updates(a, s, l, d) /\ todo = <<>>
    BY <1>11, <2>1, <2>2 DEF AdapterTimeout
  <2>5. CanSend(s, l, d) => CanSend(store[a], link[a], current[a])
    BY <2>1, <2>2, <2>3, DownFacts DEF CanSend
  <2> QED BY <2>4, <2>5, EventStall
<1> QED BY <1>4, <1>5, <1>6, <1>7, <1>8, <1>9, <1>10, <1>11 DEF Event

LEMMA NextStall ==
  ASSUME AdapterInv, HandlerInv, StallInv, reqq \in Seq(Msgs), [Next]_vars
  PROVE  StallInv'
<1>1. CASE HandlerStep
  BY <1>1, HandlerStall
<1>2. ASSUME store' = store, current' = current, link' = link \/ \E C : link' = Connecting(C),
             todo = <<>> \/ todo' = todo
      PROVE  StallInv'
  <2>1. \A b \in Adapters : Helped(b, todo) => Helped(b, todo')
    BY <1>2 DEF Helped
  <2> QED BY <1>2, <2>1, BeginStall
<1>3. ASSUME NEW m \in Msgs, Invoke(m) PROVE StallInv'
  BY <1>2, <1>3 DEF Invoke
<1>4. ASSUME NEW m, NEW a \in Adapters, doKeepAlive(m, a) PROVE StallInv'
  BY <1>2, <1>4 DEF doKeepAlive
<1>5. CASE RegistryAnswer
  BY <1>2, <1>5 DEF RegistryAnswer
<1>6. ASSUME NEW m \in Msgs, Expire(m) PROVE StallInv'
  BY <1>2, <1>6 DEF Expire
<1>7. CASE ReqTimeout
  BY <1>2, <1>7 DEF ReqTimeout
<1>8. CASE vars' = vars
  BY <1>2, <1>8 DEF vars
<1> QED BY <1>1, <1>3, <1>4, <1>5, <1>6, <1>7, <1>8, EventsStall DEF Next

-----------------------------------------------------------------------------
(* OwnInv *)

(* Call x is moved to place p. *)
Move(w, x, p) == [w EXCEPT ![x] = p]

LEMMA MoveFacts ==
  ASSUME NEW w \in [Msgs -> Places], NEW x \in Msgs, NEW p \in Places
  PROVE  /\ Move(w, x, p) \in [Msgs -> Places] /\ Move(w, x, p)[x] = p
         /\ \A m \in Msgs : m # x => Move(w, x, p)[m] = w[m]
BY DEF Move

LEMMA OtherQueue ==
  ASSUME NEW w \in [Msgs -> Places], NEW x \in Msgs, NEW p \in Places, NEW q, InQueue(w, q),
         w[x] # "queue", p # "queue"
  PROVE  InQueue(Move(w, x, p), q)
<1>1. PICK v : v = Move(w, x, p)
  OBVIOUS
<1>2. v \in [Msgs -> Places] /\ v[x] = p /\ \A m \in Msgs : m # x => v[m] = w[m]
  BY <1>1, MoveFacts
<1>3. q \in Seq(Msgs) /\ \A i \in DOMAIN q : q[i] \in Msgs
  BY SeqFacts DEF InQueue
<1>4. InQueue(v, q)
  BY <1>2, <1>3 DEF InQueue
<1> QED BY <1>1, <1>4

LEMMA JoinQueue ==
  ASSUME NEW w \in [Msgs -> Places], NEW x \in Msgs, NEW q, InQueue(w, q), w[x] # "queue"
  PROVE  InQueue(Move(w, x, "queue"), Append(q, x))
<1>1. PICK v, u : v = Move(w, x, "queue") /\ u = Append(q, x)
  OBVIOUS
<1>2. v \in [Msgs -> Places] /\ v[x] = "queue" /\ \A m \in Msgs : m # x => v[m] = w[m]
  BY <1>1, MoveFacts DEF Places
<1>3. q \in Seq(Msgs) /\ \A i \in DOMAIN q : q[i] \in Msgs /\ q[i] # x
  BY SeqFacts DEF InQueue
<1>4. /\ u \in Seq(Msgs) /\ Len(q) + 1 \in DOMAIN u /\ u[Len(q) + 1] = x
      /\ \A i \in DOMAIN q : i \in DOMAIN u /\ u[i] = q[i]
  <2>1. /\ Append(q, x) \in Seq(Msgs) /\ Len(q) \in Nat /\ DOMAIN q = 1..Len(q)
        /\ DOMAIN Append(q, x) = 1..(Len(q) + 1) /\ Append(q, x)[Len(q) + 1] = x
        /\ \A i \in 1..Len(q) : Append(q, x)[i] = q[i]
    BY <1>3, AppendFacts
  <2> QED BY <1>1, <2>1
<1>5. ASSUME NEW i \in DOMAIN u
      PROVE  \/ i \in DOMAIN q /\ u[i] = q[i] /\ i # Len(q) + 1
             \/ i = Len(q) + 1 /\ u[i] = x
  BY <1>1, <1>3, AppendSplit
<1>6. \A i \in DOMAIN u : v[u[i]] = "queue"
  BY <1>2, <1>3, <1>5 DEF InQueue
<1>7. \A i, j \in DOMAIN u : u[i] = u[j] => i = j
  BY <1>3, <1>5 DEF InQueue
<1>8. \A m \in Msgs : v[m] = "queue" => \E i \in DOMAIN u : u[i] = m
  BY <1>2, <1>4 DEF InQueue
<1> QED BY <1>1, <1>4, <1>6, <1>7, <1>8 DEF InQueue

LEMMA LeaveQueue ==
  ASSUME NEW w \in [Msgs -> Places], NEW q, InQueue(w, q), NEW k \in DOMAIN q, NEW p \in Places,
         p # "queue", NEW u \in Seq(Msgs),
         \A i \in DOMAIN u : \E j \in DOMAIN q : j # k /\ u[i] = q[j] /\ (j = i \/ j = i + 1) /\ (j = i <=> i < k),
         \A j \in DOMAIN q : j # k => \E i \in DOMAIN u : u[i] = q[j]
  PROVE  InQueue(Move(w, q[k], p), u)
<1>1. q \in Seq(Msgs) /\ \A i \in DOMAIN q : q[i] \in Msgs /\ i \in Nat
  BY SeqFacts DEF InQueue
<1>2. PICK x, v : x = q[k] /\ v = Move(w, x, p)
  OBVIOUS
<1>3. x \in Msgs
  BY <1>1, <1>2
<1>4. v \in [Msgs -> Places] /\ v[x] = p /\ \A m \in Msgs : m # x => v[m] = w[m]
  BY <1>2, <1>3, MoveFacts
<1>5. \A j \in DOMAIN q : j # k => q[j] # x
  BY <1>2 DEF InQueue
<1>6. \A i \in DOMAIN u : v[u[i]] = "queue"
  BY <1>1, <1>4, <1>5 DEF InQueue
<1>7. ASSUME NEW i \in DOMAIN u, NEW j \in DOMAIN u, u[i] = u[j] PROVE i = j
  <2>1. PICK y \in DOMAIN q : y # k /\ u[i] = q[y] /\ (y = i \/ y = i + 1) /\ (y = i <=> i < k)
    OBVIOUS
  <2>2. PICK z \in DOMAIN q : z # k /\ u[j] = q[z] /\ (z = j \/ z = j + 1) /\ (z = j <=> j < k)
    OBVIOUS
  <2>3. y = z
    BY <1>7, <2>1, <2>2 DEF InQueue
  <2>4. i \in Nat /\ j \in Nat /\ k \in Nat
    BY <1>1, SeqFacts
  <2>5. CASE i < k
    BY <2>1, <2>2, <2>3, <2>4, <2>5
  <2>6. CASE ~(i < k)
    BY <2>1, <2>2, <2>3, <2>4, <2>6
  <2> QED BY <2>5, <2>6
<1>8. \A m \in Msgs : v[m] = "queue" => \E i \in DOMAIN u : u[i] = m
  <2>1. TAKE m \in Msgs
  <2>2. HAVE v[m] = "queue"
  <2>3. m # x /\ w[m] = "queue"
    BY <1>4, <2>2
  <2>4. PICK j \in DOMAIN q : q[j] = m
    BY <2>3 DEF InQueue
  <2> QED BY <1>2, <2>3, <2>4
<1> QED BY <1>2, <1>6, <1>7, <1>8 DEF InQueue

LEMMA PopQueue ==
  ASSUME NEW w \in [Msgs -> Places], NEW q, InQueue(w, q), q # <<>>, NEW p \in Places, p # "queue"
  PROVE  InQueue(Move(w, Head(q), p), Tail(q)) /\ Head(q) \in Msgs /\ w[Head(q)] = "queue"
<1>1. q \in Seq(Msgs)
  BY DEF InQueue
<1>2. PICK u : u = Tail(q)
  OBVIOUS
<1>3. /\ Head(q) = q[1] /\ 1 \in DOMAIN q /\ Head(q) \in Msgs /\ u \in Seq(Msgs)
      /\ \A i \in DOMAIN u : i + 1 \in DOMAIN q /\ u[i] = q[i + 1] /\ i \in Nat /\ i > 0
      /\ \A i \in DOMAIN q : i # 1 => i - 1 \in DOMAIN u /\ u[i - 1] = q[i]
  <2>1. /\ Head(q) = q[1] /\ 1 \in DOMAIN q /\ Head(q) \in Msgs /\ Tail(q) \in Seq(Msgs)
        /\ \A i \in DOMAIN Tail(q) : i + 1 \in DOMAIN q /\ Tail(q)[i] = q[i + 1] /\ i \in Nat /\ i > 0
        /\ \A i \in DOMAIN q : i # 1 => i - 1 \in DOMAIN Tail(q) /\ Tail(q)[i - 1] = q[i]
    BY <1>1, TailFacts
  <2> QED BY <1>2, <2>1
<1>4. ASSUME NEW i \in DOMAIN u
      PROVE  \E j \in DOMAIN q : j # 1 /\ u[i] = q[j] /\ (j = i \/ j = i + 1) /\ (j = i <=> i < 1)
  <2>1. i + 1 \in DOMAIN q /\ i + 1 # 1 /\ u[i] = q[i + 1] /\ i + 1 # i /\ ~(i < 1)
    BY <1>3
  <2> QED BY <2>1
<1>5. InQueue(Move(w, q[1], p), u)
  BY <1>3, <1>4, LeaveQueue
<1>6. w[q[1]] = "queue"
  BY <1>3 DEF InQueue
<1> QED BY <1>2, <1>3, <1>5, <1>6

LEMMA RemoveQueue ==
  ASSUME NEW w \in [Msgs -> Places], NEW q, InQueue(w, q), NEW k \in DOMAIN q, NEW p \in Places, p # "queue"
  PROVE  InQueue(Move(w, q[k], p), RemoveAt(q, k)) /\ q[k] \in Msgs /\ w[q[k]] = "queue"
<1>1. q \in Seq(Msgs)
  BY DEF InQueue
<1>2. DOMAIN q = 1..Len(q) /\ Len(q) \in Nat /\ \A i \in DOMAIN q : q[i] \in Msgs /\ i \in Nat
  BY <1>1, SeqFacts
<1>3. PICK u : u = RemoveAt(q, k)
  OBVIOUS
<1>4. /\ u \in Seq(Msgs) /\ DOMAIN u = 1..(Len(q) - 1)
      /\ \A i \in DOMAIN u : u[i] = IF i < k THEN q[i] ELSE q[i + 1]
  <2>1. /\ RemoveAt(q, k) \in Seq(Msgs) /\ DOMAIN RemoveAt(q, k) = 1..(Len(q) - 1)
        /\ \A i \in DOMAIN RemoveAt(q, k) : RemoveAt(q, k)[i] = IF i < k THEN q[i] ELSE q[i + 1]
    BY <1>1, RemoveFacts
  <2> QED BY <1>3, <2>1
<1>5. ASSUME NEW i \in DOMAIN u
      PROVE  \E j \in DOMAIN q : j # k /\ u[i] = q[j] /\ (j = i \/ j = i + 1) /\ (j = i <=> i < k)
  <2>1. i \in Nat /\ i >= 1 /\ i <= Len(q) - 1
    BY <1>2, <1>4
  <2>2. CASE i < k
    BY <1>2, <1>4, <2>1, <2>2
  <2>3. CASE ~(i < k)
    <3>1. i + 1 \in DOMAIN q /\ i + 1 # k /\ i + 1 # i
      BY <1>2, <2>1, <2>3
    <3> QED BY <1>4, <2>3, <3>1
  <2> QED BY <2>2, <2>3
<1>6. ASSUME NEW j \in DOMAIN q, j # k PROVE \E i \in DOMAIN u : u[i] = q[j]
  <2>1. CASE j < k
    <3>1. j \in DOMAIN u
      BY <1>2, <1>4, <2>1
    <3> QED BY <1>4, <2>1, <3>1
  <2>2. CASE ~(j < k)
    <3>1. j - 1 \in DOMAIN u /\ ~(j - 1 < k) /\ (j - 1) + 1 = j
      BY <1>2, <1>4, <1>6, <2>2
    <3> QED BY <1>4, <3>1
  <2> QED BY <2>1, <2>2
<1>7. InQueue(Move(w, q[k], p), u)
  <2>1. u \in Seq(Msgs)
    BY <1>4
  <2>2. \A i \in DOMAIN u :
          \E j \in DOMAIN q : j # k /\ u[i] = q[j] /\ (j = i \/ j = i + 1) /\ (j = i <=> i < k)
    BY <1>5
  <2>3. \A j \in DOMAIN q : j # k => \E i \in DOMAIN u : u[i] = q[j]
    BY <1>6
  <2> QED BY <2>1, <2>2, <2>3, LeaveQueue
<1>8. w[q[k]] = "queue"
  BY DEF InQueue
<1> QED BY <1>2, <1>3, <1>7, <1>8

LEMMA SameStore ==
  ASSUME NEW w, NEW s, InStore(w, s), NEW t, \A b \in Adapters : t[b].call = s[b].call
  PROVE  InStore(w, t)
BY DEF InStore

LEMMA OtherStore ==
  ASSUME NEW w \in [Msgs -> Places], NEW x \in Msgs, NEW p \in Places, NEW s, InStore(w, s),
         \A b \in Adapters : s[b] \in StoreSet, w[x] # "store", p # "store"
  PROVE  InStore(Move(w, x, p), s)
<1>1. PICK v : v = Move(w, x, p)
  OBVIOUS
<1>2. v \in [Msgs -> Places] /\ v[x] = p /\ \A m \in Msgs : m # x => v[m] = w[m]
  BY <1>1, MoveFacts
<1>3. \A b \in Adapters : \A i \in DOMAIN s[b].call : s[b].call[i] \in Msgs
  BY StoreFields
<1>4. InStore(v, s)
  BY <1>2, <1>3 DEF InStore
<1> QED BY <1>1, <1>4

LEMMA JoinStore ==
  ASSUME NEW w \in [Msgs -> Places], NEW x \in Msgs, NEW s, InStore(w, s),
         \A b \in Adapters : s[b] \in StoreSet, w[x] # "store",
         NEW a \in Adapters, NEW id, id \notin DOMAIN s[a].call, NEW t,
         \A b \in Adapters : b # a => t[b] = s[b],
         DOMAIN t[a].call = DOMAIN s[a].call \cup {id}, t[a].call[id] = x,
         \A i \in DOMAIN s[a].call : i # id => t[a].call[i] = s[a].call[i]
  PROVE  InStore(Move(w, x, "store"), t)
<1>1. PICK v : v = Move(w, x, "store")
  OBVIOUS
<1>2. v \in [Msgs -> Places] /\ v[x] = "store" /\ \A m \in Msgs : m # x => v[m] = w[m]
  BY <1>1, MoveFacts DEF Places
<1>3. \A b \in Adapters : \A i \in DOMAIN s[b].call : s[b].call[i] \in Msgs /\ s[b].call[i] # x
  BY StoreFields DEF InStore
<1>4. ASSUME NEW b \in Adapters, NEW i \in DOMAIN t[b].call
      PROVE  \/ b = a /\ i = id /\ t[b].call[i] = x
             \/ i \in DOMAIN s[b].call /\ t[b].call[i] = s[b].call[i]
  <2>1. CASE b # a
    BY <1>4, <2>1
  <2>2. CASE b = a /\ i = id
    BY <2>2
  <2>3. CASE b = a /\ i # id
    BY <1>4, <2>3
  <2> QED BY <2>1, <2>2, <2>3
<1>5. \A b \in Adapters : \A i \in DOMAIN s[b].call : i \in DOMAIN t[b].call /\ t[b].call[i] = s[b].call[i]
  <2>1. ASSUME NEW b \in Adapters, NEW i \in DOMAIN s[b].call
        PROVE  i \in DOMAIN t[b].call /\ t[b].call[i] = s[b].call[i]
    <3>1. CASE b # a
      BY <2>1, <3>1
    <3>2. CASE b = a
      <4>1. i # id /\ i \in DOMAIN s[a].call
        BY <2>1, <3>2
      <4> QED BY <3>2, <4>1
    <3> QED BY <3>1, <3>2
  <2> QED BY <2>1
<1>6. \A b \in Adapters : \A i \in DOMAIN t[b].call : v[t[b].call[i]] = "store"
  BY <1>2, <1>3, <1>4 DEF InStore
<1>7. \A b, c \in Adapters : \A i \in DOMAIN t[b].call, j \in DOMAIN t[c].call :
        t[b].call[i] = t[c].call[j] => b = c /\ i = j
  BY <1>3, <1>4 DEF InStore
<1>8. \A m \in Msgs : v[m] = "store" =>
        \E b \in Adapters : \E i \in DOMAIN t[b].call : t[b].call[i] = m
  <2>1. TAKE m \in Msgs
  <2>2. HAVE v[m] = "store"
  <2>3. CASE m = x
    <3>1. id \in DOMAIN t[a].call
      OBVIOUS
    <3> QED BY <2>3, <3>1
  <2>4. CASE m # x
    <3>1. PICK b \in Adapters : \E i \in DOMAIN s[b].call : s[b].call[i] = m
      BY <1>2, <2>2, <2>4 DEF InStore
    <3> QED BY <1>5, <3>1
  <2> QED BY <2>3, <2>4
<1> QED BY <1>1, <1>6, <1>7, <1>8 DEF InStore

LEMMA LeaveStore ==
  ASSUME NEW w \in [Msgs -> Places], NEW s, InStore(w, s),
         \A b \in Adapters : s[b] \in StoreSet, NEW p \in Places, p # "store",
         NEW a \in Adapters, NEW id \in DOMAIN s[a].call, NEW t,
         \A b \in Adapters : b # a => t[b] = s[b],
         DOMAIN t[a].call = DOMAIN s[a].call \ {id},
         \A i \in DOMAIN s[a].call : i # id => t[a].call[i] = s[a].call[i]
  PROVE  /\ InStore(Move(w, s[a].call[id], p), t) /\ s[a].call[id] \in Msgs
         /\ w[s[a].call[id]] = "store"
<1>1. PICK x, v : x = s[a].call[id] /\ v = Move(w, x, p)
  OBVIOUS
<1>2. x \in Msgs /\ w[x] = "store" /\ \A b \in Adapters : \A i \in DOMAIN s[b].call : s[b].call[i] \in Msgs
  BY <1>1, StoreFields DEF InStore
<1>3. v \in [Msgs -> Places] /\ v[x] = p /\ \A m \in Msgs : m # x => v[m] = w[m]
  BY <1>1, <1>2, MoveFacts
<1>4. ASSUME NEW b \in Adapters, NEW i \in DOMAIN t[b].call
      PROVE  i \in DOMAIN s[b].call /\ t[b].call[i] = s[b].call[i] /\ (b # a \/ i # id)
  <2>1. CASE b # a
    BY <1>4, <2>1
  <2>2. CASE b = a
    BY <1>4, <2>2
  <2> QED BY <2>1, <2>2
<1>5. \A b \in Adapters : \A i \in DOMAIN s[b].call :
        b # a \/ i # id => i \in DOMAIN t[b].call /\ t[b].call[i] = s[b].call[i]
  <2>1. ASSUME NEW b \in Adapters, NEW i \in DOMAIN s[b].call, b # a \/ i # id
        PROVE  i \in DOMAIN t[b].call /\ t[b].call[i] = s[b].call[i]
    <3>1. CASE b # a
      BY <2>1, <3>1
    <3>2. CASE b = a
      <4>1. i # id /\ i \in DOMAIN s[a].call
        BY <2>1, <3>2
      <4> QED BY <3>2, <4>1
    <3> QED BY <3>1, <3>2
  <2> QED BY <2>1
<1>6. \A b \in Adapters : \A i \in DOMAIN s[b].call : (b # a \/ i # id) => s[b].call[i] # x
  BY <1>1 DEF InStore
<1>7. \A b \in Adapters : \A i \in DOMAIN t[b].call : v[t[b].call[i]] = "store"
  BY <1>2, <1>3, <1>4, <1>6 DEF InStore
<1>8. \A b, c \in Adapters : \A i \in DOMAIN t[b].call, j \in DOMAIN t[c].call :
        t[b].call[i] = t[c].call[j] => b = c /\ i = j
  BY <1>4 DEF InStore
<1>9. \A m \in Msgs : v[m] = "store" =>
        \E b \in Adapters : \E i \in DOMAIN t[b].call : t[b].call[i] = m
  <2>1. TAKE m \in Msgs
  <2>2. HAVE v[m] = "store"
  <2>3. m # x /\ w[m] = "store"
    BY <1>3, <2>2
  <2>4. PICK b \in Adapters : \E i \in DOMAIN s[b].call : s[b].call[i] = m
    BY <2>3 DEF InStore
  <2>5. PICK i \in DOMAIN s[b].call : s[b].call[i] = m
    BY <2>4
  <2>6. b # a \/ i # id
    BY <1>1, <2>3, <2>5
  <2> QED BY <1>5, <2>5, <2>6
<1> QED BY <1>1, <1>2, <1>7, <1>8, <1>9 DEF InStore

(* The handler holds a call only in the item that runs. *)
LEMMA HandlerOwner ==
  ASSUME HandlerInv, NEW w, InTodo(w, todo)
  PROVE  /\ NoCarry(todo) => \A m \in Msgs : w[m] # "handler"
         /\ todo # <<>> /\ Carries(Head(todo)) =>
              /\ Head(todo).msg \in Msgs /\ w[Head(todo).msg] = "handler"
              /\ \A m \in Msgs : m # Head(todo).msg => w[m] # "handler"
<1>1. NoCarry(todo) => \A m \in Msgs : w[m] # "handler"
  BY DEF NoCarry, InTodo
<1>2. ASSUME todo # <<>>, Carries(Head(todo))
      PROVE  /\ Head(todo).msg \in Msgs /\ w[Head(todo).msg] = "handler"
             /\ \A m \in Msgs : m # Head(todo).msg => w[m] # "handler"
  <2>1. Head(todo) = todo[1] /\ 1 \in DOMAIN todo
    BY <1>2, TodoTail DEF HandlerInv
  <2> QED BY <1>2, <2>1 DEF InTodo, HandlerInv, TodoOK
<1> QED BY <1>1, <1>2

LEMMA NoneInTodo ==
  ASSUME NEW v, NEW t, NoCarry(t), \A m \in Msgs : v[m] # "handler"
  PROVE  InTodo(v, t)
BY DEF InTodo, NoCarry

(* A handler whose only call is x. *)
LEMMA JoinTodo ==
  ASSUME NEW w \in [Msgs -> Places], NEW x \in Msgs, \A m \in Msgs : w[m] # "handler", NEW t,
         \E j \in DOMAIN t : Carries(t[j]) /\ t[j].msg = x,
         \A j \in DOMAIN t : Carries(t[j]) => t[j].msg = x
  PROVE  InTodo(Move(w, x, "handler"), t)
<1>1. PICK v : v = Move(w, x, "handler")
  OBVIOUS
<1>2. v \in [Msgs -> Places] /\ v[x] = "handler" /\ \A m \in Msgs : m # x => v[m] = w[m]
  BY <1>1, MoveFacts DEF Places
<1>3. InTodo(v, t)
  BY <1>2 DEF InTodo
<1> QED BY <1>1, <1>3

(* The next state with the calls where v says; how v follows w.  At most one *)
(* call moves, a finished one stays with its outcome, and none is finished   *)
(* that was not begun.                                                       *)
Arrives(v) == InQueue(v, reqq') /\ InStore(v, store') /\ InTodo(v, todo') /\ Ended(v, msg')

Progress(w, v) ==
  \E x : \A m \in Msgs :
    /\ m # x => v[m] = w[m] /\ msg'[m] = msg[m]
    /\ w[m] = "done" => v[m] = "done" /\ msg'[m].stat = msg[m].stat
    /\ w[m] # "new" => v[m] # "new"
    /\ w[m] = "new" => v[m] # "done"

OwnStep(w) ==
  /\ msg' \in [Msgs -> MsgSet]
  /\ \E v \in [Msgs -> Places] : Arrives(v) /\ Progress(w, v)

Moves(w, x, p, rec) ==
  /\ msg' = [msg EXCEPT ![x] = rec] /\ rec \in MsgSet
  /\ w[x] # "done" /\ p # "new" /\ (w[x] = "new" => p # "done")
  /\ rec.stat # "new" /\ rec.fin = IF p = "done" THEN 1 ELSE 0
  /\ p = "lost" => SendThrows \/ x \in Async
  /\ rec.got \in {NoMsg, x}

LEMMA MoveStep ==
  ASSUME NEW w \in [Msgs -> Places], msg \in [Msgs -> MsgSet], Ended(w, msg),
         NEW x \in Msgs, NEW p \in Places, NEW rec, Moves(w, x, p, rec),
         InQueue(Move(w, x, p), reqq'), InStore(Move(w, x, p), store'), InTodo(Move(w, x, p), todo')
  PROVE  OwnStep(w)
<1>1. PICK v : v = Move(w, x, p)
  OBVIOUS
<1>2. v \in [Msgs -> Places] /\ v[x] = p /\ \A m \in Msgs : m # x => v[m] = w[m]
  BY <1>1, MoveFacts
<1>3. PICK f : f = msg'
  OBVIOUS
<1>4. f \in [Msgs -> MsgSet] /\ f[x] = rec /\ \A m \in Msgs : m # x => f[m] = msg[m]
  BY <1>3 DEF Moves
<1>5. /\ w[x] # "done" /\ p # "new" /\ (w[x] = "new" => p # "done")
      /\ rec.stat # "new" /\ rec.fin = IF p = "done" THEN 1 ELSE 0
      /\ p = "lost" => SendThrows \/ x \in Async
      /\ rec.got \in {NoMsg, x}
  BY DEF Moves
<1>6. Ended(v, f)
  <2>1. SUFFICES ASSUME NEW m \in Msgs
                 PROVE  /\ f[m].stat = "new" <=> v[m] = "new"
                        /\ f[m].fin = IF v[m] = "done" THEN 1 ELSE 0
                        /\ v[m] = "lost" => SendThrows \/ m \in Async
                        /\ f[m].got \in {NoMsg, m}
    BY DEF Ended
  <2>2. CASE m = x
    BY <1>2, <1>4, <1>5, <2>2
  <2>3. CASE m # x
    <3>1. v[m] = w[m] /\ f[m] = msg[m]
      BY <1>2, <1>4, <2>3
    <3> QED BY <3>1 DEF Ended
  <2> QED BY <2>2, <2>3
<1>7. Arrives(v)
  BY <1>1, <1>3, <1>6 DEF Arrives
<1>8. Progress(w, v)
  <2>1. \A m \in Msgs :
          /\ m # x => v[m] = w[m] /\ f[m] = msg[m]
          /\ w[m] = "done" => v[m] = "done" /\ f[m].stat = msg[m].stat
          /\ w[m] # "new" => v[m] # "new"
          /\ w[m] = "new" => v[m] # "done"
    BY <1>2, <1>4, <1>5
  <2> QED BY <1>3, <2>1 DEF Progress
<1> QED BY <1>2, <1>3, <1>4, <1>7, <1>8 DEF OwnStep

LEMMA StayStep ==
  ASSUME NEW w \in [Msgs -> Places], msg \in [Msgs -> MsgSet], Ended(w, msg), msg' = msg,
         InQueue(w, reqq'), InStore(w, store'), InTodo(w, todo')
  PROVE  OwnStep(w)
<1>1. Arrives(w)
  BY DEF Arrives, Ended
<1>2. Progress(w, w)
  BY DEF Progress
<1> QED BY <1>1, <1>2 DEF OwnStep

LEMMA AdapterField ==
  ASSUME NEW r \in MsgSet, NEW a \in Adapters \cup {NoAdapter}
  PROVE  /\ [r EXCEPT !.adapter = a] \in MsgSet /\ [r EXCEPT !.adapter = a].stat = r.stat
         /\ [r EXCEPT !.adapter = a].fin = r.fin /\ [r EXCEPT !.adapter = a].got = r.got
BY DEF MsgSet

LEMMA StatField ==
  ASSUME NEW r \in MsgSet, NEW status \in {"req", "rsp", "time", "exc"}
  PROVE  /\ [r EXCEPT !.stat = status] \in MsgSet /\ [r EXCEPT !.stat = status].stat = status
         /\ [r EXCEPT !.stat = status].fin = r.fin /\ [r EXCEPT !.stat = status].got = r.got
         /\ [r EXCEPT !.stat = status].adapter = r.adapter
BY DEF MsgSet

LEMMA DoneFields ==
  ASSUME NEW r \in MsgSet, NEW status \in {"req", "rsp", "time", "exc"}
  PROVE  /\ Done(r, status) \in MsgSet /\ Done(r, status).stat = status
         /\ Done(r, status).fin = r.fin + 1 /\ Done(r, status).got = r.got
<1>1. PICK n : n = r.fin + 1
  OBVIOUS
<1>2. n \in Nat /\ Done(r, status) = [r EXCEPT !.stat = status, !.fin = n]
  BY <1>1 DEF MsgSet, Done
<1>3. /\ [r EXCEPT !.stat = status, !.fin = n] \in MsgSet
      /\ [r EXCEPT !.stat = status, !.fin = n].stat = status
      /\ [r EXCEPT !.stat = status, !.fin = n].fin = n
      /\ [r EXCEPT !.stat = status, !.fin = n].got = r.got
  BY <1>2 DEF MsgSet
<1> QED BY <1>1, <1>2, <1>3

LEMMA EndedFacts ==
  ASSUME NEW w \in [Msgs -> Places], msg \in [Msgs -> MsgSet], Ended(w, msg), NEW x \in Msgs,
         w[x] # "done"
  PROVE  /\ msg[x] \in MsgSet /\ msg[x].fin = 0 /\ msg[x].got \in {NoMsg, x}
         /\ msg[x].stat # "new" <=> w[x] # "new"
BY DEF Ended

(* The ways in which a call that was begun goes on. *)
LEMMA MoveKinds ==
  ASSUME NEW w \in [Msgs -> Places], msg \in [Msgs -> MsgSet], Ended(w, msg), NEW x \in Msgs,
         w[x] \notin {"new", "done"}
  PROVE  /\ \A a \in Adapters, status \in {"req", "rsp", "time", "exc"} :
              Told(x, a, status) => \E rec : Moves(w, x, "done", rec)
         /\ \A status \in {"req", "rsp", "time", "exc"} :
              msg' = [msg EXCEPT ![x] = Done(@, status)] => \E rec : Moves(w, x, "done", rec)
         /\ \A a \in Adapters, p \in {"queue", "store", "lost"} :
              Given(x, a) /\ (p = "lost" => SendThrows) => \E rec : Moves(w, x, p, rec)
<1>1. /\ msg[x] \in MsgSet /\ msg[x].fin = 0 /\ msg[x].got \in {NoMsg, x} /\ msg[x].stat # "new"
      /\ w[x] # "done" /\ w[x] # "new"
  BY EndedFacts
<1>2. ASSUME NEW a \in Adapters, NEW status \in {"req", "rsp", "time", "exc"}, Told(x, a, status)
      PROVE  \E rec : Moves(w, x, "done", rec)
  <2>1. PICK r, rec : r = [msg[x] EXCEPT !.adapter = a] /\ rec = Done(r, status)
    OBVIOUS
  <2>2. r \in MsgSet /\ r.fin = 0 /\ r.got = msg[x].got
    BY <1>1, <2>1, AdapterField
  <2>3. rec \in MsgSet /\ rec.stat = status /\ rec.fin = 0 + 1 /\ rec.got = msg[x].got
    BY <2>1, <2>2, DoneFields
  <2>4. msg' = [msg EXCEPT ![x] = rec]
    BY <1>2, <2>1 DEF Told
  <2>5. Moves(w, x, "done", rec)
    BY <1>1, <2>3, <2>4 DEF Moves
  <2> QED BY <2>5
<1>3. ASSUME NEW status \in {"req", "rsp", "time", "exc"}, msg' = [msg EXCEPT ![x] = Done(@, status)]
      PROVE  \E rec : Moves(w, x, "done", rec)
  <2>1. PICK rec : rec = Done(msg[x], status)
    OBVIOUS
  <2>2. rec \in MsgSet /\ rec.stat = status /\ rec.fin = 0 + 1 /\ rec.got = msg[x].got
    BY <1>1, <2>1, DoneFields
  <2>3. msg' = [msg EXCEPT ![x] = rec]
    BY <1>3, <2>1
  <2>4. Moves(w, x, "done", rec)
    BY <1>1, <2>2, <2>3 DEF Moves
  <2> QED BY <2>4
<1>4. ASSUME NEW a \in Adapters, NEW p \in {"queue", "store", "lost"}, Given(x, a), p = "lost" => SendThrows
      PROVE  \E rec : Moves(w, x, p, rec)
  <2>1. PICK rec : rec = [msg[x] EXCEPT !.adapter = a]
    OBVIOUS
  <2>2. rec \in MsgSet /\ rec.fin = 0 /\ rec.got = msg[x].got /\ rec.stat = msg[x].stat
    BY <1>1, <2>1, AdapterField
  <2>3. msg' = [msg EXCEPT ![x] = rec]
    BY <1>4, <2>1 DEF Given
  <2>4. Moves(w, x, p, rec)
    BY <1>1, <1>4, <2>2, <2>3 DEF Moves
  <2> QED BY <2>4
<1> QED BY <1>2, <1>3, <1>4

(* AdapterProxy::invoke of a call that the handler or the queue held. *)
LEMMA InvokeOwn ==
  ASSUME AdapterInv, NEW w \in [Msgs -> Places], msg \in [Msgs -> MsgSet], Ended(w, msg),
         InStore(w, store), NEW m \in Msgs, w[m] \in {"handler", "queue"}, NEW a \in Adapters,
         NEW rest, AdapterInvoke(m, a, rest),
         \A p \in {"done", "store", "lost"} :
           InQueue(Move(w, m, p), reqq') /\ InTodo(Move(w, m, p), rest) /\ InTodo(Move(w, m, p), <<>>)
  PROVE  OwnStep(w)
<1>1. /\ \A b \in Adapters : store[b] \in StoreSet
      /\ StoreOK(store[a]) /\ store[a] \in StoreSet /\ DOMAIN store = Adapters
  BY AdapterFields DEF AdapterInv
<1>2. w[m] \notin {"new", "done"} /\ w[m] # "store"
  OBVIOUS
<1>3. ASSUME NEW p \in {"done", "store", "lost"}, \E rec : Moves(w, m, p, rec),
             InStore(Move(w, m, p), store'), todo' = rest \/ todo' = <<>>
      PROVE  OwnStep(w)
  <2>1. PICK rec : Moves(w, m, p, rec)
    BY <1>3
  <2>2. InQueue(Move(w, m, p), reqq') /\ InTodo(Move(w, m, p), todo') /\ p \in Places
    BY <1>3 DEF Places
  <2> QED BY <1>3, <2>1, <2>2, MoveStep
<1>4. ASSUME NEW s, store' = [store EXCEPT ![a] = s], s.call = store[a].call
      PROVE  \A p \in {"done", "lost"} : InStore(Move(w, m, p), store')
  <2>1. PICK t : t = store'
    OBVIOUS
  <2>2. \A b \in Adapters : t[b].call = store[b].call
    BY <1>1, <1>4, <2>1
  <2>3. TAKE p \in {"done", "lost"}
  <2>4. p \in Places /\ p # "store"
    BY DEF Places
  <2>5. InStore(Move(w, m, p), store)
    BY <1>1, <1>2, <2>4, OtherStore
  <2>6. InStore(Move(w, m, p), t)
    BY <2>2, <2>5, SameStore
  <2> QED BY <2>1, <2>6
<1>5. ASSUME NEW sent \in BOOLEAN, store' = [store EXCEPT ![a] = Put(store[a], m, NextId(a), sent)]
      PROVE  InStore(Move(w, m, "store"), store')
  <2>1. PICK t, s, id : t = store' /\ s = Put(store[a], m, id, sent) /\ id = NextId(a)
    OBVIOUS
  <2>2. id \in Nat /\ id > store[a].last /\ store[a].last \in Nat
    BY <2>1, IdFacts
  <2>3. id \notin DOMAIN store[a].call
    <3>1. \A i \in DOMAIN store[a].call : i <= store[a].last /\ i \in Nat
      BY <1>1, StoreFields DEF StoreOK
    <3> QED BY <2>2, <3>1
  <2>4. /\ DOMAIN s.call = DOMAIN store[a].call \cup {id} /\ s.call[id] = m
        /\ \A i \in DOMAIN store[a].call : i # id => s.call[i] = store[a].call[i]
    BY <1>1, <2>1, <2>2, PutFacts
  <2>5. t[a] = s /\ \A b \in Adapters : b # a => t[b] = store[b]
    BY <1>1, <1>5, <2>1
  <2>6. InStore(Move(w, m, "store"), t)
    BY <1>1, <1>2, <2>3, <2>4, <2>5, JoinStore
  <2> QED BY <2>1, <2>6
<1>6. /\ \A status \in {"req", "exc"} : Told(m, a, status) => \E rec : Moves(w, m, "done", rec)
      /\ Given(m, a) => \E rec : Moves(w, m, "store", rec)
      /\ Given(m, a) /\ SendThrows => \E rec : Moves(w, m, "lost", rec)
  BY <1>2, MoveKinds
<1>7. \A id \in Nat : WithLast(store[a], id).call = store[a].call
  BY <1>1, LastFacts
<1>8. CASE Refused(m, a, rest)
  <2>1. PICK id \in Nat, l \in {link[a], Down} :
          /\ Updates(a, WithLast(store[a], id), l, current[a])
          /\ Told(m, a, "exc") /\ todo' = rest
    BY <1>8 DEF Refused
  <2>2. InStore(Move(w, m, "done"), store')
    BY <1>4, <1>7, <2>1 DEF Updates
  <2> QED BY <1>3, <1>6, <2>1, <2>2
<1>9. CASE Parked(m, a, rest)
  <2>1. InStore(Move(w, m, "store"), store')
    BY <1>5, <1>9 DEF Parked, Updates
  <2> QED BY <1>3, <1>6, <1>9, <2>1 DEF Parked
<1>10. CASE Launched(m, a, rest)
  <2>1. \/ \E l : Updates(a, WithLast(store[a], NextId(a)), l, current[a]) /\ Told(m, a, "req")
        \/ \E l, c : Updates(a, Put(store[a], m, NextId(a), TRUE), l, c) /\ Given(m, a)
    BY <1>10 DEF Launched
  <2>2. todo' = rest
    BY <1>10 DEF Launched
  <2>3. CASE \E l : Updates(a, WithLast(store[a], NextId(a)), l, current[a]) /\ Told(m, a, "req")
    <3>1. InStore(Move(w, m, "done"), store')
      BY <1>4, <1>7, <2>3, IdFacts DEF Updates
    <3> QED BY <1>3, <1>6, <2>2, <2>3, <3>1
  <2>4. CASE \E l, c : Updates(a, Put(store[a], m, NextId(a), TRUE), l, c) /\ Given(m, a)
    <3>1. InStore(Move(w, m, "store"), store')
      BY <1>5, <2>4 DEF Updates
    <3> QED BY <1>3, <1>6, <2>2, <2>4, <3>1
  <2> QED BY <2>1, <2>3, <2>4
<1>11. CASE Unwound(m, a)
  <2>1. InStore(Move(w, m, "lost"), store')
    BY <1>4, <1>7, <1>11, IdFacts DEF Unwound
  <2> QED BY <1>3, <1>6, <1>11, <2>1 DEF Unwound
<1> QED BY <1>8, <1>9, <1>10, <1>11, InvokeSplit

(* A call leaves the store of a for good. *)
LEMMA EraseOwn ==
  ASSUME AdapterInv, NEW w \in [Msgs -> Places], InStore(w, store), NEW a \in Adapters,
         NEW id \in DOMAIN store[a].call, store' = [store EXCEPT ![a] = Erase(store[a], id)]
  PROVE  /\ InStore(Move(w, store[a].call[id], "done"), store')
         /\ store[a].call[id] \in Msgs /\ w[store[a].call[id]] = "store"
<1>1. /\ \A b \in Adapters : store[b] \in StoreSet
      /\ StoreOK(store[a]) /\ store[a] \in StoreSet /\ DOMAIN store = Adapters
  BY AdapterFields DEF AdapterInv
<1>2. PICK t, s : t = store' /\ s = Erase(store[a], id)
  OBVIOUS
<1>3. /\ DOMAIN s.call = DOMAIN store[a].call \ {id}
      /\ \A i \in DOMAIN store[a].call : i # id => s.call[i] = store[a].call[i]
  <2>1. id \in Nat /\ mode \in Modes
    BY <1>1, AdapterFields, StoreFields
  <2> QED BY <1>1, <1>2, <2>1, EraseFacts
<1>4. t[a] = s /\ \A b \in Adapters : b # a => t[b] = store[b]
  BY <1>1, <1>2
<1>5. /\ InStore(Move(w, store[a].call[id], "done"), t)
      /\ store[a].call[id] \in Msgs /\ w[store[a].call[id]] = "store"
  BY <1>1, <1>3, <1>4, LeaveStore DEF Places
<1> QED BY <1>2, <1>5

(* A step that finishes a call of a store and moves no other. *)
LEMMA FinishOwn ==
  ASSUME AdapterInv, NEW w \in [Msgs -> Places], msg \in [Msgs -> MsgSet], Owned(w),
         reqq' = reqq, NEW a \in Adapters, NEW id \in DOMAIN store[a].call,
         store' = [store EXCEPT ![a] = Erase(store[a], id)],
         NEW rec, Moves(w, store[a].call[id], "done", rec), NoCarry(todo), NoCarry(todo')
  PROVE  OwnStep(w)
<1>1. PICK m, t : m = store[a].call[id] /\ t = todo'
  OBVIOUS
<1>2. InStore(Move(w, m, "done"), store') /\ m \in Msgs /\ w[m] = "store"
  BY <1>1, EraseOwn DEF Owned
<1>3. InQueue(w, reqq) /\ InTodo(w, todo) /\ Ended(w, msg) /\ "done" \in Places
  BY DEF Owned, Places
<1>4. InQueue(Move(w, m, "done"), reqq')
  BY <1>2, <1>3, OtherQueue
<1>5. InTodo(Move(w, m, "done"), t)
  <2>1. \A x \in Msgs : w[x] # "handler"
    BY <1>3 DEF InTodo, NoCarry
  <2>2. PICK v : v = Move(w, m, "done")
    OBVIOUS
  <2>3. \A x \in Msgs : v[x] # "handler"
    <3>1. v[m] = "done" /\ \A x \in Msgs : x # m => v[x] = w[x]
      <4>1. /\ Move(w, m, "done")[m] = "done"
            /\ \A x \in Msgs : x # m => Move(w, m, "done")[x] = w[x]
        BY <1>2, <1>3, MoveFacts, ZenonT(60)
      <4> QED BY <2>2, <4>1
    <3> QED BY <2>1, <3>1
  <2>4. NoCarry(t)
    BY <1>1
  <2> QED BY <2>2, <2>3, <2>4, NoneInTodo
<1> QED BY <1>1, <1>2, <1>3, <1>4, <1>5, MoveStep

(* One turn of doInvoke. *)
LEMMA FlushOwn ==
  ASSUME AdapterInv, HandlerInv, NEW w \in [Msgs -> Places], msg \in [Msgs -> MsgSet], Owned(w),
         reqq' = reqq, NEW a \in Adapters, store[a].unsent # <<>>, Running(Flush(a)),
         \/ ~Serial /\ doInvoke_parallel(a)
         \/ Serial /\ current[a] = NoMsg /\ doInvoke_serial(a)
  PROVE  OwnStep(w)
<1>1. todo # <<>> /\ ~Carries(Head(todo))
  BY ItemFacts DEF Running
<1>2. NoCarry(todo) /\ NoCarry(Tail(todo)) /\ NoCarry(<<>>)
  BY <1>1, TodoTail, EmptyTodo DEF HandlerInv
<1>3. InQueue(w, reqq) /\ InStore(w, store) /\ InTodo(w, todo) /\ Ended(w, msg)
  BY DEF Owned
<1>4. \A m \in Msgs : w[m] # "handler"
  BY <1>2, <1>3 DEF InTodo, NoCarry
<1>5. PICK t, n : t = todo' /\ n = store'
  OBVIOUS
<1>6. NoCarry(t)
  <2>1. t = todo \/ t = Tail(todo) \/ t = <<>>
    BY <1>5, FlushSplit DEF Flushed, FlushStuck, FlushBroken, FlushThrown
  <2> QED BY <1>2, <2>1
<1>7. ASSUME msg' = msg, \A b \in Adapters : n[b].call = store[b].call PROVE OwnStep(w)
  <2>1. InStore(w, n)
    BY <1>3, <1>7, SameStore
  <2>2. InTodo(w, t)
    BY <1>4, <1>6, NoneInTodo
  <2> QED BY <1>3, <1>5, <1>7, <2>1, <2>2, StayStep
<1>8. ASSUME store' = [store EXCEPT ![a] = Erase(store[a], First(a))],
             msg' = [msg EXCEPT ![Oldest(a)] = Done(@, "req")]
      PROVE  OwnStep(w)
  <2>1. PICK id, x : id = First(a) /\ x = Oldest(a)
    OBVIOUS
  <2>2. id \in DOMAIN store[a].call /\ x = store[a].call[id]
    BY <2>1, OldestFacts DEF Oldest
  <2>3. x \in Msgs /\ w[x] = "store"
    BY <1>3, <1>8, <2>1, <2>2, EraseOwn
  <2>4. PICK rec : Moves(w, x, "done", rec)
    <3>1. w[x] \notin {"new", "done"} /\ msg' = [msg EXCEPT ![x] = Done(@, "req")]
      BY <1>8, <2>1, <2>3
    <3> QED BY <1>3, <2>3, <3>1, MoveKinds
  <2>5. NoCarry(todo')
    BY <1>5, <1>6
  <2> QED BY <1>2, <1>8, <2>1, <2>2, <2>4, <2>5, FinishOwn
<1>9. CASE Flushed(a)
  <2>1. \/ (\E l, c : Updates(a, PopSend(store[a]), l, c)) /\ msg' = msg
        \/ /\ store' = [store EXCEPT ![a] = Erase(store[a], First(a))]
           /\ msg' = [msg EXCEPT ![Oldest(a)] = Done(@, "req")]
    BY <1>9 DEF Flushed, Updates
  <2>2. CASE (\E l, c : Updates(a, PopSend(store[a]), l, c)) /\ msg' = msg
    <3>1. PopSend(store[a]).call = store[a].call
      BY AdapterFields, PopFacts
    <3>2. \A b \in Adapters : n[b].call = store[b].call
      BY <1>5, <2>2, <3>1, UpdatesFacts
    <3> QED BY <1>7, <2>2, <3>2
  <2> QED BY <1>8, <2>1, <2>2
<1>10. CASE FlushStuck(a) \/ FlushThrown(a)
  BY <1>5, <1>7, <1>10 DEF FlushStuck, FlushThrown
<1>11. CASE FlushBroken(a)
  <2>1. \/ Updates(a, store[a], Down, current[a]) /\ msg' = msg
        \/ /\ store' = [store EXCEPT ![a] = Erase(store[a], First(a))]
           /\ msg' = [msg EXCEPT ![Oldest(a)] = Done(@, "req")]
    BY <1>11 DEF FlushBroken, Updates
  <2>2. CASE Updates(a, store[a], Down, current[a]) /\ msg' = msg
    <3>1. \A b \in Adapters : n[b].call = store[b].call
      BY <1>5, <2>2, UpdatesFacts
    <3> QED BY <1>7, <2>2, <3>1
  <2> QED BY <1>8, <2>1, <2>2
<1> QED BY <1>9, <1>10, <1>11, FlushSplit

(* ObjectProxy::doInvokeException: the caller is told, but an asynchronous  *)
(* one without an adapter only logged.                                      *)
LEMMA ExceptionMoves ==
  ASSUME NEW w \in [Msgs -> Places], msg \in [Msgs -> MsgSet], Ended(w, msg), NEW x \in Msgs,
         w[x] \notin {"new", "done"}, msg' = [msg EXCEPT ![x] = doInvokeException(@, x)]
  PROVE  \E p \in {"done", "lost"} : \E rec : Moves(w, x, p, rec)
<1>1. /\ msg[x] \in MsgSet /\ msg[x].fin = 0 /\ msg[x].got \in {NoMsg, x}
      /\ w[x] # "done" /\ w[x] # "new"
  BY EndedFacts
<1>2. CASE x \in Async /\ msg[x].adapter = NoAdapter
  <2>1. PICK rec : rec = [msg[x] EXCEPT !.stat = "exc"]
    OBVIOUS
  <2>2. rec \in MsgSet /\ rec.stat = "exc" /\ rec.fin = 0 /\ rec.got = msg[x].got
    BY <1>1, <2>1, StatField
  <2>3. msg' = [msg EXCEPT ![x] = rec]
    BY <1>2, <2>1 DEF doInvokeException
  <2>4. Moves(w, x, "lost", rec)
    BY <1>1, <1>2, <2>2, <2>3 DEF Moves
  <2> QED BY <2>4
<1>3. CASE ~(x \in Async /\ msg[x].adapter = NoAdapter)
  <2>1. msg' = [msg EXCEPT ![x] = Done(@, "exc")]
    BY <1>3 DEF doInvokeException
  <2> QED BY <2>1, MoveKinds
<1> QED BY <1>2, <1>3

(* The call that ran leaves the handler. *)
LEMMA FreeTodo ==
  ASSUME NEW w \in [Msgs -> Places], NEW x \in Msgs, \A m \in Msgs : m # x => w[m] # "handler",
         NEW p \in Places, p # "handler", NEW t, NoCarry(t)
  PROVE  InTodo(Move(w, x, p), t)
<1>1. PICK v : v = Move(w, x, p)
  OBVIOUS
<1>2. v[x] = p /\ \A m \in Msgs : m # x => v[m] = w[m]
  BY <1>1, MoveFacts
<1>3. \A m \in Msgs : v[m] # "handler"
  BY <1>2
<1> QED BY <1>1, <1>3, NoneInTodo

(* A step that moves no call. *)
LEMMA QuietOwn ==
  ASSUME NEW w \in [Msgs -> Places], msg \in [Msgs -> MsgSet], Owned(w), msg' = msg, reqq' = reqq,
         store' = store, todo' = todo \/ (NoCarry(todo) /\ NoCarry(todo'))
  PROVE  OwnStep(w)
<1>1. InQueue(w, reqq) /\ InStore(w, store) /\ InTodo(w, todo) /\ Ended(w, msg)
  BY DEF Owned
<1>2. InTodo(w, todo')
  BY <1>1 DEF InTodo, NoCarry
<1> QED BY <1>1, <1>2, StayStep

LEMMA ExceptionOwn ==
  ASSUME AdapterInv, NEW w \in [Msgs -> Places], msg \in [Msgs -> MsgSet], Ended(w, msg),
         InStore(w, store), store' = store, NEW x \in Msgs, w[x] \in {"handler", "queue"},
         msg' = [msg EXCEPT ![x] = doInvokeException(@, x)],
         \A p \in {"done", "lost"} : InQueue(Move(w, x, p), reqq') /\ InTodo(Move(w, x, p), todo')
  PROVE  OwnStep(w)
<1>1. PICK p \in {"done", "lost"} : \E rec : Moves(w, x, p, rec)
  <2>1. w[x] \notin {"new", "done"}
    OBVIOUS
  <2> QED BY <2>1, ExceptionMoves
<1>2. PICK rec : Moves(w, x, p, rec)
  BY <1>1
<1>3. p \in Places /\ p # "store" /\ w[x] # "store"
  BY DEF Places
<1>4. \A b \in Adapters : store[b] \in StoreSet
  BY AdapterFields
<1>5. InStore(Move(w, x, p), store)
  BY <1>3, <1>4, OtherStore
<1> QED BY <1>2, <1>3, <1>5, MoveStep

LEMMA DispatchOwn ==
  ASSUME AdapterInv, HandlerInv, NEW w \in [Msgs -> Places], msg \in [Msgs -> MsgSet], Owned(w),
         DispatchStep \/ CallStep
  PROVE  OwnStep(w)
<1>1. InQueue(w, reqq) /\ InStore(w, store) /\ InTodo(w, todo) /\ Ended(w, msg)
  BY DEF Owned
<1>2. PICK m \in Msgs, a \in Adapters \cup {NoAdapter} :
        /\ todo # <<>> /\ Head(todo) \in {Dispatch(m, a), Call(m, a)}
        /\ \/ /\ msg' = [msg EXCEPT ![m] = doInvokeException(@, m)]
              /\ todo' = Tail(todo) /\ reqq' = reqq /\ store' = store
           \/ /\ a # NoAdapter /\ reqq' = Append(reqq, m) /\ Given(m, a)
              /\ todo' = Tail(todo) /\ store' = store
           \/ a # NoAdapter /\ AdapterInvoke(m, a, Tail(todo)) /\ reqq' = reqq
  <2>1. CASE DispatchStep
    BY <2>1 DEF DispatchStep, Running, Given
  <2>2. CASE CallStep
    BY <2>2, NullAssumption DEF CallStep, Running
  <2> QED BY <2>1, <2>2
<1>3. Carries(Head(todo)) /\ Head(todo).msg = m
  BY <1>2, CallFacts
<1>4. w[m] = "handler" /\ \A x \in Msgs : x # m => w[x] # "handler"
  BY <1>1, <1>2, <1>3, HandlerOwner
<1>5. NoCarry(Tail(todo)) /\ NoCarry(<<>>)
  BY <1>2, TodoTail, EmptyTodo DEF HandlerInv
<1>6. ASSUME NEW p \in {"done", "store", "lost"}
      PROVE  /\ InQueue(Move(w, m, p), reqq) /\ InTodo(Move(w, m, p), Tail(todo))
             /\ InTodo(Move(w, m, p), <<>>)
  <2>1. p \in Places /\ p # "queue" /\ p # "handler" /\ w[m] # "queue"
    BY <1>4 DEF Places
  <2> QED BY <1>1, <1>4, <1>5, <2>1, OtherQueue, FreeTodo
<1>7. CASE /\ msg' = [msg EXCEPT ![m] = doInvokeException(@, m)]
           /\ todo' = Tail(todo) /\ reqq' = reqq /\ store' = store
  BY <1>1, <1>4, <1>6, <1>7, ExceptionOwn
<1>8. CASE /\ a # NoAdapter /\ reqq' = Append(reqq, m) /\ Given(m, a)
           /\ todo' = Tail(todo) /\ store' = store
  <2>1. /\ "queue" \in Places /\ "queue" # "store" /\ "queue" # "handler"
        /\ w[m] # "store" /\ w[m] # "queue" /\ w[m] \notin {"new", "done"}
    BY <1>4 DEF Places
  <2>2. InQueue(Move(w, m, "queue"), reqq')
    BY <1>1, <1>8, <2>1, JoinQueue
  <2>3. InStore(Move(w, m, "queue"), store')
    <3>1. \A b \in Adapters : store[b] \in StoreSet
      BY AdapterFields
    <3> QED BY <1>1, <1>8, <2>1, <3>1, OtherStore
  <2>4. InTodo(Move(w, m, "queue"), todo')
    BY <1>4, <1>5, <1>8, <2>1, FreeTodo
  <2>5. PICK rec : Moves(w, m, "queue", rec)
    <3>1. a \in Adapters /\ "queue" # "lost"
      BY <1>8
    <3> QED BY <1>1, <1>8, <2>1, <3>1, MoveKinds
  <2> QED BY <1>1, <2>1, <2>2, <2>3, <2>4, <2>5, MoveStep
<1>9. CASE a # NoAdapter /\ AdapterInvoke(m, a, Tail(todo)) /\ reqq' = reqq
  BY <1>1, <1>4, <1>6, <1>9, InvokeOwn
<1> QED BY <1>2, <1>7, <1>8, <1>9

LEMMA DrainOwn ==
  ASSUME AdapterInv, HandlerInv, NEW w \in [Msgs -> Places], msg \in [Msgs -> MsgSet], Owned(w),
         prepareConnection
  PROVE  OwnStep(w)
<1>1. InQueue(w, reqq) /\ InStore(w, store) /\ InTodo(w, todo) /\ Ended(w, msg)
  BY DEF Owned
<1>2. PICK m, a :
        /\ m = Head(reqq) /\ a \in Adapters /\ Running(Drain(a))
        /\ \/ /\ todo' = Tail(todo) /\ reqq' = reqq /\ store' = store /\ msg' = msg
           \/ reqq # <<>> /\ reqq' = Tail(reqq) /\ AdapterInvoke(m, a, todo)
           \/ /\ reqq # <<>> /\ reqq' = Tail(reqq) /\ store' = store /\ msg' = msg
              /\ \E b \in Adapters : todo' = <<Call(m, b), Drain(b)>> \o Tail(todo)
           \/ /\ reqq # <<>> /\ reqq' = Tail(reqq) /\ store' = store
              /\ msg' = [msg EXCEPT ![m] = doInvokeException(@, m)] /\ todo' = Tail(todo)
  BY DEF prepareConnection
<1>3. todo # <<>> /\ ~Carries(Head(todo))
  BY <1>2, ItemFacts DEF Running
<1>4. NoCarry(todo) /\ NoCarry(Tail(todo)) /\ NoCarry(<<>>)
  BY <1>3, TodoTail, EmptyTodo DEF HandlerInv
<1>5. \A x \in Msgs : w[x] # "handler"
  BY <1>1, <1>4, HandlerOwner
<1>6. ASSUME reqq # <<>>
      PROVE  /\ m \in Msgs /\ w[m] = "queue"
             /\ \A p \in {"done", "store", "lost"} :
                  /\ InQueue(Move(w, m, p), Tail(reqq)) /\ InTodo(Move(w, m, p), todo)
                  /\ InTodo(Move(w, m, p), Tail(todo)) /\ InTodo(Move(w, m, p), <<>>)
             /\ InQueue(Move(w, m, "handler"), Tail(reqq))
  <2>1. \A p \in Places : p # "queue" =>
          InQueue(Move(w, m, p), Tail(reqq)) /\ m \in Msgs /\ w[m] = "queue"
    BY <1>1, <1>2, <1>6, PopQueue
  <2>2. m \in Msgs /\ w[m] = "queue" /\ InQueue(Move(w, m, "handler"), Tail(reqq))
    BY <2>1 DEF Places
  <2>3. ASSUME NEW p \in {"done", "store", "lost"}
        PROVE  /\ InQueue(Move(w, m, p), Tail(reqq)) /\ InTodo(Move(w, m, p), todo)
               /\ InTodo(Move(w, m, p), Tail(todo)) /\ InTodo(Move(w, m, p), <<>>)
    <3>1. p \in Places /\ p # "queue" /\ p # "handler"
      BY DEF Places
    <3>2. \A t : NoCarry(t) => InTodo(Move(w, m, p), t)
      BY <1>5, <2>2, <3>1, FreeTodo
    <3> QED BY <1>4, <2>1, <3>1, <3>2
  <2> QED BY <2>2, <2>3
<1>7. CASE todo' = Tail(todo) /\ reqq' = reqq /\ store' = store /\ msg' = msg
  BY <1>4, <1>7, QuietOwn
<1>8. CASE reqq # <<>> /\ reqq' = Tail(reqq) /\ AdapterInvoke(m, a, todo)
  BY <1>1, <1>2, <1>6, <1>8, InvokeOwn
<1>9. CASE /\ reqq # <<>> /\ reqq' = Tail(reqq) /\ store' = store /\ msg' = msg
           /\ \E b \in Adapters : todo' = <<Call(m, b), Drain(b)>> \o Tail(todo)
  <2>1. PICK b, t : b \in Adapters /\ t = todo' /\ todo' = <<Call(m, b), Drain(b)>> \o Tail(todo)
    BY <1>9
  <2>2. m \in Msgs /\ w[m] = "queue" /\ InQueue(Move(w, m, "handler"), reqq')
    BY <1>6, <1>9
  <2>3. Carries(Call(m, b)) /\ Call(m, b).msg = m
    BY <2>2, CallFacts
  <2>4. /\ \E j \in DOMAIN t : t[j] = Call(m, b)
        /\ \A j \in DOMAIN t : Carries(t[j]) => t[j] = Call(m, b)
    BY <1>3, <2>1, <2>2, FrontFacts
  <2>5. InTodo(Move(w, m, "handler"), t)
    <3>1. /\ \E j \in DOMAIN t : Carries(t[j]) /\ t[j].msg = m
          /\ \A j \in DOMAIN t : Carries(t[j]) => t[j].msg = m
      BY <2>3, <2>4
    <3> QED BY <1>5, <2>2, <3>1, JoinTodo
  <2>6. InStore(Move(w, m, "handler"), store')
    <3>1. \A c \in Adapters : store[c] \in StoreSet
      BY AdapterFields
    <3>2. "handler" \in Places /\ "handler" # "store" /\ w[m] # "store"
      BY <2>2 DEF Places
    <3> QED BY <1>1, <1>9, <2>2, <3>1, <3>2, OtherStore
  <2>7. Moves(w, m, "handler", msg[m])
    <3>1. /\ msg[m] \in MsgSet /\ msg[m].fin = 0 /\ msg[m].got \in {NoMsg, m}
          /\ msg[m].stat # "new" /\ w[m] # "done" /\ w[m] # "new"
      BY <1>1, <2>2, EndedFacts
    <3>2. msg' = [msg EXCEPT ![m] = msg[m]]
      BY <1>9
    <3> QED BY <3>1, <3>2 DEF Moves
  <2>8. "handler" \in Places
    BY DEF Places
  <2> QED BY <1>1, <2>1, <2>2, <2>5, <2>6, <2>7, <2>8, MoveStep
<1>10. CASE /\ reqq # <<>> /\ reqq' = Tail(reqq) /\ store' = store
            /\ msg' = [msg EXCEPT ![m] = doInvokeException(@, m)] /\ todo' = Tail(todo)
  BY <1>1, <1>6, <1>10, ExceptionOwn
<1> QED BY <1>2, <1>7, <1>8, <1>9, <1>10

LEMMA HandlerOwn ==
  ASSUME AdapterInv, HandlerInv, NEW w \in [Msgs -> Places], msg \in [Msgs -> MsgSet], Owned(w),
         HandlerStep
  PROVE  OwnStep(w)
<1>1. CASE doInvoke
  <2>1. PICK a \in Adapters :
          /\ Running(Flush(a)) /\ reqq' = reqq
          /\ \/ todo' = Tail(todo) /\ UNCHANGED <<store, msg>>
             \/ /\ store[a].unsent # <<>>
                /\ \/ ~Serial /\ doInvoke_parallel(a)
                   \/ Serial /\ current[a] = NoMsg /\ doInvoke_serial(a)
    BY <1>1 DEF doInvoke
  <2>2. CASE todo' = Tail(todo) /\ UNCHANGED <<store, msg>>
    <3>1. NoCarry(todo) /\ NoCarry(Tail(todo))
      BY <2>1, ItemFacts, TodoTail, ZenonT(60) DEF HandlerInv, Running
    <3> QED BY <2>1, <2>2, <3>1, QuietOwn
  <2> QED BY <2>1, <2>2, FlushOwn
<1>2. CASE onCompletePackage
  <2>1. PICK a \in Adapters :
          /\ Running(Completed(a)) /\ UNCHANGED <<reqq, store, msg>>
          /\ todo' = Tail(todo) \/ todo' = <<Flush(a)>> \o Tail(todo)
    BY <1>2 DEF onCompletePackage
  <2>2. todo # <<>> /\ Head(todo) = Completed(a) /\ ~Carries(Head(todo))
    BY <2>1, ItemFacts DEF Running
  <2>3. NoCarry(todo) /\ NoCarry(Tail(todo)) /\ NoCarry(<<Flush(a)>> \o Tail(todo))
    BY <2>2, TodoTail, FrontFacts DEF HandlerInv
  <2> QED BY <2>1, <2>3, QuietOwn
<1> QED BY <1>1, <1>2, DispatchOwn, DrainOwn DEF HandlerStep

(* A call is made. *)
LEMMA BeginOwn ==
  ASSUME AdapterInv, NEW w \in [Msgs -> Places], msg \in [Msgs -> MsgSet], Owned(w), todo = <<>>,
         NEW m \in Msgs, msg[m].stat = "new", msg' = [msg EXCEPT ![m].stat = "req"], store' = store,
         \/ reqq' = Append(reqq, m) /\ todo' = todo
         \/ reqq' = reqq /\ \E x : todo' = <<x>> /\ Carries(x) /\ x.msg = m
  PROVE  OwnStep(w)
<1>1. InQueue(w, reqq) /\ InStore(w, store) /\ InTodo(w, todo) /\ Ended(w, msg)
  BY DEF Owned
<1>2. NoCarry(todo)
  BY EmptyTodo
<1>3. \A x \in Msgs : w[x] # "handler"
  BY <1>1, <1>2 DEF InTodo, NoCarry
<1>4. /\ w[m] = "new" /\ msg[m] \in MsgSet /\ msg[m].fin = 0 /\ msg[m].got \in {NoMsg, m}
  BY <1>1 DEF Ended
<1>5. \A b \in Adapters : store[b] \in StoreSet
  BY AdapterFields
<1>6. ASSUME NEW p \in {"queue", "handler"}
      PROVE  /\ p \in Places /\ (\E rec : Moves(w, m, p, rec))
             /\ InStore(Move(w, m, p), store')
  <2>1. PICK rec : rec = [msg[m] EXCEPT !.stat = "req"]
    OBVIOUS
  <2>2. rec \in MsgSet /\ rec.stat = "req" /\ rec.fin = 0 /\ rec.got = msg[m].got
    BY <1>4, <2>1, StatField
  <2>3. msg' = [msg EXCEPT ![m] = rec]
    BY <2>1
  <2>4. Moves(w, m, p, rec)
    BY <1>4, <2>2, <2>3 DEF Moves
  <2>5. p \in Places /\ p # "store" /\ w[m] # "store"
    BY <1>4 DEF Places
  <2>6. InStore(Move(w, m, p), store)
    BY <1>1, <1>5, <2>5, OtherStore
  <2> QED BY <2>4, <2>5, <2>6
<1>7. CASE reqq' = Append(reqq, m) /\ todo' = todo
  <2>1. InQueue(Move(w, m, "queue"), reqq')
    BY <1>1, <1>4, <1>7, JoinQueue
  <2>2. InTodo(Move(w, m, "queue"), todo')
    <3>1. "queue" \in Places /\ "queue" # "handler"
      BY DEF Places
    <3> QED BY <1>2, <1>3, <1>7, <3>1, FreeTodo
  <2>3. "queue" \in Places /\ (\E rec : Moves(w, m, "queue", rec)) /\ InStore(Move(w, m, "queue"), store')
    BY <1>6
  <2> QED BY <1>1, <2>1, <2>2, <2>3, MoveStep
<1>8. CASE reqq' = reqq /\ \E x : todo' = <<x>> /\ Carries(x) /\ x.msg = m
  <2>1. PICK x, t : todo' = <<x>> /\ Carries(x) /\ x.msg = m /\ t = <<x>>
    BY <1>8
  <2>2. 1 \in DOMAIN t /\ \A j \in DOMAIN t : t[j] = x
    BY <2>1
  <2>3. InTodo(Move(w, m, "handler"), t)
    <3>1. /\ \E j \in DOMAIN t : Carries(t[j]) /\ t[j].msg = m
          /\ \A j \in DOMAIN t : Carries(t[j]) => t[j].msg = m
      BY <2>1, <2>2
    <3> QED BY <1>3, <3>1, JoinTodo
  <2>4. InQueue(Move(w, m, "handler"), reqq')
    <3>1. "handler" \in Places /\ "handler" # "queue" /\ w[m] # "queue"
      BY <1>4 DEF Places
    <3> QED BY <1>1, <1>8, <3>1, OtherQueue
  <2>5. "handler" \in Places /\ (\E rec : Moves(w, m, "handler", rec)) /\ InStore(Move(w, m, "handler"), store')
    BY <1>6
  <2> QED BY <1>1, <2>1, <2>3, <2>4, <2>5, MoveStep
<1> QED BY <1>7, <1>8

(* A call is finished with an answer to it. *)
LEMMA AnswerMoves ==
  ASSUME NEW w \in [Msgs -> Places], msg \in [Msgs -> MsgSet], Ended(w, msg), NEW x \in Msgs,
         w[x] \notin {"new", "done"}, msg' = [msg EXCEPT ![x] = Answer(x, x)]
  PROVE  \E rec : Moves(w, x, "done", rec)
<1>1. msg[x] \in MsgSet /\ msg[x].fin = 0 /\ w[x] # "done" /\ w[x] # "new"
  BY EndedFacts
<1>2. PICK r, rec : r = Done(msg[x], "rsp") /\ rec = [r EXCEPT !.got = x]
  OBVIOUS
<1>3. r \in MsgSet /\ r.stat = "rsp" /\ r.fin = 0 + 1
  BY <1>1, <1>2, DoneFields
<1>4. rec \in MsgSet /\ rec.stat = "rsp" /\ rec.fin = 1 /\ rec.got = x
  BY <1>2, <1>3 DEF MsgSet
<1>5. msg' = [msg EXCEPT ![x] = rec]
  BY <1>2 DEF Answer
<1>6. Moves(w, x, "done", rec)
  BY <1>1, <1>4, <1>5 DEF Moves
<1> QED BY <1>6

LEMMA EventOwn ==
  ASSUME AdapterInv, NEW w \in [Msgs -> Places], msg \in [Msgs -> MsgSet], Owned(w),
         NEW a \in Adapters, Event(a)
  PROVE  OwnStep(w)
<1>1. InQueue(w, reqq) /\ InStore(w, store) /\ InTodo(w, todo) /\ Ended(w, msg)
  BY DEF Owned
<1>2. NoCarry(todo)
  <2>1. todo = <<>>
    BY DEF Event, connect, tcpClose, AdapterTimeout, setConnected, doAuthCheck, doRequest,
           onParserCallback, doProtocolAnalysis
  <2> QED BY <2>1, EmptyTodo
<1>3. NoCarry(todo')
  <2>1. CASE connect(a) \/ tcpClose(a) \/ AdapterTimeout(a)
    BY <1>2, <2>1 DEF connect, tcpClose, AdapterTimeout, NoCarry
  <2>2. CASE setConnected(a) \/ doAuthCheck(a) \/ doRequest(a) \/ onParserCallback(a) \/ doProtocolAnalysis(a)
    <3>1. PICK t : t \in Seq(Steps(a)) /\ todo' = t
      BY <2>2, StepSeqs
      DEF setConnected, doAuthCheck, doRequest, onParserCallback, doProtocolAnalysis, Take
    <3>2. NoCarry(t)
      <4>1. \A i \in DOMAIN t : t[i] \in Steps(a)
        BY <3>1, SeqFacts
      <4> QED BY <4>1, ItemFacts DEF Steps, NoCarry
    <3> QED BY <3>1, <3>2
  <2> QED BY <2>1, <2>2 DEF Event
<1>4. ASSUME NEW id \in DOMAIN store[a].call, NEW x, x = store[a].call[id], reqq' = reqq,
             store' = [store EXCEPT ![a] = Erase(store[a], id)],
             msg' = [msg EXCEPT ![x] = Answer(x, x)] \/ msg' = [msg EXCEPT ![x] = Done(@, "time")]
      PROVE  OwnStep(w)
  <2>1. x \in Msgs /\ w[x] \notin {"new", "done"}
    <3>1. x \in Msgs /\ w[x] = "store"
      <4>1. id \in DOMAIN store[a].call /\ store' = [store EXCEPT ![a] = Erase(store[a], id)]
        BY <1>4
      <4>2. store[a].call[id] \in Msgs /\ w[store[a].call[id]] = "store"
        BY <1>1, <4>1, EraseOwn
      <4> QED BY <1>4, <4>2
    <3> QED BY <3>1
  <2>2. PICK rec : Moves(w, x, "done", rec)
    <3>1. CASE msg' = [msg EXCEPT ![x] = Answer(x, x)]
      BY <1>1, <2>1, <3>1, AnswerMoves
    <3>2. CASE msg' = [msg EXCEPT ![x] = Done(@, "time")]
      BY <1>1, <2>1, <3>2, MoveKinds
    <3> QED BY <1>4, <3>1, <3>2
  <2> QED BY <1>2, <1>3, <1>4, <2>2, FinishOwn
<1>5. CASE AdapterTimeout(a)
  <2>1. reqq' = reqq
    BY <1>5 DEF AdapterTimeout
  <2>2. PICK id, x :
          /\ id \in DOMAIN store[a].call /\ x = store[a].call[id]
          /\ store' = [store EXCEPT ![a] = Erase(store[a], id)]
          /\ msg' = [msg EXCEPT ![x] = Done(@, "time")]
    <3>1. PICK id \in DOMAIN store[a].call, l \in {link[a], Down} :
            LET m == store[a].call[id]
                d == IF current[a] = m THEN NoMsg ELSE current[a]
            IN Updates(a, Erase(store[a], id), l, d) /\ msg' = [msg EXCEPT ![m] = Done(@, "time")]
      BY <1>5, TimeoutSplit DEF TimedOut
    <3>2. PICK x : x = store[a].call[id]
      OBVIOUS
    <3>3. msg' = [msg EXCEPT ![x] = Done(@, "time")] /\ store' = [store EXCEPT ![a] = Erase(store[a], id)]
      BY <3>1, <3>2 DEF Updates
    <3> QED BY <3>2, <3>3
  <2> QED BY <1>4, <2>1, <2>2
<1>6. CASE onParserCallback(a)
  <2>1. reqq' = reqq
    BY <1>6 DEF onParserCallback
  <2>2. CASE Answered(a)
    <3>1. PICK id, x :
            /\ id \in DOMAIN store[a].call /\ x = store[a].call[id]
            /\ store' = [store EXCEPT ![a] = Erase(store[a], id)]
            /\ msg' = [msg EXCEPT ![x] = Answer(x, x)]
      BY <2>2 DEF Answered, Updates
    <3> QED BY <1>4, <2>1, <3>1
  <2>3. CASE Dropped(a)
    <3>1. store' = store /\ msg' = msg
      BY <2>3, SameAdapter DEF Dropped, Updates
    <3> QED BY <1>2, <1>3, <2>1, <3>1, QuietOwn
  <2> QED BY <1>6, <2>2, <2>3, AnswerSplit
<1>7. CASE connect(a) \/ setConnected(a) \/ doAuthCheck(a) \/ tcpClose(a) \/ doRequest(a) \/ doProtocolAnalysis(a)
  <2>1. reqq' = reqq /\ store' = store /\ msg' = msg
    BY <1>7 DEF connect, tcpClose, setConnected, doAuthCheck, doRequest, doProtocolAnalysis
  <2> QED BY <1>2, <1>3, <2>1, QuietOwn
<1> QED BY <1>5, <1>6, <1>7 DEF Event

(* However a step goes on, each call is where one place says. *)
LEMMA NextOwn ==
  ASSUME AdapterInv, HandlerInv, NEW w \in [Msgs -> Places], msg \in [Msgs -> MsgSet], Owned(w),
         [Next]_vars
  PROVE  OwnStep(w)
<1>1. ASSUME NEW m \in Msgs, Invoke(m) PROVE OwnStep(w)
  <2>1. \/ reqq' = Append(reqq, m) /\ todo' = todo
        \/ reqq' = reqq /\ \E b \in Adapters \cup {NoAdapter} : todo' = <<Dispatch(m, b)>>
    BY <1>1 DEF Invoke
  <2>2. \/ reqq' = Append(reqq, m) /\ todo' = todo
        \/ reqq' = reqq /\ \E x : todo' = <<x>> /\ Carries(x) /\ x.msg = m
    BY <2>1, CallFacts
  <2>3. /\ todo = <<>> /\ msg[m].stat = "new" /\ store' = store
        /\ msg' = [msg EXCEPT ![m].stat = "req"]
    BY <1>1 DEF Invoke
  <2> QED BY <2>2, <2>3, BeginOwn
<1>2. ASSUME NEW m \in Msgs, NEW a \in Adapters, doKeepAlive(m, a) PROVE OwnStep(w)
  <2>1. reqq' = reqq /\ \E x : todo' = <<x>> /\ Carries(x) /\ x.msg = m
    BY <1>2, CallFacts DEF doKeepAlive
  <2>2. /\ todo = <<>> /\ msg[m].stat = "new" /\ store' = store
        /\ msg' = [msg EXCEPT ![m].stat = "req"]
    BY <1>2 DEF doKeepAlive
  <2> QED BY <2>1, <2>2, BeginOwn
<1>3. CASE ReqTimeout
  <2>1. InQueue(w, reqq) /\ InStore(w, store) /\ InTodo(w, todo) /\ Ended(w, msg)
    BY DEF Owned
  <2>2. PICK i \in DOMAIN reqq :
          /\ reqq' = RemoveAt(reqq, i)
          /\ msg' = [msg EXCEPT ![reqq[i]] = doInvokeException(@, reqq[i])]
    BY <1>3 DEF ReqTimeout
  <2>3. todo = <<>> /\ todo' = todo /\ store' = store
    BY <1>3 DEF ReqTimeout
  <2>4. NoCarry(todo)
    BY <2>3, EmptyTodo
  <2>5. \A x \in Msgs : w[x] # "handler"
    BY <2>1, <2>4 DEF InTodo, NoCarry
  <2>6. PICK m : m = reqq[i]
    OBVIOUS
  <2>7. /\ m \in Msgs /\ w[m] = "queue"
        /\ \A p \in {"done", "lost"} : InQueue(Move(w, m, p), reqq')
    <3>1. \A p \in Places : p # "queue" =>
            InQueue(Move(w, reqq[i], p), RemoveAt(reqq, i)) /\ reqq[i] \in Msgs /\ w[reqq[i]] = "queue"
      BY <2>1, <2>2, RemoveQueue
    <3>2. \A p \in Places : p # "queue" => InQueue(Move(w, m, p), reqq') /\ m \in Msgs /\ w[m] = "queue"
      BY <2>2, <2>6, <3>1
    <3> QED BY <3>2 DEF Places
  <2>8. ASSUME NEW p \in {"done", "lost"} PROVE InTodo(Move(w, m, p), todo')
    <3>1. p \in Places /\ p # "handler"
      BY DEF Places
    <3> QED BY <2>3, <2>4, <2>5, <2>7, <3>1, FreeTodo
  <2>9. msg' = [msg EXCEPT ![m] = doInvokeException(@, m)]
    BY <2>2, <2>6
  <2> QED BY <2>1, <2>3, <2>7, <2>8, <2>9, ExceptionOwn
<1>4. CASE RegistryAnswer \/ (\E m \in Msgs : Expire(m)) \/ vars' = vars
  <2>1. reqq' = reqq /\ store' = store /\ msg' = msg /\ todo' = todo
    BY <1>4 DEF RegistryAnswer, Expire, vars
  <2> QED BY <2>1, QuietOwn
<1>5. Ping \subseteq Msgs
  BY DEF Msgs
<1> QED BY <1>1, <1>2, <1>3, <1>4, <1>5, HandlerOwn, EventOwn DEF Next

LEMMA Frozen ==
  ASSUME [Next]_vars, valid \in BOOLEAN, expired \subseteq Msgs
  PROVE  mode' = mode /\ valid' \in BOOLEAN /\ expired' \subseteq Msgs
<1>1. CASE HandlerStep
  <2>1. UNCHANGED <<mode, valid, expired>>
    BY <1>1 DEF HandlerStep, DispatchStep, CallStep, prepareConnection, doInvoke, onCompletePackage
  <2> QED BY <2>1
<1>2. ASSUME NEW a, Event(a) PROVE UNCHANGED <<mode, valid, expired>>
  BY <1>2 DEF Event, connect, setConnected, doAuthCheck, tcpClose, doRequest, onParserCallback,
              doProtocolAnalysis, AdapterTimeout
<1>3. CASE \E m \in Msgs : Expire(m)
  BY <1>3 DEF Expire
<1>4. CASE RegistryAnswer
  BY <1>4 DEF RegistryAnswer
<1>5. ASSUME NEW m, Invoke(m) \/ \E a \in Adapters : doKeepAlive(m, a) PROVE UNCHANGED <<mode, valid, expired>>
  BY <1>5 DEF Invoke, doKeepAlive
<1>6. CASE ReqTimeout \/ vars' = vars
  BY <1>6 DEF ReqTimeout, vars
<1> QED BY <1>1, <1>2, <1>3, <1>4, <1>5, <1>6 DEF Next

-----------------------------------------------------------------------------
(* The inductive invariant *)

LEMMA InitClient == ASSUME Init PROVE ClientInv
<1>1. AdapterInv
  BY InitAdapter
<1>2. todo = <<>> /\ event = NoEvent
  BY DEF Init
<1>3. HandlerInv
  <2>1. TodoOK(todo, event)
    BY <1>2, EmptyTodo
  <2> QED BY <1>2, <2>1 DEF HandlerInv, NoEvent
<1>4. StallInv
  BY DEF Init, StallInv, CanSend
<1>5. OwnInv
  <2>1. PICK w : w = [m \in Msgs |-> "new"]
    OBVIOUS
  <2>2. w \in [Msgs -> Places] /\ \A m \in Msgs : w[m] = "new"
    BY <2>1 DEF Places
  <2>3. InQueue(w, reqq)
    <3>1. reqq \in Seq(Msgs) /\ DOMAIN reqq = {}
      BY DEF Init
    <3> QED BY <2>2, <3>1 DEF InQueue
  <2>4. InStore(w, store)
    <3>1. \A a \in Adapters : DOMAIN store[a].call = {}
      BY DEF Init
    <3> QED BY <2>2, <3>1 DEF InStore
  <2>5. InTodo(w, todo)
    <3>1. NoCarry(todo)
      BY <1>2, EmptyTodo
    <3> QED BY <2>2, <3>1, NoneInTodo
  <2>6. /\ msg \in [Msgs -> MsgSet]
        /\ \A m \in Msgs : msg[m].stat = "new" /\ msg[m].fin = 0 /\ msg[m].got = NoMsg
    BY DEF Init, MsgSet
  <2>7. Ended(w, msg)
    BY <2>2, <2>6 DEF Ended
  <2>8. valid \in BOOLEAN /\ expired \subseteq Msgs
    BY DEF Init
  <2> QED BY <2>2, <2>3, <2>4, <2>5, <2>6, <2>7, <2>8 DEF OwnInv, Owned
<1> QED BY <1>1, <1>3, <1>4, <1>5 DEF ClientInv

LEMMA NextClient == ASSUME ClientInv, [Next]_vars PROVE ClientInv'
<1>1. AdapterInv /\ HandlerInv /\ StallInv /\ OwnInv
  BY DEF ClientInv
<1>2. PICK w \in [Msgs -> Places] : Owned(w)
  BY <1>1 DEF OwnInv
<1>3. reqq \in Seq(Msgs) /\ msg \in [Msgs -> MsgSet] /\ valid \in BOOLEAN /\ expired \subseteq Msgs
  BY <1>1, <1>2 DEF OwnInv, Owned, InQueue
<1>4. AdapterInv' /\ HandlerInv' /\ StallInv'
  BY <1>1, <1>3, NextAdapter, NextHandler, NextStall
<1>5. mode' = mode /\ valid' \in BOOLEAN /\ expired' \subseteq Msgs
  BY <1>3, Frozen
<1>6. OwnStep(w)
  BY <1>1, <1>2, <1>3, NextOwn
<1>7. PICK v \in [Msgs -> Places] : Arrives(v)
  BY <1>6 DEF OwnStep
<1>8. InQueue(v, reqq') /\ InStore(v, store') /\ InTodo(v, todo') /\ Ended(v, msg')
  BY <1>7 DEF Arrives
<1>9. Ended(v, msg)'
  BY <1>5, <1>8 DEF Ended, SendThrows
<1>10. InQueue(v, reqq)' /\ InStore(v, store)' /\ InTodo(v, todo)'
  BY <1>8 DEF InQueue, InStore, InTodo
<1>11. Owned(v)'
  BY <1>9, <1>10 DEF Owned
<1>12. msg' \in [Msgs -> MsgSet]
  BY <1>6 DEF OwnStep
<1>13. OwnInv'
  BY <1>5, <1>11, <1>12 DEF OwnInv
<1> QED BY <1>4, <1>13 DEF ClientInv

(* The four parts of ClientInv hold together in every reachable state: what *)
(* each adapter holds and has sent (AdapterProxy, TC_Transceiver), what the *)
(* running handler has left to do, that a connection which can send is      *)
(* about to, and that each ReqMessage is in one place.                      *)
THEOREM ClientInvariant == Spec => []ClientInv
<1>1. Init => ClientInv
  BY InitClient
<1>2. ClientInv /\ [Next]_vars => ClientInv'
  BY NextClient
<1> QED BY <1>1, <1>2, PTL DEF Spec

-----------------------------------------------------------------------------
(* What it says of the runs' properties *)

LEMMA AtMostOne ==
  ASSUME NEW S, \A x, y \in S : x = y
  PROVE  (S = {} => Cardinality(S) = 0) /\ (S # {} => Cardinality(S) = 1)
<1>1. S = {} => Cardinality(S) = 0
  BY FS_EmptySet
<1>2. ASSUME S # {} PROVE Cardinality(S) = 1
  <2>1. PICK x : S = {x}
    BY <1>2
  <2> QED BY <2>1, FS_Singleton
<1> QED BY <1>1, <1>2

(* A call is held once when it is in the queue, in a store or in the        *)
(* handler, and else nowhere.                                               *)
LEMMA HolderCount ==
  ASSUME HandlerInv, NEW w \in [Msgs -> Places], Owned(w), NEW m \in Msgs
  PROVE  Holders(m) = IF w[m] \in {"queue", "store", "handler"} THEN 1 ELSE 0
<1>1. InQueue(w, reqq) /\ InStore(w, store) /\ InTodo(w, todo)
  BY DEF Owned
<1>2. PICK q, s, t : q = InReqQueue(m) /\ s = InStores(m) /\ t = InHandler(m)
  OBVIOUS
<1>3. (\A x, y \in q : x = y) /\ (q # {} <=> w[m] = "queue")
  BY <1>1, <1>2 DEF InQueue, InReqQueue
<1>4. (\A x, y \in s : x = y) /\ (s # {} <=> w[m] = "store")
  <2>1. \A x \in s : \E a \in Adapters : \E i \in DOMAIN store[a].call :
          x = <<a, i>> /\ store[a].call[i] = m
    BY <1>2 DEF InStores
  <2>2. \A a \in Adapters : \A i \in DOMAIN store[a].call : store[a].call[i] = m => <<a, i>> \in s
    BY <1>2 DEF InStores
  <2>3. ASSUME NEW x \in s, NEW y \in s PROVE x = y
    <3>1. PICK a \in Adapters : \E i \in DOMAIN store[a].call : x = <<a, i>> /\ store[a].call[i] = m
      BY <2>1, <2>3
    <3>2. PICK i \in DOMAIN store[a].call : x = <<a, i>> /\ store[a].call[i] = m
      BY <3>1
    <3>3. PICK b \in Adapters : \E j \in DOMAIN store[b].call : y = <<b, j>> /\ store[b].call[j] = m
      BY <2>1, <2>3
    <3>4. PICK j \in DOMAIN store[b].call : y = <<b, j>> /\ store[b].call[j] = m
      BY <3>3
    <3>5. a = b /\ i = j
      BY <1>1, <3>2, <3>4 DEF InStore
    <3> QED BY <3>2, <3>4, <3>5
  <2>4. s # {} => w[m] = "store"
    BY <1>1, <2>1 DEF InStore
  <2>5. w[m] = "store" => s # {}
    BY <1>1, <2>2 DEF InStore
  <2> QED BY <2>3, <2>4, <2>5
<1>5. (\A x, y \in t : x = y) /\ (t # {} <=> w[m] = "handler")
  <2>1. \A i \in t : i \in DOMAIN todo /\ Carries(todo[i]) /\ todo[i].msg = m
    BY <1>2 DEF InHandler, Carries
  <2>2. \A i \in DOMAIN todo : Carries(todo[i]) /\ todo[i].msg = m => i \in t
    BY <1>2 DEF InHandler, Carries
  <2> QED BY <1>1, <2>1, <2>2 DEF InTodo, HandlerInv, TodoOK
<1>6. /\ Cardinality(q) = IF w[m] = "queue" THEN 1 ELSE 0
      /\ Cardinality(s) = IF w[m] = "store" THEN 1 ELSE 0
      /\ Cardinality(t) = IF w[m] = "handler" THEN 1 ELSE 0
  BY <1>3, <1>4, <1>5, AtMostOne
<1>7. Holders(m) = Cardinality(q) + Cardinality(s) + Cardinality(t)
  BY <1>2 DEF Holders
<1> QED BY <1>6, <1>7

(* A ReqMessage has one owner, in any configuration and for any calls: it   *)
(* is in at most one of ObjectProxy's queue, the adapters' timeout queues   *)
(* and the running handler, and in none after its caller was told.          *)
THEOREM CallHasOneOwner == Spec => []OneOwner
<1>1. ASSUME ClientInv PROVE OneOwner
  <2>1. PICK w \in [Msgs -> Places] : Owned(w)
    BY <1>1 DEF ClientInv, OwnInv
  <2>2. \A m \in Msgs : Holders(m) = IF w[m] \in {"queue", "store", "handler"} THEN 1 ELSE 0
    BY <1>1, <2>1, HolderCount DEF ClientInv
  <2>3. \A m \in Msgs : msg[m].fin = IF w[m] = "done" THEN 1 ELSE 0
    BY <2>1 DEF Owned, Ended
  <2> QED BY <2>2, <2>3 DEF OneOwner
<1>2. ClientInv => OneOwner
  BY <1>1
<1> QED BY <1>2, ClientInvariant, PTL

(* A response never finishes another call, with or without serial mode: a   *)
(* request on the wire is of the call that its id, or _requestMsg, names.   *)
THEOREM AnswersMatch == Spec => []AnswersOwnRequest
<1>1. ASSUME ClientInv PROVE AnswersOwnRequest
  <2>1. PICK w \in [Msgs -> Places] : Owned(w)
    BY <1>1 DEF ClientInv, OwnInv
  <2> QED BY <2>1 DEF Owned, Ended, AnswersOwnRequest
<1>2. ClientInv => AnswersOwnRequest
  BY <1>1
<1> QED BY <1>2, ClientInvariant, PTL

(* When the network thread goes idle, a connection that is ready, watched   *)
(* and has nothing buffered has nothing unsent either: the handler that     *)
(* made it so had a doInvoke or an onCompletePackage left, and ran it.      *)
THEOREM NothingStalls == Spec => []NoStall
<1>1. ASSUME ClientInv PROVE NoStall
  <2>1. ASSUME todo = <<>>, NEW a \in Adapters PROVE ~CanSend(store[a], link[a], current[a])
    <3>1. DOMAIN todo = {}
      BY <2>1
    <3> QED BY <1>1, <3>1 DEF ClientInv, StallInv, Helped
  <2> QED BY <2>1 DEF NoStall, CanSend
<1>2. ClientInv => NoStall
  BY <1>1
<1> QED BY <1>2, ClientInvariant, PTL

(* What is unsent is younger than everything on its connection; in serial   *)
(* mode at most one request is there, and it is the stored _requestMsg.     *)
THEOREM SendsInOrder == Spec => []SendOrderKept
<1>1. ASSUME ClientInv, NEW a \in Adapters
      PROVE  /\ SentOK(store[a], link[a]) /\ CurrentOK(store[a], link[a], current[a])
             /\ store[a] \in StoreSet
  BY <1>1, AdapterFields DEF ClientInv
<1>2. ASSUME ClientInv PROVE SendInOrder
  BY <1>1, <1>2 DEF SendInOrder, SentOK, Sends
<1>3. ASSUME ClientInv, Serial, NEW a \in Adapters
      PROVE  /\ Cardinality(link[a].wire \cup ({link[a].buf} \ {NoReq})) <= 1
             /\ current[a] # NoMsg =>
                  \E id \in DOMAIN store[a].call :
                    store[a].call[id] = current[a] /\ id \notin ToSet(store[a].unsent)
  <2>1. PICK S : S = Sends(link[a])
    OBVIOUS
  <2>2. \A x, y \in S : x = y
    BY <1>1, <1>3, <2>1 DEF CurrentOK
  <2>3. Cardinality(S) <= 1
    BY <2>2, AtMostOne
  <2>4. \A id : id \in ToSet(store[a].unsent) => \E k \in DOMAIN store[a].unsent : store[a].unsent[k] = id
    BY DEF ToSet
  <2> QED BY <1>1, <1>3, <2>1, <2>3, <2>4 DEF CurrentOK, Sends
<1>4. ClientInv => SendOrderKept
  BY <1>2, <1>3 DEF SendOrderKept, SerialOneInFlight
<1> QED BY <1>4, ClientInvariant, PTL

LEMMA TypesOK == ASSUME ClientInv PROVE TypeOK
<1>1. AdapterInv /\ HandlerInv /\ OwnInv
  BY DEF ClientInv
<1>2. ASSUME NEW a \in Adapters
      PROVE  /\ DOMAIN store[a].call \subseteq 1..store[a].last
             /\ \A id \in DOMAIN store[a].call : store[a].call[id] \in Msgs
             /\ store[a].unsent \in Seq(DOMAIN store[a].call)
             /\ store[a].last \in Nat
  <2>1. PICK s : s = store[a]
    OBVIOUS
  <2>2. s \in StoreSet /\ StoreOK(s)
    BY <1>1, <2>1, AdapterFields
  <2>3. /\ s.unsent \in Seq(Nat) /\ s.last \in Nat /\ DOMAIN s.call \subseteq Nat
        /\ \A i \in DOMAIN s.call : s.call[i] \in Msgs
        /\ DOMAIN s.unsent = 1..Len(s.unsent) /\ Len(s.unsent) \in Nat
    BY <2>2, StoreFields
  <2>4. DOMAIN s.call \subseteq 1..s.last
    BY <2>2, <2>3 DEF StoreOK
  <2>5. s.unsent \in Seq(DOMAIN s.call)
    <3>1. \A k \in 1..Len(s.unsent) : s.unsent[k] \in DOMAIN s.call
      BY <2>2, <2>3 DEF StoreOK
    <3> QED BY <2>3, <3>1, SMTT(30)
  <2> QED BY <2>1, <2>3, <2>4, <2>5
<1>3. ASSUME NEW a \in Adapters
      PROVE  /\ link[a].st \in {"none", "connecting", "connected", "ready"}
             /\ link[a].buf \in Req /\ link[a].wire \subseteq Req /\ link[a].watched \in BOOLEAN
             /\ current[a] \in Msgs \cup {NoMsg}
  <2>1. link[a] \in LinkSet /\ current[a] \in Msgs \cup {NoMsg}
    BY <1>1, AdapterFields
  <2> QED BY <2>1 DEF LinkSet
<1>4. current \in [Adapters -> Msgs \cup {NoMsg}] /\ mode \in Modes
  BY <1>1, <1>3 DEF AdapterInv
<1>5. /\ todo \in Seq(Item)
      /\ event \in [on : Adapters \cup {NoAdapter}, dir : {"none", "in", "out"}]
  BY <1>1 DEF HandlerInv, TodoOK
<1>6. /\ valid \in BOOLEAN /\ expired \subseteq Msgs /\ msg \in [Msgs -> MsgSet]
      /\ reqq \in Seq(Msgs)
  BY <1>1 DEF OwnInv, Owned, InQueue
<1> QED BY <1>2, <1>3, <1>4, <1>5, <1>6 DEF TypeOK, MsgSet

(* The unsent list of an adapter is bounded by _noSendQueueLimit, and as    *)
(* long as no send throws a synchronous call that was made is held by a     *)
(* queue, a store or the handler until it is finished.                      *)
THEOREM CallsAreHeld == Spec => []CallsHeld
<1>1. ASSUME ClientInv PROVE UnsentBounded
  <2>1. \A a \in Adapters : StoreOK(store[a])
    BY <1>1, AdapterFields DEF ClientInv
  <2> QED BY <2>1 DEF UnsentBounded, StoreOK
<1>2. ASSUME ClientInv PROVE SyncHeld
  <2>1. PICK w \in [Msgs -> Places] : Owned(w)
    BY <1>2 DEF ClientInv, OwnInv
  <2>2. \A m \in Msgs : Holders(m) = IF w[m] \in {"queue", "store", "handler"} THEN 1 ELSE 0
    BY <1>2, <2>1, HolderCount DEF ClientInv
  <2>3. ASSUME ~SendThrows, NEW m \in Sync \cup NetAsync, msg[m].stat # "new", msg[m].fin = 0
        PROVE  Holders(m) = 1
    <3>1. m \in Msgs /\ m \notin Async
      BY KindAssumption DEF Msgs
    <3>2. w[m] # "new" /\ w[m] # "done" /\ w[m] # "lost"
      BY <2>1, <2>3, <3>1 DEF Owned, Ended
    <3>3. w[m] \in {"queue", "store", "handler"}
      BY <2>1, <3>1, <3>2 DEF Places
    <3> QED BY <2>2, <3>1, <3>3
  <2> QED BY <2>3 DEF SyncHeld
<1>3. ClientInv => CallsHeld
  BY <1>1, <1>2, TypesOK DEF CallsHeld
<1> QED BY <1>3, ClientInvariant, PTL

-----------------------------------------------------------------------------
(* The contract with the application *)

PhaseOf(r) ==
  CASE r.stat = "new" -> "idle"
    [] r.stat # "new" /\ r.fin = 0 -> "pending"
    [] r.fin = 1 -> r.stat
    [] OTHER -> "finished again"

LEMMA PlacePhase ==
  ASSUME NEW r, NEW p \in Places, r.stat = "new" <=> p = "new", r.fin = IF p = "done" THEN 1 ELSE 0
  PROVE  /\ p = "new" => PhaseOf(r) = "idle"
         /\ p = "done" => PhaseOf(r) = r.stat
         /\ p \notin {"new", "done"} => PhaseOf(r) = "pending"
<1>1. CASE p = "new"
  <2>1. r.stat = "new"
    BY <1>1
  <2>2. PhaseOf(r) = "idle"
    BY <2>1 DEF PhaseOf
  <2> QED BY <1>1, <2>2
<1>2. CASE p = "done"
  <2>1. r.stat # "new" /\ r.fin = 1 /\ r.fin # 0
    BY <1>2
  <2>2. PhaseOf(r) = r.stat
    BY <2>1 DEF PhaseOf
  <2> QED BY <1>2, <2>2
<1>3. CASE p \notin {"new", "done"}
  <2>1. r.stat # "new" /\ r.fin = 0 /\ r.fin # 1
    BY <1>3
  <2>2. PhaseOf(r) = "pending"
    BY <2>1 DEF PhaseOf
  <2> QED BY <1>3, <2>2
<1> QED BY <1>1, <1>2, <1>3

LEMMA PhaseStep ==
  ASSUME ClientInv, [Next]_vars
  PROVE  [Contract!Next]_([m \in Msgs |-> Phase(m)])
<1>1. AdapterInv /\ HandlerInv /\ OwnInv
  BY DEF ClientInv
<1>2. PICK w \in [Msgs -> Places] : Owned(w)
  BY <1>1 DEF OwnInv
<1>3. msg \in [Msgs -> MsgSet] /\ Ended(w, msg)
  BY <1>1, <1>2 DEF OwnInv, Owned
<1>4. PICK v \in [Msgs -> Places] : Arrives(v) /\ Progress(w, v)
  BY <1>1, <1>2, <1>3, NextOwn DEF OwnStep
<1>5. PICK f : f = msg'
  OBVIOUS
<1>6. f \in [Msgs -> MsgSet] /\ Ended(v, f)
  BY <1>1, <1>2, <1>3, <1>4, <1>5, NextOwn DEF OwnStep, Arrives
<1>7. PICK x : \A m \in Msgs :
        /\ m # x => v[m] = w[m] /\ f[m] = msg[m]
        /\ w[m] = "done" => v[m] = "done" /\ f[m].stat = msg[m].stat
        /\ w[m] # "new" => v[m] # "new"
        /\ w[m] = "new" => v[m] # "done"
  BY <1>4, <1>5 DEF Progress
<1>8. ASSUME NEW m \in Msgs
      PROVE  /\ w[m] = "new" => PhaseOf(msg[m]) = "idle"
             /\ w[m] = "done" => PhaseOf(msg[m]) = msg[m].stat
             /\ w[m] \notin {"new", "done"} => PhaseOf(msg[m]) = "pending"
  BY <1>3, PlacePhase DEF Ended
<1>9. ASSUME NEW m \in Msgs
      PROVE  /\ v[m] = "new" => PhaseOf(f[m]) = "idle"
             /\ v[m] = "done" => PhaseOf(f[m]) = f[m].stat
             /\ v[m] \notin {"new", "done"} => PhaseOf(f[m]) = "pending"
  BY <1>6, PlacePhase DEF Ended
<1>10. PICK g, h : g = [m \in Msgs |-> PhaseOf(msg[m])] /\ h = [m \in Msgs |-> PhaseOf(f[m])]
  OBVIOUS
<1>11. g = [m \in Msgs |-> Phase(m)] /\ h = [m \in Msgs |-> Phase(m)]'
  <2>1. \A m \in Msgs : Phase(m) = PhaseOf(msg[m])
    BY DEF Phase, PhaseOf
  <2>2. \A m \in Msgs : Phase(m)' = PhaseOf(f[m])
    BY <1>5 DEF Phase, PhaseOf
  <2> QED BY <1>10, <2>1, <2>2
<1>12. \A m \in Msgs : m # x => h[m] = g[m]
  BY <1>7, <1>10
<1>13. CASE x \notin Msgs \/ h[x] = g[x]
  <2>1. \A m \in Msgs : h[m] = g[m]
    BY <1>12, <1>13
  <2>2. h = g
    BY <1>10, <2>1
  <2> QED BY <1>11, <2>2
<1>14. CASE x \in Msgs /\ h[x] # g[x]
  <2>1. h = [g EXCEPT ![x] = h[x]]
    BY <1>10, <1>12, <1>14
  <2>2. g[x] = PhaseOf(msg[x]) /\ h[x] = PhaseOf(f[x])
    BY <1>10, <1>14
  <2>3. CASE w[x] = "new"
    <3>1. g[x] = "idle" /\ h[x] = "pending"
      BY <1>7, <1>8, <1>9, <1>14, <2>2, <2>3
    <3>2. Contract!Start(x)
      BY <1>11, <2>1, <3>1 DEF Contract!Start
    <3> QED BY <1>14, <3>2 DEF Contract!Next
  <2>4. CASE w[x] = "done"
    BY <1>7, <1>8, <1>9, <1>14, <2>2, <2>4
  <2>5. CASE w[x] \notin {"new", "done"}
    <3>1. g[x] = "pending" /\ v[x] = "done" /\ h[x] = f[x].stat
      BY <1>7, <1>8, <1>9, <1>14, <2>2, <2>5
    <3>2. f[x].stat \in {"req", "rsp", "time", "exc"}
      <4>1. f[x] \in MsgSet /\ f[x].stat # "new"
        BY <1>6, <1>14, <3>1 DEF Ended
      <4> QED BY <4>1 DEF MsgSet
    <3>3. Contract!Finish(x)
      BY <1>11, <2>1, <3>1, <3>2 DEF Contract!Finish
    <3> QED BY <1>14, <3>3 DEF Contract!Next
  <2> QED BY <2>3, <2>4, <2>5
<1> QED BY <1>13, <1>14

(* The network thread keeps the application's contract: each call, of any   *)
(* kind and however its connections fail, is finished at most once and its  *)
(* outcome never changes afterwards.                                        *)
THEOREM ClientKeepsContract == Spec => ImplementsContract
<1>1. Init => Contract!Init
  <2>1. ASSUME Init PROVE Contract!Init
    <3>1. \A m \in Msgs : msg[m].stat = "new" /\ msg[m].fin = 0
      BY <2>1 DEF Init
    <3>2. ASSUME NEW m \in Msgs PROVE Phase(m) = "idle"
      <4>1. msg[m].stat = "new" /\ msg[m].fin # 1
        BY <3>1
      <4> QED BY <4>1 DEF Phase
    <3> QED BY <3>2 DEF Contract!Init
  <2> QED BY <2>1
<1>2. ClientInv /\ [Next]_vars => [Contract!Next]_([m \in Msgs |-> Phase(m)])
  BY PhaseStep
<1> QED BY <1>1, <1>2, ClientInvariant, PTL DEF Spec, Contract!Spec, ImplementsContract
=============================================================================
