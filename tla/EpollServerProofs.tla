-------------------------- MODULE EpollServerProofs --------------------------
(***************************************************************************)
(* What TC_EpollServer keeps true for any number of connections, uids,     *)
(* requests and handler threads and any limits of its adapter: the list of *)
(* connections, its uids and the count of the adapter agree; the handlers  *)
(* get what is queued in order and the close of a connection once and      *)
(* last; a request is answered at most once; a command that comes too late *)
(* finds nobody until its uid is used again.                               *)
(***************************************************************************)
EXTENDS EpollServer, SequenceTheorems, FiniteSetTheorems, TLAPS

Accepting == {"uid", "add", "count", "register"}
Live(c)   == conn[c] \in {"open", "closing", "broken"}

-----------------------------------------------------------------------------
(* The threads and the list *)

ListTypes ==
  /\ opt \in Options
  /\ conn \in [Conns -> {"backlog", "refused", "open", "closing", "broken", "gone"}]
  /\ acc \in [pc : Accepting \cup {"loop", "joinNet", "joinHandles", "down", "crashed"},
              c : Conns \cup {None}]
  /\ uid \in [Conns -> {0} \cup Uids]
  /\ vConn \in [Uids -> Conns \cup {None}]
  /\ free \in Seq(Uids)
  /\ net \in [pc : {"loop", "push", "dec", "del", "down", "crashed"},
              c : Conns \cup {None}, why : {"none", "read", "close", "timeout"},
              batch : Seq(Contexts)]
  /\ sent \in 0..MaxRequests
  /\ curConns \in 0..MaxConns
  /\ ahead \in [Conns -> 0..MaxConns]

(* What the two threads work on. *)
Threads ==
  /\ acc.pc \in Accepting => acc.c \in Conns /\ conn[acc.c] = "backlog"
  /\ acc.pc \in {"add", "count", "register"} => uid[acc.c] \in Uids
  /\ net.pc \in {"loop", "down", "crashed"} => net.why = "none"
  /\ net.pc = "push" => net.why \in {"read", "close", "timeout"}
  /\ net.pc = "dec" => net.why = "close"
  /\ net.pc = "del" => net.why = "timeout"
  /\ net.pc \in {"push", "del"} => net.c \in Conns /\ Live(net.c)
  /\ net.pc = "down" => acc.pc \in {"joinNet", "joinHandles", "down"}
  /\ net.pc = "crashed" <=> acc.pc = "crashed"
  /\ \A c \in Conns : conn[c] = "gone" => uid[c] \in Uids

(* UidExact, also when the two threads have ended. *)
UidsSplit ==
  /\ \A i, j \in DOMAIN free : free[i] = free[j] => i = j
  /\ {free[i] : i \in DOMAIN free} = Uids \ (Listed \cup Held)
  /\ Held \cap Listed = {}
  /\ \A u \in Listed : uid[vConn[u]] = u

(* A connection with a socket is listed under its uid; the others that are *)
(* listed are being accepted.                                              *)
LiveListed ==
  /\ \A c \in Conns : Live(c) => uid[c] \in Uids /\ vConn[uid[c]] = c
  /\ acc.pc \in {"count", "register"} => vConn[uid[acc.c]] = acc.c
  /\ \A u \in Listed : \/ Live(vConn[u])
                       \/ acc.pc \in {"count", "register", "crashed"} /\ acc.c = vConn[u]

(* The connection that accept let through has its place. *)
Reserved == curConns + (IF acc.pc \in {"uid", "add", "count"} THEN 1 ELSE 0) <= MaxConns

(* A returned uid is where it was put in _free, less those taken since. *)
ReturnedUid ==
  \A c \in Conns : ahead[c] > 0 =>
    conn[c] = "gone" /\ ahead[c] <= Len(free) /\ free[ahead[c]] = uid[c]

ListInv ==
  /\ ListTypes /\ Threads /\ Reserved /\ ReturnedUid
  /\ net.pc # "down" => UidsSplit /\ LiveListed
  /\ net.pc = "down" => vConn = [u \in Uids |-> None]
  /\ CountExact

-----------------------------------------------------------------------------
(* The receive queue *)

(* The handlers were told the end of c, and it was done. *)
Told(c) == conn[c] = "gone" \/ (net.pc = "del" /\ net.c = c)

Working(h) == hd[h].at \in {"popped", "busy"}

QueueTypes ==
  /\ net.batch \in Seq(Contexts)
  /\ dq \in [Handles -> Seq(Contexts)]
  /\ hd \in [Handles -> [at : {"idle", "popped", "busy", "exited"},
                         ctx : Contexts \cup {Idle.ctx}]]
  /\ closeTold \in [Conns -> 0..1]

(* What a thread has in its hands. *)
InHand ==
  /\ net.pc # "push" => net.batch = <<>>
  /\ \A i \in DOMAIN net.batch : net.batch[i].c = net.c
  /\ net.pc = "push" /\ net.why = "read" => \A i \in DOMAIN net.batch : net.batch[i].n > 0
  /\ net.pc = "push" /\ net.why # "read" => net.batch = <<Closed(net.c)>>
  /\ \A h \in Handles : /\ ~Working(h) => hd[h].ctx = Idle.ctx
                        /\ Working(h) => hd[h].ctx \in Contexts
                        /\ hd[h].at = "busy" => hd[h].ctx.n > 0

(* The connection of a queued context has its uid for good. *)
Known(c) == Live(c) \/ conn[c] = "gone"

(* A context x of queue h, or taken from it. *)
Kept(x, h) ==
  /\ Known(x.c)
  /\ x.n = 0 => Told(x.c)
  /\ queueMode => getDataQueue(uid[x.c]) = h

ContextsKnown ==
  /\ \A h \in Handles : \A i \in DOMAIN dq[h] : Kept(dq[h][i], h)
  /\ \A h \in Handles : Working(h) => Kept(hd[h].ctx, h)

ToldOf ==
  \A c \in Conns : closeTold[c] > 0 =>
    Told(c) \/ (net.pc = "push" /\ net.why # "read" /\ net.c = c)

(* Nothing of a connection is queued behind its close. *)
CloseLast ==
  /\ \A h \in Handles : \A i, j \in DOMAIN dq[h] :
       i < j /\ dq[h][i].n = 0 => dq[h][j].c # dq[h][i].c
  /\ \A g \in Handles : Working(g) /\ hd[g].ctx.n = 0 =>
       \A j \in DOMAIN dq[getDataQueue(g)] : dq[getDataQueue(g)][j].c # hd[g].ctx.c

PoppedSet == {h \in Handles : hd[h].at = "popped"}

(* _iRecvBufferSize counts what is queued, about to be, and just taken. *)
SizeExact ==
  /\ IsFiniteSet(Queued)
  /\ recvSize = Cardinality(Queued) + Len(net.batch) + Cardinality(PoppedSet)

QueueInv == QueueTypes /\ InHand /\ ContextsKnown /\ ToldOf /\ CloseLast /\ SizeExact

-----------------------------------------------------------------------------
(* The answers *)

Places == {"unsent", "batch", "queue", "handler", "async", "pipe", "answered"}

(* Where w says that the requests of b, q, f, a and s are, each once: read  *)
(* and not pushed, queued, with a handler, kept by the servant, answered in *)
(* the pipe.                                                                *)
InBatch(w, b) ==
  /\ \A i \in DOMAIN b : b[i].n > 0 => w[b[i].n] = "batch"
  /\ \A i, j \in DOMAIN b : b[i].n > 0 /\ b[i].n = b[j].n => i = j

InQueues(w, q) ==
  /\ \A h \in Handles : \A i \in DOMAIN q[h] : q[h][i].n > 0 => w[q[h][i].n] = "queue"
  /\ \A g, h \in Handles : \A i \in DOMAIN q[g], j \in DOMAIN q[h] :
       q[g][i].n > 0 /\ q[g][i].n = q[h][j].n => g = h /\ i = j

InHandlers(w, f) ==
  /\ \A h \in Handles : f[h].ctx.n > 0 => w[f[h].ctx.n] = "handler"
  /\ \A g, h \in Handles : f[g].ctx.n > 0 /\ f[g].ctx.n = f[h].ctx.n => g = h

InAsync(w, a) ==
  /\ \A x \in a : x.n > 0 /\ w[x.n] = "async"
  /\ \A x, y \in a : x.n = y.n => x = y

InPipe(w, s) ==
  /\ \A i \in DOMAIN s : s[i].op = "s" => w[s[i].n] = "pipe"
  /\ \A i, j \in DOMAIN s :
       s[i].op = "s" /\ s[j].op = "s" /\ s[i].n = s[j].n => i = j

(* What is not read is nowhere, what was answered is nowhere any more. *)
Ended(w, n, a) ==
  \A r \in Requests : /\ r > n => w[r] = "unsent"
                      /\ a[r] <= 1
                      /\ a[r] = 1 => w[r] = "answered"

(* Every request is in one place, once. *)
Placed(w) ==
  /\ InBatch(w, net.batch) /\ InQueues(w, dq) /\ InHandlers(w, hd)
  /\ InAsync(w, async) /\ InPipe(w, sbuffer) /\ Ended(w, sent, replies)

AnswerTypes ==
  /\ async \subseteq Contexts
  /\ sbuffer \in Seq(Commands)
  /\ replies \in [Requests -> Nat]
  /\ terminated \in BOOLEAN

(* A command and a kept request come of a connection that was served. *)
CommandsKnown ==
  /\ \A i \in DOMAIN sbuffer : Known(sbuffer[i].c)
  /\ \A x \in async : Known(x.c)

AnswerInv == AnswerTypes /\ CommandsKnown /\ \E w \in [Requests -> Places] : Placed(w)

ServerInv == ListInv /\ QueueInv /\ AnswerInv

-----------------------------------------------------------------------------
(* Sequences and sets *)

LEMMA SeqFacts ==
  ASSUME NEW S, NEW s \in Seq(S)
  PROVE  /\ DOMAIN s = 1..Len(s) /\ Len(s) \in Nat
         /\ s = <<>> <=> Len(s) = 0
         /\ \A i \in DOMAIN s : s[i] \in S
BY LenProperties, EmptySeq, ElementOfSeq

LEMMA AppendFacts ==
  ASSUME NEW S, NEW s \in Seq(S), NEW e \in S
  PROVE  /\ Append(s, e) \in Seq(S) /\ Len(Append(s, e)) = Len(s) + 1
         /\ DOMAIN Append(s, e) = 1..(Len(s) + 1)
         /\ Append(s, e)[Len(s) + 1] = e
         /\ \A i \in 1..Len(s) : Append(s, e)[i] = s[i]
BY AppendProperties, LenProperties

LEMMA TailFacts ==
  ASSUME NEW S, NEW s \in Seq(S), s # <<>>
  PROVE  /\ Head(s) = s[1] /\ 1 \in DOMAIN s /\ Head(s) \in S /\ Len(s) > 0
         /\ Tail(s) \in Seq(S) /\ Len(Tail(s)) = Len(s) - 1
         /\ DOMAIN Tail(s) = 1..(Len(s) - 1)
         /\ \A i \in 1..(Len(s) - 1) : Tail(s)[i] = s[i + 1]
<1>1. Len(s) \in Nat \ {0} /\ DOMAIN s = 1..Len(s)
  BY SeqFacts
<1>2. Head(s) = s[1] /\ 1 \in DOMAIN s
  BY <1>1
<1>3. /\ Head(s) \in S /\ Tail(s) \in Seq(S) /\ Len(Tail(s)) = Len(s) - 1
      /\ \A i \in 1..Len(Tail(s)) : Tail(s)[i] = s[i + 1]
  BY HeadTailProperties
<1>4. DOMAIN Tail(s) = 1..(Len(s) - 1)
  BY <1>3, LenProperties
<1> QED BY <1>1, <1>2, <1>3, <1>4

LEMMA UidsFinite ==
  /\ IsFiniteSet(Uids) /\ Cardinality(Uids) = MaxConns
  /\ \A T \in SUBSET Uids : /\ IsFiniteSet(T) /\ Cardinality(T) \in 0..MaxConns
                            /\ Cardinality(T) = MaxConns => T = Uids
<1>1. IsFiniteSet(Uids) /\ Cardinality(Uids) = MaxConns
  BY ServerAssumption, FS_Interval DEF Uids
<1>2. ASSUME NEW T \in SUBSET Uids
      PROVE  /\ IsFiniteSet(T) /\ Cardinality(T) \in 0..MaxConns
             /\ Cardinality(T) = MaxConns => T = Uids
  BY <1>1, FS_Subset, FS_CardinalityType, ServerAssumption
<1> QED BY <1>1, <1>2

(* A list without repetition is as long as the set of its elements. *)
LEMMA DistinctLen ==
  ASSUME NEW s \in Seq(Uids), \A i, j \in DOMAIN s : s[i] = s[j] => i = j,
         NEW u \in Uids, \A i \in DOMAIN s : s[i] # u
  PROVE  Len(s) + 1 <= MaxConns
<1> DEFINE T == Uids \ {u}
<1>1. DOMAIN s = 1..Len(s) /\ Len(s) \in Nat
  BY SeqFacts
<1>2. IsFiniteSet(T) /\ Cardinality(T) = MaxConns - 1
  BY UidsFinite, FS_RemoveElement
<1>3. s \in [1..Len(s) -> T]
  BY <1>1, SeqFacts
<1>4. s \in Injection(1..Len(s), T)
  BY <1>1, <1>3 DEF Injection, IsInjective
<1>5. Cardinality(1..Len(s)) <= Cardinality(T)
  BY <1>2, <1>4, FS_Injection
<1>6. Cardinality(1..Len(s)) = Len(s)
  <2>1. \A n \in Nat : Cardinality(1..n) = n
    BY FS_Interval
  <2> QED BY <1>1, <2>1
<1> QED BY <1>1, <1>2, <1>5, <1>6, ServerAssumption

-----------------------------------------------------------------------------
(* The list *)

(* An uid is taken off the list. *)
LEMMA ListedLess ==
  ASSUME vConn \in [Uids -> Conns \cup {None}], NEW u \in Listed,
         vConn' = [vConn EXCEPT ![u] = None]
  PROVE  /\ Listed' = Listed \ {u}
         /\ Cardinality(Listed') = Cardinality(Listed) - 1
         /\ Cardinality(Listed) \in 1..MaxConns
<1>1. Listed' = Listed \ {u}
  BY DEF Listed
<1>2. Listed \in SUBSET Uids
  BY DEF Listed
<1>3. IsFiniteSet(Listed) /\ Cardinality(Listed) \in 0..MaxConns
  BY <1>2, UidsFinite
<1>4. Cardinality(Listed') = Cardinality(Listed) - 1
  BY <1>1, <1>3, FS_RemoveElement
<1>5. Cardinality(Listed) # 0
  BY <1>3, FS_EmptySet
<1> QED BY <1>1, <1>3, <1>4, <1>5, ServerAssumption

LEMMA ListedMore ==
  ASSUME vConn \in [Uids -> Conns \cup {None}], NEW u \in Uids, u \notin Listed,
         NEW c \in Conns, vConn' = [vConn EXCEPT ![u] = c]
  PROVE  /\ Listed' = Listed \cup {u}
         /\ Cardinality(Listed') = Cardinality(Listed) + 1
<1>1. c # None
  BY DEF Conns, None
<1>2. Listed' = Listed \cup {u}
  BY <1>1 DEF Listed
<1>3. IsFiniteSet(Listed)
  BY UidsFinite DEF Listed
<1> QED BY <1>2, <1>3, FS_AddElement

(* delNoLock of a live connection, when the acceptor does not move. *)
LEMMA Delete ==
  ASSUME ListTypes, Threads, UidsSplit, LiveListed, ReturnedUid,
         NEW c \in Conns, Live(c), delNoLock(c), conn' = [conn EXCEPT ![c] = "gone"],
         uid' = uid, acc' = acc
  PROVE  /\ vConn' \in [Uids -> Conns \cup {None}] /\ free' \in Seq(Uids)
         /\ ahead' \in [Conns -> 0..MaxConns]
         /\ UidsSplit' /\ LiveListed' /\ ReturnedUid'
         /\ Cardinality(Listed') = Cardinality(Listed) - 1
<1> DEFINE u == uid[c]
<1>1. u \in Uids /\ vConn[u] = c /\ c # None
  BY DEF LiveListed, Conns, None
<1>2. u \in Listed
  BY <1>1 DEF Listed
<1>3. /\ vConn' = [vConn EXCEPT ![u] = None] /\ free' = Append(free, u)
      /\ ahead' = [ahead EXCEPT ![c] = Len(free) + 1]
  BY DEF delNoLock
<1>4. /\ vConn \in [Uids -> Conns \cup {None}] /\ free \in Seq(Uids)
      /\ ahead \in [Conns -> 0..MaxConns] /\ uid \in [Conns -> {0} \cup Uids]
      /\ conn \in [Conns -> {"backlog", "refused", "open", "closing", "broken", "gone"}]
  BY DEF ListTypes
<1> HIDE DEF u
<1>5. Listed' = Listed \ {u} /\ Cardinality(Listed') = Cardinality(Listed) - 1
  BY <1>2, <1>3, <1>4, ListedLess
<1>6. Held' = Held
  BY DEF Held
<1>7. /\ free' \in Seq(Uids) /\ Len(free') = Len(free) + 1
      /\ DOMAIN free' = 1..(Len(free) + 1) /\ free'[Len(free) + 1] = u
      /\ \A i \in 1..Len(free) : free'[i] = free[i]
      /\ DOMAIN free = 1..Len(free) /\ Len(free) \in Nat
  BY <1>1, <1>3, <1>4, AppendFacts, SeqFacts
<1>8. \A i \in DOMAIN free : free[i] # u
  BY <1>2 DEF UidsSplit
<1>9. Len(free) + 1 <= MaxConns
  BY <1>1, <1>4, <1>8, DistinctLen DEF UidsSplit
<1>10. ahead' \in [Conns -> 0..MaxConns]
  BY <1>3, <1>4, <1>7, <1>9, ServerAssumption
<1>11. UidsSplit'
  <2>1. \A i, j \in DOMAIN free' : free'[i] = free'[j] => i = j
    BY <1>7, <1>8 DEF UidsSplit
  <2>2. u \notin Held /\ u \in Uids
    BY <1>1, <1>2 DEF UidsSplit
  <2>3. {free[i] : i \in DOMAIN free} = Uids \ (Listed \cup Held)
    BY DEF UidsSplit
  <2>4. {free'[i] : i \in DOMAIN free'} = {free[i] : i \in DOMAIN free} \cup {u}
    BY <1>7
  <2>5. {free'[i] : i \in DOMAIN free'} = Uids \ (Listed' \cup Held')
    BY <1>5, <1>6, <2>2, <2>3, <2>4
  <2>6. Held' \cap Listed' = {}
    BY <1>5, <1>6 DEF UidsSplit
  <2>7. \A v \in Listed' : uid'[vConn'[v]] = v
    <3>1. TAKE v \in Listed'
    <3>2. v \in Listed /\ v # u /\ v \in Uids
      BY <3>1, <1>5 DEF Listed
    <3>3. vConn'[v] = vConn[v]
      BY <1>3, <1>4, <3>2
    <3> QED BY <3>2, <3>3 DEF UidsSplit
  <2> QED BY <2>1, <2>5, <2>6, <2>7 DEF UidsSplit
<1>12. LiveListed'
  <2>1. ASSUME NEW d \in Conns, Live(d)'
        PROVE  uid'[d] \in Uids /\ vConn'[uid'[d]] = d
    <3>1. d # c /\ Live(d)
      BY <2>1, <1>4 DEF Live
    <3>2. uid[d] \in Uids /\ vConn[uid[d]] = d
      BY <3>1 DEF LiveListed
    <3>3. uid[d] # u
      BY <1>1, <3>1, <3>2
    <3> QED BY <1>3, <1>4, <3>2, <3>3
  <2>2. ASSUME acc'.pc \in {"count", "register"} PROVE vConn'[uid'[acc'.c]] = acc'.c
    <3>1. acc.c \in Conns /\ conn[acc.c] = "backlog" /\ uid[acc.c] \in Uids
      BY <2>2 DEF Threads, Accepting
    <3>2. acc.c # c
      BY <3>1 DEF Live
    <3>3. vConn[uid[acc.c]] = acc.c
      BY <2>2 DEF LiveListed
    <3>4. uid[acc.c] # u
      BY <1>1, <3>2, <3>3
    <3> QED BY <1>3, <1>4, <3>1, <3>3, <3>4
  <2>3. ASSUME NEW v \in Listed'
        PROVE  \/ Live(vConn[v])'
               \/ acc'.pc \in {"count", "register", "crashed"} /\ acc'.c = vConn'[v]
    <3>1. v \in Listed /\ v # u /\ v \in Uids
      BY <2>3, <1>5 DEF Listed
    <3>2. vConn'[v] = vConn[v] /\ vConn[v] \in Conns
      BY <1>3, <1>4, <3>1 DEF Listed
    <3>3. vConn[v] # c
      <4>1. uid[vConn[v]] = v
        BY <3>1 DEF UidsSplit
      <4> QED BY <4>1, <3>1 DEF u
    <3>4. conn'[vConn'[v]] = conn[vConn[v]]
      BY <3>2, <3>3, <1>4
    <3> QED BY <3>1, <3>2, <3>4 DEF LiveListed, Live
  <2> QED BY <2>1, <2>2, <2>3 DEF LiveListed
<1>13. ReturnedUid'
  <2>1. SUFFICES ASSUME NEW d \in Conns, ahead'[d] > 0
                 PROVE  /\ conn'[d] = "gone" /\ ahead'[d] <= Len(free')
                        /\ free'[ahead'[d]] = uid'[d]
    BY DEF ReturnedUid
  <2>2. ahead'[d] > 0
    BY <2>1
  <2>3. CASE d = c
    BY <2>3, <1>3, <1>4, <1>7 DEF u
  <2>4. CASE d # c
    <3>1. ahead'[d] = ahead[d] /\ conn'[d] = conn[d]
      BY <2>4, <1>3, <1>4
    <3>2. conn[d] = "gone" /\ ahead[d] <= Len(free) /\ free[ahead[d]] = uid[d]
      BY <2>2, <3>1 DEF ReturnedUid
    <3>3. ahead[d] \in 1..Len(free)
      BY <2>2, <3>1, <3>2, <1>4, <1>7, ServerAssumption
    <3> QED BY <3>1, <3>2, <3>3, <1>7
  <2> QED BY <2>3, <2>4
<1> QED BY <1>1, <1>3, <1>4, <1>5, <1>7, <1>10, <1>11, <1>12, <1>13

ConnStates == {"backlog", "refused", "open", "closing", "broken", "gone"}

NetRecords == [pc : {"loop", "push", "dec", "del", "down", "crashed"},
               c : Conns \cup {None}, why : {"none", "read", "close", "timeout"},
               batch : Seq(Contexts)]

(* Steps of the network thread up to a push, and back: no connection is    *)
(* listed or deleted, none changes between live and not.                   *)
LEMMA ListQuiet ==
  ASSUME ListInv, UNCHANGED <<opt, acc, list>>,
         conn' \in [Conns -> ConnStates], sent' \in 0..MaxRequests, net' \in NetRecords,
         \A c \in Conns : /\ Live(c)' <=> Live(c)
                          /\ ~Live(c) => conn'[c] = conn[c],
         net.pc \in {"loop", "push"},
         \/ net'.pc = "loop" /\ net'.why = "none"
         \/ /\ net'.pc = "push" /\ net'.why \in {"read", "close", "timeout"}
            /\ net'.c \in Conns /\ Live(net'.c)
  PROVE  ListInv'
<1>1. /\ opt' = opt /\ acc' = acc /\ curConns' = curConns /\ uid' = uid
      /\ vConn' = vConn /\ free' = free /\ ahead' = ahead
  BY DEF list
<1>2. ListTypes /\ Threads /\ Reserved /\ ReturnedUid /\ UidsSplit /\ LiveListed /\ CountExact
  BY DEF ListInv
<1>3. ListTypes'
  BY <1>1, <1>2 DEF ListTypes, ConnStates, NetRecords
<1>4. Threads'
  <2>1. acc.pc \in Accepting => conn'[acc.c] = "backlog"
    BY <1>2 DEF Threads, Live
  <2>2. \A c \in Conns : conn'[c] = "gone" => conn[c] = "gone"
    BY DEF Live
  <2>3. net'.pc = "push" => conn'[net'.c] \in {"open", "closing", "broken"}
    BY DEF Live
  <2>4. acc.pc # "crashed"
    BY <1>2 DEF Threads
  <2> QED BY <1>1, <1>2, <2>1, <2>2, <2>3, <2>4 DEF Threads, Live
<1>5. Reserved' /\ Listed' = Listed /\ Held' = Held
  BY <1>1, <1>2 DEF Reserved, Listed, Held
<1>6. ReturnedUid'
  BY <1>1, <1>2 DEF ReturnedUid, Live
<1>7. UidsSplit'
  BY <1>1, <1>2, <1>5 DEF UidsSplit
<1>8. LiveListed'
  <2>1. \A u \in Listed : vConn[u] \in Conns
    BY <1>2 DEF Listed, ListTypes
  <2> QED BY <1>1, <1>2, <1>5, <2>1 DEF LiveListed, Live
<1>9. CountExact'
  BY <1>1, <1>2, <1>5 DEF CountExact
<1> QED BY <1>3, <1>4, <1>5, <1>6, <1>7, <1>8, <1>9 DEF ListInv

(* What AcceptUid and the others need to know of the list. *)
LEMMA AcceptFacts ==
  ASSUME ListInv, acc.pc \in Accepting
  PROVE  /\ net.pc \notin {"down", "crashed"}
         /\ ListTypes /\ Threads /\ Reserved /\ ReturnedUid /\ UidsSplit /\ LiveListed
         /\ acc.c \in Conns /\ conn[acc.c] = "backlog"
BY DEF ListInv, Threads, Accepting

LEMMA AcceptList ==
  ASSUME ListInv, NEW c \in Conns, Accept(c)
  PROVE  ListInv'
<1>1. /\ acc.pc = "loop" /\ conn[c] = "backlog" /\ sent' = sent /\ net' = net
      /\ opt' = opt /\ curConns' = curConns /\ uid' = uid
      /\ vConn' = vConn /\ free' = free /\ ahead' = ahead
  BY DEF Accept, list
<1>2. /\ ListTypes /\ Threads /\ Reserved /\ ReturnedUid /\ CountExact
      /\ net.pc # "down" /\ UidsSplit /\ LiveListed
  BY <1>1 DEF ListInv, Threads
<1>3. \/ conn' = [conn EXCEPT ![c] = "refused"] /\ acc' = acc
      \/ /\ ~(curConns + 1 > MaxConns)
         /\ acc' = [pc |-> "uid", c |-> c] /\ conn' = conn
  BY DEF Accept, isLimitMaxConnection
<1>4. ListTypes'
  <2>1. conn' \in [Conns -> ConnStates]
    BY <1>2, <1>3 DEF ListTypes, ConnStates
  <2>2. acc' \in [pc : Accepting \cup {"loop", "joinNet", "joinHandles", "down", "crashed"},
                  c : Conns \cup {None}]
    BY <1>2, <1>3 DEF ListTypes, Accepting
  <2> QED BY <1>1, <1>2, <2>1, <2>2 DEF ListTypes, ConnStates
<1>5. \A d \in Conns : /\ Live(d)' <=> Live(d)
                       /\ conn'[d] = "gone" <=> conn[d] = "gone"
  BY <1>1, <1>2, <1>3 DEF ListTypes, Live
<1>6. Threads'
  BY <1>1, <1>2, <1>3, <1>5 DEF Threads, Accepting, Live, ListTypes
<1>7. Reserved'
  BY <1>1, <1>2, <1>3, ServerAssumption DEF Reserved, ListTypes
<1>8. ReturnedUid'
  BY <1>1, <1>2, <1>5 DEF ReturnedUid
<1>9. Listed' = Listed /\ Held' = {} /\ Held = {}
  BY <1>1, <1>3 DEF Listed, Held
<1>10. UidsSplit'
  BY <1>1, <1>2, <1>9 DEF UidsSplit
<1>11. LiveListed'
  <2>1. \A u \in Listed : vConn[u] \in Conns
    BY <1>2 DEF Listed, ListTypes
  <2>2. \A u \in Listed : Live(vConn[u])
    BY <1>1, <1>2 DEF LiveListed
  <2>3. acc'.pc \notin {"count", "register"}
    BY <1>1, <1>3
  <2>4. \A u \in Listed : conn'[vConn[u]] \in {"open", "closing", "broken"}
    BY <1>5, <2>1, <2>2 DEF Live
  <2> QED BY <1>1, <1>2, <1>5, <1>9, <2>1, <2>3, <2>4 DEF LiveListed, Live
<1>12. CountExact'
  BY <1>1, <1>2, <1>3, <1>9 DEF CountExact
<1> QED BY <1>1, <1>2, <1>4, <1>6, <1>7, <1>8, <1>10, <1>11, <1>12 DEF ListInv

LEMMA AcceptUidList ==
  ASSUME ListInv, AcceptUid
  PROVE  ListInv'
<1>1. /\ acc.pc = "uid" /\ free # <<>> /\ sent' = sent /\ net' = net /\ conn' = conn
      /\ opt' = opt /\ curConns' = curConns /\ vConn' = vConn
      /\ uid' = [uid EXCEPT ![acc.c] = Head(free)] /\ free' = Tail(free)
      /\ ahead' = [c \in Conns |-> IF ahead[c] > 0 THEN ahead[c] - 1 ELSE 0]
      /\ acc' = [acc EXCEPT !.pc = "add"]
  BY DEF AcceptUid
<1>2. /\ net.pc \notin {"down", "crashed"} /\ CountExact
      /\ ListTypes /\ Threads /\ Reserved /\ ReturnedUid /\ UidsSplit /\ LiveListed
      /\ acc.c \in Conns /\ conn[acc.c] = "backlog"
  BY <1>1, AcceptFacts DEF ListInv, Accepting
<1> DEFINE c == acc.c
           u == Head(free)
<1>3. /\ free \in Seq(Uids) /\ uid \in [Conns -> {0} \cup Uids]
      /\ ahead \in [Conns -> 0..MaxConns] /\ acc'.pc = "add" /\ acc'.c = c
      /\ vConn \in [Uids -> Conns \cup {None}] /\ acc' \in [pc : {"add"}, c : Conns]
  BY <1>1, <1>2 DEF ListTypes
<1>4. /\ u = free[1] /\ 1 \in DOMAIN free /\ u \in Uids /\ Len(free) > 0
      /\ free' \in Seq(Uids) /\ Len(free') = Len(free) - 1
      /\ DOMAIN free' = 1..(Len(free) - 1)
      /\ \A i \in 1..(Len(free) - 1) : free'[i] = free[i + 1]
      /\ DOMAIN free = 1..Len(free) /\ Len(free) \in Nat
  BY <1>1, <1>3, TailFacts, SeqFacts
<1>5. uid'[c] = u /\ uid' \in [Conns -> {0} \cup Uids]
      /\ \A d \in Conns \ {c} : uid'[d] = uid[d]
  BY <1>1, <1>2, <1>3, <1>4
<1> HIDE DEF c, u
<1>6. Listed' = Listed /\ Held' = {u} /\ Held = {}
  BY <1>1, <1>3, <1>5 DEF Listed, Held
<1>7. ahead' \in [Conns -> 0..MaxConns]
  BY <1>1, <1>3, ServerAssumption
<1>8. ListTypes'
  BY <1>1, <1>2, <1>3, <1>4, <1>5, <1>7 DEF ListTypes, Accepting
<1>9. ~Live(c) /\ conn[c] # "gone"
  BY <1>2 DEF Live, c
<1>10. Threads'
  BY <1>1, <1>2, <1>3, <1>4, <1>5, <1>9 DEF Threads, Accepting, Live, c
<1>11. Reserved'
  BY <1>1, <1>2, <1>3 DEF Reserved
<1>12. ReturnedUid'
  <2>1. SUFFICES ASSUME NEW d \in Conns, ahead'[d] > 0
                 PROVE  conn[d] = "gone" /\ ahead'[d] <= Len(free') /\ free'[ahead'[d]] = uid'[d]
    BY <1>1 DEF ReturnedUid
  <2>2. ahead[d] > 0 /\ ahead'[d] = ahead[d] - 1 /\ ahead[d] \in Nat
    BY <2>1, <1>1, <1>3, ServerAssumption
  <2>3. conn[d] = "gone" /\ ahead[d] <= Len(free) /\ free[ahead[d]] = uid[d]
    BY <1>2, <2>2 DEF ReturnedUid
  <2>4. d # c
    BY <2>3, <1>9
  <2>5. ahead'[d] \in 1..(Len(free) - 1) /\ ahead'[d] + 1 = ahead[d]
    BY <2>1, <2>2, <2>3, <1>4
  <2> QED BY <2>3, <2>4, <2>5, <1>4, <1>5
<1>13. UidsSplit'
  <2>1. \A i, j \in DOMAIN free' : free'[i] = free'[j] => i = j
    BY <1>2, <1>4 DEF UidsSplit
  <2>2. {free[i] : i \in DOMAIN free} = Uids \ Listed
    BY <1>2, <1>6 DEF UidsSplit
  <2>3. {free'[i] : i \in DOMAIN free'} = {free[i] : i \in DOMAIN free} \ {u}
    <3>1. \A i \in DOMAIN free' : free'[i] = free[i + 1] /\ i + 1 \in DOMAIN free /\ i + 1 # 1
      BY <1>4
    <3>2. \A i \in DOMAIN free' : free'[i] # u
      BY <1>2, <1>4, <3>1 DEF UidsSplit
    <3>3. \A i \in DOMAIN free : free[i] # u => i - 1 \in DOMAIN free' /\ free'[i - 1] = free[i]
      BY <1>4
    <3> QED BY <3>1, <3>2, <3>3
  <2>4. u \notin Listed
    BY <2>2, <1>4
  <2>5. \A v \in Listed : uid'[vConn'[v]] = v
    <3>1. SUFFICES ASSUME NEW v \in Listed PROVE uid'[vConn[v]] = v
      BY <1>1
    <3>2. uid[vConn[v]] = v /\ vConn[v] \in Conns
      BY <1>2, <1>3 DEF UidsSplit, Listed
    <3>3. Live(vConn[v])
      BY <1>1, <1>2 DEF LiveListed
    <3> QED BY <3>2, <3>3, <1>5, <1>9
  <2> QED BY <2>1, <2>2, <2>3, <2>4, <2>5, <1>6 DEF UidsSplit
<1>14. LiveListed'
  <2>1. \A d \in Conns : Live(d) => uid'[d] = uid[d]
    BY <1>5, <1>9
  <2>2. \A v \in Listed : Live(vConn[v])
    BY <1>1, <1>2 DEF LiveListed
  <2> QED BY <1>1, <1>2, <1>3, <1>6, <2>1, <2>2 DEF LiveListed, Live
<1>15. CountExact'
  BY <1>1, <1>2, <1>3, <1>6 DEF CountExact
<1> QED BY <1>1, <1>2, <1>8, <1>10, <1>11, <1>12, <1>13, <1>14, <1>15 DEF ListInv

LEMMA AcceptAddList ==
  ASSUME ListInv, AcceptAdd
  PROVE  ListInv'
<1>1. /\ acc.pc = "add" /\ sent' = sent /\ net' = net /\ conn' = conn
      /\ opt' = opt /\ curConns' = curConns /\ uid' = uid /\ free' = free /\ ahead' = ahead
      /\ vConn' = [vConn EXCEPT ![uid[acc.c]] = acc.c]
      /\ acc' = [acc EXCEPT !.pc = "count"]
  BY DEF AcceptAdd
<1>2. /\ net.pc \notin {"down", "crashed"} /\ CountExact
      /\ ListTypes /\ Threads /\ Reserved /\ ReturnedUid /\ UidsSplit /\ LiveListed
      /\ acc.c \in Conns /\ conn[acc.c] = "backlog"
  BY <1>1, AcceptFacts DEF ListInv, Accepting
<1> DEFINE c == acc.c
           u == uid[acc.c]
<1>3. /\ acc'.pc = "count" /\ acc'.c = c /\ vConn \in [Uids -> Conns \cup {None}]
      /\ acc' \in [pc : {"count"}, c : Conns] /\ u \in Uids
  BY <1>1, <1>2 DEF ListTypes, Threads
<1>4. Held = {u} /\ Held' = {} /\ u \notin Listed
  BY <1>1, <1>2, <1>3 DEF Held, UidsSplit
<1>5. Listed' = Listed \cup {u} /\ Cardinality(Listed') = Cardinality(Listed) + 1
  BY <1>1, <1>2, <1>3, <1>4, ListedMore
<1>6. vConn' \in [Uids -> Conns \cup {None}] /\ vConn'[u] = c
      /\ \A v \in Uids \ {u} : vConn'[v] = vConn[v]
  BY <1>1, <1>2, <1>3
<1>7. ListTypes'
  BY <1>1, <1>2, <1>3, <1>6 DEF ListTypes, Accepting
<1>8. Threads' /\ Reserved' /\ ReturnedUid'
  BY <1>1, <1>2, <1>3 DEF Threads, Accepting, Live, Reserved, ReturnedUid
<1>9. UidsSplit'
  <2>1. \A v \in Listed' : uid'[vConn'[v]] = v
    <3>1. SUFFICES ASSUME NEW v \in Listed' PROVE uid[vConn'[v]] = v
      BY <1>1
    <3>2. CASE v = u
      BY <3>2, <1>6
    <3>3. CASE v # u
      <4>1. v \in Listed /\ v \in Uids
        BY <3>3, <1>5 DEF Listed
      <4> QED BY <4>1, <3>3, <1>2, <1>6 DEF UidsSplit
    <3> QED BY <3>2, <3>3
  <2>2. {free'[i] : i \in DOMAIN free'} = Uids \ (Listed' \cup Held')
    BY <1>1, <1>2, <1>4, <1>5 DEF UidsSplit
  <2> QED BY <1>1, <1>2, <1>4, <2>1, <2>2 DEF UidsSplit
<1>10. LiveListed'
  <2>1. ASSUME NEW d \in Conns, Live(d)
        PROVE  uid[d] \in Uids /\ vConn'[uid[d]] = d
    <3>1. uid[d] \in Uids /\ vConn[uid[d]] = d
      BY <2>1, <1>2 DEF LiveListed
    <3>2. uid[d] \in Listed
      BY <3>1 DEF Listed, Conns, None
    <3> QED BY <3>1, <3>2, <1>4, <1>6
  <2>2. ASSUME NEW v \in Listed', v # u PROVE Live(vConn'[v])
    <3>1. v \in Listed /\ v \in Uids
      BY <2>2, <1>5 DEF Listed
    <3> QED BY <3>1, <2>2, <1>1, <1>2, <1>6 DEF LiveListed
  <2> QED BY <1>1, <1>3, <1>6, <2>1, <2>2 DEF LiveListed, Live
<1>11. CountExact'
  <2>1. Cardinality(Listed) \in Nat
    BY UidsFinite DEF Listed
  <2> QED BY <1>1, <1>2, <1>3, <1>5, <2>1 DEF CountExact
<1> QED BY <1>1, <1>2, <1>7, <1>8, <1>9, <1>10, <1>11 DEF ListInv

LEMMA AcceptCountList ==
  ASSUME ListInv, AcceptCount
  PROVE  ListInv'
<1>1. /\ acc.pc = "count" /\ sent' = sent /\ net' = net /\ conn' = conn
      /\ opt' = opt /\ curConns' = curConns + 1 /\ uid' = uid /\ free' = free /\ ahead' = ahead
      /\ vConn' = vConn /\ acc' = [acc EXCEPT !.pc = "register"]
  BY DEF AcceptCount
<1>2. /\ net.pc \notin {"down", "crashed"} /\ CountExact
      /\ ListTypes /\ Threads /\ Reserved /\ ReturnedUid /\ UidsSplit /\ LiveListed
      /\ acc.c \in Conns /\ conn[acc.c] = "backlog"
  BY <1>1, AcceptFacts DEF ListInv, Accepting
<1>3. /\ acc'.pc = "register" /\ acc'.c = acc.c /\ acc' \in [pc : {"register"}, c : Conns]
      /\ curConns \in Nat
  <2>1. acc'.pc = "register" /\ acc'.c = acc.c /\ acc' \in [pc : {"register"}, c : Conns]
    BY <1>1, <1>2 DEF ListTypes
  <2> QED BY <2>1, <1>2, ServerAssumption DEF ListTypes
<1>4. Listed' = Listed /\ Held' = Held
  BY <1>1, <1>3 DEF Listed, Held
<1>5. curConns' \in 0..MaxConns
  BY <1>1, <1>2, <1>3, ServerAssumption DEF Reserved
<1>6. ListTypes'
  BY <1>1, <1>2, <1>3, <1>5 DEF ListTypes, Accepting
<1>7. Threads' /\ Reserved' /\ ReturnedUid'
  BY <1>1, <1>2, <1>3, <1>5, ServerAssumption DEF Threads, Accepting, Live, Reserved, ReturnedUid
<1>8. UidsSplit' /\ LiveListed'
  BY <1>1, <1>2, <1>3, <1>4 DEF UidsSplit, LiveListed, Live
<1>9. CountExact'
  <2>1. Cardinality(Listed) \in Nat
    BY UidsFinite DEF Listed
  <2> QED BY <1>1, <1>2, <1>3, <1>4, <2>1 DEF CountExact
<1> QED BY <1>1, <1>2, <1>6, <1>7, <1>8, <1>9 DEF ListInv

LEMMA AcceptRegisterList ==
  ASSUME ListInv, AcceptRegister
  PROVE  ListInv'
<1>1. /\ acc.pc = "register" /\ sent' = sent /\ net' = net
      /\ conn' = [conn EXCEPT ![acc.c] = "open"] /\ acc' = [pc |-> "loop", c |-> None]
      /\ opt' = opt /\ curConns' = curConns /\ uid' = uid /\ free' = free /\ ahead' = ahead
      /\ vConn' = vConn
  BY DEF AcceptRegister, list
<1>2. /\ net.pc \notin {"down", "crashed"} /\ CountExact
      /\ ListTypes /\ Threads /\ Reserved /\ ReturnedUid /\ UidsSplit /\ LiveListed
      /\ acc.c \in Conns /\ conn[acc.c] = "backlog"
  BY <1>1, AcceptFacts DEF ListInv, Accepting
<1> DEFINE c == acc.c
<1>3. conn \in [Conns -> ConnStates] /\ conn'[c] = "open" /\ c \in Conns
      /\ \A d \in Conns \ {c} : conn'[d] = conn[d]
  BY <1>1, <1>2 DEF ListTypes, ConnStates
<1>4. Listed' = Listed /\ Held' = Held
  BY <1>1 DEF Listed, Held
<1>5. ListTypes'
  BY <1>1, <1>2, <1>3 DEF ListTypes, ConnStates
<1>6. Threads' /\ Reserved'
  BY <1>1, <1>2, <1>3 DEF Threads, Accepting, Live, Reserved
<1>7. ReturnedUid'
  <2>1. SUFFICES ASSUME NEW d \in Conns, ahead[d] > 0
                 PROVE  conn'[d] = "gone" /\ ahead[d] <= Len(free) /\ free[ahead[d]] = uid[d]
    BY <1>1 DEF ReturnedUid
  <2> QED BY <2>1, <1>2, <1>3 DEF ReturnedUid
<1>8. UidsSplit'
  BY <1>1, <1>2, <1>4 DEF UidsSplit
<1>9. LiveListed'
  <2>1. uid[c] \in Uids /\ vConn[uid[c]] = c
    BY <1>1, <1>2 DEF LiveListed, Threads
  <2>2. \A d \in Conns : Live(d)' => uid[d] \in Uids /\ vConn[uid[d]] = d
    BY <1>2, <1>3, <2>1 DEF LiveListed, Live
  <2>3. \A v \in Listed : vConn[v] \in Conns /\ (vConn[v] = c \/ Live(vConn[v]))
    BY <1>1, <1>2 DEF LiveListed, Listed, ListTypes
  <2>4. \A v \in Listed : Live(vConn[v])'
    BY <2>3, <1>1, <1>3 DEF Live
  <2> QED BY <1>1, <1>4, <2>2, <2>4 DEF LiveListed
<1>10. CountExact'
  BY <1>1, <1>2, <1>4 DEF CountExact
<1> QED BY <1>1, <1>2, <1>5, <1>6, <1>7, <1>8, <1>9, <1>10 DEF ListInv

LEMMA DownOrNot ==
  ASSUME ListInv, net.pc # "down"
  PROVE  /\ ListTypes /\ Threads /\ Reserved /\ ReturnedUid /\ UidsSplit /\ LiveListed
         /\ CountExact
         /\ Cardinality(Listed) \in 0..MaxConns
         /\ acc.pc = "count" => Cardinality(Listed) > 0
<1>1. ListTypes /\ Threads /\ Reserved /\ ReturnedUid /\ UidsSplit /\ LiveListed /\ CountExact
  BY DEF ListInv
<1>2. IsFiniteSet(Listed) /\ Cardinality(Listed) \in 0..MaxConns
  BY UidsFinite DEF Listed
<1>3. ASSUME acc.pc = "count" PROVE Cardinality(Listed) > 0
  <2>1. uid[acc.c] \in Uids /\ vConn[uid[acc.c]] = acc.c /\ acc.c \in Conns
    BY <1>1, <1>3 DEF LiveListed, Threads, Accepting
  <2>2. uid[acc.c] \in Listed
    BY <2>1 DEF Listed, Conns, None
  <2> QED BY <1>2, <2>2, FS_EmptySet, ServerAssumption
<1> QED BY <1>1, <1>2, <1>3

(* NetPush of delConnection: the close of the socket and delNoLock. *)
LEMMA NetPushCloseList ==
  ASSUME ListInv, net.pc = "push", net.why = "close",
         conn' = [conn EXCEPT ![net.c] = "gone"], delNoLock(net.c),
         net' = [net EXCEPT !.pc = "dec", !.batch = <<>>],
         UNCHANGED <<opt, sent, acc, curConns, uid>>
  PROVE  ListInv'
<1>1. /\ ListTypes /\ Threads /\ Reserved /\ ReturnedUid /\ UidsSplit /\ LiveListed /\ CountExact
      /\ Cardinality(Listed) \in 0..MaxConns
  BY DownOrNot
<1> DEFINE c == net.c
<1>2. c \in Conns /\ Live(c)
  BY <1>1 DEF Threads
<1>3. net' \in NetRecords /\ net'.pc = "dec" /\ net'.why = "close" /\ net'.c = c
  <2>1. net \in NetRecords
    BY <1>1 DEF ListTypes, NetRecords
  <2>2. <<>> \in Seq(Contexts)
    BY EmptySeq
  <2> QED BY <2>1, <2>2 DEF NetRecords
<1>4. /\ vConn' \in [Uids -> Conns \cup {None}] /\ free' \in Seq(Uids)
      /\ ahead' \in [Conns -> 0..MaxConns]
      /\ UidsSplit' /\ LiveListed' /\ ReturnedUid'
      /\ Cardinality(Listed') = Cardinality(Listed) - 1
  BY <1>1, <1>2, Delete
<1>5. conn' \in [Conns -> ConnStates]
  BY <1>1, <1>2 DEF ListTypes, ConnStates
<1>6. ListTypes'
  BY <1>1, <1>3, <1>4, <1>5 DEF ListTypes, ConnStates, NetRecords
<1>7. Threads'
  <2>1. acc.pc \in Accepting => acc.c \in Conns /\ conn'[acc.c] = "backlog"
    BY <1>1, <1>2 DEF Threads, Live, ListTypes
  <2>2. \A d \in Conns : conn'[d] = "gone" => uid[d] \in Uids
    BY <1>1, <1>2 DEF Threads, LiveListed, ListTypes
  <2> QED BY <1>1, <1>3, <2>1, <2>2 DEF Threads, Live
<1>8. Reserved'
  BY <1>1 DEF Reserved
<1>9. CountExact'
  BY <1>1, <1>3, <1>4, ServerAssumption DEF CountExact, ListTypes
<1> QED BY <1>3, <1>4, <1>6, <1>7, <1>8, <1>9 DEF ListInv

LEMMA NetDelList ==
  ASSUME ListInv, NetDel
  PROVE  ListInv'
<1>1. /\ net.pc = "del" /\ conn' = [conn EXCEPT ![net.c] = "gone"]
      /\ delNoLock(net.c) /\ net' = Loop
      /\ opt' = opt /\ sent' = sent /\ acc' = acc /\ curConns' = curConns /\ uid' = uid
  BY DEF NetDel
<1>2. /\ ListTypes /\ Threads /\ Reserved /\ ReturnedUid /\ UidsSplit /\ LiveListed /\ CountExact
      /\ Cardinality(Listed) \in 0..MaxConns
  BY <1>1, DownOrNot
<1> DEFINE c == net.c
<1>3. c \in Conns /\ Live(c)
  BY <1>1, <1>2 DEF Threads
<1>4. net' \in NetRecords /\ net'.pc = "loop" /\ net'.why = "none"
  <2>1. <<>> \in Seq(Contexts)
    BY EmptySeq
  <2> QED BY <1>1, <2>1 DEF NetRecords, Loop
<1>5. /\ vConn' \in [Uids -> Conns \cup {None}] /\ free' \in Seq(Uids)
      /\ ahead' \in [Conns -> 0..MaxConns]
      /\ UidsSplit' /\ LiveListed' /\ ReturnedUid'
      /\ Cardinality(Listed') = Cardinality(Listed) - 1
  BY <1>1, <1>2, <1>3, Delete
<1>6. conn' \in [Conns -> ConnStates]
  BY <1>1, <1>2, <1>3 DEF ListTypes, ConnStates
<1>7. ListTypes'
  BY <1>1, <1>2, <1>4, <1>5, <1>6 DEF ListTypes, ConnStates, NetRecords
<1>8. Threads'
  <2>1. acc.pc \in Accepting => acc.c \in Conns /\ conn'[acc.c] = "backlog"
    BY <1>1, <1>2, <1>3 DEF Threads, Live, ListTypes
  <2>2. \A d \in Conns : conn'[d] = "gone" => uid[d] \in Uids
    BY <1>1, <1>2, <1>3 DEF Threads, LiveListed, ListTypes
  <2> QED BY <1>1, <1>2, <1>4, <2>1, <2>2 DEF Threads, Live
<1>9. Reserved'
  BY <1>1, <1>2 DEF Reserved
<1>10. CountExact'
  BY <1>1, <1>2, <1>4, <1>5, ServerAssumption DEF CountExact, ListTypes
<1> QED BY <1>4, <1>5, <1>7, <1>8, <1>9, <1>10 DEF ListInv

(* The count goes down, before delNoLock (checkTimeout) or after it. *)
LEMMA CountDown ==
  ASSUME ListInv, curConns' = curConns - 1,
         UNCHANGED <<opt, conn, sent, acc, uid, vConn, free, ahead>>,
         \/ /\ net.pc = "push" /\ net.why = "timeout"
            /\ net' = [net EXCEPT !.pc = "del", !.batch = <<>>]
         \/ net.pc = "dec" /\ net' = Loop
  PROVE  ListInv'
<1>1. /\ ListTypes /\ Threads /\ Reserved /\ ReturnedUid /\ UidsSplit /\ LiveListed /\ CountExact
      /\ Cardinality(Listed) \in 0..MaxConns
      /\ acc.pc = "count" => Cardinality(Listed) > 0
  BY DownOrNot
<1>2. /\ net' \in NetRecords
      /\ \/ /\ net.pc = "push" /\ net'.pc = "del"
            /\ net'.c = net.c /\ net'.why = "timeout"
         \/ net.pc = "dec" /\ net'.pc = "loop" /\ net'.why = "none"
  <2>1. net \in NetRecords
    BY <1>1 DEF ListTypes, NetRecords
  <2>2. <<>> \in Seq(Contexts)
    BY EmptySeq
  <2>3. CASE /\ net.pc = "push" /\ net.why = "timeout"
             /\ net' = [net EXCEPT !.pc = "del", !.batch = <<>>]
    BY <2>1, <2>2, <2>3 DEF NetRecords
  <2>4. CASE net.pc = "dec" /\ net' = Loop
    BY <2>2, <2>4 DEF NetRecords, Loop
  <2> QED BY <2>3, <2>4
<1>3. Listed' = Listed /\ Held' = Held
  BY DEF Listed, Held
<1>4. curConns' \in 0..MaxConns
  <2>1. CASE net.pc = "dec"
    BY <2>1, <1>1, ServerAssumption, SMTT(30) DEF CountExact, ListTypes
  <2>2. CASE net.pc = "push"
    <3>1. net.c \in Conns /\ Live(net.c)
      BY <2>2, <1>1 DEF Threads
    <3>2. uid[net.c] \in Uids /\ vConn[uid[net.c]] = net.c
      BY <3>1, <1>1 DEF LiveListed
    <3>3. uid[net.c] \in Listed
      BY <3>1, <3>2 DEF Listed, Conns, None
    <3>4. Cardinality(Listed) >= 1
      BY <3>3, <1>1, UidsFinite, FS_EmptySet DEF Listed
    <3>5. CASE acc.pc # "count"
      BY <3>4, <3>5, <2>2, <1>1, ServerAssumption, SMTT(30) DEF CountExact, ListTypes
    <3>6. CASE acc.pc = "count"
      <4>1. acc.c \in Conns /\ uid[acc.c] \in Uids /\ vConn[uid[acc.c]] = acc.c
            /\ conn[acc.c] = "backlog"
        BY <3>6, <1>1 DEF LiveListed, Threads, Accepting
      <4>2. uid[acc.c] \in Listed
        BY <4>1 DEF Listed, Conns, None
      <4>3. uid[acc.c] # uid[net.c]
        BY <4>1, <3>1, <3>2 DEF Live
      <4>4. IsFiniteSet(Listed) /\ Cardinality(Listed) # 1
        <5>1. IsFiniteSet(Listed)
          BY UidsFinite DEF Listed
        <5> QED BY <5>1, <4>2, <4>3, <3>3, FS_Singleton
      <4> QED BY <4>4, <3>4, <3>6, <2>2, <1>1, ServerAssumption, SMTT(30) DEF CountExact, ListTypes
    <3> QED BY <3>5, <3>6
  <2> QED BY <2>1, <2>2
<1>5. ListTypes'
  BY <1>1, <1>2, <1>4 DEF ListTypes, NetRecords
<1>6. Threads'
  BY <1>1, <1>2 DEF Threads, Live
<1>7. Reserved'
  BY <1>1, <1>4, ServerAssumption DEF Reserved, ListTypes
<1>8. UidsSplit' /\ LiveListed' /\ ReturnedUid'
  BY <1>1, <1>3 DEF UidsSplit, LiveListed, ReturnedUid, Live
<1>9. CountExact'
  <2>1. curConns \in Int /\ Cardinality(Listed) \in Int
    BY <1>1, ServerAssumption DEF ListTypes
  <2>2. CASE net.pc = "push" /\ net'.pc = "del"
    BY <1>1, <1>3, <2>1, <2>2 DEF CountExact
  <2>3. CASE net.pc = "dec" /\ net'.pc = "loop"
    BY <1>1, <1>3, <2>1, <2>3 DEF CountExact
  <2> QED BY <1>2, <2>2, <2>3
<1>10. net'.pc # "down"
  BY <1>2
<1> QED BY <1>5, <1>6, <1>7, <1>8, <1>9, <1>10 DEF ListInv

LEMMA NetPushList ==
  ASSUME ListInv, NetPush
  PROVE  ListInv'
<1>1. net.pc = "push" /\ opt' = opt /\ sent' = sent /\ acc' = acc
  BY DEF NetPush
<1>2. CASE net.why = "read"
  <2>1. net' = Loop /\ conn' = conn /\ UNCHANGED list
    BY <1>2 DEF NetPush
  <2>2. ListTypes
    BY DEF ListInv
  <2>3. net' \in NetRecords /\ net'.pc = "loop" /\ net'.why = "none"
    <3>1. <<>> \in Seq(Contexts)
      BY EmptySeq
    <3> QED BY <2>1, <3>1 DEF NetRecords, Loop
  <2>4. conn' \in [Conns -> ConnStates] /\ sent' \in 0..MaxRequests
    BY <1>1, <2>1, <2>2 DEF ListTypes, ConnStates
  <2>5. \A c \in Conns : /\ Live(c)' <=> Live(c)
                         /\ ~Live(c) => conn'[c] = conn[c]
    BY <2>1 DEF Live
  <2> QED BY <1>1, <2>1, <2>3, <2>4, <2>5, ListQuiet
<1>3. CASE net.why = "close"
  <2>1. /\ conn' = [conn EXCEPT ![net.c] = "gone"] /\ delNoLock(net.c)
        /\ net' = [net EXCEPT !.pc = "dec", !.batch = <<>>]
        /\ curConns' = curConns /\ uid' = uid
    BY <1>3 DEF NetPush
  <2> QED BY <1>1, <1>3, <2>1, NetPushCloseList
<1>4. CASE net.why = "timeout"
  <2>1. /\ curConns' = curConns - 1
        /\ net' = [net EXCEPT !.pc = "del", !.batch = <<>>]
        /\ conn' = conn /\ uid' = uid /\ vConn' = vConn /\ free' = free /\ ahead' = ahead
    BY <1>4 DEF NetPush
  <2> QED BY <1>1, <1>4, <2>1, CountDown
<1> QED BY <1>2, <1>3, <1>4 DEF NetPush

LEMMA NetDecList ==
  ASSUME ListInv, NetDec
  PROVE  ListInv'
BY CountDown DEF NetDec

(* The contexts of a read of k requests. *)
ReadContexts(c, k) == [j \in 1..k |-> [Request(c, sent + j) EXCEPT !.over = isOverload]]

LEMMA ReadBatch ==
  ASSUME sent \in 0..MaxRequests, opt \in Options, NEW c \in Conns,
         NEW k \in 1..(opt.requests - sent)
  PROVE  /\ ReadContexts(c, k) \in Seq(Contexts) /\ Len(ReadContexts(c, k)) = k
         /\ DOMAIN ReadContexts(c, k) = 1..k
         /\ sent + k \in 0..MaxRequests
         /\ \A j \in 1..k : /\ ReadContexts(c, k)[j].c = c
                            /\ ReadContexts(c, k)[j].n = sent + j
<1>1. opt.requests \in 0..MaxRequests
  BY ServerAssumption
<1>2. k \in Nat /\ k > 0 /\ sent \in Nat /\ sent + k <= MaxRequests
  BY <1>1, ServerAssumption
<1>3. PICK o \in BOOLEAN : o = isOverload
  BY DEF isOverload
<1>4. PICK b : b = ReadContexts(c, k)
  OBVIOUS
<1>5. b = [j \in 1..k |-> [c |-> c, n |-> sent + j, over |-> o]]
  BY <1>3, <1>4 DEF Request, ReadContexts
<1>6. DOMAIN b = 1..k
  BY <1>5
<1>7. \A j \in 1..k : b[j] = [c |-> c, n |-> sent + j, over |-> o]
  BY <1>5
<1>8. \A j \in 1..k : sent + j \in 0..MaxRequests
  BY <1>2, ServerAssumption
<1>9. \A j \in 1..k : b[j] \in Contexts
  <2>1. TAKE j \in 1..k
  <2>2. PICK x : x = b[j]
    OBVIOUS
  <2>3. x = [c |-> c, n |-> sent + j, over |-> o]
    BY <1>7, <2>2
  <2>4. x \in Contexts
    BY <1>3, <1>8, <2>3 DEF Contexts
  <2> QED BY <2>2, <2>4
<1>10. b \in [1..k -> Contexts]
  BY <1>5, <1>9
<1>11. b \in Seq(Contexts) /\ Len(b) = k
  BY <1>2, <1>10, SeqDef, LenProperties
<1>12. sent + k \in 0..MaxRequests
  BY <1>2, ServerAssumption
<1>13. \A j \in 1..k : b[j].c = c /\ b[j].n = sent + j
  <2>1. TAKE j \in 1..k
  <2>2. PICK x : x = b[j]
    OBVIOUS
  <2>3. x = [c |-> c, n |-> sent + j, over |-> o]
    BY <1>7, <2>2
  <2>4. x.c = c /\ x.n = sent + j
    BY <2>3
  <2> QED BY <2>2, <2>4
<1> QED BY <1>4, <1>6, <1>11, <1>12, <1>13

LEMMA NetReadList ==
  ASSUME ListInv, NEW c \in Conns, NetRead(c)
  PROVE  ListInv'
<1>1. /\ net.pc = "loop" /\ conn[c] \in {"open", "closing"} /\ conn' = conn
      /\ UNCHANGED <<opt, acc, list>>
  BY DEF NetRead
<1>2. PICK k \in 1..(opt.requests - sent) :
        /\ sent' = sent + k
        /\ \/ net' = net
           \/ net' = [pc |-> "push", c |-> c, why |-> "read", batch |-> ReadContexts(c, k)]
  BY DEF NetRead, insertRecvQueue, ReadContexts
<1>3. ListTypes /\ Threads
  BY DEF ListInv
<1>4. sent \in 0..MaxRequests /\ opt \in Options
  BY <1>3 DEF ListTypes
<1>5. ReadContexts(c, k) \in Seq(Contexts) /\ sent' \in 0..MaxRequests
  BY <1>2, <1>4, ReadBatch
<1>6. net' \in NetRecords
  BY <1>2, <1>3, <1>5 DEF ListTypes, NetRecords
<1>7. conn' \in [Conns -> ConnStates]
  BY <1>1, <1>3 DEF ListTypes, ConnStates
<1>8. \A d \in Conns : /\ Live(d)' <=> Live(d)
                       /\ ~Live(d) => conn'[d] = conn[d]
  BY <1>1 DEF Live
<1>9. \/ net'.pc = "loop" /\ net'.why = "none"
      \/ /\ net'.pc = "push" /\ net'.why \in {"read", "close", "timeout"}
         /\ net'.c \in Conns /\ Live(net'.c)
  BY <1>1, <1>2, <1>3 DEF Threads, Live
<1> QED BY <1>1, <1>5, <1>6, <1>7, <1>8, <1>9, ListQuiet

(* delConnection begins. *)
LEMMA DelConnectionList ==
  ASSUME ListInv, NEW c \in Conns, NEW why \in {"close", "timeout"},
         net.pc = "loop", Live(c), delConnection(c, why),
         UNCHANGED <<opt, conn, sent, acc, list>>
  PROVE  ListInv'
<1>1. net' = [pc |-> "push", c |-> c, why |-> why, batch |-> <<Closed(c)>>]
  BY DEF delConnection, insertRecvQueue
<1>2. ListTypes
  BY DEF ListInv
<1>3. Closed(c) \in Contexts
  BY ServerAssumption DEF Closed, Contexts
<1>4. <<Closed(c)>> \in Seq(Contexts)
  BY <1>3
<1>5. net' \in NetRecords
  BY <1>1, <1>4 DEF NetRecords
<1>6. conn' \in [Conns -> ConnStates] /\ sent' \in 0..MaxRequests
  BY <1>2 DEF ListTypes, ConnStates
<1>7. \A d \in Conns : /\ Live(d)' <=> Live(d)
                       /\ ~Live(d) => conn'[d] = conn[d]
  BY DEF Live
<1>8. /\ net'.pc = "push" /\ net'.why \in {"read", "close", "timeout"}
      /\ net'.c \in Conns /\ Live(net'.c)
  BY <1>1
<1> QED BY <1>5, <1>6, <1>7, <1>8, ListQuiet

(* What a command of the pipe finds under its uid. *)
LEMMA HolderFacts ==
  ASSUME ListInv, net.pc = "loop", NEW cmd, cmd.c \in Conns, Known(cmd.c)
  PROVE  /\ uid[cmd.c] \in Uids /\ Holder(cmd) \in Conns \cup {None}
         /\ Holder(cmd) # None => Holder(cmd) \in Conns /\ uid[Holder(cmd)] = uid[cmd.c]
         /\ Holder(cmd) # None /\ ~Live(Holder(cmd)) =>
              acc.pc \in {"count", "register"} /\ acc.c = Holder(cmd)
<1>1. ListTypes /\ Threads /\ UidsSplit /\ LiveListed
  BY DownOrNot
<1> DEFINE u == uid[cmd.c]
<1>2. u \in Uids
  BY <1>1 DEF Known, LiveListed, Threads
<1>3. Holder(cmd) = vConn[u] /\ vConn[u] \in Conns \cup {None}
  BY <1>1, <1>2 DEF Holder, ListTypes
<1>4. vConn[u] # None => u \in Listed
  BY <1>2 DEF Listed
<1>5. acc.pc # "crashed"
  BY <1>1 DEF Threads
<1> HIDE DEF u
<1>6. vConn[u] # None => uid[vConn[u]] = u
  BY <1>1, <1>4 DEF UidsSplit
<1>7. vConn[u] # None /\ ~Live(vConn[u]) => acc.pc \in {"count", "register"} /\ acc.c = vConn[u]
  BY <1>1, <1>4, <1>5 DEF LiveListed
<1> QED BY <1>2, <1>3, <1>6, <1>7 DEF u

(* Both threads end. *)
LEMMA CrashList ==
  ASSUME ListInv, net.pc = "loop", acc.pc \in {"count", "register"},
         acc' = [acc EXCEPT !.pc = "crashed"], net' = [Loop EXCEPT !.pc = "crashed"],
         UNCHANGED <<opt, conn, sent, list>>
  PROVE  ListInv'
<1>1. ListTypes /\ Threads /\ Reserved /\ ReturnedUid /\ UidsSplit /\ LiveListed
  BY DownOrNot
<1>2. curConns' = curConns /\ uid' = uid /\ vConn' = vConn /\ free' = free /\ ahead' = ahead
  BY DEF list
<1>3. /\ acc'.pc = "crashed" /\ acc'.c = acc.c /\ acc' \in [pc : {"crashed"}, c : Conns \cup {None}]
      /\ net'.pc = "crashed" /\ net'.why = "none"
  BY <1>1 DEF ListTypes, Loop
<1>4. net' \in NetRecords
  <2>1. <<>> \in Seq(Contexts)
    BY EmptySeq
  <2> QED BY <2>1 DEF NetRecords, Loop
<1>5. Listed' = Listed /\ Held' = Held
  BY <1>2, <1>3 DEF Listed, Held
<1>6. ListTypes'
  BY <1>1, <1>2, <1>3, <1>4 DEF ListTypes, NetRecords
<1>7. Threads'
  BY <1>1, <1>2, <1>3 DEF Threads, Accepting
<1>8. Reserved' /\ ReturnedUid'
  BY <1>1, <1>2, <1>3, ServerAssumption DEF Reserved, ReturnedUid, ListTypes
<1>9. UidsSplit' /\ LiveListed'
  BY <1>1, <1>2, <1>3, <1>5 DEF UidsSplit, LiveListed, Live
<1>10. CountExact'
  BY <1>3 DEF CountExact
<1> QED BY <1>3, <1>6, <1>7, <1>8, <1>9, <1>10 DEF ListInv

LEMMA PipeList ==
  ASSUME ListInv, ProcessPipe,
         sbuffer # <<>> => Head(sbuffer).c \in Conns /\ Known(Head(sbuffer).c)
  PROVE  ListInv'
<1> DEFINE cmd == Head(sbuffer)
           d == Holder(cmd)
<1>1. net.pc = "loop" /\ sbuffer # <<>>
  BY DEF ProcessPipe, PipeGone, PipeSend, PipeSendThrows, PipeBroken, PipeClose,
         PipeAccepting, Pipe, First
<1>2. ListTypes /\ Threads
  BY DEF ListInv
<1>3. UNCHANGED <<opt, sent, list>>
  BY DEF ProcessPipe, PipeGone, PipeSend, PipeSendThrows, PipeBroken, PipeClose, PipeAccepting
<1>4. conn \in [Conns -> ConnStates] /\ net \in NetRecords /\ sent' \in 0..MaxRequests
      /\ net.why = "none"
  BY <1>1, <1>2, <1>3 DEF ListTypes, ConnStates, NetRecords, Threads
<1>5. /\ d # None => d \in Conns
      /\ d # None /\ ~Live(d) => acc.pc \in {"count", "register"}
  BY <1>1, HolderFacts
<1>6. CASE PipeGone \/ PipeSend
  <2>1. conn' = conn /\ acc' = acc /\ net' = net
    BY <1>6 DEF PipeGone, PipeSend
  <2>2. \A c \in Conns : Live(c)' <=> Live(c)
    BY <2>1 DEF Live
  <2> QED BY <1>1, <1>3, <1>4, <2>1, <2>2, ListQuiet
<1>7. CASE PipeSendThrows \/ PipeClose
  <2>1. /\ acc' = acc /\ net' = net /\ d # None /\ conn[d] \in {"open", "closing"}
        /\ conn' = [conn EXCEPT ![d] = "broken"] \/ conn' = [conn EXCEPT ![d] = "closing"]
    BY <1>1, <1>7 DEF PipeSendThrows, PipeClose, First
  <2> HIDE DEF d
  <2>2. \A c \in Conns : /\ Live(c)' <=> Live(c)
                         /\ ~Live(c) => conn'[c] = conn[c]
    BY <1>4, <1>5, <2>1 DEF Live
  <2>3. conn' \in [Conns -> ConnStates]
    BY <1>4, <2>1 DEF ConnStates
  <2> QED BY <1>1, <1>3, <1>4, <2>1, <2>2, <2>3, ListQuiet
<1>8. CASE PipeBroken
  <2>1. /\ acc' = acc /\ conn' = conn /\ d # None /\ conn[d] = "broken"
        /\ delConnection(d, "close")
    BY <1>1, <1>8 DEF PipeBroken, First
  <2> HIDE DEF d
  <2>2. d \in Conns /\ Live(d)
    BY <1>5, <2>1 DEF Live
  <2> QED BY <1>1, <1>3, <2>1, <2>2, DelConnectionList
<1>9. CASE PipeAccepting
  <2>1. /\ acc' = [acc EXCEPT !.pc = "crashed"] /\ net' = [Loop EXCEPT !.pc = "crashed"]
        /\ conn' = conn /\ d # None /\ conn[d] = "backlog"
    BY <1>1, <1>9 DEF PipeAccepting, First
  <2>2. acc.pc \in {"count", "register"}
    BY <1>5, <2>1 DEF Live
  <2> QED BY <1>1, <1>3, <2>1, <2>2, CrashList
<1> QED BY <1>6, <1>7, <1>8, <1>9 DEF ProcessPipe

LEMMA StopList ==
  ASSUME ListInv, Stop
  PROVE  ListInv'
<1>1. /\ opt' = opt /\ sent' = sent /\ conn' = conn /\ net' = net
      /\ curConns' = curConns /\ uid' = uid /\ vConn' = vConn /\ free' = free /\ ahead' = ahead
  BY DEF Stop, list
<1>2. ListTypes /\ Threads /\ Reserved /\ ReturnedUid /\ CountExact
  BY DEF ListInv
<1>3. /\ acc' \in [pc : {"joinNet", "joinHandles", "down"}, c : Conns \cup {None}]
      /\ acc.pc \in {"loop", "joinNet", "joinHandles"}
      /\ acc'.pc \in {"joinNet", "joinHandles", "down"}
  BY <1>2 DEF Stop, ListTypes
<1>4. Listed' = Listed /\ Held' = Held
  BY <1>1, <1>3 DEF Listed, Held
<1>5. ListTypes'
  BY <1>1, <1>2, <1>3 DEF ListTypes, Accepting
<1>6. Threads'
  BY <1>1, <1>2, <1>3 DEF Threads, Accepting, Live
<1>7. Reserved' /\ ReturnedUid'
  BY <1>1, <1>2, <1>3 DEF Reserved, ReturnedUid
<1>8. ASSUME net.pc # "down" PROVE UidsSplit' /\ LiveListed'
  <2>1. UidsSplit /\ LiveListed
    BY <1>8 DEF ListInv
  <2> QED BY <2>1, <1>1, <1>3, <1>4 DEF UidsSplit, LiveListed, Live
<1>9. CountExact'
  BY <1>1, <1>2, <1>3, <1>4 DEF CountExact
<1> QED BY <1>1, <1>5, <1>6, <1>7, <1>8, <1>9 DEF ListInv

LEMMA NetDownList ==
  ASSUME ListInv, NetDown
  PROVE  ListInv'
<1>1. /\ acc.pc = "joinNet" /\ net.pc = "loop" /\ net' = [Loop EXCEPT !.pc = "down"]
      /\ conn' = [c \in Conns |->
                    IF \E u \in Uids : vConn[u] = c THEN "gone" ELSE conn[c]]
      /\ vConn' = [u \in Uids |-> None]
      /\ opt' = opt /\ sent' = sent /\ acc' = acc /\ curConns' = curConns /\ uid' = uid
      /\ free' = free /\ ahead' = ahead
  BY DEF NetDown
<1>2. ListTypes /\ Threads /\ Reserved /\ ReturnedUid /\ UidsSplit /\ LiveListed
  BY <1>1, DownOrNot
<1>3. net' \in NetRecords /\ net'.pc = "down" /\ net'.why = "none"
  <2>1. <<>> \in Seq(Contexts)
    BY EmptySeq
  <2> QED BY <1>1, <2>1 DEF NetRecords, Loop
<1>4. conn' \in [Conns -> ConnStates]
  BY <1>1, <1>2 DEF ListTypes, ConnStates
<1>5. ListTypes'
  BY <1>1, <1>2, <1>3, <1>4 DEF ListTypes, ConnStates, NetRecords
<1>6. \A c \in Conns : conn'[c] = "gone" => uid[c] \in Uids
  <2>1. SUFFICES ASSUME NEW c \in Conns, conn'[c] = "gone" PROVE uid[c] \in Uids
    OBVIOUS
  <2>2. CASE conn[c] = "gone"
    BY <2>2, <1>2 DEF Threads
  <2>3. CASE conn[c] # "gone"
    <3>1. PICK u \in Uids : vConn[u] = c
      BY <2>1, <2>3, <1>1
    <3>2. u \in Listed
      BY <3>1 DEF Listed, Conns, None
    <3> QED BY <3>1, <3>2, <1>2 DEF UidsSplit
  <2> QED BY <2>2, <2>3
<1>7. Threads'
  BY <1>1, <1>2, <1>3, <1>6 DEF Threads, Accepting
<1>8. Reserved' /\ ReturnedUid'
  BY <1>1, <1>2 DEF Reserved, ReturnedUid
<1>9. CountExact'
  BY <1>3 DEF CountExact
<1> QED BY <1>1, <1>3, <1>5, <1>7, <1>8, <1>9 DEF ListInv

LEMMA ListSame ==
  ASSUME ListInv, UNCHANGED <<opt, conn, sent, acc, list, net>>
  PROVE  ListInv'
<1>1. curConns' = curConns /\ uid' = uid /\ vConn' = vConn /\ free' = free /\ ahead' = ahead
  BY DEF list
<1>2. ListTypes /\ Threads /\ Reserved /\ ReturnedUid /\ CountExact
  BY DEF ListInv
<1>3. Listed' = Listed /\ Held' = Held
  BY <1>1 DEF Listed, Held
<1>4. ListTypes' /\ Threads' /\ Reserved' /\ ReturnedUid' /\ CountExact'
  BY <1>1, <1>2, <1>3 DEF ListTypes, Threads, Reserved, ReturnedUid, CountExact, Live
<1>5. net.pc # "down" => UidsSplit' /\ LiveListed'
  BY <1>1, <1>3 DEF ListInv, UidsSplit, LiveListed, Live
<1> QED BY <1>1, <1>4, <1>5 DEF ListInv

LEMMA InitList ==
  ASSUME Init
  PROVE  ListInv
<1>1. /\ acc.pc = "loop" /\ net.pc = "loop" /\ net.why = "none" /\ curConns = 0
      /\ free = [u \in Uids |-> u] /\ vConn = [u \in Uids |-> None]
  BY DEF Init, Loop
<1>2. free \in Seq(Uids) /\ DOMAIN free = Uids
  <2>1. free \in [1..MaxConns -> Uids]
    BY <1>1 DEF Uids
  <2>2. free \in Seq(Uids)
    BY <2>1, SeqDef, ServerAssumption
  <2> QED BY <1>1, <2>2
<1>3. net \in NetRecords
  <2>1. <<>> \in Seq(Contexts)
    BY EmptySeq
  <2> QED BY <2>1 DEF Init, NetRecords, Loop
<1>4. ListTypes
  BY <1>2, <1>3, ServerAssumption DEF Init, ListTypes, NetRecords
<1>5. Threads /\ Reserved /\ ReturnedUid
  BY <1>1, ServerAssumption DEF Init, Threads, Reserved, ReturnedUid, Accepting
<1>6. Listed = {} /\ Held = {}
  BY <1>1 DEF Listed, Held
<1>7. UidsSplit
  BY <1>1, <1>2, <1>6 DEF UidsSplit
<1>8. LiveListed
  BY <1>1, <1>6 DEF LiveListed, Live, Init
<1>9. CountExact
  BY <1>1, <1>6, FS_EmptySet DEF CountExact
<1> QED BY <1>1, <1>4, <1>5, <1>7, <1>8, <1>9 DEF ListInv

LEMMA StepList ==
  ASSUME ListInv, [Next]_vars,
         sbuffer # <<>> => Head(sbuffer).c \in Conns /\ Known(Head(sbuffer).c)
  PROVE  ListInv'
<1>1. CASE UNCHANGED vars
  BY <1>1, ListSame DEF vars
<1>2. ASSUME NEW c \in Conns, Accept(c) \/ NetRead(c) \/ NetClose(c) \/ NetTimeout(c)
      PROVE  ListInv'
  <2>1. CASE Accept(c) \/ NetRead(c)
    BY <2>1, AcceptList, NetReadList
  <2>2. CASE NetClose(c)
    <3>1. net.pc = "loop" /\ Live(c) /\ delConnection(c, "close")
          /\ UNCHANGED <<opt, conn, sent, acc, list>>
      BY <2>2 DEF NetClose, Live
    <3> QED BY <3>1, DelConnectionList
  <2>3. CASE NetTimeout(c)
    <3>1. net.pc = "loop" /\ Live(c) /\ delConnection(c, "timeout")
          /\ UNCHANGED <<opt, conn, sent, acc, list>>
      BY <2>3 DEF NetTimeout, Live
    <3> QED BY <3>1, DelConnectionList
  <2> QED BY <1>2, <2>1, <2>2, <2>3
<1>3. CASE AcceptStep
  BY <1>3, AcceptUidList, AcceptAddList, AcceptCountList, AcceptRegisterList DEF AcceptStep
<1>4. CASE NetStep
  BY <1>4, NetPushList, NetDecList, NetDelList DEF NetStep
<1>5. CASE ProcessPipe
  BY <1>5, PipeList
<1>6. ASSUME NEW h \in Handles, HandleStep(h)
      PROVE  ListInv'
  <2>1. UNCHANGED <<opt, conn, sent, acc, list, net>>
    BY <1>6 DEF HandleStep, Take, HandleClose, HandleRefused, HandleUndecodable, Dispatch,
                Return, ReturnAsync, HandleExit
  <2> QED BY <2>1, ListSame
<1>7. CASE AsyncReply \/ Terminate
  <2>1. UNCHANGED <<opt, conn, sent, acc, list, net>>
    BY <1>7 DEF AsyncReply, Terminate
  <2> QED BY <2>1, ListSame
<1>8. CASE Stop \/ NetDown
  BY <1>8, StopList, NetDownList
<1> QED BY <1>1, <1>2, <1>3, <1>4, <1>5, <1>6, <1>7, <1>8 DEF Next

-----------------------------------------------------------------------------
(* A connection that had a socket keeps its uid, and what the handlers were *)
(* told stays told.                                                         *)
Steady ==
  /\ opt' = opt
  /\ \A c \in Conns : /\ Known(c) => Known(c)' /\ uid'[c] = uid[c]
                      /\ Told(c) => Told(c)'

LEMMA StepSteady ==
  ASSUME ListInv, [Next]_vars
  PROVE  Steady
<1>1. ListTypes /\ Threads
  BY DEF ListInv
<1>2. conn \in [Conns -> ConnStates] /\ uid \in [Conns -> {0} \cup Uids] /\ net \in NetRecords
  BY <1>1 DEF ListTypes, ConnStates, NetRecords
<1>3. CASE UNCHANGED <<opt, conn, uid, net>>
  BY <1>3 DEF Steady, Known, Live, Told
<1>4. ASSUME net.pc = "loop", UNCHANGED <<opt, conn, uid>> PROVE Steady
  BY <1>4 DEF Steady, Known, Live, Told
<1>5. ASSUME NEW c \in Conns, Accept(c) PROVE Steady
  BY <1>2, <1>5 DEF Accept, list, Steady, Known, Live, Told
<1>6. ASSUME NEW c \in Conns, NetRead(c) \/ NetClose(c) \/ NetTimeout(c) PROVE Steady
  BY <1>4, <1>6 DEF NetRead, NetClose, NetTimeout, list
<1>7. CASE AcceptUid
  <2>1. acc.c \in Conns /\ conn[acc.c] = "backlog"
    BY <1>1, <1>7 DEF Threads, Accepting, AcceptUid
  <2> QED BY <1>2, <1>7, <2>1 DEF AcceptUid, Steady, Known, Live, Told
<1>8. CASE AcceptAdd \/ AcceptCount
  BY <1>3, <1>8 DEF AcceptAdd, AcceptCount
<1>9. CASE AcceptRegister
  <2>1. acc.c \in Conns /\ conn[acc.c] = "backlog"
    BY <1>1, <1>9 DEF Threads, Accepting, AcceptRegister
  <2> QED BY <1>2, <1>9, <2>1 DEF AcceptRegister, Steady, Known, Live, Told, list
<1>10. CASE NetPush
  <2>1. net.pc = "push" /\ opt' = opt /\ uid' = uid
        /\ (conn' = conn \/ conn' = [conn EXCEPT ![net.c] = "gone"])
    BY <1>10 DEF NetPush, list
  <2> QED BY <1>2, <2>1 DEF Steady, Known, Live, Told
<1>11. CASE NetDec
  BY <1>11 DEF NetDec, Steady, Known, Live, Told
<1>12. CASE NetDel
  BY <1>2, <1>12 DEF NetDel, Steady, Known, Live, Told
<1>13. CASE ProcessPipe
  <2>1. net.pc = "loop" /\ opt' = opt /\ uid' = uid
    BY <1>13 DEF ProcessPipe, PipeGone, PipeSend, PipeSendThrows, PipeBroken, PipeClose,
                 PipeAccepting, Pipe, list
  <2>2. \/ conn' = conn
        \/ \E d : /\ conn[d] \in {"open", "closing"}
                  /\ \/ conn' = [conn EXCEPT ![d] = "broken"]
                     \/ conn' = [conn EXCEPT ![d] = "closing"]
    BY <1>13 DEF ProcessPipe, PipeGone, PipeSend, PipeSendThrows, PipeBroken, PipeClose,
                 PipeAccepting
  <2> QED BY <1>2, <2>1, <2>2 DEF Steady, Known, Live, Told
<1>14. CASE NetDown
  BY <1>2, <1>14 DEF NetDown, Steady, Known, Live, Told
<1>15. ASSUME NEW h \in Handles, HandleStep(h) PROVE Steady
  <2>1. UNCHANGED <<opt, conn, uid, net>>
    BY <1>15 DEF HandleStep, Take, HandleClose, HandleRefused, HandleUndecodable, Dispatch,
                 Return, ReturnAsync, HandleExit, list
  <2> QED BY <2>1, <1>3
<1>16. CASE AsyncReply \/ Terminate \/ Stop
  BY <1>3, <1>16 DEF AsyncReply, Terminate, Stop, list
<1>17. CASE UNCHANGED vars
  BY <1>3, <1>17 DEF vars, list
<1> QED BY <1>5, <1>6, <1>7, <1>8, <1>9, <1>10, <1>11, <1>12, <1>13, <1>14, <1>15, <1>16, <1>17
        DEF Next, AcceptStep, NetStep

-----------------------------------------------------------------------------
(* The receive queue *)

LEMMA HandlesFinite ==
  /\ IsFiniteSet(Handles) /\ 0 \in Handles
  /\ \A h \in Handles : h \in Nat /\ h % HandleNum = h
  /\ \A n \in Nat : n % HandleNum \in Handles
<1>1. IsFiniteSet(Handles) /\ 0 \in Handles
  BY FS_Interval, ServerAssumption DEF Handles
<1>2. \A n \in Nat, m \in Nat \ {0} : n % m \in 0..(m - 1)
  OBVIOUS
<1>3. \A m \in Nat \ {0} : \A n \in 0..(m - 1) : n % m = n
  OBVIOUS
<1>4. \A n \in Nat : n % HandleNum \in Handles
  BY <1>2, ServerAssumption DEF Handles
<1>5. \A h \in Handles : h \in Nat /\ h % HandleNum = h
  BY <1>3, ServerAssumption DEF Handles
<1> QED BY <1>1, <1>4, <1>5

LEMMA QueueOf ==
  /\ \A n \in Nat : getDataQueue(n) \in Handles
  /\ \A h \in Handles : queueMode => getDataQueue(h) = h
BY HandlesFinite DEF getDataQueue

(* One queue changes. *)
LEMMA QueuedChange ==
  ASSUME dq \in [Handles -> Seq(Contexts)], IsFiniteSet(Queued),
         NEW h \in Handles, NEW s \in Seq(Contexts), dq' = [dq EXCEPT ![h] = s]
  PROVE  /\ IsFiniteSet(Queued') /\ Cardinality(Queued) \in Nat
         /\ Cardinality(Queued') = Cardinality(Queued) - Len(dq[h]) + Len(s)
         /\ Len(dq[h]) \in Nat /\ Len(s) \in Nat
<1> DEFINE Row(n) == {h} \X (1..n)
           Rest == Queued \ Row(Len(dq[h]))
<1>1. Len(dq[h]) \in Nat /\ Len(s) \in Nat
  BY LenProperties
<1>2. ASSUME NEW n \in Nat PROVE IsFiniteSet(Row(n)) /\ Cardinality(Row(n)) = n
  <2>1. IsFiniteSet(1..n) /\ Cardinality(1..n) = n
    BY FS_Interval
  <2>2. IsFiniteSet({h}) /\ Cardinality({h}) = 1
    BY FS_Singleton
  <2>3. IsFiniteSet({h} \X (1..n)) /\ Cardinality({h} \X (1..n)) = Cardinality({h}) * Cardinality(1..n)
    BY <2>1, <2>2, FS_Product
  <2> QED BY <2>1, <2>2, <2>3
<1>3. Queued = Rest \cup Row(Len(dq[h])) /\ Rest \cap Row(Len(dq[h])) = {}
  BY DEF Queued
<1>4. Rest = UNION {{g} \X (1..Len(dq[g])) : g \in Handles \ {h}}
  BY DEF Queued
<1>5. Queued' = Rest \cup Row(Len(s)) /\ Rest \cap Row(Len(s)) = {}
  <2> DEFINE R(g) == {g} \X (1..Len(dq'[g]))
             U == UNION {R(g) : g \in Handles \ {h}}
  <2>1. dq'[h] = s /\ \A g \in Handles \ {h} : dq'[g] = dq[g]
    OBVIOUS
  <2>2. Queued' = U \cup R(h)
    <3>1. Queued' = UNION {R(g) : g \in Handles}
      BY DEF Queued
    <3> HIDE DEF R
    <3> QED BY <3>1
  <2>3. U = Rest /\ R(h) = Row(Len(s))
    BY <1>4, <2>1
  <2>4. Rest \cap Row(Len(s)) = {}
    BY <1>4
  <2> HIDE DEF Rest, Row, U, R
  <2> QED BY <2>2, <2>3, <2>4
<1>6. IsFiniteSet(Rest) /\ Cardinality(Rest) \in Nat
  BY FS_Difference, FS_CardinalityType
<1>7. \A n \in Nat : Rest \cap Row(n) = {} =>
        IsFiniteSet(Rest \cup Row(n)) /\ Cardinality(Rest \cup Row(n)) = Cardinality(Rest) + n
  <2> HIDE DEF Rest, Row
  <2>1. SUFFICES ASSUME NEW n \in Nat, Rest \cap Row(n) = {}
                 PROVE  /\ IsFiniteSet(Rest \cup Row(n))
                        /\ Cardinality(Rest \cup Row(n)) = Cardinality(Rest) + n
    OBVIOUS
  <2>2. IsFiniteSet(Row(n)) /\ Cardinality(Row(n)) = n
    BY <1>2
  <2>3. Cardinality(Rest \cap Row(n)) = 0
    BY <2>1, FS_EmptySet
  <2>4. /\ IsFiniteSet(Rest \cup Row(n))
        /\ Cardinality(Rest \cup Row(n)) =
             Cardinality(Rest) + Cardinality(Row(n)) - Cardinality(Rest \cap Row(n))
    BY <1>6, <2>2, FS_Union
  <2> QED BY <1>6, <2>2, <2>3, <2>4
<1> HIDE DEF Rest, Row
<1>8. Cardinality(Queued) = Cardinality(Rest) + Len(dq[h])
  BY <1>1, <1>3, <1>7
<1>9. IsFiniteSet(Queued') /\ Cardinality(Queued') = Cardinality(Rest) + Len(s)
  BY <1>1, <1>5, <1>7
<1> QED BY <1>1, <1>6, <1>8, <1>9

(* One handler moves on. *)
LEMMA PoppedChange ==
  ASSUME hd \in [Handles -> [at : {"idle", "popped", "busy", "exited"},
                             ctx : Contexts \cup {Idle.ctx}]],
         NEW h \in Handles, NEW x, hd' = [hd EXCEPT ![h] = x]
  PROVE  /\ Cardinality(PoppedSet) \in Nat
         /\ hd[h].at = "popped" /\ x.at # "popped" =>
              Cardinality(PoppedSet') = Cardinality(PoppedSet) - 1 /\ Cardinality(PoppedSet) > 0
         /\ hd[h].at # "popped" /\ x.at = "popped" =>
              Cardinality(PoppedSet') = Cardinality(PoppedSet) + 1
         /\ hd[h].at # "popped" /\ x.at # "popped" => PoppedSet' = PoppedSet
<1>1. IsFiniteSet(PoppedSet) /\ Cardinality(PoppedSet) \in Nat
  BY HandlesFinite, FS_Subset, FS_CardinalityType DEF PoppedSet
<1>2. ASSUME hd[h].at = "popped", x.at # "popped"
      PROVE  Cardinality(PoppedSet') = Cardinality(PoppedSet) - 1 /\ Cardinality(PoppedSet) > 0
  <2>1. PoppedSet' = PoppedSet \ {h} /\ h \in PoppedSet
    BY <1>2 DEF PoppedSet
  <2>2. Cardinality(PoppedSet) # 0
    BY <1>1, <2>1, FS_EmptySet
  <2>3. Cardinality(PoppedSet \ {h}) = Cardinality(PoppedSet) - 1
    BY <1>1, <2>1, FS_RemoveElement
  <2> QED BY <1>1, <2>1, <2>2, <2>3
<1>3. ASSUME hd[h].at # "popped", x.at = "popped"
      PROVE  Cardinality(PoppedSet') = Cardinality(PoppedSet) + 1
  <2>1. PoppedSet' = PoppedSet \cup {h} /\ h \notin PoppedSet
    BY <1>3 DEF PoppedSet
  <2> QED BY <1>1, <2>1, FS_AddElement
<1>4. ASSUME hd[h].at # "popped", x.at # "popped"
      PROVE  PoppedSet' = PoppedSet
  BY <1>4 DEF PoppedSet
<1> QED BY <1>1, <1>2, <1>3, <1>4

(* Kept in the next state, for a context of this one. *)
After(x, h) ==
  /\ conn'[x.c] \in {"open", "closing", "broken", "gone"}
  /\ x.n = 0 => conn'[x.c] = "gone" \/ (net'.pc = "del" /\ net'.c = x.c)
  /\ opt'.queueMode => uid'[x.c] % HandleNum = h

LEMMA KeptAfter ==
  ASSUME Steady, NEW x \in Contexts, NEW h \in Handles, Kept(x, h)
  PROVE  After(x, h)
<1>1. x.c \in Conns
  BY DEF Contexts
<1>2. Known(x.c)' /\ uid'[x.c] = uid[x.c] /\ (Told(x.c) => Told(x.c)') /\ opt' = opt
  BY <1>1 DEF Steady, Kept
<1> QED BY <1>2 DEF Kept, After, Known, Live, Told, getDataQueue, queueMode

LEMMA KnownAfter ==
  ASSUME \A h \in Handles : \A i \in DOMAIN dq'[h] : After(dq'[h][i], h),
         \A h \in Handles : hd'[h].at \in {"popped", "busy"} => After(hd'[h].ctx, h)
  PROVE  ContextsKnown'
BY DEF ContextsKnown, Kept, After, Known, Live, Told, getDataQueue, queueMode, Working

LEMMA QueueFacts ==
  ASSUME QueueInv
  PROVE  /\ \A h \in Handles : /\ dq[h] \in Seq(Contexts) /\ Len(dq[h]) \in Nat
                               /\ DOMAIN dq[h] = 1..Len(dq[h])
                               /\ \A i \in DOMAIN dq[h] : dq[h][i] \in Contexts
         /\ \A h \in Handles : Working(h) => hd[h].ctx \in Contexts
         /\ Cardinality(Queued) \in Nat /\ Cardinality(PoppedSet) \in Nat
         /\ Len(net.batch) \in Nat /\ DOMAIN net.batch = 1..Len(net.batch)
         /\ \A i \in DOMAIN net.batch : net.batch[i] \in Contexts
<1>1. dq \in [Handles -> Seq(Contexts)]
  BY DEF QueueInv, QueueTypes
<1>2. ASSUME NEW h \in Handles
      PROVE  /\ dq[h] \in Seq(Contexts) /\ Len(dq[h]) \in Nat
             /\ DOMAIN dq[h] = 1..Len(dq[h])
             /\ \A i \in DOMAIN dq[h] : dq[h][i] \in Contexts
  <2>1. dq[h] \in Seq(Contexts)
    BY <1>1
  <2> QED BY <2>1, SeqFacts
<1>3. \A h \in Handles : Working(h) => hd[h].ctx \in Contexts
  BY DEF QueueInv, InHand
<1>4. Cardinality(Queued) \in Nat
  BY FS_CardinalityType DEF QueueInv, SizeExact
<1>5. Cardinality(PoppedSet) \in Nat
  BY HandlesFinite, FS_Subset, FS_CardinalityType DEF PoppedSet
<1>6. /\ Len(net.batch) \in Nat /\ DOMAIN net.batch = 1..Len(net.batch)
      /\ \A i \in DOMAIN net.batch : net.batch[i] \in Contexts
  BY SeqFacts DEF QueueInv, QueueTypes
<1> QED BY <1>2, <1>3, <1>4, <1>5, <1>6

(* Steps that leave the queue and the handlers alone and push nothing. *)
LEMMA QueueQuiet ==
  ASSUME QueueInv, Steady, UNCHANGED <<dq, recvSize, hd, closeTold>>,
         \/ net' = net
         \/ net.pc # "push" /\ net'.pc # "push" /\ net'.batch = <<>>
  PROVE  QueueInv'
<1>2. InHand /\ ContextsKnown /\ ToldOf /\ CloseLast /\ SizeExact
  BY DEF QueueInv
<1>3. net'.batch = net.batch
  BY <1>2 DEF InHand
<1>1. QueueTypes' /\ Queued' = Queued /\ PoppedSet' = PoppedSet
  BY <1>3 DEF QueueInv, QueueTypes, Queued, PoppedSet
<1>4. InHand'
  <2>1. CASE net' = net
    BY <2>1, <1>2 DEF InHand, Working
  <2>2. CASE net.pc # "push" /\ net'.pc # "push" /\ net'.batch = <<>>
    <3>1. DOMAIN net'.batch = {}
      BY <2>2
    <3> QED BY <2>2, <3>1, <1>2 DEF InHand, Working
  <2> QED BY <2>1, <2>2
<1>5. ContextsKnown'
  <2>1. \A h \in Handles : \A i \in DOMAIN dq[h] : After(dq[h][i], h)
    BY <1>2, QueueFacts, KeptAfter DEF ContextsKnown
  <2>2. \A h \in Handles : Working(h) => After(hd[h].ctx, h)
    BY <1>2, QueueFacts, KeptAfter DEF ContextsKnown
  <2> QED BY <2>1, <2>2, KnownAfter DEF Working
<1>6. ToldOf'
  <2>1. SUFFICES ASSUME NEW c \in Conns, closeTold[c] > 0
                 PROVE  Told(c)' \/ (net'.pc = "push" /\ net'.why # "read" /\ net'.c = c)
    BY DEF ToldOf
  <2> QED BY <2>1, <1>2 DEF ToldOf, Steady
<1>7. CloseLast'
  BY <1>2 DEF CloseLast, Working, getDataQueue, queueMode, Steady
<1>8. SizeExact'
  BY <1>1, <1>2, <1>3 DEF SizeExact
<1> QED BY <1>1, <1>4, <1>5, <1>6, <1>7, <1>8 DEF QueueInv

(* A handler moves on with what it has taken, or lets go of it. *)
LEMMA QueueHandler ==
  ASSUME QueueInv, Steady, UNCHANGED <<dq, closeTold, net>>,
         NEW h \in Handles, NEW x, hd' = [hd EXCEPT ![h] = x],
         \/ x.at \in {"idle", "exited"} /\ x.ctx = Idle.ctx
         \/ x.at = "busy" /\ x.ctx = hd[h].ctx /\ x.ctx.n > 0 /\ hd[h].at = "popped",
         x \in [at : {"idle", "popped", "busy", "exited"}, ctx : Contexts \cup {Idle.ctx}],
         recvSize' = IF hd[h].at = "popped" THEN recvSize - 1 ELSE recvSize
  PROVE  QueueInv'
<1>1. QueueTypes /\ InHand /\ ContextsKnown /\ ToldOf /\ CloseLast /\ SizeExact
  BY DEF QueueInv
<1>2. hd \in [Handles -> [at : {"idle", "popped", "busy", "exited"},
                          ctx : Contexts \cup {Idle.ctx}]]
  BY <1>1 DEF QueueTypes
<1>3. hd'[h] = x /\ \A g \in Handles \ {h} : hd'[g] = hd[g]
  BY <1>2
<1>4. QueueTypes'
  BY <1>1, <1>2 DEF QueueTypes
<1>5. x.at = "busy" => Working(h)
  BY DEF Working
<1>6. InHand'
  <2>1. ASSUME NEW g \in Handles
        PROVE  /\ ~Working(g)' => hd'[g].ctx = Idle.ctx
               /\ Working(g)' => hd'[g].ctx \in Contexts
               /\ hd'[g].at = "busy" => hd'[g].ctx.n > 0
    <3>1. CASE g = h
      BY <3>1, <1>1, <1>3, <1>5 DEF InHand, Working
    <3>2. CASE g # h
      BY <3>2, <1>1, <1>3 DEF InHand, Working
    <3> QED BY <3>1, <3>2
  <2> QED BY <1>1, <2>1 DEF InHand
<1>7. ContextsKnown'
  <2>1. \A g \in Handles : \A i \in DOMAIN dq[g] : After(dq[g][i], g)
    BY <1>1, QueueFacts, KeptAfter DEF ContextsKnown
  <2>2. \A g \in Handles : Working(g) => After(hd[g].ctx, g)
    BY <1>1, QueueFacts, KeptAfter DEF ContextsKnown
  <2>3. \A g \in Handles : hd'[g].at \in {"popped", "busy"} => After(hd'[g].ctx, g)
    <3>1. TAKE g \in Handles
    <3>2. CASE g = h
      BY <3>2, <2>2, <1>3, <1>5
    <3>3. CASE g # h
      BY <3>3, <2>2, <1>3 DEF Working
    <3> QED BY <3>2, <3>3
  <2> QED BY <2>1, <2>3, KnownAfter
<1>8. ToldOf'
  <2>1. SUFFICES ASSUME NEW c \in Conns, closeTold[c] > 0
                 PROVE  Told(c)' \/ (net'.pc = "push" /\ net'.why # "read" /\ net'.c = c)
    BY DEF ToldOf
  <2> QED BY <2>1, <1>1 DEF ToldOf, Steady
<1>9. CloseLast'
  <2>1. \A g \in Handles : getDataQueue(g)' = getDataQueue(g)
    BY DEF getDataQueue, queueMode, Steady
  <2>2. ASSUME NEW g \in Handles, Working(g)', hd'[g].ctx.n = 0
        PROVE  \A j \in DOMAIN dq[getDataQueue(g)] : dq[getDataQueue(g)][j].c # hd'[g].ctx.c
    <3>1. g # h
      BY <2>2, <1>3 DEF Working
    <3> QED BY <2>2, <3>1, <1>1, <1>3 DEF CloseLast, Working
  <2> QED BY <1>1, <2>1, <2>2 DEF CloseLast
<1>10. SizeExact'
  <2>1. Queued' = Queued
    BY DEF Queued
  <2>2. IF hd[h].at = "popped"
          THEN Cardinality(PoppedSet') = Cardinality(PoppedSet) - 1
          ELSE PoppedSet' = PoppedSet
    BY <1>2, PoppedChange
  <2>3. Cardinality(Queued) \in Nat /\ Cardinality(PoppedSet) \in Nat /\ Len(net.batch) \in Nat
    BY QueueFacts
  <2> QED BY <1>1, <2>1, <2>2, <2>3 DEF SizeExact
<1> QED BY <1>4, <1>6, <1>7, <1>8, <1>9, <1>10 DEF QueueInv

(* DataBuffer::pop *)
LEMMA QueueTake ==
  ASSUME QueueInv, Steady, NEW h \in Handles, Take(h)
  PROVE  QueueInv'
<1>1. QueueTypes /\ InHand /\ ContextsKnown /\ ToldOf /\ CloseLast /\ SizeExact
  BY DEF QueueInv
<1> DEFINE q == getDataQueue(h)
           x == Head(dq[q])
<1>2. /\ hd[h].at = "idle" /\ dq[q] # <<>>
      /\ hd' = [hd EXCEPT ![h] = [at |-> "popped", ctx |-> x]]
      /\ dq' = [dq EXCEPT ![q] = Tail(dq[q])]
      /\ recvSize' = recvSize /\ closeTold' = closeTold /\ net' = net
  BY DEF Take
<1>3. q \in Handles /\ (queueMode => q = h)
  BY QueueOf, HandlesFinite
<1>4. dq \in [Handles -> Seq(Contexts)] /\ dq[q] \in Seq(Contexts)
      /\ hd \in [Handles -> [at : {"idle", "popped", "busy", "exited"},
                             ctx : Contexts \cup {Idle.ctx}]]
  BY <1>1, <1>3 DEF QueueTypes
<1> HIDE DEF q
<1>5. /\ x = dq[q][1] /\ 1 \in DOMAIN dq[q] /\ x \in Contexts /\ Len(dq[q]) > 0
      /\ Tail(dq[q]) \in Seq(Contexts) /\ Len(Tail(dq[q])) = Len(dq[q]) - 1
      /\ DOMAIN Tail(dq[q]) = 1..(Len(dq[q]) - 1)
      /\ \A i \in 1..(Len(dq[q]) - 1) : Tail(dq[q])[i] = dq[q][i + 1]
      /\ DOMAIN dq[q] = 1..Len(dq[q]) /\ Len(dq[q]) \in Nat
  BY <1>2, <1>4, TailFacts, SeqFacts
<1> HIDE DEF x
<1>6. /\ dq'[q] = Tail(dq[q]) /\ \A g \in Handles \ {q} : dq'[g] = dq[g]
      /\ hd'[h] = [at |-> "popped", ctx |-> x] /\ \A g \in Handles \ {h} : hd'[g] = hd[g]
      /\ hd'[h].at = "popped" /\ hd'[h].ctx = x
  BY <1>2, <1>3, <1>4
<1>7. \A g \in Handles : \A i \in DOMAIN dq'[g] :
        \E j \in DOMAIN dq[g] : dq'[g][i] = dq[g][j] /\ (g = q => j = i + 1) /\ (g # q => j = i)
  <2>1. TAKE g \in Handles
  <2>2. CASE g = q
    <3>1. TAKE i \in DOMAIN dq'[g]
    <3>2. i \in 1..(Len(dq[q]) - 1) /\ i + 1 \in DOMAIN dq[q]
      BY <3>1, <2>2, <1>5, <1>6
    <3> QED BY <3>2, <2>2, <1>5, <1>6
  <2>3. CASE g # q
    BY <2>3, <1>6
  <2> QED BY <2>2, <2>3
<1>8. QueueTypes'
  <2>1. [at |-> "popped", ctx |-> x] \in [at : {"idle", "popped", "busy", "exited"},
                                          ctx : Contexts \cup {Idle.ctx}]
    BY <1>5
  <2>2. hd' \in [Handles -> [at : {"idle", "popped", "busy", "exited"},
                             ctx : Contexts \cup {Idle.ctx}]]
    BY <1>2, <1>4, <2>1
  <2>3. dq' \in [Handles -> Seq(Contexts)]
    BY <1>2, <1>4, <1>5
  <2> QED BY <1>1, <1>2, <2>2, <2>3 DEF QueueTypes
<1>9. InHand'
  <2>1. ASSUME NEW g \in Handles
        PROVE  /\ ~Working(g)' => hd'[g].ctx = Idle.ctx
               /\ Working(g)' => hd'[g].ctx \in Contexts
               /\ hd'[g].at = "busy" => hd'[g].ctx.n > 0
    <3>1. CASE g = h
      BY <3>1, <1>5, <1>6 DEF Working
    <3>2. CASE g # h
      BY <3>2, <1>1, <1>6 DEF InHand, Working
    <3> QED BY <3>1, <3>2
  <2> QED BY <1>1, <1>2, <2>1 DEF InHand
<1>10. Kept(x, q) /\ Kept(x, h)
  <2>1. Kept(x, q)
    BY <1>1, <1>3, <1>5 DEF ContextsKnown
  <2> QED BY <2>1, <1>3 DEF Kept
<1>11. ContextsKnown'
  <2>1. \A g \in Handles : \A i \in DOMAIN dq[g] : After(dq[g][i], g)
    BY <1>1, QueueFacts, KeptAfter DEF ContextsKnown
  <2>2. \A g \in Handles : Working(g) => After(hd[g].ctx, g)
    BY <1>1, QueueFacts, KeptAfter DEF ContextsKnown
  <2>3. After(x, h)
    BY <1>5, <1>10, KeptAfter
  <2>4. \A g \in Handles : hd'[g].at \in {"popped", "busy"} => After(hd'[g].ctx, g)
    <3>1. TAKE g \in Handles
    <3>2. CASE g = h
      BY <3>2, <2>3, <1>6
    <3>3. CASE g # h
      BY <3>3, <2>2, <1>6 DEF Working
    <3> QED BY <3>2, <3>3
  <2>5. \A g \in Handles : \A i \in DOMAIN dq'[g] : After(dq'[g][i], g)
    BY <2>1, <1>7
  <2> QED BY <2>4, <2>5, KnownAfter
<1>12. ToldOf'
  <2>1. SUFFICES ASSUME NEW c \in Conns, closeTold[c] > 0
                 PROVE  Told(c)' \/ (net'.pc = "push" /\ net'.why # "read" /\ net'.c = c)
    BY <1>2 DEF ToldOf
  <2> QED BY <2>1, <1>1, <1>2 DEF ToldOf, Steady
<1>13. CloseLast'
  <2>1. \A g \in Handles : getDataQueue(g)' = getDataQueue(g) /\ getDataQueue(g) \in Handles
    BY QueueOf, HandlesFinite DEF getDataQueue, queueMode, Steady
  <2>2. ASSUME NEW g \in Handles, NEW i \in DOMAIN dq'[g], NEW j \in DOMAIN dq'[g],
               i < j, dq'[g][i].n = 0
        PROVE  dq'[g][j].c # dq'[g][i].c
    <3>1. CASE g = q
      <4>1. i \in 1..(Len(dq[q]) - 1) /\ j \in 1..(Len(dq[q]) - 1)
        BY <2>2, <3>1, <1>5, <1>6
      <4>2. i + 1 \in DOMAIN dq[q] /\ j + 1 \in DOMAIN dq[q] /\ i + 1 < j + 1
            /\ dq'[q][i] = dq[q][i + 1] /\ dq'[q][j] = dq[q][j + 1]
        BY <2>2, <4>1, <1>5, <1>6
      <4> QED BY <2>2, <3>1, <4>2, <1>1, <1>3 DEF CloseLast
    <3>2. CASE g # q
      BY <2>2, <3>2, <1>1, <1>6 DEF CloseLast
    <3> QED BY <3>1, <3>2
  <2>3. ASSUME NEW g \in Handles, Working(g)', hd'[g].ctx.n = 0,
               NEW j \in DOMAIN dq'[getDataQueue(g)]
        PROVE  dq'[getDataQueue(g)][j].c # hd'[g].ctx.c
    <3>1. CASE g = h
      <4>1. j \in 1..(Len(dq[q]) - 1) /\ dq'[q][j] = dq[q][j + 1] /\ j + 1 \in DOMAIN dq[q]
            /\ 1 < j + 1
        BY <2>3, <3>1, <1>5, <1>6 DEF q
      <4>2. dq[q][1].n = 0
        BY <2>3, <3>1, <1>5, <1>6
      <4>3. dq[q][j + 1].c # dq[q][1].c
        BY <4>1, <4>2, <1>1, <1>3, <1>5 DEF CloseLast
      <4> QED BY <3>1, <4>1, <4>3, <1>5, <1>6 DEF q
    <3>2. CASE g # h
      <4>1. PICK k \in DOMAIN dq[getDataQueue(g)] :
              dq'[getDataQueue(g)][j] = dq[getDataQueue(g)][k]
        BY <2>1, <2>3, <1>7
      <4>2. hd'[g] = hd[g]
        BY <3>2, <1>6
      <4> QED BY <2>3, <4>1, <4>2, <1>1 DEF CloseLast, Working
    <3> QED BY <3>1, <3>2
  <2> QED BY <2>1, <2>2, <2>3 DEF CloseLast
<1>14. SizeExact'
  <2>1. /\ IsFiniteSet(Queued') /\ Cardinality(Queued) \in Nat
        /\ Cardinality(Queued') = Cardinality(Queued) - Len(dq[q]) + Len(Tail(dq[q]))
    BY <1>1, <1>2, <1>3, <1>4, <1>5, QueuedChange DEF SizeExact
  <2>2. Cardinality(Queued') = Cardinality(Queued) - 1
    BY <2>1, <1>5
  <2>3. Cardinality(PoppedSet') = Cardinality(PoppedSet) + 1 /\ Cardinality(PoppedSet) \in Nat
    <3> DEFINE y == [at |-> "popped", ctx |-> x]
    <3>1. hd' = [hd EXCEPT ![h] = y] /\ y.at = "popped" /\ hd[h].at # "popped"
      BY <1>2
    <3> HIDE DEF y
    <3> QED BY <3>1, <1>4, PoppedChange
  <2>4. recvSize = Cardinality(Queued) + Len(net.batch) + Cardinality(PoppedSet)
    BY <1>1 DEF SizeExact
  <2> QED BY <2>1, <2>2, <2>3, <2>4, <1>2, QueueFacts, SMTT(30) DEF SizeExact
<1> QED BY <1>8, <1>9, <1>11, <1>12, <1>13, <1>14 DEF QueueInv

(* insertRecvQueue counts the contexts, its caller has them in hand. *)
LEMMA QueueInsert ==
  ASSUME QueueInv, Steady, NEW c \in Conns, NEW why, NEW b \in Seq(Contexts),
         net.pc = "loop", insertRecvQueue(c, why, b), hd' = hd,
         \/ /\ why = "read" /\ closeTold' = closeTold
            /\ \A i \in DOMAIN b : b[i].c = c /\ b[i].n > 0
         \/ /\ why # "read" /\ b = <<Closed(c)>> /\ ~Told(c)
            /\ closeTold' = [closeTold EXCEPT ![c] = @ + 1]
  PROVE  QueueInv'
<1>1. QueueTypes /\ InHand /\ ContextsKnown /\ ToldOf /\ CloseLast /\ SizeExact
  BY DEF QueueInv
<1>2. /\ recvSize' = recvSize + Len(b) /\ dq' = dq
      /\ net'.pc = "push" /\ net'.c = c /\ net'.why = why /\ net'.batch = b
  BY DEF insertRecvQueue
<1>3. QueueTypes'
  <2>1. closeTold' \in [Conns -> 0..1]
    <3>1. closeTold \in [Conns -> 0..1]
      BY <1>1 DEF QueueTypes
    <3>2. CASE closeTold' = closeTold
      BY <3>1, <3>2
    <3>3. CASE ~Told(c) /\ closeTold' = [closeTold EXCEPT ![c] = @ + 1]
      <4>1. ~(closeTold[c] > 0)
        BY <3>3, <1>1 DEF ToldOf
      <4>2. closeTold[c] = 0
        BY <4>1, <3>1
      <4> QED BY <3>1, <3>3, <4>2
    <3> QED BY <3>2, <3>3
  <2> QED BY <1>1, <1>2, <2>1 DEF QueueTypes
<1>4. InHand'
  <2>1. why # "read" => \A i \in DOMAIN b : b[i].c = c
    BY DEF Closed
  <2> QED BY <1>1, <1>2, <2>1 DEF InHand, Working, Closed
<1>5. ContextsKnown'
  <2>1. \A h \in Handles : \A i \in DOMAIN dq[h] : After(dq[h][i], h)
    BY <1>1, QueueFacts, KeptAfter DEF ContextsKnown
  <2>2. \A h \in Handles : Working(h) => After(hd[h].ctx, h)
    BY <1>1, QueueFacts, KeptAfter DEF ContextsKnown
  <2> QED BY <1>2, <2>1, <2>2, KnownAfter DEF Working
<1>6. ToldOf'
  <2>1. SUFFICES ASSUME NEW d \in Conns, closeTold'[d] > 0
                 PROVE  Told(d)' \/ (net'.pc = "push" /\ net'.why # "read" /\ net'.c = d)
    BY DEF ToldOf
  <2>2. CASE closeTold'[d] = closeTold[d]
    BY <2>1, <2>2, <1>1 DEF ToldOf, Steady
  <2>3. CASE closeTold'[d] # closeTold[d]
    BY <2>3, <1>1, <1>2 DEF QueueTypes
  <2> QED BY <2>2, <2>3
<1>7. CloseLast'
  BY <1>1, <1>2 DEF CloseLast, Working, getDataQueue, queueMode, Steady
<1>8. SizeExact'
  <2>1. Queued' = Queued /\ PoppedSet' = PoppedSet
    BY <1>2 DEF Queued, PoppedSet
  <2>2. net.batch = <<>>
    BY <1>1 DEF InHand
  <2>3. Len(net.batch) = 0 /\ Len(b) \in Nat
    BY <2>2, LenProperties
  <2> QED BY <1>1, <1>2, <2>1, <2>3, QueueFacts DEF SizeExact
<1> QED BY <1>3, <1>4, <1>5, <1>6, <1>7, <1>8 DEF QueueInv

LEMMA ConcatFacts ==
  ASSUME NEW S, NEW s \in Seq(S), NEW t \in Seq(S)
  PROVE  /\ s \o t \in Seq(S) /\ Len(s \o t) = Len(s) + Len(t)
         /\ Len(s) \in Nat /\ Len(t) \in Nat
         /\ DOMAIN (s \o t) = 1..(Len(s) + Len(t))
         /\ DOMAIN s = 1..Len(s) /\ DOMAIN t = 1..Len(t)
         /\ \A i \in 1..Len(s) : (s \o t)[i] = s[i]
         /\ \A i \in (Len(s) + 1)..(Len(s) + Len(t)) :
              i - Len(s) \in DOMAIN t /\ (s \o t)[i] = t[i - Len(s)]
<1>1. Len(s) \in Nat /\ Len(t) \in Nat /\ DOMAIN s = 1..Len(s) /\ DOMAIN t = 1..Len(t)
  BY LenProperties
<1>2. /\ s \o t \in Seq(S) /\ Len(s \o t) = Len(s) + Len(t)
      /\ \A i \in 1..(Len(s) + Len(t)) : (s \o t)[i] = IF i <= Len(s) THEN s[i] ELSE t[i - Len(s)]
  BY ConcatProperties
<1>3. DOMAIN (s \o t) = 1..(Len(s) + Len(t))
  BY <1>2, LenProperties
<1> QED BY <1>1, <1>2, <1>3

(* The push of insertRecvQueue. *)
LEMMA QueuePush ==
  ASSUME ListInv, QueueInv, Steady, NetPush
  PROVE  QueueInv'
<1> DEFINE c == net.c
           b == net.batch
           q == getDataQueue(uid[net.c])
           s == dq[q] \o b
<1>1. QueueTypes /\ InHand /\ ContextsKnown /\ ToldOf /\ CloseLast /\ SizeExact
  BY DEF QueueInv
<1>2. ListTypes /\ Threads /\ LiveListed /\ net.pc = "push"
  BY DEF ListInv, NetPush
<1>3. /\ dq' = [dq EXCEPT ![q] = s] /\ recvSize' = recvSize /\ hd' = hd /\ closeTold' = closeTold
  BY DEF NetPush
<1>4. /\ net'.batch = <<>> /\ net'.pc # "push"
      /\ net.why # "read" => conn'[net.c] = "gone" \/ (net'.pc = "del" /\ net'.c = net.c)
  <2>1. net \in NetRecords /\ conn \in [Conns -> ConnStates] /\ c \in Conns
    BY <1>2 DEF ListTypes, NetRecords, ConnStates, Threads
  <2>2. <<>> \in Seq(Contexts)
    BY EmptySeq
  <2>3. CASE net.why = "read"
    <3>1. net' = Loop
      BY <2>3 DEF NetPush
    <3> QED BY <2>3, <3>1 DEF Loop
  <2>4. CASE net.why = "close"
    <3>1. net' = [net EXCEPT !.pc = "dec", !.batch = <<>>] /\ conn' = [conn EXCEPT ![c] = "gone"]
      BY <2>4 DEF NetPush
    <3>2. net'.batch = <<>> /\ net'.pc = "dec"
      BY <2>1, <2>2, <3>1 DEF NetRecords
    <3>3. conn'[c] = "gone"
      BY <2>1, <3>1
    <3> QED BY <3>2, <3>3
  <2>5. CASE net.why = "timeout"
    <3>1. net' = [net EXCEPT !.pc = "del", !.batch = <<>>]
      BY <2>5 DEF NetPush
    <3> QED BY <2>1, <2>2, <3>1 DEF NetRecords
  <2> QED BY <2>3, <2>4, <2>5 DEF NetPush
<1>5. c \in Conns /\ Live(c) /\ uid[c] \in Uids /\ uid[c] \in Nat
  BY <1>2 DEF Threads, LiveListed, Uids
<1>6. q \in Handles
  BY <1>5, QueueOf
<1>7. ~Told(c)
  BY <1>2, <1>5 DEF Told, Live
<1>8. dq \in [Handles -> Seq(Contexts)] /\ dq[q] \in Seq(Contexts) /\ b \in Seq(Contexts)
  BY <1>1, <1>6 DEF QueueTypes
<1>9. /\ s \in Seq(Contexts) /\ Len(s) = Len(dq[q]) + Len(b)
      /\ Len(dq[q]) \in Nat /\ Len(b) \in Nat
      /\ DOMAIN s = 1..(Len(dq[q]) + Len(b))
      /\ DOMAIN dq[q] = 1..Len(dq[q]) /\ DOMAIN b = 1..Len(b)
      /\ \A i \in 1..Len(dq[q]) : s[i] = dq[q][i]
      /\ \A i \in (Len(dq[q]) + 1)..(Len(dq[q]) + Len(b)) :
           i - Len(dq[q]) \in DOMAIN b /\ s[i] = b[i - Len(dq[q])]
  <2> HIDE DEF b, q
  <2> QED BY <1>8, ConcatFacts
<1>10. /\ \A i \in DOMAIN b : b[i].c = c
       /\ \A i \in DOMAIN b : b[i].n = 0 => net.why # "read" /\ Len(b) = 1
  <2>1. net.why # "read" => Len(b) = 1
    BY <1>1, <1>2 DEF InHand
  <2>2. net.why = "read" => \A i \in DOMAIN b : b[i].n > 0
    BY <1>1, <1>2 DEF InHand
  <2> QED BY <2>1, <2>2, <1>1 DEF InHand
<1>11. conn'[c] \in {"open", "closing", "broken", "gone"} /\ uid'[c] = uid[c] /\ opt' = opt
  BY <1>5 DEF Steady, Known, Live
<1>12. \A i \in DOMAIN b : After(b[i], q)
  <2>1. opt'.queueMode => uid'[c] % HandleNum = q
    BY <1>11 DEF getDataQueue, queueMode
  <2> HIDE DEF b, q
  <2> QED BY <1>4, <1>10, <1>11, <2>1 DEF After
<1> HIDE DEF q, s, b, c
<1>13. dq'[q] = s /\ \A g \in Handles \ {q} : dq'[g] = dq[g]
  BY <1>3, <1>6, <1>8
<1>14. QueueTypes'
  <2>1. <<>> \in Seq(Contexts)
    BY EmptySeq
  <2> QED BY <1>1, <1>3, <1>4, <1>8, <1>9, <2>1 DEF QueueTypes
<1>15. InHand'
  <2>1. DOMAIN net'.batch = {}
    BY <1>4
  <2> QED BY <2>1, <1>1, <1>3, <1>4 DEF InHand, Working
<1>16. ContextsKnown'
  <2>1. \A g \in Handles : \A i \in DOMAIN dq[g] : After(dq[g][i], g)
    BY <1>1, QueueFacts, KeptAfter DEF ContextsKnown
  <2>2. \A g \in Handles : Working(g) => After(hd[g].ctx, g)
    BY <1>1, QueueFacts, KeptAfter DEF ContextsKnown
  <2>3. ASSUME NEW g \in Handles, NEW i \in DOMAIN dq'[g] PROVE After(dq'[g][i], g)
    <3>1. CASE g # q
      BY <2>1, <2>3, <3>1, <1>13
    <3>2. CASE g = q
      <4>1. CASE i \in 1..Len(dq[q])
        BY <2>1, <3>2, <4>1, <1>6, <1>9, <1>13
      <4>2. CASE i \in (Len(dq[q]) + 1)..(Len(dq[q]) + Len(b))
        BY <3>2, <4>2, <1>9, <1>12, <1>13
      <4> QED BY <2>3, <3>2, <4>1, <4>2, <1>9, <1>13
    <3> QED BY <3>1, <3>2
  <2> QED BY <1>3, <2>2, <2>3, KnownAfter DEF Working
<1>17. ToldOf'
  <2>1. SUFFICES ASSUME NEW d \in Conns, closeTold[d] > 0
                 PROVE  Told(d)' \/ (net'.pc = "push" /\ net'.why # "read" /\ net'.c = d)
    BY <1>3 DEF ToldOf
  <2>2. CASE Told(d)
    BY <2>2 DEF Steady
  <2>3. CASE net.why # "read" /\ net.c = d
    BY <2>3, <1>4 DEF Told
  <2> QED BY <2>1, <2>2, <2>3, <1>1 DEF ToldOf
<1>18. CloseLast'
  <2>1. \A g \in Handles : getDataQueue(g)' = getDataQueue(g) /\ getDataQueue(g) \in Handles
    BY QueueOf, HandlesFinite DEF getDataQueue, queueMode, Steady
  <2>2. ASSUME NEW i \in 1..(Len(dq[q]) + Len(b)), NEW j \in 1..(Len(dq[q]) + Len(b)),
               i < j, s[i].n = 0
        PROVE  s[j].c # s[i].c
    <3>1. CASE j \in 1..Len(dq[q])
      <4>1. i \in 1..Len(dq[q])
        BY <2>2, <3>1, <1>9
      <4> QED BY <2>2, <3>1, <4>1, <1>1, <1>6, <1>9, SMTT(30) DEF CloseLast
    <3>2. CASE j \in (Len(dq[q]) + 1)..(Len(dq[q]) + Len(b))
      <4>1. s[j].c = c
        BY <3>2, <1>9, <1>10
      <4>2. CASE i \in 1..Len(dq[q])
        <5>1. Kept(dq[q][i], q)
          BY <4>2, <1>1, <1>6, <1>9 DEF ContextsKnown
        <5>2. Told(s[i].c)
          BY <2>2, <4>2, <5>1, <1>9 DEF Kept
        <5> QED BY <4>1, <5>2, <1>7
      <4>3. CASE i \in (Len(dq[q]) + 1)..(Len(dq[q]) + Len(b))
        <5>1. Len(b) = 1
          BY <2>2, <4>3, <1>9, <1>10
        <5> QED BY <2>2, <3>2, <4>3, <5>1, <1>9
      <4> QED BY <2>2, <4>2, <4>3, <1>9
    <3> QED BY <2>2, <3>1, <3>2, <1>9
  <2>3. ASSUME NEW g \in Handles, NEW i \in DOMAIN dq'[g], NEW j \in DOMAIN dq'[g],
               i < j, dq'[g][i].n = 0
        PROVE  dq'[g][j].c # dq'[g][i].c
    <3>1. CASE g = q
      BY <2>2, <2>3, <3>1, <1>9, <1>13
    <3>2. CASE g # q
      BY <2>3, <3>2, <1>1, <1>13 DEF CloseLast
    <3> QED BY <3>1, <3>2
  <2>4. ASSUME NEW g \in Handles, Working(g), hd[g].ctx.n = 0,
               NEW j \in DOMAIN dq'[getDataQueue(g)]
        PROVE  dq'[getDataQueue(g)][j].c # hd[g].ctx.c
    <3>1. CASE getDataQueue(g) # q
      BY <2>1, <2>4, <3>1, <1>1, <1>13 DEF CloseLast
    <3>2. CASE getDataQueue(g) = q
      <4>1. CASE j \in 1..Len(dq[q])
        BY <2>4, <3>2, <4>1, <1>1, <1>9, <1>13 DEF CloseLast
      <4>2. CASE j \in (Len(dq[q]) + 1)..(Len(dq[q]) + Len(b))
        <5>1. s[j].c = c
          BY <4>2, <1>9, <1>10
        <5>2. Told(hd[g].ctx.c)
          BY <2>4, <1>1 DEF ContextsKnown, Kept
        <5> QED BY <3>2, <5>1, <5>2, <1>7, <1>13
      <4> QED BY <2>4, <3>2, <4>1, <4>2, <1>9, <1>13
    <3> QED BY <3>1, <3>2
  <2> QED BY <2>1, <2>3, <2>4, <1>3 DEF CloseLast, Working
<1>19. SizeExact'
  <2>1. /\ IsFiniteSet(Queued') /\ Cardinality(Queued) \in Nat
        /\ Cardinality(Queued') = Cardinality(Queued) - Len(dq[q]) + Len(s)
    BY <1>1, <1>3, <1>6, <1>8, <1>9, QueuedChange DEF SizeExact
  <2>2. Cardinality(Queued') = Cardinality(Queued) + Len(b)
    BY <2>1, <1>9
  <2>3. PoppedSet' = PoppedSet /\ Cardinality(PoppedSet) \in Nat
    BY <1>3, QueueFacts DEF PoppedSet
  <2>4. recvSize = Cardinality(Queued) + Len(b) + Cardinality(PoppedSet)
    BY <1>1 DEF SizeExact, b
  <2>5. Len(net'.batch) = 0
    BY <1>4
  <2> QED BY <2>1, <2>2, <2>3, <2>4, <2>5, <1>3, <1>9 DEF SizeExact
<1> QED BY <1>14, <1>15, <1>16, <1>17, <1>18, <1>19 DEF QueueInv

LEMMA InitQueue ==
  ASSUME Init
  PROVE  QueueInv
<1>1. /\ \A h \in Handles : dq[h] = <<>> /\ DOMAIN dq[h] = {} /\ Len(dq[h]) = 0
      /\ \A h \in Handles : hd[h] = Idle /\ hd[h].at = "idle" /\ hd[h].ctx = Idle.ctx
      /\ net = Loop /\ net.batch = <<>> /\ net.pc = "loop" /\ DOMAIN net.batch = {}
  <2>1. DOMAIN <<>> = {} /\ Len(<<>>) = 0
    OBVIOUS
  <2>2. \A h \in Handles : dq[h] = <<>> /\ hd[h] = Idle
    BY DEF Init
  <2>3. Idle.at = "idle"
    BY DEF Idle
  <2>4. net = Loop /\ net.batch = <<>> /\ net.pc = "loop"
    BY DEF Init, Loop
  <2> QED BY <2>1, <2>2, <2>3, <2>4
<1>2. <<>> \in Seq(Contexts) /\ Len(<<>>) = 0
  BY EmptySeq
<1>3. QueueTypes
  <2>1. Idle \in [at : {"idle", "popped", "busy", "exited"}, ctx : Contexts \cup {Idle.ctx}]
    BY DEF Idle
  <2> QED BY <1>1, <1>2, <2>1 DEF Init, QueueTypes
<1>4. InHand /\ ContextsKnown /\ CloseLast
  <2>1. \A h \in Handles : ~Working(h)
    BY <1>1 DEF Working
  <2> QED BY <1>1, <2>1 DEF InHand, ContextsKnown, CloseLast
<1>5. ToldOf
  BY DEF Init, ToldOf
<1>6. Queued = {}
  BY <1>1 DEF Queued
<1>7. PoppedSet = {}
  BY <1>1 DEF PoppedSet
<1>8. SizeExact
  BY <1>1, <1>2, <1>6, <1>7, FS_EmptySet DEF SizeExact, Init
<1> QED BY <1>3, <1>4, <1>5, <1>8 DEF QueueInv

LEMMA StepQueue ==
  ASSUME ListInv, QueueInv, [Next]_vars,
         sbuffer # <<>> => Head(sbuffer).c \in Conns /\ Known(Head(sbuffer).c)
  PROVE  QueueInv'
<1>1. Steady
  BY StepSteady
<1>2. ListTypes /\ Threads
  BY DEF ListInv
<1>3. ASSUME UNCHANGED <<queue, hd, closeTold, net>> PROVE QueueInv'
  BY <1>1, <1>3, QueueQuiet DEF queue
<1>4. ASSUME NEW c \in Conns, NEW why, why # "read", Live(c), net.pc = "loop",
             delConnection(c, why), hd' = hd
      PROVE  QueueInv'
  <2>1. ~Told(c)
    BY <1>4 DEF Told, Live
  <2>2. Closed(c) \in Contexts
    BY ServerAssumption DEF Closed, Contexts
  <2>3. <<Closed(c)>> \in Seq(Contexts)
    BY <2>2
  <2> QED BY <1>1, <1>4, <2>1, <2>3, QueueInsert DEF delConnection
<1>5. ASSUME NEW c \in Conns, NetRead(c) PROVE QueueInv'
  <2>1. net.pc = "loop" /\ hd' = hd /\ closeTold' = closeTold
    BY <1>5 DEF NetRead
  <2>2. PICK k \in 1..(opt.requests - sent) :
          \/ UNCHANGED <<net, queue>>
          \/ insertRecvQueue(c, "read", ReadContexts(c, k))
    BY <1>5 DEF NetRead, ReadContexts
  <2> DEFINE b == ReadContexts(c, k)
  <2>3. sent \in 0..MaxRequests /\ opt \in Options
    BY <1>2 DEF ListTypes
  <2>4. /\ b \in Seq(Contexts) /\ DOMAIN b = 1..k
        /\ \A j \in 1..k : b[j].c = c /\ b[j].n = sent + j
    BY <2>2, <2>3, ReadBatch
  <2>5. UNCHANGED <<net, queue>> \/ insertRecvQueue(c, "read", b)
    BY <2>2
  <2> HIDE DEF b
  <2>6. \A i \in DOMAIN b : b[i].c = c /\ b[i].n > 0
    BY <2>3, <2>4, ServerAssumption
  <2>7. CASE insertRecvQueue(c, "read", b)
    BY <1>1, <2>1, <2>4, <2>6, <2>7, QueueInsert
  <2> QED BY <1>3, <2>1, <2>5, <2>7
<1>6. ASSUME NEW c \in Conns, Accept(c) \/ NetClose(c) \/ NetTimeout(c) PROVE QueueInv'
  <2>1. CASE Accept(c)
    BY <1>3, <2>1 DEF Accept
  <2>2. CASE NetClose(c)
    BY <1>4, <2>2 DEF NetClose, Live
  <2>3. CASE NetTimeout(c)
    BY <1>4, <2>3 DEF NetTimeout, Live
  <2> QED BY <1>6, <2>1, <2>2, <2>3
<1>7. CASE AcceptStep \/ AsyncReply \/ Terminate \/ Stop
  BY <1>3, <1>7 DEF AcceptStep, AcceptUid, AcceptAdd, AcceptCount, AcceptRegister, AsyncReply,
                    Terminate, Stop
<1>8. CASE NetPush
  BY <1>1, <1>8, QueuePush
<1>9. CASE NetDec \/ NetDel \/ NetDown \/ PipeAccepting
  <2>1. /\ UNCHANGED <<queue, hd, closeTold>> /\ net.pc # "push" /\ net'.pc # "push"
        /\ net'.batch = <<>>
    BY <1>9 DEF NetDec, NetDel, NetDown, PipeAccepting, Pipe, Loop
  <2> QED BY <1>1, <2>1, QueueQuiet DEF queue
<1>10. CASE PipeGone \/ PipeSend \/ PipeSendThrows \/ PipeClose
  BY <1>3, <1>10 DEF PipeGone, PipeSend, PipeSendThrows, PipeClose
<1>11. CASE PipeBroken
  <2> DEFINE d == Holder(Head(sbuffer))
  <2>1. /\ net.pc = "loop" /\ d # None /\ conn[d] = "broken" /\ delConnection(d, "close")
        /\ hd' = hd /\ sbuffer # <<>>
    BY <1>11 DEF PipeBroken, First, Pipe
  <2>2. d \in Conns
    BY <2>1, HolderFacts
  <2> HIDE DEF d
  <2> QED BY <1>4, <2>1, <2>2 DEF Live
<1>12. ASSUME NEW h \in Handles, HandleStep(h) PROVE QueueInv'
  <2>1. CASE Take(h)
    BY <1>1, <2>1, QueueTake
  <2>2. QueueTypes /\ InHand /\ net' = net /\ closeTold' = closeTold
    BY <1>12 DEF QueueInv, HandleStep, Take, HandleClose, HandleRefused, HandleUndecodable,
                 Dispatch, Return, ReturnAsync, HandleExit
  <2>3. Idle \in [at : {"idle", "popped", "busy", "exited"}, ctx : Contexts \cup {Idle.ctx}]
        /\ Idle.at = "idle"
    BY DEF Idle
  <2>4. CASE HandleClose(h) \/ HandleRefused(h) \/ HandleUndecodable(h) \/ Return(h) \/ ReturnAsync(h)
    <3>1. /\ dq' = dq /\ hd' = [hd EXCEPT ![h] = Idle]
          /\ recvSize' = IF hd[h].at = "popped" THEN recvSize - 1 ELSE recvSize
      BY <2>4 DEF HandleClose, HandleRefused, HandleUndecodable, Return, ReturnAsync, Popped, queue
    <3> QED BY <1>1, <2>2, <2>3, <3>1, QueueHandler
  <2>5. hd \in [Handles -> [at : {"idle", "popped", "busy", "exited"},
                            ctx : Contexts \cup {Idle.ctx}]]
    BY <2>2 DEF QueueTypes
  <2>6. CASE Dispatch(h)
    <3> DEFINE x == [at |-> "busy", ctx |-> hd[h].ctx]
    <3>1. /\ dq' = dq /\ hd' = [hd EXCEPT ![h].at = "busy"] /\ hd[h].at = "popped"
          /\ recvSize' = recvSize - 1 /\ hd[h].ctx.n > 0
      BY <2>6 DEF Dispatch, Popped
    <3>2. /\ hd' = [hd EXCEPT ![h] = x] /\ x.at = "busy" /\ x.ctx = hd[h].ctx
          /\ x \in [at : {"idle", "popped", "busy", "exited"}, ctx : Contexts \cup {Idle.ctx}]
      <4>1. [hd[h] EXCEPT !.at = "busy"] = x
        BY <2>5
      <4>2. hd' = [hd EXCEPT ![h] = [hd[h] EXCEPT !.at = "busy"]]
        BY <3>1
      <4> QED BY <2>5, <4>1, <4>2
    <3> HIDE DEF x
    <3> QED BY <1>1, <2>2, <3>1, <3>2, QueueHandler
  <2>7. CASE HandleExit(h)
    <3> DEFINE x == [at |-> "exited", ctx |-> hd[h].ctx]
    <3>1. /\ dq' = dq /\ hd' = [hd EXCEPT ![h].at = "exited"] /\ hd[h].at = "idle"
          /\ recvSize' = recvSize
      BY <2>7 DEF HandleExit, queue
    <3>2. /\ hd' = [hd EXCEPT ![h] = x] /\ x.at = "exited" /\ x.ctx = hd[h].ctx
          /\ x \in [at : {"idle", "popped", "busy", "exited"}, ctx : Contexts \cup {Idle.ctx}]
      <4>1. [hd[h] EXCEPT !.at = "exited"] = x
        BY <2>5
      <4>2. hd' = [hd EXCEPT ![h] = [hd[h] EXCEPT !.at = "exited"]]
        BY <3>1
      <4> QED BY <2>5, <4>1, <4>2
    <3>3. hd[h].ctx = Idle.ctx
      BY <2>2, <3>1 DEF InHand, Working
    <3> HIDE DEF x
    <3> QED BY <1>1, <2>2, <3>1, <3>2, <3>3, QueueHandler
  <2> QED BY <1>12, <2>1, <2>4, <2>6, <2>7 DEF HandleStep
<1>13. CASE UNCHANGED vars
  BY <1>3, <1>13 DEF vars
<1> QED BY <1>5, <1>6, <1>7, <1>8, <1>9, <1>10, <1>11, <1>12, <1>13
        DEF Next, NetStep, ProcessPipe

-----------------------------------------------------------------------------
(* Where the requests are *)

LEMMA Numbers ==
  ASSUME QueueTypes, AnswerTypes
  PROVE  /\ \A i \in DOMAIN net.batch : net.batch[i].n > 0 => net.batch[i].n \in Requests
         /\ \A h \in Handles : \A i \in DOMAIN dq[h] : dq[h][i].n > 0 => dq[h][i].n \in Requests
         /\ \A h \in Handles : hd[h].ctx.n > 0 => hd[h].ctx.n \in Requests
         /\ \A x \in async : x.n > 0 => x.n \in Requests
         /\ \A i \in DOMAIN sbuffer : sbuffer[i].n \in Requests
<1>1. \A x \in Contexts : x.n > 0 => x.n \in Requests
  BY ServerAssumption DEF Contexts, Requests
<1>2. \A i \in DOMAIN net.batch : net.batch[i] \in Contexts
  BY SeqFacts DEF QueueTypes
<1>3. \A h \in Handles : \A i \in DOMAIN dq[h] : dq[h][i] \in Contexts
  <2>1. TAKE h \in Handles
  <2>2. dq[h] \in Seq(Contexts)
    BY DEF QueueTypes
  <2> QED BY <2>2, SeqFacts
<1>4. \A h \in Handles : hd[h].ctx.n > 0 => hd[h].ctx \in Contexts
  BY DEF QueueTypes, Idle
<1>5. \A i \in DOMAIN sbuffer : sbuffer[i] \in Commands
  BY SeqFacts DEF AnswerTypes
<1>6. \A i \in DOMAIN sbuffer : sbuffer[i].n \in Requests
  BY <1>5 DEF Commands, Requests
<1> QED BY <1>1, <1>2, <1>3, <1>4, <1>6 DEF AnswerTypes

(* Only requests in the places P move. *)
LEMMA Moved ==
  ASSUME QueueTypes, AnswerTypes, NEW w, Placed(w), NEW v, NEW P,
         \A r \in Requests : w[r] \notin P => v[r] = w[r]
  PROVE  /\ "batch" \notin P => InBatch(v, net.batch)
         /\ "queue" \notin P => InQueues(v, dq)
         /\ "handler" \notin P => InHandlers(v, hd)
         /\ "async" \notin P => InAsync(v, async)
         /\ "pipe" \notin P => InPipe(v, sbuffer)
         /\ "unsent" \notin P /\ "answered" \notin P => Ended(v, sent, replies)
<1>1. /\ InBatch(w, net.batch) /\ InQueues(w, dq) /\ InHandlers(w, hd)
      /\ InAsync(w, async) /\ InPipe(w, sbuffer) /\ Ended(w, sent, replies)
  BY DEF Placed
<1>2. ASSUME "batch" \notin P PROVE InBatch(v, net.batch)
  BY <1>1, <1>2, Numbers DEF InBatch
<1>3. ASSUME "queue" \notin P PROVE InQueues(v, dq)
  BY <1>1, <1>3, Numbers DEF InQueues
<1>4. ASSUME "handler" \notin P PROVE InHandlers(v, hd)
  BY <1>1, <1>4, Numbers DEF InHandlers
<1>5. ASSUME "async" \notin P PROVE InAsync(v, async)
  BY <1>1, <1>5, Numbers DEF InAsync
<1>6. ASSUME "pipe" \notin P PROVE InPipe(v, sbuffer)
  BY <1>1, <1>6, Numbers DEF InPipe
<1>7. ASSUME "unsent" \notin P, "answered" \notin P PROVE Ended(v, sent, replies)
  BY <1>1, <1>7 DEF Ended
<1> QED BY <1>2, <1>3, <1>4, <1>5, <1>6, <1>7

LEMMA InitAnswer == ASSUME Init PROVE AnswerInv
<1> DEFINE w == [r \in Requests |-> "unsent"]
<1>1. w \in [Requests -> Places]
  BY DEF Places
<1>2. /\ net.batch = <<>> /\ async = {} /\ sbuffer = <<>> /\ sent = 0
      /\ replies = [r \in Requests |-> 0]
      /\ \A h \in Handles : dq[h] = <<>> /\ hd[h].ctx.n = 0
  BY DEF Init, Loop, Idle
<1>3. Placed(w)
  BY <1>2 DEF Placed, InBatch, InQueues, InHandlers, InAsync, InPipe, Ended
<1>4. AnswerTypes
  <2>1. replies \in [Requests -> Nat]
    BY <1>2
  <2>2. sbuffer \in Seq(Commands)
    BY <1>2
  <2> QED BY <1>2, <2>1, <2>2 DEF Init, AnswerTypes
<1>5. CommandsKnown
  BY <1>2 DEF CommandsKnown
<1> QED BY <1>1, <1>3, <1>4, <1>5 DEF AnswerInv

(* The commands that a thread puts into the pipe answer one request at most. *)
LEMMA PipeAppend ==
  ASSUME NEW w, NEW v, NEW s \in Seq(Commands), NEW t \in Seq(Commands), NEW r \in Requests,
         InPipe(w, s), w[r] # "pipe", v[r] = "pipe",
         \A x \in Requests : x # r => v[x] = w[x],
         \A i \in DOMAIN t : t[i].op = "s" => t[i].n = r,
         \A i, j \in DOMAIN t : t[i].op = "s" /\ t[j].op = "s" => i = j
  PROVE  InPipe(v, s \o t)
<1>1. /\ DOMAIN (s \o t) = 1..(Len(s) + Len(t)) /\ Len(s) \in Nat /\ Len(t) \in Nat
      /\ DOMAIN s = 1..Len(s) /\ DOMAIN t = 1..Len(t)
      /\ \A i \in 1..Len(s) : (s \o t)[i] = s[i]
      /\ \A i \in (Len(s) + 1)..(Len(s) + Len(t)) :
           i - Len(s) \in DOMAIN t /\ (s \o t)[i] = t[i - Len(s)]
  BY ConcatFacts
<1>2. \A i \in DOMAIN s : s[i].n \in Requests
  <2>1. \A i \in DOMAIN s : s[i] \in Commands
    BY SeqFacts
  <2> QED BY <2>1 DEF Commands, Requests
<1> DEFINE u == s \o t
<1>3. \A i \in DOMAIN u :
        u[i].op = "s" => \/ i \in DOMAIN s /\ u[i] = s[i] /\ u[i].n # r /\ v[u[i].n] = "pipe"
                         \/ i - Len(s) \in DOMAIN t /\ i > Len(s) /\ u[i] = t[i - Len(s)] /\ u[i].n = r
  <2>1. TAKE i \in DOMAIN u
  <2>2. CASE i \in 1..Len(s)
    BY <1>1, <1>2, <2>2 DEF InPipe
  <2>3. CASE i \in (Len(s) + 1)..(Len(s) + Len(t))
    BY <1>1, <2>3
  <2> QED BY <1>1, <2>1, <2>2, <2>3
<1>4. \A i \in DOMAIN u : i \in Int
  BY <1>1
<1>5. DOMAIN s \subseteq Nat
  BY <1>1
<1> HIDE DEF u
<1>6. \A i \in DOMAIN u : u[i].op = "s" => v[u[i].n] = "pipe"
  BY <1>3
<1>7. ASSUME NEW i \in DOMAIN u, NEW j \in DOMAIN u,
             u[i].op = "s", u[j].op = "s", u[i].n = u[j].n
      PROVE  i = j
  <2>1. CASE u[i].n = r
    <3>1. /\ i - Len(s) \in DOMAIN t /\ u[i] = t[i - Len(s)]
          /\ j - Len(s) \in DOMAIN t /\ u[j] = t[j - Len(s)]
      BY <1>3, <1>7, <2>1
    <3>2. i - Len(s) = j - Len(s)
      BY <1>7, <3>1
    <3> QED BY <1>1, <1>4, <3>2
  <2>2. CASE u[i].n # r
    BY <1>3, <1>7, <2>2 DEF InPipe
  <2> QED BY <2>1, <2>2
<1> QED BY <1>6, <1>7 DEF InPipe, u

LEMMA PipeTail ==
  ASSUME NEW w, NEW s \in Seq(Commands), s # <<>>, InPipe(w, s)
  PROVE  /\ InPipe(w, Tail(s)) /\ Tail(s) \in Seq(Commands)
         /\ \A i \in DOMAIN Tail(s) : i + 1 \in DOMAIN s /\ Tail(s)[i] = s[i + 1] /\ i + 1 # 1
         /\ Head(s) = s[1] /\ 1 \in DOMAIN s /\ Head(s) \in Commands
<1>1. /\ Head(s) = s[1] /\ 1 \in DOMAIN s /\ Head(s) \in Commands /\ Len(s) > 0
      /\ Tail(s) \in Seq(Commands) /\ DOMAIN Tail(s) = 1..(Len(s) - 1)
      /\ \A i \in 1..(Len(s) - 1) : Tail(s)[i] = s[i + 1]
      /\ DOMAIN s = 1..Len(s) /\ Len(s) \in Nat
  BY TailFacts, SeqFacts
<1>2. \A i \in DOMAIN Tail(s) : i + 1 \in DOMAIN s /\ Tail(s)[i] = s[i + 1] /\ i + 1 # 1 /\ i \in Nat
  BY <1>1
<1>3. InPipe(w, Tail(s))
  <2>1. \A i \in DOMAIN Tail(s) : Tail(s)[i].op = "s" => w[Tail(s)[i].n] = "pipe"
    BY <1>2 DEF InPipe
  <2>2. ASSUME NEW i \in DOMAIN Tail(s), NEW j \in DOMAIN Tail(s), Tail(s)[i].op = "s",
               Tail(s)[j].op = "s", Tail(s)[i].n = Tail(s)[j].n
        PROVE  i = j
    <3>1. i + 1 = j + 1
      BY <1>2, <2>2 DEF InPipe
    <3> QED BY <1>2, <3>1
  <2> QED BY <2>1, <2>2 DEF InPipe
<1> QED BY <1>1, <1>2, <1>3

(* Known in the next state, for a connection of this one. *)
KnownNext(c) == conn'[c] \in {"open", "closing", "broken", "gone"}

LEMMA KnownStays ==
  ASSUME AnswerInv, Steady
  PROVE  /\ \A i \in DOMAIN sbuffer : sbuffer[i].c \in Conns /\ KnownNext(sbuffer[i].c)
         /\ \A x \in async : KnownNext(x.c)
<1>1. AnswerTypes /\ CommandsKnown
  BY DEF AnswerInv
<1>2. \A i \in DOMAIN sbuffer : sbuffer[i].c \in Conns
  <2>1. \A i \in DOMAIN sbuffer : sbuffer[i] \in Commands
    BY <1>1, SeqFacts DEF AnswerTypes
  <2> QED BY <2>1 DEF Commands
<1>3. \A x \in async : x.c \in Conns
  BY <1>1 DEF AnswerTypes, Contexts
<1>4. \A c \in Conns : Known(c) => KnownNext(c)
  BY DEF Steady, Known, Live, KnownNext
<1>5. (\A i \in DOMAIN sbuffer : KnownNext(sbuffer[i].c)) /\ (\A x \in async : KnownNext(x.c))
  BY <1>1, <1>2, <1>3, <1>4 DEF CommandsKnown
<1> QED BY <1>2, <1>4, <1>5

(* Steps that leave the requests where they are, but for a command that is *)
(* taken out of the pipe.                                                  *)
LEMMA AnswerQuiet ==
  ASSUME AnswerInv, QueueTypes, Steady, UNCHANGED <<dq, hd, async, sent, replies>>,
         terminated' \in BOOLEAN,
         sbuffer' = sbuffer \/ (sbuffer # <<>> /\ sbuffer' = Tail(sbuffer)),
         net'.batch = net.batch \/ \A i \in DOMAIN net'.batch : net'.batch[i].n = 0
  PROVE  AnswerInv'
<1>1. AnswerTypes /\ CommandsKnown
  BY DEF AnswerInv
<1>2. PICK w \in [Requests -> Places] : Placed(w)
  BY DEF AnswerInv
<1>3. sbuffer \in Seq(Commands)
  BY <1>1 DEF AnswerTypes
<1>4. InPipe(w, sbuffer') /\ sbuffer' \in Seq(Commands)
  <2>1. CASE sbuffer' = sbuffer
    BY <1>2, <1>3, <2>1 DEF Placed
  <2>2. CASE sbuffer # <<>> /\ sbuffer' = Tail(sbuffer)
    BY <1>2, <1>3, <2>2, PipeTail DEF Placed
  <2> QED BY <2>1, <2>2
<1>5. \A i \in DOMAIN sbuffer' : KnownNext(sbuffer'[i].c)
  <2>1. \A i \in DOMAIN sbuffer : KnownNext(sbuffer[i].c)
    BY KnownStays
  <2>2. CASE sbuffer' = sbuffer
    BY <2>1, <2>2
  <2>3. CASE sbuffer # <<>> /\ sbuffer' = Tail(sbuffer)
    <3>1. \A i \in DOMAIN Tail(sbuffer) : i + 1 \in DOMAIN sbuffer /\ Tail(sbuffer)[i] = sbuffer[i + 1]
      BY <1>2, <1>3, <2>3, PipeTail DEF Placed
    <3> QED BY <2>1, <2>3, <3>1
  <2> QED BY <2>2, <2>3
<1>6. InBatch(w, net'.batch)
  BY <1>2 DEF Placed, InBatch
<1>7. Placed(w)'
  BY <1>2, <1>4, <1>6 DEF Placed
<1>8. CommandsKnown'
  BY <1>5, KnownStays DEF CommandsKnown, Known, Live, KnownNext
<1>9. AnswerTypes'
  BY <1>1, <1>4 DEF AnswerTypes
<1> QED BY <1>2, <1>7, <1>8, <1>9 DEF AnswerInv

(* Connection::handleInputImp *)
LEMMA AnswerRead ==
  ASSUME AnswerInv, QueueInv, ListInv, Steady, NEW c \in Conns, NetRead(c)
  PROVE  AnswerInv'
<1>1. AnswerTypes /\ CommandsKnown /\ QueueTypes /\ InHand
  BY DEF AnswerInv, QueueInv
<1>2. PICK w \in [Requests -> Places] : Placed(w)
  BY DEF AnswerInv
<1>3. sent \in 0..MaxRequests /\ opt \in Options
  BY DEF ListInv, ListTypes
<1>4. /\ net.pc = "loop"
      /\ UNCHANGED <<hd, async, sbuffer, terminated, replies>>
  BY DEF NetRead
<1>5. PICK k \in 1..(opt.requests - sent) :
        /\ sent' = sent + k
        /\ \/ UNCHANGED <<net, queue>>
           \/ insertRecvQueue(c, "read", ReadContexts(c, k))
  BY DEF NetRead, ReadContexts
<1>6. PICK b : b = ReadContexts(c, k)
  OBVIOUS
<1>7. /\ b \in Seq(Contexts) /\ DOMAIN b = 1..k /\ sent + k \in 0..MaxRequests
      /\ \A j \in 1..k : b[j].n = sent + j
  BY <1>3, <1>5, <1>6, ReadBatch
<1>8. AnswerTypes' /\ CommandsKnown'
  BY <1>1, <1>4, KnownStays DEF AnswerTypes, CommandsKnown, Known, Live, KnownNext
<1>9. /\ InQueues(w, dq) /\ InHandlers(w, hd) /\ InAsync(w, async) /\ InPipe(w, sbuffer)
      /\ Ended(w, sent, replies) /\ InBatch(w, net.batch)
  BY <1>2 DEF Placed
<1>10. sent \in Int /\ k \in Int /\ k > 0 /\ Requests \subseteq Int /\ MaxRequests \in Int
  BY <1>3, <1>5, ServerAssumption DEF Requests
<1>11. CASE UNCHANGED <<net, queue>>
  <2>1. Ended(w, sent', replies)
    BY <1>5, <1>9, <1>10 DEF Ended
  <2> QED BY <1>2, <1>4, <1>8, <1>9, <1>11, <2>1 DEF AnswerInv, Placed, queue
<1>12. CASE insertRecvQueue(c, "read", b)
  <2> DEFINE f == [r \in Requests |-> IF r > sent /\ r <= sent + k THEN "batch" ELSE w[r]]
  <2>1. f \in [Requests -> Places]
    BY <1>2 DEF Places
  <2>9. PICK v \in [Requests -> Places] : v = f
    BY <2>1
  <2>2. net'.batch = b /\ dq' = dq
    BY <1>12 DEF insertRecvQueue
  <2>3. \A r \in Requests : w[r] \notin {"unsent"} => v[r] = w[r]
    BY <1>9, <1>10, <2>9 DEF Ended
  <2>4. \A j \in 1..k : sent + j \in Requests /\ v[sent + j] = "batch" /\ j \in Int
    <3>1. TAKE j \in 1..k
    <3>2. j \in Int /\ 1 <= j /\ j <= k
      BY <1>10
    <3>3. sent + j \in Requests /\ sent + j > sent /\ sent + j <= sent + k
      BY <1>3, <1>7, <1>10, <3>2, ServerAssumption DEF Requests
    <3> QED BY <2>9, <3>2, <3>3
  <2>5. Ended(v, sent', replies)
    BY <1>5, <1>9, <1>10, <2>9 DEF Ended
  <2> HIDE DEF f
  <2>6. InBatch(v, b)
    <3>1. \A i \in DOMAIN b : v[b[i].n] = "batch"
      BY <1>7, <2>4
    <3>2. ASSUME NEW i \in DOMAIN b, NEW j \in DOMAIN b, b[i].n = b[j].n
          PROVE  i = j
      <4>1. b[i].n = sent + i /\ b[j].n = sent + j
        BY <1>7
      <4>2. sent \in Int /\ i \in Int /\ j \in Int
        BY <1>7, <1>10, <2>4
      <4>3. \A x, y, z \in Int : x + y = x + z => y = z
        OBVIOUS
      <4> QED BY <3>2, <4>1, <4>2, <4>3, Zenon
    <3> QED BY <3>1, <3>2 DEF InBatch
  <2>7. InQueues(v, dq) /\ InHandlers(v, hd) /\ InAsync(v, async) /\ InPipe(v, sbuffer)
    <3>1. "queue" \notin {"unsent"} /\ "handler" \notin {"unsent"} /\ "async" \notin {"unsent"}
          /\ "pipe" \notin {"unsent"}
      OBVIOUS
    <3> QED BY <1>1, <1>2, <2>3, <3>1, Moved
  <2>8. Placed(v)'
    BY <1>4, <2>2, <2>5, <2>6, <2>7 DEF Placed
  <2> QED BY <1>8, <2>8 DEF AnswerInv
<1> QED BY <1>5, <1>6, <1>11, <1>12

(* The push of insertRecvQueue. *)
LEMMA AnswerPush ==
  ASSUME AnswerInv, QueueInv, ListInv, Steady, NetPush
  PROVE  AnswerInv'
<1>1. AnswerTypes /\ CommandsKnown /\ QueueTypes
  BY DEF AnswerInv, QueueInv
<1>2. PICK w \in [Requests -> Places] : Placed(w)
  BY DEF AnswerInv
<1> DEFINE b == net.batch
           q == getDataQueue(uid[net.c])
           s == dq[q] \o b
<1>3. /\ net.pc = "push" /\ dq' = [dq EXCEPT ![q] = s]
      /\ UNCHANGED <<sent, hd, async, sbuffer, terminated, replies>>
  BY DEF NetPush
<1>4. net'.batch = <<>>
  <2>1. net \in NetRecords
    BY DEF ListInv, ListTypes, NetRecords
  <2>2. CASE net.why = "read"
    BY <2>2 DEF NetPush, Loop
  <2>3. CASE net.why = "close"
    <3>1. net' = [net EXCEPT !.pc = "dec", !.batch = <<>>]
      BY <2>3 DEF NetPush
    <3> QED BY <2>1, <3>1 DEF NetRecords
  <2>4. CASE net.why = "timeout"
    <3>1. net' = [net EXCEPT !.pc = "del", !.batch = <<>>]
      BY <2>4 DEF NetPush
    <3> QED BY <2>1, <3>1 DEF NetRecords
  <2> QED BY <2>2, <2>3, <2>4 DEF NetPush
<1>5. q \in Handles
  <2>1. net.c \in Conns /\ Live(net.c) /\ LiveListed
    BY <1>3 DEF ListInv, Threads
  <2>2. uid[net.c] \in Uids
    BY <2>1 DEF LiveListed
  <2>3. uid[net.c] \in Nat
    BY <2>2, ServerAssumption DEF Uids
  <2> QED BY <2>3, QueueOf
<1>6. dq \in [Handles -> Seq(Contexts)] /\ dq[q] \in Seq(Contexts) /\ b \in Seq(Contexts)
  BY <1>1, <1>5 DEF QueueTypes
<1>7. /\ DOMAIN s = 1..(Len(dq[q]) + Len(b)) /\ Len(dq[q]) \in Nat /\ Len(b) \in Nat
      /\ DOMAIN dq[q] = 1..Len(dq[q]) /\ DOMAIN b = 1..Len(b)
      /\ \A i \in 1..Len(dq[q]) : s[i] = dq[q][i]
      /\ \A i \in (Len(dq[q]) + 1)..(Len(dq[q]) + Len(b)) :
           i - Len(dq[q]) \in DOMAIN b /\ s[i] = b[i - Len(dq[q])]
  <2> HIDE DEF b, q
  <2> QED BY <1>6, ConcatFacts
<1>8. dq'[q] = s /\ \A h \in Handles : h # q => dq'[h] = dq[h]
  BY <1>3, <1>5, <1>6
<1>9. InBatch(w, b) /\ InQueues(w, dq)
  BY <1>2 DEF Placed
<1>10. /\ \A h \in Handles : \A i \in DOMAIN dq[h] : dq[h][i].n > 0 => dq[h][i].n \in Requests
       /\ \A i \in DOMAIN b : b[i].n > 0 => b[i].n \in Requests
  BY <1>1, Numbers
<1> DEFINE v == [r \in Requests |-> IF w[r] = "batch" THEN "queue" ELSE w[r]]
<1>11. v \in [Requests -> Places]
  BY <1>2 DEF Places
<1>12. \A r \in Requests : /\ w[r] \notin {"batch"} => v[r] = w[r]
                           /\ w[r] = "batch" => v[r] = "queue"
  OBVIOUS
<1> HIDE DEF v, b, q, s
(* A context of the new queue g was queued there, or is of the batch. *)
<1>13. ASSUME NEW g \in Handles, NEW i \in DOMAIN dq'[g], dq'[g][i].n > 0
       PROVE  \/ /\ i \in DOMAIN dq[g] /\ dq'[g][i] = dq[g][i]
                 /\ dq[g][i].n \in Requests /\ w[dq[g][i].n] = "queue"
              \/ /\ g = q /\ i \in Int /\ i - Len(dq[q]) \in DOMAIN b
                 /\ dq'[g][i] = b[i - Len(dq[q])]
                 /\ dq'[g][i].n \in Requests /\ w[dq'[g][i].n] = "batch"
  <2>1. CASE g # q
    BY <1>8, <1>9, <1>10, <1>13, <2>1 DEF InQueues
  <2>2. CASE g = q /\ i \in 1..Len(dq[q])
    BY <1>5, <1>7, <1>8, <1>9, <1>10, <1>13, <2>2 DEF InQueues
  <2>3. CASE g = q /\ i \in (Len(dq[q]) + 1)..(Len(dq[q]) + Len(b))
    <3>1. i \in Int /\ i - Len(dq[q]) \in DOMAIN b /\ dq'[g][i] = b[i - Len(dq[q])]
      BY <1>7, <1>8, <2>3
    <3> QED BY <1>9, <1>10, <1>13, <2>3, <3>1 DEF InBatch
  <2>4. g = q => i \in 1..Len(dq[q]) \/ i \in (Len(dq[q]) + 1)..(Len(dq[q]) + Len(b))
    BY <1>7, <1>8, <1>13
  <2> QED BY <2>1, <2>2, <2>3, <2>4
<1>14. InQueues(v, dq')
  <2>1. ASSUME NEW g \in Handles, NEW i \in DOMAIN dq'[g], dq'[g][i].n > 0
        PROVE  v[dq'[g][i].n] = "queue"
    BY <1>12, <1>13, <2>1
  <2>2. ASSUME NEW g \in Handles, NEW h \in Handles, NEW i \in DOMAIN dq'[g], NEW j \in DOMAIN dq'[h],
               dq'[g][i].n > 0, dq'[g][i].n = dq'[h][j].n
        PROVE  g = h /\ i = j
    <3>1. CASE w[dq'[g][i].n] = "queue"
      <4>1. /\ i \in DOMAIN dq[g] /\ dq'[g][i] = dq[g][i]
            /\ j \in DOMAIN dq[h] /\ dq'[h][j] = dq[h][j]
        BY <1>13, <2>2, <3>1
      <4> QED BY <1>9, <2>2, <4>1 DEF InQueues
    <3>2. CASE w[dq'[g][i].n] = "batch"
      <4>1. /\ g = q /\ i \in Int /\ i - Len(dq[q]) \in DOMAIN b
            /\ dq'[g][i] = b[i - Len(dq[q])]
        BY <1>13, <2>2, <3>2
      <4>2. /\ h = q /\ j \in Int /\ j - Len(dq[q]) \in DOMAIN b
            /\ dq'[h][j] = b[j - Len(dq[q])]
        BY <1>13, <2>2, <3>2
      <4>3. i - Len(dq[q]) = j - Len(dq[q])
        BY <1>9, <2>2, <4>1, <4>2 DEF InBatch
      <4> QED BY <1>7, <4>1, <4>2, <4>3
    <3> QED BY <1>13, <2>2, <3>1, <3>2
  <2> QED BY <2>1, <2>2 DEF InQueues
<1>15. /\ InHandlers(v, hd) /\ InAsync(v, async) /\ InPipe(v, sbuffer) /\ Ended(v, sent, replies)
  <2>1. "handler" \notin {"batch"} /\ "async" \notin {"batch"} /\ "pipe" \notin {"batch"}
        /\ "unsent" \notin {"batch"} /\ "answered" \notin {"batch"}
    OBVIOUS
  <2> QED BY <1>1, <1>2, <1>12, <2>1, Moved
<1>16. InBatch(v, net'.batch)
  BY <1>4 DEF InBatch
<1>17. Placed(v)'
  BY <1>3, <1>14, <1>15, <1>16 DEF Placed
<1>18. AnswerTypes' /\ CommandsKnown'
  BY <1>1, <1>3, KnownStays DEF AnswerTypes, CommandsKnown, Known, Live, KnownNext
<1> QED BY <1>11, <1>17, <1>18 DEF AnswerInv

(* DataBuffer::pop *)
LEMMA AnswerTake ==
  ASSUME AnswerInv, QueueInv, Steady, NEW h \in Handles, Take(h)
  PROVE  AnswerInv'
<1>1. AnswerTypes /\ CommandsKnown /\ QueueTypes /\ InHand
  BY DEF AnswerInv, QueueInv
<1>2. PICK w \in [Requests -> Places] : Placed(w)
  BY DEF AnswerInv
<1>3. PICK q : q = getDataQueue(h)
  OBVIOUS
<1>4. q \in Handles
  BY <1>3, QueueOf, HandlesFinite
<1>5. dq \in [Handles -> Seq(Contexts)] /\ dq[q] \in Seq(Contexts)
      /\ hd \in [Handles -> [at : {"idle", "popped", "busy", "exited"},
                             ctx : Contexts \cup {Idle.ctx}]]
  BY <1>1, <1>4 DEF QueueTypes
<1>6. PICK x : x = Head(dq[q])
  OBVIOUS
<1>7. /\ hd[h].at = "idle" /\ dq[q] # <<>>
      /\ hd' = [hd EXCEPT ![h] = [at |-> "popped", ctx |-> x]]
      /\ dq' = [dq EXCEPT ![q] = Tail(dq[q])]
      /\ UNCHANGED <<net, sent, async, sbuffer, terminated, replies>>
  BY <1>3, <1>6 DEF Take
<1>8. /\ x = dq[q][1] /\ 1 \in DOMAIN dq[q] /\ x \in Contexts /\ Len(dq[q]) > 0
      /\ DOMAIN Tail(dq[q]) = 1..(Len(dq[q]) - 1)
      /\ \A i \in 1..(Len(dq[q]) - 1) : Tail(dq[q])[i] = dq[q][i + 1]
      /\ DOMAIN dq[q] = 1..Len(dq[q]) /\ Len(dq[q]) \in Nat
  BY <1>5, <1>6, <1>7, TailFacts, SeqFacts
<1>9. /\ dq'[q] = Tail(dq[q]) /\ \A g \in Handles : g # q => dq'[g] = dq[g]
      /\ hd'[h].ctx = x /\ \A g \in Handles : g # h => hd'[g] = hd[g]
  BY <1>4, <1>5, <1>7
<1>10. InQueues(w, dq) /\ InHandlers(w, hd)
  BY <1>2 DEF Placed
<1>11. /\ \A g \in Handles : \A i \in DOMAIN dq[g] : dq[g][i].n > 0 => dq[g][i].n \in Requests
       /\ \A g \in Handles : hd[g].ctx.n > 0 => hd[g].ctx.n \in Requests
  BY <1>1, Numbers
(* What is left in queue g was one place behind, and is not x. *)
<1>12. ASSUME NEW g \in Handles, NEW i \in DOMAIN dq'[g], dq'[g][i].n > 0
       PROVE  \E j \in DOMAIN dq[g] : /\ dq'[g][i] = dq[g][j] /\ dq[g][j].n # x.n
                                      /\ i \in Int /\ j = IF g = q THEN i + 1 ELSE i
  <2>1. CASE g # q
    <3>1. dq'[g] = dq[g]
      BY <1>9, <2>1
    <3>2. dq[g][i].n # x.n
      BY <1>4, <1>8, <1>10, <1>12, <2>1, <3>1 DEF InQueues
    <3>3. i \in Int
      <4>1. dq[g] \in Seq(Contexts)
        BY <1>5
      <4> QED BY <3>1, <4>1, SeqFacts
    <3> QED BY <2>1, <3>1, <3>2, <3>3
  <2>2. CASE g = q
    <3>1. i \in 1..(Len(dq[q]) - 1)
      BY <1>8, <1>9, <2>2
    <3>2. i + 1 \in DOMAIN dq[q] /\ i + 1 # 1 /\ dq'[g][i] = dq[q][i + 1] /\ i \in Int
      <4>1. i \in Int /\ 1 <= i /\ i + 1 <= Len(dq[q])
        BY <1>8, <3>1
      <4>2. i + 1 \in DOMAIN dq[q] /\ i + 1 # 1
        BY <1>8, <4>1
      <4>3. dq'[g][i] = dq[q][i + 1]
        BY <1>8, <1>9, <2>2, <3>1
      <4> QED BY <4>1, <4>2, <4>3
    <3>3. dq[q][i + 1].n # x.n
      BY <1>4, <1>8, <1>10, <1>12, <3>2 DEF InQueues
    <3> QED BY <2>2, <3>2, <3>3
  <2> QED BY <2>1, <2>2
<1>13. ASSUME NEW g \in Handles, NEW k \in Handles, NEW i \in DOMAIN dq'[g], NEW j \in DOMAIN dq'[k],
              dq'[g][i].n > 0, dq'[g][i].n = dq'[k][j].n
       PROVE  g = k /\ i = j
  <2>1. PICK a \in DOMAIN dq[g] : dq'[g][i] = dq[g][a] /\ i \in Int /\ a = IF g = q THEN i + 1 ELSE i
    BY <1>12, <1>13
  <2>2. PICK b \in DOMAIN dq[k] : dq'[k][j] = dq[k][b] /\ j \in Int /\ b = IF k = q THEN j + 1 ELSE j
    BY <1>12, <1>13
  <2>3. g = k /\ a = b
    BY <1>10, <1>13, <2>1, <2>2 DEF InQueues
  <2> QED BY <2>1, <2>2, <2>3
<1>14. AnswerTypes' /\ CommandsKnown'
  BY <1>1, <1>7, KnownStays DEF AnswerTypes, CommandsKnown, Known, Live, KnownNext
<1>15. CASE x.n = 0
  <2>1. InQueues(w, dq')
    <3>1. ASSUME NEW g \in Handles, NEW i \in DOMAIN dq'[g], dq'[g][i].n > 0
          PROVE  w[dq'[g][i].n] = "queue"
      BY <1>10, <1>12, <3>1 DEF InQueues
    <3> QED BY <1>13, <3>1 DEF InQueues
  <2>2. InHandlers(w, hd')
    BY <1>9, <1>10, <1>15 DEF InHandlers
  <2>3. Placed(w)'
    BY <1>2, <1>7, <2>1, <2>2 DEF Placed
  <2> QED BY <1>2, <1>14, <2>3 DEF AnswerInv
<1>16. CASE x.n # 0
  <2>1. x.n > 0 /\ x.n \in Requests /\ w[x.n] = "queue"
    <3>1. x.n > 0
      BY <1>8, <1>16 DEF Contexts
    <3> QED BY <1>4, <1>8, <1>10, <1>11, <3>1 DEF InQueues
  <2> DEFINE f == [w EXCEPT ![x.n] = "handler"]
  <2>2. f \in [Requests -> Places]
    BY <1>2 DEF Places
  <2>3. PICK v \in [Requests -> Places] : v = f
    BY <2>2
  <2>4. v[x.n] = "handler" /\ \A r \in Requests : r # x.n => v[r] = w[r]
    BY <1>2, <2>1, <2>3
  <2>5. \A r \in Requests : w[r] \notin {"queue"} => v[r] = w[r]
    BY <2>1, <2>4
  <2>6. InQueues(v, dq')
    <3>1. ASSUME NEW g \in Handles, NEW i \in DOMAIN dq'[g], dq'[g][i].n > 0
          PROVE  v[dq'[g][i].n] = "queue"
      <4>1. PICK j \in DOMAIN dq[g] : dq'[g][i] = dq[g][j] /\ dq[g][j].n # x.n
        BY <1>12, <3>1
      <4> QED BY <1>10, <1>11, <2>4, <3>1, <4>1 DEF InQueues
    <3> QED BY <1>13, <3>1 DEF InQueues
  <2>7. InHandlers(v, hd')
    <3>1. ASSUME NEW g \in Handles, g # h, hd[g].ctx.n > 0
          PROVE  hd[g].ctx.n # x.n /\ v[hd[g].ctx.n] = "handler" /\ hd'[g] = hd[g]
      BY <1>9, <1>10, <1>11, <2>1, <2>4, <3>1 DEF InHandlers
    <3> QED BY <1>9, <1>10, <2>1, <2>4, <3>1 DEF InHandlers
  <2>8. /\ InBatch(v, net.batch) /\ InAsync(v, async) /\ InPipe(v, sbuffer)
        /\ Ended(v, sent, replies)
    <3>1. "batch" \notin {"queue"} /\ "async" \notin {"queue"} /\ "pipe" \notin {"queue"}
          /\ "unsent" \notin {"queue"} /\ "answered" \notin {"queue"}
      OBVIOUS
    <3> QED BY <1>1, <1>2, <2>5, <3>1, Moved
  <2>9. Placed(v)'
    BY <1>7, <2>6, <2>7, <2>8 DEF Placed
  <2> QED BY <1>14, <2>9 DEF AnswerInv
<1> QED BY <1>15, <1>16

(* Connection::send *)
LEMMA AnswerSend ==
  ASSUME AnswerInv, QueueInv, Steady, PipeSend
  PROVE  AnswerInv'
<1>1. AnswerTypes /\ CommandsKnown /\ QueueTypes
  BY DEF AnswerInv, QueueInv
<1>2. PICK w \in [Requests -> Places] : Placed(w)
  BY DEF AnswerInv
<1>3. PICK cmd : cmd = Head(sbuffer)
  OBVIOUS
<1>4. /\ sbuffer # <<>> /\ sbuffer' = Tail(sbuffer) /\ cmd.op = "s"
      /\ replies' = [replies EXCEPT ![cmd.n] = @ + 1]
      /\ UNCHANGED <<sent, net, dq, hd, async, terminated>>
  BY <1>3 DEF PipeSend, First, Pipe, queue
<1>5. sbuffer \in Seq(Commands) /\ InPipe(w, sbuffer)
  BY <1>1, <1>2 DEF AnswerTypes, Placed
<1>6. /\ InPipe(w, Tail(sbuffer)) /\ Tail(sbuffer) \in Seq(Commands)
      /\ \A i \in DOMAIN Tail(sbuffer) :
           i + 1 \in DOMAIN sbuffer /\ Tail(sbuffer)[i] = sbuffer[i + 1] /\ i + 1 # 1
      /\ cmd = sbuffer[1] /\ 1 \in DOMAIN sbuffer /\ cmd \in Commands
  BY <1>3, <1>4, <1>5, PipeTail
<1>7. cmd.n \in Requests /\ w[cmd.n] = "pipe"
  BY <1>4, <1>5, <1>6 DEF Commands, Requests, InPipe
<1> DEFINE f == [w EXCEPT ![cmd.n] = "answered"]
<1>8. f \in [Requests -> Places]
  BY <1>2 DEF Places
<1>9. PICK v \in [Requests -> Places] : v = f
  BY <1>8
<1>10. v[cmd.n] = "answered" /\ \A r \in Requests : r # cmd.n => v[r] = w[r]
  BY <1>2, <1>7, <1>9
<1>11. \A r \in Requests : w[r] \notin {"pipe"} => v[r] = w[r]
  BY <1>7, <1>10
<1>12. InPipe(v, Tail(sbuffer))
  <2>1. ASSUME NEW i \in DOMAIN Tail(sbuffer), Tail(sbuffer)[i].op = "s"
        PROVE  v[Tail(sbuffer)[i].n] = "pipe"
    <3>1. sbuffer[i + 1].n # cmd.n
      BY <1>4, <1>5, <1>6, <2>1 DEF InPipe
    <3>2. sbuffer[i + 1].n \in Requests
      BY <1>1, <1>6, <2>1, Numbers
    <3> QED BY <1>6, <1>10, <2>1, <3>1, <3>2 DEF InPipe
  <2> QED BY <1>6, <2>1 DEF InPipe
<1>13. Ended(v, sent, replies')
  <2>1. Ended(w, sent, replies) /\ replies \in [Requests -> Nat]
    BY <1>1, <1>2 DEF Placed, AnswerTypes
  <2>2. replies[cmd.n] = 0 /\ ~(cmd.n > sent)
    BY <1>7, <2>1 DEF Ended
  <2>3. replies'[cmd.n] = 1 /\ \A r \in Requests : r # cmd.n => replies'[r] = replies[r]
    BY <1>4, <1>7, <2>1, <2>2
  <2> QED BY <1>10, <2>1, <2>2, <2>3 DEF Ended
<1>14. /\ InBatch(v, net.batch) /\ InAsync(v, async) /\ InQueues(v, dq) /\ InHandlers(v, hd)
  <2>1. "batch" \notin {"pipe"} /\ "async" \notin {"pipe"} /\ "queue" \notin {"pipe"}
        /\ "handler" \notin {"pipe"}
    OBVIOUS
  <2> QED BY <1>1, <1>2, <1>11, <2>1, Moved
<1>15. Placed(v)'
  BY <1>4, <1>12, <1>13, <1>14 DEF Placed
<1>16. AnswerTypes'
  <2>1. replies' \in [Requests -> Nat]
    <3>1. replies \in [Requests -> Nat] /\ replies[cmd.n] + 1 \in Nat
      BY <1>1, <1>7 DEF AnswerTypes
    <3> QED BY <1>4, <3>1
  <2> QED BY <1>1, <1>4, <1>6, <2>1 DEF AnswerTypes
<1>17. CommandsKnown'
  BY <1>4, <1>6, KnownStays DEF CommandsKnown, Known, Live, KnownNext
<1> QED BY <1>15, <1>16, <1>17 DEF AnswerInv

(* A request r leaves the handlers or the servant, and the commands that    *)
(* answer it go into the pipe unless the server is stopping.                *)
LEMMA AnswerGiven ==
  ASSUME AnswerInv, QueueTypes, Steady, UNCHANGED <<net, dq, sent, terminated, replies>>,
         NEW r \in Requests, NEW w \in [Requests -> Places], Placed(w),
         w[r] = "handler" \/ w[r] = "async",
         NEW v \in [Requests -> Places], v[r] = "pipe",
         \A x \in Requests : x # r => v[x] = w[x],
         InHandlers(v, hd'), InAsync(v, async'), async' \subseteq async,
         NEW c \in Conns, Known(c), NEW t \in Seq(Commands), Push(t),
         \A i \in DOMAIN t : t[i].c = c /\ (t[i].op = "s" => t[i].n = r),
         \A i, j \in DOMAIN t : t[i].op = "s" /\ t[j].op = "s" => i = j
  PROVE  AnswerInv'
<1>1. AnswerTypes /\ CommandsKnown
  BY DEF AnswerInv
<1>2. sbuffer \in Seq(Commands) /\ InPipe(w, sbuffer) /\ Ended(w, sent, replies)
  BY <1>1 DEF AnswerTypes, Placed
<1>3. w[r] # "pipe"
  OBVIOUS
<1>4. sbuffer' = sbuffer \/ sbuffer' = sbuffer \o t
  BY DEF Push
<1>5. \A i \in DOMAIN sbuffer : sbuffer[i].n \in Requests
  BY <1>1, Numbers
<1>6. InPipe(v, sbuffer') /\ sbuffer' \in Seq(Commands)
  <2>1. CASE sbuffer' = sbuffer
    BY <1>2, <1>3, <1>5, <2>1 DEF InPipe
  <2>2. CASE sbuffer' = sbuffer \o t
    <3>1. InPipe(v, sbuffer \o t)
      BY <1>2, <1>3, PipeAppend
    <3>2. sbuffer \o t \in Seq(Commands)
      BY <1>2, ConcatFacts
    <3> QED BY <2>2, <3>1, <3>2
  <2> QED BY <1>4, <2>1, <2>2
<1>7. KnownNext(c)
  BY DEF Steady, Known, Live, KnownNext
<1>8. \A i \in DOMAIN sbuffer' : KnownNext(sbuffer'[i].c)
  <2>1. CASE sbuffer' = sbuffer
    BY <2>1, KnownStays
  <2>2. CASE sbuffer' = sbuffer \o t
    <3>1. /\ DOMAIN (sbuffer \o t) = 1..(Len(sbuffer) + Len(t)) /\ Len(sbuffer) \in Nat
          /\ Len(t) \in Nat /\ DOMAIN sbuffer = 1..Len(sbuffer)
          /\ \A i \in 1..Len(sbuffer) : (sbuffer \o t)[i] = sbuffer[i]
          /\ \A i \in (Len(sbuffer) + 1)..(Len(sbuffer) + Len(t)) :
               i - Len(sbuffer) \in DOMAIN t /\ (sbuffer \o t)[i] = t[i - Len(sbuffer)]
      BY <1>2, ConcatFacts
    <3>2. TAKE i \in DOMAIN sbuffer'
    <3>3. CASE i \in 1..Len(sbuffer)
      <4>1. sbuffer'[i] = sbuffer[i] /\ i \in DOMAIN sbuffer
        BY <2>2, <3>1, <3>3
      <4> QED BY <4>1, KnownStays
    <3>4. CASE i \in (Len(sbuffer) + 1)..(Len(sbuffer) + Len(t))
      <4>1. i - Len(sbuffer) \in DOMAIN t /\ sbuffer'[i] = t[i - Len(sbuffer)]
        BY <2>2, <3>1, <3>4
      <4>2. sbuffer'[i].c = c
        BY <4>1
      <4> QED BY <1>7, <4>2
    <3>5. i \in 1..Len(sbuffer) \/ i \in (Len(sbuffer) + 1)..(Len(sbuffer) + Len(t))
      BY <2>2, <3>1, <3>2
    <3> QED BY <3>3, <3>4, <3>5
  <2> QED BY <1>4, <2>1, <2>2
<1>9. AnswerTypes'
  BY <1>1, <1>6 DEF AnswerTypes
<1>10. CommandsKnown'
  BY <1>8, KnownStays DEF CommandsKnown, Known, Live, KnownNext
<1>11. InBatch(v, net.batch) /\ InQueues(v, dq) /\ Ended(v, sent, replies)
  <2>1. \A x \in Requests : w[x] \notin {"handler", "async"} => v[x] = w[x]
    OBVIOUS
  <2>2. "batch" \notin {"handler", "async"} /\ "queue" \notin {"handler", "async"}
        /\ "unsent" \notin {"handler", "async"} /\ "answered" \notin {"handler", "async"}
    OBVIOUS
  <2> QED BY <1>1, <2>1, <2>2, Moved
<1>12. Placed(v)'
  BY <1>6, <1>11 DEF Placed
<1> QED BY <1>9, <1>10, <1>12 DEF AnswerInv

(* The commands of a context. *)
LEMMA CommandsOf ==
  ASSUME NEW ctx \in Contexts, ctx.n > 0, NEW t,
         t \in {<<>>, <<Answer(ctx)>>, <<CloseOf(ctx)>>, <<CloseOf(ctx), Answer(ctx)>>,
                <<Answer(ctx), CloseOf(ctx)>>}
  PROVE  /\ t \in Seq(Commands) /\ ctx.c \in Conns /\ ctx.n \in Requests
         /\ \A i \in DOMAIN t : t[i].c = ctx.c /\ (t[i].op = "s" => t[i].n = ctx.n)
         /\ \A i, j \in DOMAIN t : t[i].op = "s" /\ t[j].op = "s" => i = j
<1>1. ctx.c \in Conns /\ ctx.n \in 1..MaxRequests
  BY ServerAssumption DEF Contexts
<1>2. PICK a : a = Answer(ctx)
  OBVIOUS
<1>3. PICK z : z = CloseOf(ctx)
  OBVIOUS
<1>4. a \in Commands /\ a.c = ctx.c /\ a.n = ctx.n /\ a.op = "s"
  BY <1>1, <1>2 DEF Answer, Commands
<1>5. z \in Commands /\ z.c = ctx.c /\ z.n = ctx.n /\ z.op = "c"
  BY <1>1, <1>3 DEF CloseOf, Commands
<1>6. CASE t = <<>>
  BY <1>1, <1>6 DEF Requests
<1>7. CASE t = <<a>>
  BY <1>1, <1>4, <1>7 DEF Requests
<1>10. CASE t = <<z>>
  BY <1>1, <1>5, <1>10 DEF Requests
<1>8. CASE t = <<a, z>>
  BY <1>1, <1>4, <1>5, <1>8 DEF Requests
<1>9. CASE t = <<z, a>>
  BY <1>1, <1>4, <1>5, <1>9 DEF Requests
<1> QED BY <1>2, <1>3, <1>6, <1>7, <1>8, <1>9, <1>10

(* A handler is done with its context. *)
LEMMA HandlerLess ==
  ASSUME QueueTypes, AnswerTypes, InHand, NEW h \in Handles, Working(h), hd[h].ctx.n > 0,
         hd'[h].ctx.n = 0, \A g \in Handles : g # h => hd'[g] = hd[g],
         NEW w \in [Requests -> Places], Placed(w), NEW p \in Places
  PROVE  /\ hd[h].ctx \in Contexts /\ hd[h].ctx.n \in Requests /\ w[hd[h].ctx.n] = "handler"
         /\ \E v \in [Requests -> Places] :
              /\ v[hd[h].ctx.n] = p
              /\ \A x \in Requests : x # hd[h].ctx.n => v[x] = w[x]
              /\ InHandlers(v, hd')
<1>1. PICK r : r = hd[h].ctx.n
  OBVIOUS
<1>2. r \in Requests /\ InHandlers(w, hd) /\ hd[h].ctx \in Contexts
  BY <1>1, Numbers DEF Placed, InHand
<1>3. w[r] = "handler"
  BY <1>1, <1>2 DEF InHandlers
<1>4. PICK v : v = [w EXCEPT ![r] = p]
  OBVIOUS
<1>5. v \in [Requests -> Places] /\ v[r] = p /\ \A x \in Requests : x # r => v[x] = w[x]
  BY <1>2, <1>4
<1>7. ASSUME NEW g \in Handles, hd'[g].ctx.n > 0
      PROVE  g # h /\ hd'[g] = hd[g] /\ hd[g].ctx.n # r /\ hd[g].ctx.n \in Requests
  <2>1. g # h /\ hd'[g] = hd[g]
    BY <1>7
  <2> QED BY <1>1, <1>2, <1>7, <2>1, Numbers DEF InHandlers
<1>8. InHandlers(v, hd')
  BY <1>2, <1>5, <1>7 DEF InHandlers
<1> QED BY <1>1, <1>2, <1>3, <1>5, <1>8

(* A handler answers, refuses or drops its request. *)
LEMMA AnswerHandled ==
  ASSUME AnswerInv, QueueInv, Steady, NEW h \in Handles, Working(h), hd[h].ctx.n > 0,
         hd'[h].ctx.n = 0, \A g \in Handles : g # h => hd'[g] = hd[g],
         UNCHANGED <<net, dq, sent, async, terminated, replies>>,
         NEW t, Push(t),
         t \in {<<>>, <<Answer(hd[h].ctx)>>, <<CloseOf(hd[h].ctx)>>,
                <<CloseOf(hd[h].ctx), Answer(hd[h].ctx)>>,
                <<Answer(hd[h].ctx), CloseOf(hd[h].ctx)>>}
  PROVE  AnswerInv'
<1>1. AnswerTypes /\ QueueTypes /\ InHand /\ ContextsKnown
  BY DEF AnswerInv, QueueInv
<1>2. PICK w \in [Requests -> Places] : Placed(w)
  BY DEF AnswerInv
<1>3. PICK ctx : ctx = hd[h].ctx
  OBVIOUS
<1>4. "pipe" \in Places
  BY DEF Places
<1>5. /\ ctx \in Contexts /\ ctx.n \in Requests /\ w[ctx.n] = "handler"
      /\ \E v \in [Requests -> Places] :
           /\ v[ctx.n] = "pipe"
           /\ \A x \in Requests : x # ctx.n => v[x] = w[x]
           /\ InHandlers(v, hd')
  <2>0. PICK p \in Places : p = "pipe"
    BY <1>4
  <2>1. /\ hd[h].ctx \in Contexts /\ hd[h].ctx.n \in Requests /\ w[hd[h].ctx.n] = "handler"
        /\ \E v \in [Requests -> Places] :
             /\ v[hd[h].ctx.n] = p
             /\ \A x \in Requests : x # hd[h].ctx.n => v[x] = w[x]
             /\ InHandlers(v, hd')
    BY <1>1, <1>2, <1>4, HandlerLess, SMTT(30)
  <2> QED BY <1>3, <2>0, <2>1
<1>6. PICK v \in [Requests -> Places] :
           /\ v[ctx.n] = "pipe"
           /\ \A x \in Requests : x # ctx.n => v[x] = w[x]
           /\ InHandlers(v, hd')
  BY <1>5
<1>7. /\ t \in Seq(Commands) /\ ctx.c \in Conns
      /\ \A i \in DOMAIN t : t[i].c = ctx.c /\ (t[i].op = "s" => t[i].n = ctx.n)
      /\ \A i, j \in DOMAIN t : t[i].op = "s" /\ t[j].op = "s" => i = j
  <2>1. ctx.n > 0
    BY <1>3
  <2>2. t \in {<<>>, <<Answer(ctx)>>, <<CloseOf(ctx)>>, <<CloseOf(ctx), Answer(ctx)>>,
               <<Answer(ctx), CloseOf(ctx)>>}
    BY <1>3
  <2> QED BY <1>5, <2>1, <2>2, CommandsOf
<1>8. InAsync(v, async')
  <2>1. \A r \in Requests : w[r] \notin {"handler"} => v[r] = w[r]
    BY <1>5, <1>6
  <2>2. "async" \notin {"handler"}
    OBVIOUS
  <2> QED BY <1>1, <1>2, <2>1, <2>2, Moved
<1>9. Known(ctx.c)
  BY <1>1, <1>3 DEF ContextsKnown, Kept
<1>10. async' \subseteq async
  OBVIOUS
<1> QED BY <1>1, <1>2, <1>5, <1>6, <1>7, <1>8, <1>9, <1>10, AnswerGiven

(* The servant keeps the request. *)
LEMMA AnswerKept ==
  ASSUME AnswerInv, QueueInv, Steady, NEW h \in Handles, ReturnAsync(h)
  PROVE  AnswerInv'
<1>1. AnswerTypes /\ CommandsKnown /\ QueueTypes /\ InHand /\ ContextsKnown
  BY DEF AnswerInv, QueueInv
<1>2. PICK w \in [Requests -> Places] : Placed(w)
  BY DEF AnswerInv
<1>3. PICK ctx : ctx = hd[h].ctx
  OBVIOUS
<1>4. /\ async' = async \cup {ctx} /\ hd' = [hd EXCEPT ![h] = Idle] /\ hd[h].at = "busy"
      /\ UNCHANGED <<net, dq, sent, sbuffer, terminated, replies>>
  BY <1>3 DEF ReturnAsync, queue
<1>5. Working(h) /\ hd[h].ctx.n > 0 /\ "async" \in Places
  BY <1>1, <1>4 DEF Working, InHand, Places
<1>6. /\ ctx \in Contexts /\ ctx.n \in Requests /\ w[ctx.n] = "handler"
      /\ \E v \in [Requests -> Places] :
           /\ v[ctx.n] = "async"
           /\ \A x \in Requests : x # ctx.n => v[x] = w[x]
           /\ InHandlers(v, hd')
  <2>0. PICK p \in Places : p = "async"
    BY <1>5
  <2>1. /\ hd[h].ctx \in Contexts /\ hd[h].ctx.n \in Requests /\ w[hd[h].ctx.n] = "handler"
        /\ \E v \in [Requests -> Places] :
             /\ v[hd[h].ctx.n] = p
             /\ \A x \in Requests : x # hd[h].ctx.n => v[x] = w[x]
             /\ InHandlers(v, hd')
    <3>1. hd'[h].ctx.n = 0 /\ \A g \in Handles : g # h => hd'[g] = hd[g]
      BY <1>1, <1>4 DEF QueueTypes, Idle
    <3> QED BY <1>1, <1>2, <1>5, <3>1, HandlerLess
  <2> QED BY <1>3, <2>0, <2>1
<1>7. PICK v \in [Requests -> Places] :
           /\ v[ctx.n] = "async"
           /\ \A x \in Requests : x # ctx.n => v[x] = w[x]
           /\ InHandlers(v, hd')
  BY <1>6
<1>8. InAsync(v, async')
  <2>1. InAsync(w, async) /\ \A x \in async : x.n > 0 => x.n \in Requests
    BY <1>1, <1>2, Numbers DEF Placed
  <2>2. \A x \in async : x.n # ctx.n /\ v[x.n] = "async"
    BY <1>6, <1>7, <2>1 DEF InAsync
  <2> QED BY <1>3, <1>4, <1>5, <1>7, <2>1, <2>2 DEF InAsync
<1>9. /\ InBatch(v, net.batch) /\ InQueues(v, dq) /\ InPipe(v, sbuffer) /\ Ended(v, sent, replies)
  <2>1. \A r \in Requests : w[r] \notin {"handler"} => v[r] = w[r]
    BY <1>6, <1>7
  <2>2. "batch" \notin {"handler"} /\ "queue" \notin {"handler"} /\ "pipe" \notin {"handler"}
        /\ "unsent" \notin {"handler"} /\ "answered" \notin {"handler"}
    OBVIOUS
  <2> QED BY <1>1, <1>2, <2>1, <2>2, Moved
<1>10. Placed(v)'
  BY <1>4, <1>7, <1>8, <1>9 DEF Placed
<1>11. AnswerTypes'
  BY <1>1, <1>4, <1>6 DEF AnswerTypes
<1>12. KnownNext(ctx.c)
  <2>1. Known(ctx.c) /\ ctx.c \in Conns
    BY <1>1, <1>3, <1>5, <1>6 DEF ContextsKnown, Kept, Contexts
  <2> QED BY <2>1 DEF Steady, Known, Live, KnownNext
<1>13. CommandsKnown'
  BY <1>4, <1>12, KnownStays DEF CommandsKnown, Known, Live, KnownNext
<1> QED BY <1>10, <1>11, <1>13 DEF AnswerInv

(* Current::sendResponse of a kept request *)
LEMMA AnswerLater ==
  ASSUME AnswerInv, QueueInv, Steady, AsyncReply
  PROVE  AnswerInv'
<1>1. AnswerTypes /\ CommandsKnown /\ QueueTypes
  BY DEF AnswerInv, QueueInv
<1>2. PICK w \in [Requests -> Places] : Placed(w)
  BY DEF AnswerInv
<1>3. PICK ctx \in async : /\ async' = async \ {ctx}
                           /\ \E t \in {<<Answer(ctx)>>, <<Answer(ctx), CloseOf(ctx)>>} : Push(t)
  BY DEF AsyncReply
<1>4. PICK t \in {<<Answer(ctx)>>, <<Answer(ctx), CloseOf(ctx)>>} : Push(t)
  BY <1>3
<1>5. UNCHANGED <<net, dq, sent, hd, terminated, replies>>
  BY DEF AsyncReply, queue
<1>6. InAsync(w, async) /\ ctx \in Contexts /\ ctx.n > 0
  BY <1>1, <1>2, <1>3 DEF Placed, InAsync, AnswerTypes
<1>7. /\ t \in Seq(Commands) /\ ctx.c \in Conns /\ ctx.n \in Requests
      /\ \A i \in DOMAIN t : t[i].c = ctx.c /\ (t[i].op = "s" => t[i].n = ctx.n)
      /\ \A i, j \in DOMAIN t : t[i].op = "s" /\ t[j].op = "s" => i = j
  BY <1>4, <1>6, CommandsOf
<1>8. w[ctx.n] = "async"
  BY <1>3, <1>6 DEF InAsync
<1>9. PICK v : v = [w EXCEPT ![ctx.n] = "pipe"]
  OBVIOUS
<1>10. v \in [Requests -> Places] /\ v[ctx.n] = "pipe" /\ \A x \in Requests : x # ctx.n => v[x] = w[x]
  <2>1. "pipe" \in Places
    BY DEF Places
  <2> QED BY <1>7, <1>9, <2>1
<1>11. InAsync(v, async')
  <2>1. \A x \in async : x.n > 0 => x.n \in Requests
    BY <1>1, Numbers
  <2>2. \A x \in async' : x.n # ctx.n /\ v[x.n] = "async"
    BY <1>3, <1>6, <1>10, <2>1 DEF InAsync
  <2> QED BY <1>3, <1>6, <2>2 DEF InAsync
<1>12. InHandlers(v, hd')
  <2>1. \A r \in Requests : w[r] \notin {"async"} => v[r] = w[r]
    BY <1>8, <1>10
  <2>2. "handler" \notin {"async"}
    OBVIOUS
  <2>3. InHandlers(v, hd)
    BY <1>1, <1>2, <2>1, <2>2, Moved
  <2> QED BY <1>5, <2>3
<1>13. Known(ctx.c) /\ async' \subseteq async
  BY <1>1, <1>3 DEF CommandsKnown
<1> QED BY <1>1, <1>2, <1>4, <1>5, <1>7, <1>8, <1>10, <1>11, <1>12, <1>13, AnswerGiven

LEMMA StepAnswer ==
  ASSUME ListInv, QueueInv, AnswerInv, [Next]_vars
  PROVE  AnswerInv'
<1>1. Steady
  BY StepSteady
<1>2. AnswerTypes /\ QueueTypes /\ InHand
  BY DEF AnswerInv, QueueInv
<1>3. ASSUME UNCHANGED <<dq, hd, async, sent, replies>>,
             terminated' \in BOOLEAN,
             sbuffer' = sbuffer \/ (sbuffer # <<>> /\ sbuffer' = Tail(sbuffer)),
             net'.batch = net.batch \/ \A i \in DOMAIN net'.batch : net'.batch[i].n = 0
      PROVE  AnswerInv'
  BY <1>1, <1>2, <1>3, AnswerQuiet
<1>4. terminated \in BOOLEAN
  BY <1>2 DEF AnswerTypes
<1>5. ASSUME NEW c, NEW why, delConnection(c, why)
      PROVE  dq' = dq /\ \A i \in DOMAIN net'.batch : net'.batch[i].n = 0
  <2>1. dq' = dq /\ net'.batch = <<Closed(c)>> /\ Closed(c).n = 0
    BY <1>5 DEF delConnection, insertRecvQueue, Closed
  <2> QED BY <2>1
<1>6. ASSUME NEW c \in Conns, Accept(c) \/ NetRead(c) \/ NetClose(c) \/ NetTimeout(c)
      PROVE  AnswerInv'
  <2>1. CASE Accept(c)
    BY <1>3, <1>4, <2>1 DEF Accept, queue
  <2>2. CASE NetRead(c)
    BY <1>1, <2>2, AnswerRead
  <2>3. CASE NetClose(c)
    BY <1>3, <1>4, <1>5, <2>3 DEF NetClose
  <2>4. CASE NetTimeout(c)
    BY <1>3, <1>4, <1>5, <2>4 DEF NetTimeout
  <2> QED BY <1>6, <2>1, <2>2, <2>3, <2>4
<1>7. CASE AcceptStep \/ Terminate \/ Stop
  BY <1>3, <1>4, <1>7 DEF AcceptStep, AcceptUid, AcceptAdd, AcceptCount, AcceptRegister,
                          Terminate, Stop, queue
<1>8. CASE AsyncReply
  BY <1>1, <1>8, AnswerLater
<1>9. CASE NetPush
  BY <1>1, <1>9, AnswerPush
<1>10. CASE NetDec \/ NetDel \/ NetDown
  <2>1. net'.batch = <<>>
    BY <1>10 DEF NetDec, NetDel, NetDown, Loop
  <2> QED BY <1>3, <1>4, <1>10, <2>1 DEF NetDec, NetDel, NetDown, queue
<1>11. CASE PipeGone \/ PipeSendThrows \/ PipeClose
  BY <1>3, <1>4, <1>11 DEF PipeGone, PipeSendThrows, PipeClose, First, Pipe, queue
<1>12. CASE PipeSend
  BY <1>1, <1>12, AnswerSend
<1>13. CASE PipeAccepting
  <2>1. net'.batch = <<>>
    BY <1>13 DEF PipeAccepting, Loop
  <2> QED BY <1>3, <1>4, <1>13, <2>1 DEF PipeAccepting, First, Pipe, queue
<1>14. CASE PipeBroken
  <2>1. /\ sbuffer # <<>> /\ sbuffer' = Tail(sbuffer) /\ UNCHANGED <<hd, async, sent, replies, terminated>>
        /\ delConnection(Holder(Head(sbuffer)), "close")
    BY <1>14 DEF PipeBroken, First, Pipe
  <2>2. dq' = dq /\ \A i \in DOMAIN net'.batch : net'.batch[i].n = 0
    BY <1>5, <2>1
  <2> QED BY <1>3, <1>4, <2>1, <2>2
<1>15. ASSUME NEW h \in Handles, HandleStep(h) PROVE AnswerInv'
  <2>1. CASE Take(h)
    BY <1>1, <2>1, AnswerTake
  <2>2. hd \in [Handles -> [at : {"idle", "popped", "busy", "exited"},
                            ctx : Contexts \cup {Idle.ctx}]]
    BY <1>2 DEF QueueTypes
  <2>3. ASSUME UNCHANGED <<net, dq, async, sbuffer, sent, terminated, replies>>,
               \A g \in Handles : hd'[g].ctx.n = hd[g].ctx.n \/ hd'[g].ctx.n = 0
        PROVE  AnswerInv'
    <3>1. PICK w \in [Requests -> Places] : Placed(w)
      BY DEF AnswerInv
    <3>2. InHandlers(w, hd')
      BY <2>3, <3>1 DEF Placed, InHandlers
    <3>3. Placed(w)'
      BY <2>3, <3>1, <3>2 DEF Placed
    <3>4. AnswerTypes' /\ CommandsKnown'
      BY <1>1, <1>2, <2>3, KnownStays DEF AnswerTypes, CommandsKnown, Known, Live, KnownNext
    <3> QED BY <3>1, <3>3, <3>4 DEF AnswerInv
  <2>4. CASE HandleClose(h)
    <3>1. \A g \in Handles : hd'[g].ctx.n = hd[g].ctx.n \/ hd'[g].ctx.n = 0
      BY <2>2, <2>4 DEF HandleClose, Idle
    <3> QED BY <2>3, <2>4, <3>1 DEF HandleClose
  <2>5. CASE Dispatch(h) \/ HandleExit(h)
    <3>1. \A g \in Handles : hd'[g].ctx = hd[g].ctx
      <4>1. CASE Dispatch(h)
        <5>1. hd' = [hd EXCEPT ![h].at = "busy"]
          BY <4>1 DEF Dispatch
        <5> QED BY <2>2, <5>1
      <4>2. CASE HandleExit(h)
        <5>1. hd' = [hd EXCEPT ![h].at = "exited"]
          BY <4>2 DEF HandleExit
        <5> QED BY <2>2, <5>1
      <4> QED BY <2>5, <4>1, <4>2
    <3> QED BY <2>3, <2>5, <3>1 DEF Dispatch, HandleExit, queue
  <2>10. ASSUME hd' = [hd EXCEPT ![h] = Idle]
         PROVE  hd'[h].ctx.n = 0 /\ \A g \in Handles : g # h => hd'[g] = hd[g]
    BY <2>2, <2>10 DEF Idle
  <2>6. CASE HandleRefused(h)
    <3>1. /\ Working(h) /\ hd[h].ctx.n > 0 /\ hd' = [hd EXCEPT ![h] = Idle]
          /\ UNCHANGED <<net, dq, sent, async, terminated, replies>>
          /\ \E t \in {<<>>, <<Answer(hd[h].ctx)>>} : Push(t)
      BY <2>6 DEF HandleRefused, Popped, Working, Refusal
    <3>2. PICK t \in {<<>>, <<Answer(hd[h].ctx)>>} : Push(t)
      BY <3>1
    <3>3. hd'[h].ctx.n = 0 /\ \A g \in Handles : g # h => hd'[g] = hd[g]
      BY <2>10, <3>1
    <3> QED BY <1>1, <3>1, <3>2, <3>3, AnswerHandled
  <2>7. CASE HandleUndecodable(h)
    <3>1. /\ Working(h) /\ hd[h].ctx.n > 0 /\ hd' = [hd EXCEPT ![h] = Idle]
          /\ UNCHANGED <<net, dq, sent, async, terminated, replies>>
          /\ Push(<<CloseOf(hd[h].ctx)>>)
      BY <2>7 DEF HandleUndecodable, Popped, Working
    <3>3. hd'[h].ctx.n = 0 /\ \A g \in Handles : g # h => hd'[g] = hd[g]
      BY <2>10, <3>1
    <3> QED BY <1>1, <3>1, <3>3, AnswerHandled
  <2>8. CASE Return(h)
    <3>1. /\ Working(h) /\ hd[h].ctx.n > 0 /\ hd' = [hd EXCEPT ![h] = Idle]
          /\ UNCHANGED <<net, dq, sent, async, terminated, replies>>
          /\ \E t \in {<<>>, <<Answer(hd[h].ctx)>>, <<CloseOf(hd[h].ctx), Answer(hd[h].ctx)>>} : Push(t)
      BY <1>2, <2>8 DEF Return, Working, InHand, queue
    <3>2. PICK t \in {<<>>, <<Answer(hd[h].ctx)>>, <<CloseOf(hd[h].ctx), Answer(hd[h].ctx)>>} : Push(t)
      BY <3>1
    <3>3. hd'[h].ctx.n = 0 /\ \A g \in Handles : g # h => hd'[g] = hd[g]
      BY <2>10, <3>1
    <3> QED BY <1>1, <3>1, <3>2, <3>3, AnswerHandled
  <2>9. CASE ReturnAsync(h)
    BY <1>1, <2>9, AnswerKept
  <2> QED BY <1>15, <2>1, <2>4, <2>5, <2>6, <2>7, <2>8, <2>9 DEF HandleStep
<1>16. CASE UNCHANGED vars
  BY <1>3, <1>4, <1>16 DEF vars, queue
<1> QED BY <1>6, <1>7, <1>8, <1>9, <1>10, <1>11, <1>12, <1>13, <1>14, <1>15, <1>16
        DEF Next, NetStep, ProcessPipe

-----------------------------------------------------------------------------
(* The theorems *)

LEMMA FirstKnown ==
  ASSUME AnswerInv
  PROVE  sbuffer # <<>> => Head(sbuffer).c \in Conns /\ Known(Head(sbuffer).c)
<1>1. SUFFICES ASSUME sbuffer # <<>>
               PROVE  Head(sbuffer).c \in Conns /\ Known(Head(sbuffer).c)
  OBVIOUS
<1>2. sbuffer \in Seq(Commands) /\ CommandsKnown
  BY DEF AnswerInv, AnswerTypes
<1>3. Head(sbuffer) = sbuffer[1] /\ 1 \in DOMAIN sbuffer /\ Head(sbuffer) \in Commands
  BY <1>1, <1>2, TailFacts
<1> QED BY <1>2, <1>3 DEF CommandsKnown, Commands

(* The inductive invariant: the threads and the list, the receive queue and *)
(* the answers, whatever TC_EpollServer, its network thread and its         *)
(* handlers are in the middle of.                                           *)
THEOREM ServerInvariant == Spec => []ServerInv
<1>1. Init => ServerInv
  BY InitList, InitQueue, InitAnswer DEF ServerInv
<1>2. ServerInv /\ [Next]_vars => ServerInv'
  <2>1. SUFFICES ASSUME ServerInv, [Next]_vars PROVE ServerInv'
    OBVIOUS
  <2>2. ListInv /\ QueueInv /\ AnswerInv
    BY <2>1 DEF ServerInv
  <2>3. ListInv'
    BY <2>1, <2>2, FirstKnown, StepList
  <2>4. QueueInv'
    BY <2>1, <2>2, FirstKnown, StepQueue
  <2>5. AnswerInv'
    BY <2>1, <2>2, StepAnswer
  <2> QED BY <2>3, <2>4, <2>5 DEF ServerInv
<1> QED BY <1>1, <1>2, PTL DEF Spec

LEMMA ServerTypes == ASSUME ServerInv PROVE TypeOK
<1>1. ListTypes /\ QueueTypes /\ AnswerTypes
  BY DEF ServerInv, ListInv, QueueInv, AnswerInv
<1>2. recvSize \in Nat
  BY QueueFacts DEF ServerInv, QueueInv, SizeExact
<1>3. /\ net.pc \in {"loop", "push", "dec", "del", "down", "crashed"}
      /\ net.c \in Conns \cup {None} /\ net.batch \in Seq(Contexts)
      /\ net.why \in {"none", "read", "close", "timeout"}
  BY <1>1 DEF ListTypes
<1>4. closeTold \in [Conns -> Nat]
  BY <1>1 DEF QueueTypes
<1>5. acc \in [pc : {"loop", "uid", "add", "count", "register", "joinNet",
                     "joinHandles", "down", "crashed"}, c : Conns \cup {None}]
  BY <1>1 DEF ListTypes, Accepting
<1>6. \A h \in Handles : dq[h] \in Seq(Contexts)
  BY <1>1 DEF QueueTypes
<1> QED BY <1>1, <1>2, <1>3, <1>4, <1>5, <1>6 DEF TypeOK, ListTypes, QueueTypes, AnswerTypes

(* getUniqId finds a free uid: _iCurConns was below the limit when the      *)
(* connection was let through, and nobody else takes one.                   *)
LEMMA ServerAsserts == ASSUME ListInv PROVE AssertsHold
<1>1. SUFFICES ASSUME net.pc \notin {"down", "crashed"} PROVE
        /\ acc.pc = "uid" /\ Unlocked => free # <<>>
        /\ acc.pc = "add" => vConn[uid[acc.c]] = None
  BY DEF AssertsHold
<1>2. ListTypes /\ Threads /\ Reserved /\ UidsSplit /\ LiveListed /\ CountExact
  BY <1>1 DEF ListInv
<1>3. ASSUME acc.pc = "uid", Unlocked, free = <<>> PROVE FALSE
  <2>1. net.pc # "del" /\ acc.pc # "count" /\ Held = {}
    BY <1>2, <1>3 DEF Unlocked, Threads, Held
  <2>2. Uids \ Listed = {}
    BY <1>2, <1>3, <2>1 DEF UidsSplit
  <2>3. Listed = Uids
    BY <2>2 DEF Listed
  <2>4. Cardinality(Listed) = MaxConns /\ MaxConns \in Nat
    BY <2>3, UidsFinite, ServerAssumption
  <2>5. curConns >= MaxConns /\ curConns \in Nat
    BY <1>1, <1>2, <2>1, <2>4 DEF CountExact, ListTypes
  <2> QED BY <1>2, <1>3, <2>4, <2>5 DEF Reserved
<1>4. ASSUME acc.pc = "add" PROVE vConn[uid[acc.c]] = None
  <2>1. uid[acc.c] \in Held /\ uid[acc.c] \in Uids
    BY <1>2, <1>4 DEF Held, Threads
  <2> QED BY <1>2, <2>1 DEF UidsSplit, Listed
<1> QED BY <1>3, <1>4

(* ConnectionList and _iCurConns: every uid is free, held or listed, the    *)
(* count is that of the listed connections up to what each thread is doing, *)
(* and the assertions of getUniqId and add hold.                            *)
THEOREM ListIsExact == Spec => []ListExact
<1>1. ServerInv => ListExact
  <2>1. SUFFICES ASSUME ServerInv PROVE ListExact
    OBVIOUS
  <2>2. ListInv
    BY <2>1 DEF ServerInv
  <2>3. UidExact
    BY <2>2 DEF ListInv, UidsSplit, UidExact
  <2> QED BY <2>1, <2>2, <2>3, ServerTypes, ServerAsserts DEF ListExact, ListInv
<1> QED BY <1>1, ServerInvariant, PTL

(* In queueMode what two handlers work on hashes to different queues. *)
LEMMA ServerSerial == ASSUME ServerInv PROVE QueueModeSerial
<1>1. QueueTypes /\ InHand /\ ContextsKnown /\ CloseLast /\ ListTypes
  BY DEF ServerInv, QueueInv, ListInv
<1>2. SUFFICES ASSUME queueMode, NEW g \in Handles, NEW h \in Handles, Working(g)
               PROVE  /\ g # h => hd[h].ctx.c # hd[g].ctx.c
                      /\ hd[g].ctx.n = 0 => \A j \in DOMAIN dq[h] : dq[h][j].c # hd[g].ctx.c
  BY DEF QueueModeSerial, Working
<1>3. hd[g].ctx \in Contexts /\ hd[g].ctx.c \in Conns /\ Kept(hd[g].ctx, g)
  BY <1>1, <1>2 DEF InHand, ContextsKnown, Contexts
<1>4. getDataQueue(uid[hd[g].ctx.c]) = g
  BY <1>2, <1>3 DEF Kept
<1>5. ASSUME g # h PROVE hd[h].ctx.c # hd[g].ctx.c
  <2>1. CASE Working(h)
    <3>1. getDataQueue(uid[hd[h].ctx.c]) = h
      BY <1>1, <1>2, <2>1 DEF ContextsKnown, Kept
    <3> QED BY <1>4, <1>5, <3>1
  <2>2. CASE ~Working(h)
    <3>1. hd[h].ctx.c = 0
      BY <1>1, <2>2 DEF InHand, Idle, None
    <3> QED BY <1>3, <3>1, ServerAssumption DEF Conns
  <2> QED BY <2>1, <2>2
<1>6. ASSUME hd[g].ctx.n = 0, NEW j \in DOMAIN dq[h] PROVE dq[h][j].c # hd[g].ctx.c
  <2>1. CASE h = g
    <3>1. getDataQueue(g) = g
      BY <1>2, HandlesFinite, QueueOf
    <3>2. j \in DOMAIN dq[getDataQueue(g)]
      BY <1>6, <2>1, <3>1
    <3>3. dq[getDataQueue(g)][j].c # hd[g].ctx.c
      BY <1>1, <1>2, <1>6, <3>2 DEF CloseLast
    <3> QED BY <2>1, <3>1, <3>3
  <2>2. CASE h # g
    <3>1. getDataQueue(uid[dq[h][j].c]) = h
      BY <1>1, <1>2, <1>6 DEF ContextsKnown, Kept
    <3> QED BY <1>4, <2>2, <3>1
  <2> QED BY <2>1, <2>2
<1> QED BY <1>5, <1>6

(* DataBuffer: the handlers are told of a close once and last, in queueMode *)
(* a connection is handled by one of them at a time, and _iRecvBufferSize   *)
(* covers what is queued.                                                   *)
THEOREM QueueIsOrdered == Spec => []QueueOrdered
<1>1. ServerInv => QueueOrdered
  <2>1. SUFFICES ASSUME ServerInv PROVE QueueOrdered
    OBVIOUS
  <2>2. QueueInv
    BY <2>1 DEF ServerInv
  <2>3. CloseToldOnce
    BY <2>2 DEF QueueInv, QueueTypes, CloseLast, CloseToldOnce
  <2>4. SizeCovers
    BY <2>2, QueueFacts DEF QueueInv, SizeExact, SizeCovers
  <2> QED BY <2>1, <2>3, <2>4, ServerSerial DEF QueueOrdered
<1> QED BY <1>1, ServerInvariant, PTL

(* ServantHandle and Current: a request gets one answer at most, from the   *)
(* handler, from a refusal or later from the servant.                       *)
THEOREM AnswersOnce == Spec => []AnsweredOnce
<1>1. ServerInv => AnsweredOnce
  BY DEF ServerInv, AnswerInv, Placed, Ended, AnsweredOnce
<1> QED BY <1>1, ServerInvariant, PTL

(* getConnectionPtr: while uids that were free before it are left, the uid  *)
(* of a connection that is gone is nobody's.                                *)
THEOREM StaleIsHarmless == Spec => []StaleFindsNobody
<1>1. ServerInv => StaleFindsNobody
  <2>1. SUFFICES ASSUME ServerInv, NEW c \in Conns, conn[c] = "gone", ahead[c] > 0
                 PROVE  vConn[uid[c]] = None /\ uid[c] \notin Held
    BY DEF StaleFindsNobody
  <2>2. ListTypes /\ Threads /\ ReturnedUid
    BY <2>1 DEF ServerInv, ListInv
  <2>3. uid[c] \in Uids
    BY <2>1, <2>2 DEF Threads
  <2>4. CASE net.pc = "down"
    <3>1. vConn = [u \in Uids |-> None] /\ acc.pc # "add"
      BY <2>1, <2>2, <2>4 DEF ServerInv, ListInv, Threads
    <3> QED BY <2>3, <3>1 DEF Held
  <2>5. CASE net.pc # "down"
    <3>1. UidsSplit /\ free \in Seq(Uids)
      BY <2>1, <2>2, <2>5 DEF ServerInv, ListInv, ListTypes
    <3>2. ahead[c] \in DOMAIN free
      <4>1. ahead[c] \in Nat /\ ahead[c] <= Len(free) /\ DOMAIN free = 1..Len(free) /\ Len(free) \in Nat
        BY <2>1, <2>2, <3>1, SeqFacts DEF ReturnedUid, ListTypes
      <4> QED BY <2>1, <4>1
    <3>3. uid[c] \in {free[i] : i \in DOMAIN free}
      BY <2>1, <2>2, <3>2 DEF ReturnedUid
    <3> QED BY <2>3, <3>1, <3>3 DEF UidsSplit, Listed
  <2> QED BY <2>4, <2>5
<1> QED BY <1>1, ServerInvariant, PTL
=============================================================================
