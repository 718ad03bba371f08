------------------------------ MODULE RpcClient ------------------------------
(***************************************************************************)
(* The life of a call in the client's network thread: ObjectProxy and its  *)
(* AdapterProxys on top of TC_Transceiver connections.                     *)
(*                                                                         *)
(* The network thread is one thread, so an epoll event runs alone; but its *)
(* handler sends, and a send can close the connection and throw out of the *)
(* handler.  "todo" is what is left of the handler that is running, its    *)
(* loops and the code after its calls, front first; an exception empties   *)
(* it, as the catch in CommunicatorEpoll does.  "event" is the epoll event *)
(* that is running.  A new event is taken when todo is empty.              *)
(*                                                                         *)
(* Abstractions.  The endpoint choice (EndpointManager) is any adapter or  *)
(* none.  Time is the set of calls whose deadline has passed.  The fault   *)
(* shielding of finishInvoke(bool) may or may not close the connection     *)
(* (EndpointShield has its rules).  Request ids do not wrap (TimeoutQueue  *)
(* covers that).  The store of an adapter is the one of CallStore, an      *)
(* entry's "sent" mark being that it is not on the unsent list.            *)
(***************************************************************************)
EXTENDS Naturals, FiniteSets, SequencesExt, TLC

CONSTANTS
  Sync, Async, NetAsync,  \* calls: synchronous; asynchronous with the callback
                          \* run in a callback thread, or in the network thread
  OneWay, Ping,           \* one-way calls, and the tars_ping of doKeepAlive
  Hash,                   \* the calls made with tars_hash
  Adapters,
  NoMsg, NoAdapter,       \* null pointers
  Modes                   \* the configurations to consider

Msgs == Sync \cup Async \cup NetAsync \cup OneWay \cup Ping
NoReply == OneWay \cup Ping

(* A configuration: the options of the connection, the failures of the     *)
(* socket to consider, and the calls an application makes.                 *)
ASSUME ModeAssumption ==
  Modes \subseteq [serial : BOOLEAN, needAuth : BOOLEAN, sendThrows : BOOLEAN,
                   sslErrors : BOOLEAN, limit : Nat, calls : SUBSET Msgs]
ASSUME SslAssumption ==                           \* only TLS sends return eRetError
  \A o \in Modes : o.sslErrors => o.needAuth
ASSUME KindAssumption ==                          \* a call is of one kind
  (Sync \cup NetAsync) \cap Async = {}
ASSUME NullAssumption == NoMsg \notin Msgs /\ NoAdapter \notin Adapters

VARIABLES
  mode,     \* the configuration, fixed
  valid,    \* EndpointManager::_valid: the endpoints are known
  reqq,     \* ObjectProxy::_reqTimeoutQueue, oldest first
  store,    \* AdapterProxy::_timeoutQueue: id -> call, ids not sent yet, last id
  current,  \* AdapterProxy::_requestMsg, the serial request in progress
  link,     \* the connection: state, unsent tail of a request, requests at the server
  msg,      \* ReqMessage: eStatus, adapter, completions, whose answer it got
  expired,  \* calls whose deadline has passed
  todo,     \* the rest of the running handler
  event     \* the adapter and direction of the epoll event that is running

vars == <<mode, valid, reqq, store, current, link, msg, expired, todo, event>>

Serial == mode.serial             \* tars_connection_serial() > 0
NeedAuth == mode.needAuth         \* requests wait for an authentication or TLS handshake
SendThrows == mode.sendThrows     \* ::send may fail: TC_TCPTransceiver::send throws
SslErrors == mode.sslErrors       \* TC_OpenSSL::write may fail: sendRequest = eRetError
NoSendQueueLimit == mode.limit    \* bound on the unsent list of an adapter

-----------------------------------------------------------------------------
(* Connections *)

NoReq == [id |-> 0, msg |-> NoMsg]
Down == [st |-> "none", buf |-> NoReq, wire |-> {}, watched |-> TRUE]

hasConnected(a) == link[a].st \in {"connected", "ready"}

(* connect() on a valid or connecting link does nothing; a TCP connect is  *)
(* in progress when it returns.                                            *)
Connecting(C) ==
  [a \in Adapters |-> IF a \in C /\ link[a] = Down
                        THEN [Down EXCEPT !.st = "connecting"] ELSE link[a]]

(* What sendRequest may do with a request: its result and the link after. *)
sendRequest(a, r) ==
  LET l == link[a] IN
  IF l.buf # NoReq \/ l.st # "ready"
    THEN {[ret |-> "NotSend", link |-> l]}
    ELSE {[ret |-> "Ok", link |-> [l EXCEPT !.wire = @ \cup {r}]],
          [ret |-> "Full", link |-> [l EXCEPT !.buf = r]]}
         \cup {o \in {[ret |-> "Throw", link |-> Down]} : SendThrows}
         \cup {o \in {[ret |-> "Error", link |-> Down]} : SslErrors}

NoEvent == [on |-> NoAdapter, dir |-> "none"]

(* The links after a send on a threw; THROW_ERROR closed a.  Out of an     *)
(* input event doProtocolAnalysis closes the connection the event was on.  *)
(* Out of an output event handleOutputImp returns false: the epoller stops *)
(* watching that connection, and addConnExc(true) may close it.            *)
Thrown(a) ==
  LET b == event.on
      closed == [link EXCEPT ![a] = Down]
  IN
  CASE event.dir = "none" \/ a = b -> {closed}
    [] event.dir = "in" /\ a # b   -> {[closed EXCEPT ![b] = Down]}
    [] event.dir = "out" /\ a # b  ->
         {[closed EXCEPT ![b] = l] :
            l \in {Down, IF hasConnected(b) THEN [link[b] EXCEPT !.watched = FALSE]
                                           ELSE link[b]}}

-----------------------------------------------------------------------------
(* The store of an adapter *)

Put(s, m, id, sent) ==
  [call |-> [i \in DOMAIN s.call \cup {id} |-> IF i = id THEN m ELSE s.call[i]],
   unsent |-> IF sent THEN s.unsent ELSE Append(s.unsent, id),
   last |-> id]

(* The unsent list without the node of an id, if it has one. *)
Unlink(ids, id) ==
  IF \E k \in DOMAIN ids : ids[k] = id
    THEN RemoveAt(ids, CHOOSE k \in DOMAIN ids : ids[k] = id) ELSE ids

EraseKeepsCall(s, id) ==        \* mutant of Erase
  [s EXCEPT !.unsent = Unlink(@, id)]

Erase(s, id) ==
  [s EXCEPT !.call = [i \in DOMAIN s.call \ {id} |-> s.call[i]],
            !.unsent = Unlink(@, id)]

(* iRequestId of a stored message. *)
IdOf(a, m) == CHOOSE id \in DOMAIN store[a].call : store[a].call[id] = m

PopSend(s) == [s EXCEPT !.unsent = Tail(@)]

UnsentFull(a) == Len(store[a].unsent) > NoSendQueueLimit

-----------------------------------------------------------------------------
(* Completion *)

(* The message after its owner was told: the waiting thread woken, the     *)
(* callback queued or run, a one-way message deleted.                      *)
Done(rec, status) == [rec EXCEPT !.stat = status, !.fin = @ + 1]

(* finishInvoke(msg): the shielding may close the link on the way. *)
Shield(l) == {l, Down}

(* ObjectProxy::doInvokeException: without an adapter the callback of an   *)
(* asynchronous call is only logged.                                       *)
doInvokeExceptionSilent(rec, m) ==   \* mutant of doInvokeException
  IF m \in Sync THEN [rec EXCEPT !.stat = "exc"] ELSE Done(rec, "exc")

doInvokeExceptionNoAsync(rec, m) ==  \* mutant of doInvokeException
  IF m \in Async THEN [rec EXCEPT !.stat = "exc"] ELSE Done(rec, "exc")

doInvokeException(rec, m) ==
  IF m \in Async /\ rec.adapter = NoAdapter
    THEN [rec EXCEPT !.stat = "exc"] ELSE Done(rec, "exc")

-----------------------------------------------------------------------------
(* AdapterProxy::invoke(m) on adapter a; rest is what the caller does next. *)

(* A new request is sent at once only when none waits before it and, in    *)
(* serial mode, none is in progress.                                       *)
SendNowOvertakes(a) == current[a] = NoMsg       \* mutant of SendNow
SendNow(a) == current[a] = NoMsg /\ store[a].unsent = <<>>

ParkLoses(m, a, id, rest) ==                    \* mutant of Park
  /\ msg' = [msg EXCEPT ![m].adapter = a]
  /\ todo' = rest
  /\ UNCHANGED <<store, link, current>>

(* The request was not sent: it waits on the unsent list. *)
Park(m, a, id, rest) ==
  /\ store' = [store EXCEPT ![a] = Put(@, m, id, FALSE)]
  /\ msg' = [msg EXCEPT ![m].adapter = a]
  /\ todo' = rest
  /\ UNCHANGED <<link, current>>

(* The exception leaves the handler: nothing was stored, nobody is told. *)
Unwind(m, a, id) ==
  /\ store' = [store EXCEPT ![a].last = id]
  /\ link' \in Thrown(a)
  /\ msg' = [msg EXCEPT ![m].adapter = a]
  /\ todo' = <<>>
  /\ UNCHANGED current

Refuse(m, a, id, rest) ==
  /\ store' = [store EXCEPT ![a].last = id]
  /\ msg' = [msg EXCEPT ![m] = Done([@ EXCEPT !.adapter = a], "exc")]
  /\ todo' = rest
  /\ UNCHANGED current

invoke_connection_parallel(m, a, rest) ==
  LET id == store[a].last + 1 IN
  \/ /\ ~SendNow(a)
     /\ Park(m, a, id, rest)
  \/ /\ SendNow(a)
     /\ \E o \in sendRequest(a, [id |-> id, msg |-> m]) :
          \/ /\ o.ret = "NotSend"
             /\ Park(m, a, id, rest)
          \/ /\ o.ret \in {"Ok", "Full"}
             /\ link' = [link EXCEPT ![a] = o.link]
             /\ store' = [store EXCEPT ![a] = IF m \in NoReply
                                                THEN [@ EXCEPT !.last = id]
                                                ELSE Put(@, m, id, TRUE)]
             /\ msg' = [msg EXCEPT ![m] =
                          IF m \in NoReply THEN Done([@ EXCEPT !.adapter = a], "req")
                                           ELSE [@ EXCEPT !.adapter = a]]
             /\ todo' = rest
             /\ UNCHANGED current
          \/ /\ o.ret = "Error"
             /\ link' = [link EXCEPT ![a] = o.link]
             /\ Refuse(m, a, id, rest)
          \/ /\ o.ret = "Throw"
             /\ Unwind(m, a, id)

(* The request is encoded with the id invoke gave it, then gets a new one. *)
invoke_connection_serial(m, a, rest) ==
  LET id == store[a].last + 2 IN
  /\ m \notin NoReply                    \* an assert, live in release builds too
  /\ \/ /\ ~SendNow(a)
        /\ Park(m, a, id, rest)
     \/ /\ SendNow(a)
        /\ \E o \in sendRequest(a, [id |-> id - 1, msg |-> m]) :
             \/ /\ o.ret = "NotSend"
                /\ Park(m, a, id, rest)
             \/ /\ o.ret \in {"Ok", "Full"}
                /\ link' = [link EXCEPT ![a] = o.link]
                /\ current' = [current EXCEPT ![a] = m]
                /\ store' = [store EXCEPT ![a] = Put(@, m, id, TRUE)]
                /\ msg' = [msg EXCEPT ![m].adapter = a]
                /\ todo' = rest
             \/ /\ o.ret = "Error"
                /\ link' = [link EXCEPT ![a] = o.link]
                /\ Refuse(m, a, id, rest)
             \/ /\ o.ret = "Throw"
                /\ Unwind(m, a, id)

AdapterInvoke(m, a, rest) ==
  \/ /\ UnsentFull(a)
     /\ Refuse(m, a, store[a].last, rest)
     /\ UNCHANGED link
  \/ /\ ~UnsentFull(a)
     /\ IF Serial THEN invoke_connection_serial(m, a, rest)
                  ELSE invoke_connection_parallel(m, a, rest)

-----------------------------------------------------------------------------
(* The steps of a running handler: one per kind of item on todo *)

Dispatch(m, a) == [do |-> "dispatch", msg |-> m, on |-> a]
Call(m, a)     == [do |-> "call",     msg |-> m, on |-> a]
Drain(a)       == [do |-> "drain",    msg |-> NoMsg, on |-> a]
Flush(a)       == [do |-> "flush",    msg |-> NoMsg, on |-> a]
Completed(a)   == [do |-> "completed", msg |-> NoMsg, on |-> a]

Running(item) == todo # <<>> /\ Head(todo) = item

(* ObjectProxy::invoke, after selectAdapterProxy chose a. *)
DispatchStep ==
  \E m \in Msgs, a \in Adapters \cup {NoAdapter} :
    /\ Running(Dispatch(m, a))
    /\ UNCHANGED <<mode, valid, expired>>
    /\ \/ /\ a = NoAdapter
          /\ msg' = [msg EXCEPT ![m] = doInvokeException(@, m)]
          /\ todo' = Tail(todo)
          /\ UNCHANGED <<reqq, store, current, link>>
       \/ /\ a # NoAdapter
          /\ ~hasConnected(a)
          /\ reqq' = Append(reqq, m)
          /\ msg' = [msg EXCEPT ![m].adapter = a]
          /\ todo' = Tail(todo)
          /\ UNCHANGED <<store, current, link>>
       \/ /\ a # NoAdapter
          /\ hasConnected(a)
          /\ AdapterInvoke(m, a, Tail(todo))
          /\ UNCHANGED reqq

CallStep ==
  \E m \in Msgs, a \in Adapters :
    /\ Running(Call(m, a))
    /\ AdapterInvoke(m, a, Tail(todo))
    /\ UNCHANGED <<mode, valid, reqq, expired>>

(* ObjectProxy::prepareConnection(a): every call that waited for a         *)
(* connection goes to a.  A hash call without an adapter chooses again,    *)
(* and the calls behind it follow it to its adapter.                       *)
prepareConnection ==
  \E a \in Adapters :
    /\ Running(Drain(a))
    /\ UNCHANGED <<mode, valid, expired>>
    /\ \/ /\ reqq = <<>>
          /\ todo' = Tail(todo)
          /\ UNCHANGED <<reqq, store, current, link, msg>>
       \/ /\ reqq # <<>>
          /\ reqq' = Tail(reqq)
          /\ LET m == Head(reqq) IN
             \/ /\ m \notin Hash \/ msg[m].adapter # NoAdapter
                /\ AdapterInvoke(m, a, todo)
             \/ /\ m \in Hash /\ msg[m].adapter = NoAdapter
                /\ \E b \in Adapters, C \in SUBSET Adapters :
                     /\ link' = Connecting(C)
                     /\ todo' = <<Call(m, b), Drain(b)>> \o Tail(todo)
                     /\ UNCHANGED <<store, current, msg>>
             \/ /\ m \in Hash /\ msg[m].adapter = NoAdapter
                /\ msg' = [msg EXCEPT ![m] = doInvokeException(@, m)]
                /\ todo' = Tail(todo)
                /\ UNCHANGED <<store, current, link>>

(* One turn of the loop of doInvoke_parallel. *)
doInvoke_parallel(a) ==
  LET id == Head(store[a].unsent)
      m == store[a].call[id]
  IN
  /\ UNCHANGED current
  /\ \E o \in sendRequest(a, [id |-> id, msg |-> m]) :
       /\ link' \in IF o.ret = "Throw" THEN Thrown(a) ELSE {[link EXCEPT ![a] = o.link]}
       /\ \/ /\ o.ret \in {"Ok", "Full"}
             /\ store' = [store EXCEPT ![a] = IF m \in NoReply THEN Erase(@, id)
                                                               ELSE PopSend(@)]
             /\ msg' = IF m \in NoReply THEN [msg EXCEPT ![m] = Done(@, "req")]
                                        ELSE msg
             /\ todo' = IF o.ret = "Full" THEN Tail(todo) ELSE todo
          \/ /\ o.ret \in {"NotSend", "Error"}
             /\ todo' = Tail(todo)
             /\ UNCHANGED <<store, msg>>
          \/ /\ o.ret = "Throw"
             /\ todo' = <<>>
             /\ UNCHANGED <<store, msg>>

(* doInvoke_serial sends one request; on eRetError it finishes the message *)
(* without giving it a status.                                             *)
doInvoke_serial(a) ==
  LET id == Head(store[a].unsent)
      m == store[a].call[id]
  IN
  \E o \in sendRequest(a, [id |-> id - 1, msg |-> m]) :
    /\ link' \in IF o.ret = "Throw" THEN Thrown(a) ELSE {[link EXCEPT ![a] = o.link]}
    /\ \/ /\ o.ret \in {"Ok", "Full"}
          /\ current' = [current EXCEPT ![a] = m]
          /\ store' = [store EXCEPT ![a] = PopSend(@)]
          /\ todo' = Tail(todo)
          /\ UNCHANGED msg
       \/ /\ o.ret = "Error"
          /\ store' = [store EXCEPT ![a] = Erase(@, id)]
          /\ msg' = [msg EXCEPT ![m] = Done(@, "req")]
          /\ todo' = Tail(todo)
          /\ UNCHANGED current
       \/ /\ o.ret \in {"NotSend", "Throw"}
          /\ todo' = IF o.ret = "Throw" THEN <<>> ELSE Tail(todo)
          /\ UNCHANGED <<store, current, msg>>

doInvoke ==
  \E a \in Adapters :
    /\ Running(Flush(a))
    /\ UNCHANGED <<mode, valid, reqq, expired>>
    /\ \/ /\ store[a].unsent = <<>> \/ (Serial /\ current[a] # NoMsg)
          /\ todo' = Tail(todo)
          /\ UNCHANGED <<store, current, link, msg>>
       \/ /\ store[a].unsent # <<>>
          /\ ~Serial
          /\ doInvoke_parallel(a)
       \/ /\ store[a].unsent # <<>>
          /\ Serial /\ current[a] = NoMsg
          /\ doInvoke_serial(a)

(* onCompletePackage, after its prepareConnection: send the next request,  *)
(* or start to reconnect.                                                  *)
onCompletePackage ==
  \E a \in Adapters :
    /\ Running(Completed(a))
    /\ UNCHANGED <<mode, valid, reqq, store, current, msg, expired>>
    /\ \/ /\ store[a].unsent # <<>> /\ hasConnected(a)
          /\ todo' = <<Flush(a)>> \o Tail(todo)
          /\ UNCHANGED link
       \/ /\ store[a].unsent # <<>> /\ ~hasConnected(a)
          /\ todo' = Tail(todo)
          /\ link' \in {link, Connecting({a})}
       \/ /\ store[a].unsent = <<>>
          /\ todo' = Tail(todo)
          /\ UNCHANGED link

HandlerStep ==
  /\ DispatchStep \/ CallStep \/ prepareConnection \/ doInvoke \/ onCompletePackage
  /\ event' = IF todo' = <<>> THEN NoEvent ELSE event

-----------------------------------------------------------------------------
(* The events the network thread takes when it is idle *)

(* An epoll event on a, whose handler goes on with rest. *)
Take(a, dir, rest) ==
  /\ todo' = rest
  /\ event' = IF rest = <<>> THEN NoEvent ELSE [on |-> a, dir |-> dir]

(* onRequestCallback: the connection can take requests. *)
OnRequestIgnored(a) == <<>>                     \* mutant of OnRequest
OnRequest(a) == <<Flush(a)>>

(* doProtocolAnalysis calls onCompletePackage after every attempt to parse *)
(* a packet, complete or not.                                              *)
AfterPackage(a) == IF Serial THEN <<Drain(a), Completed(a)>> ELSE <<>>

(* handleNotify hands over one request of an application thread. *)
Invoke(m) ==
  /\ todo = <<>>
  /\ m \in mode.calls /\ msg[m].stat = "new"
  /\ msg' = [msg EXCEPT ![m].stat = "req"]
  /\ UNCHANGED <<mode, valid, store, current, expired, event>>
  /\ \/ /\ ~valid
        /\ reqq' = Append(reqq, m)
        /\ UNCHANGED <<link, todo>>
     \/ /\ valid
        /\ \E a \in Adapters \cup {NoAdapter}, C \in SUBSET Adapters :
             /\ link' = Connecting(C)
             /\ todo' = <<Dispatch(m, a)>>
        /\ UNCHANGED reqq

(* doKeepAlive on a connected adapter invokes a one-way tars_ping. *)
doKeepAlive(m, a) ==
  /\ todo = <<>>
  /\ msg[m].stat = "new"
  /\ hasConnected(a)
  /\ msg' = [msg EXCEPT ![m].stat = "req"]
  /\ todo' = <<Call(m, a)>>
  /\ UNCHANGED <<mode, valid, reqq, store, current, link, expired, event>>

(* The registry answered: the waiting calls choose, which starts to        *)
(* connect; they are sent when a connection is there.                      *)
RegistryAnswer ==
  /\ todo = <<>>
  /\ ~valid
  /\ valid' = TRUE
  /\ \E C \in SUBSET Adapters : link' = IF reqq = <<>> THEN link ELSE Connecting(C)
  /\ UNCHANGED <<mode, reqq, store, current, msg, expired, todo, event>>

(* checkActive of doKeepAlive, doReconnect: connect again. *)
connect(a) ==
  /\ todo = <<>>
  /\ valid
  /\ link[a] = Down
  /\ link' = Connecting({a})
  /\ UNCHANGED <<mode, valid, reqq, store, current, msg, expired, todo, event>>

(* The connect completed (doRequest, checkConnect): onConnectCallback      *)
(* drains the waiting calls; then requests may go, unless authentication   *)
(* comes first.                                                            *)
setConnected(a) ==
  /\ todo = <<>>
  /\ link[a].st = "connecting"
  /\ link' = [link EXCEPT ![a].st = IF NeedAuth THEN "connected" ELSE "ready"]
  /\ Take(a, "out", <<Drain(a)>> \o (IF NeedAuth THEN <<>> ELSE OnRequest(a)))
  /\ UNCHANGED <<mode, valid, reqq, store, current, msg, expired>>

(* The handshake or the AUTH_SUCC answer arrived: onRequestCallback. *)
doAuthCheck(a) ==
  /\ todo = <<>>
  /\ link[a].st = "connected" /\ link[a].watched
  /\ link' = [link EXCEPT ![a].st = "ready"]
  /\ Take(a, "in", OnRequest(a) \o AfterPackage(a))
  /\ UNCHANGED <<mode, valid, reqq, store, current, msg, expired>>

(* The connect failed or timed out, the peer closed, the packet or the     *)
(* authentication was bad, the socket reported an error.                   *)
tcpClose(a) ==
  /\ todo = <<>>
  /\ link[a] # Down /\ link[a].watched
  /\ link' = [link EXCEPT ![a] = Down]
  /\ UNCHANGED <<mode, valid, reqq, store, current, msg, expired, todo, event>>

(* EPOLLOUT: the rest of the last request leaves, then doInvoke. *)
doRequest(a) ==
  /\ todo = <<>>
  /\ link[a].watched
  /\ link[a].buf # NoReq \/ (link[a].st = "ready" /\ store[a].unsent # <<>>)
  /\ link' = [link EXCEPT ![a].wire = @ \cup ({link[a].buf} \ {NoReq}),
                          ![a].buf = NoReq]
  /\ Take(a, "out", OnRequest(a))
  /\ UNCHANGED <<mode, valid, reqq, store, current, msg, expired>>

(* A response packet: the call leaves the store and is finished.  A        *)
(* response whose call is gone is dropped.                                 *)
Answer(m, whose) == [Done(msg[m], "rsp") EXCEPT !.got = whose]

Matching(a, r) == DOMAIN store[a].call \cap {r.id}

finishInvoke_parallel(a, r, l) ==
  /\ UNCHANGED current
  /\ \/ \E id \in Matching(a, r) :
          LET m == store[a].call[id] IN
             /\ store' = [store EXCEPT ![a] = Erase(@, id)]
             /\ msg' = [msg EXCEPT ![m] = Answer(m, r.msg)]
             /\ \E s \in Shield(l) : link' = [link EXCEPT ![a] = s]
     \/ /\ Matching(a, r) = {}
        /\ link' = [link EXCEPT ![a] = l]
        /\ UNCHANGED <<store, msg>>

(* Serial: whatever arrives answers the request in progress. *)
finishInvoke_serial(a, r, l) ==
  \/ /\ current[a] # NoMsg
     /\ LET m == current[a] IN
          /\ store' = [store EXCEPT ![a] = Erase(@, IdOf(a, m))]
          /\ current' = [current EXCEPT ![a] = NoMsg]
          /\ msg' = [msg EXCEPT ![m] = Answer(m, r.msg)]
          /\ \E s \in Shield(l) : link' = [link EXCEPT ![a] = s]
  \/ /\ current[a] = NoMsg
     /\ link' = [link EXCEPT ![a] = l]
     /\ UNCHANGED <<store, current, msg>>

onParserCallback(a) ==
  /\ todo = <<>>
  /\ link[a].watched
  /\ \E r \in link[a].wire :
       /\ r.msg \notin NoReply
       /\ LET l == [link[a] EXCEPT !.wire = @ \ {r}] IN
            IF Serial THEN finishInvoke_serial(a, r, l)
                      ELSE finishInvoke_parallel(a, r, l)
  /\ Take(a, "in", AfterPackage(a) \o AfterPackage(a))
  /\ UNCHANGED <<mode, valid, reqq, expired>>

(* A part of a packet: PACKET_LESS. *)
doProtocolAnalysis(a) ==
  /\ todo = <<>>
  /\ link[a].watched
  /\ \E r \in link[a].wire : r.msg \notin NoReply
  /\ Serial
  /\ Take(a, "in", AfterPackage(a))
  /\ UNCHANGED <<mode, valid, reqq, store, current, link, msg, expired>>

Expire(m) ==
  /\ msg[m].stat # "new"
  /\ m \notin expired
  /\ expired' = expired \cup {m}
  /\ UNCHANGED <<mode, valid, reqq, store, current, link, msg, todo, event>>

(* One turn of the loop of AdapterProxy::doTimeout.  The serial request in *)
(* progress takes its connection with it.                                  *)
TimedOutLinkStays(a, m) == link[a]              \* mutant of TimedOutLink
TimedOutLink(a, m) == IF m = current[a] THEN Down ELSE link[a]

AdapterTimeout(a) ==
  /\ todo = <<>>
  /\ \E id \in DOMAIN store[a].call :
       LET m == store[a].call[id]
           l == TimedOutLink(a, m)
       IN
         /\ m \in expired
         /\ store' = [store EXCEPT ![a] = Erase(@, id)]
         /\ current' = [current EXCEPT ![a] = IF @ = m THEN NoMsg ELSE @]
         /\ msg' = [msg EXCEPT ![m] = Done(@, "time")]
         /\ \E s \in IF m \in NoReply THEN {l} ELSE Shield(l) :
              link' = [link EXCEPT ![a] = s]
  /\ UNCHANGED <<mode, valid, reqq, expired, todo, event>>

ReqTimeoutKeeps ==                              \* mutant of ReqTimeout
  /\ todo = <<>>
  /\ \E i \in DOMAIN reqq :
       /\ reqq[i] \in expired
       /\ msg' = [msg EXCEPT ![reqq[i]] = doInvokeException(@, reqq[i])]
  /\ UNCHANGED <<mode, valid, reqq, store, current, link, expired, todo, event>>

(* One turn of the loop of ObjectProxy::doTimeout. *)
ReqTimeout ==
  /\ todo = <<>>
  /\ \E i \in DOMAIN reqq :
       /\ reqq[i] \in expired
       /\ reqq' = RemoveAt(reqq, i)
       /\ msg' = [msg EXCEPT ![reqq[i]] = doInvokeException(@, reqq[i])]
  /\ UNCHANGED <<mode, valid, store, current, link, expired, todo, event>>

-----------------------------------------------------------------------------
Init ==
  /\ mode \in Modes
  /\ valid \in BOOLEAN
  /\ reqq = <<>>
  /\ store = [a \in Adapters |-> [call |-> <<>>, unsent |-> <<>>, last |-> 0]]
  /\ current = [a \in Adapters |-> NoMsg]
  /\ link = [a \in Adapters |-> Down]
  /\ msg = [m \in Msgs |-> [stat |-> "new", adapter |-> NoAdapter,
                            fin |-> 0, got |-> NoMsg]]
  /\ expired = {}
  /\ todo = <<>>
  /\ event = NoEvent

Event(a) ==
  \/ connect(a) \/ setConnected(a) \/ doAuthCheck(a) \/ tcpClose(a)
  \/ doRequest(a) \/ onParserCallback(a) \/ doProtocolAnalysis(a) \/ AdapterTimeout(a)

Next ==
  \/ HandlerStep
  \/ \E m \in Msgs \ Ping : Invoke(m)
  \/ \E m \in Ping, a \in Adapters : doKeepAlive(m, a)
  \/ RegistryAnswer
  \/ \E a \in Adapters : Event(a)
  \/ \E m \in Msgs : Expire(m)
  \/ ReqTimeout

(* The network thread keeps running: a handler ends, and every turn of the *)
(* epoll loop runs the timers that are due, so a timeout that is possible  *)
(* again and again is taken although other events come first.  Nothing is  *)
(* assumed of the network, the server or the registry.                     *)
Fairness ==
  /\ WF_vars(HandlerStep)
  /\ \A m \in Msgs : WF_vars(Expire(m))
  /\ \A a \in Adapters : SF_vars(AdapterTimeout(a))
  /\ SF_vars(ReqTimeout)

Spec == Init /\ [][Next]_vars
FairSpec == Spec /\ Fairness

-----------------------------------------------------------------------------
Req == [id : Nat, msg : Msgs \cup {NoMsg}]
Item == [do : {"dispatch", "call", "drain", "flush", "completed"},
         msg : Msgs \cup {NoMsg}, on : Adapters \cup {NoAdapter}]

TypeOK ==
  /\ mode \in Modes
  /\ valid \in BOOLEAN
  /\ reqq \in Seq(Msgs)
  /\ \A a \in Adapters :
       /\ DOMAIN store[a].call \subseteq 1..store[a].last
       /\ \A id \in DOMAIN store[a].call : store[a].call[id] \in Msgs
       /\ store[a].unsent \in Seq(DOMAIN store[a].call)
       /\ store[a].last \in Nat
       /\ link[a].st \in {"none", "connecting", "connected", "ready"}
       /\ link[a].buf \in Req
       /\ link[a].wire \subseteq Req
       /\ link[a].watched \in BOOLEAN
  /\ current \in [Adapters -> Msgs \cup {NoMsg}]
  /\ msg \in [Msgs -> [stat : {"new", "req", "rsp", "time", "exc"},
                       adapter : Adapters \cup {NoAdapter},
                       fin : Nat, got : Msgs \cup {NoMsg}]]
  /\ expired \subseteq Msgs
  /\ todo \in Seq(Item)
  /\ event \in [on : Adapters \cup {NoAdapter}, dir : {"none", "in", "out"}]

(* Where the runtime holds a message. *)
InReqQueue(m) == {i \in DOMAIN reqq : reqq[i] = m}
InStores(m) == UNION {{<<a, id>> : id \in {i \in DOMAIN store[a].call : store[a].call[i] = m}}
                        : a \in Adapters}
InHandler(m) == {i \in DOMAIN todo : todo[i].do \in {"dispatch", "call"} /\ todo[i].msg = m}
Holders(m) == Cardinality(InReqQueue(m)) + Cardinality(InStores(m))
                + Cardinality(InHandler(m))

(* ReqMessage is a raw pointer with one owner: while a call is in progress *)
(* at most one of the object's queue, the adapters' stores and the running *)
(* handler holds it, and none of them does after its caller was told (who  *)
(* then deletes it).  Otherwise a later event would finish it again or     *)
(* touch freed memory.                                                     *)
OneOwner ==
  \A m \in Msgs : /\ Holders(m) <= 1
                  /\ msg[m].fin > 0 => Holders(m) = 0

(* A call that somebody waits for is never dropped: as long as no send     *)
(* throws, an unfinished synchronous call is always held somewhere that    *)
(* will time it out.                                                       *)
SyncHeld ==
  ~SendThrows => \A m \in Sync \cup NetAsync :
                   msg[m].stat # "new" /\ msg[m].fin = 0 => Holders(m) = 1

(* The unsent list is bounded: invoke refuses above _noSendQueueLimit, so  *)
(* one more than the limit can be queued.                                  *)
UnsentBounded == \A a \in Adapters : Len(store[a].unsent) <= NoSendQueueLimit + 1

(* The lists are within their limits and a synchronous call, once made, is *)
(* in one of them until it is finished: nobody waits for a call that no    *)
(* queue of the network thread knows of.                                   *)
CallsHeld == TypeOK /\ UnsentBounded /\ SyncHeld

(* A call finished with a response got the response to its own request,    *)
(* although responses come in any order, after timeouts and reconnects,    *)
(* and the serial mode does not look at the id.                            *)
AnswersOwnRequest == \A m \in Msgs : msg[m].got \in {NoMsg, m}

(* Serial mode: one request at a time runs on a connection, as             *)
(* tars_connection_serial promises, and _requestMsg is in the store and    *)
(* off the unsent list, as finishInvoke_serial asserts.                    *)
SerialOneInFlight ==
  Serial => \A a \in Adapters :
    /\ Cardinality(link[a].wire \cup ({link[a].buf} \ {NoReq})) <= 1
    /\ current[a] # NoMsg =>
         \E id \in DOMAIN store[a].call :
           store[a].call[id] = current[a] /\ id \notin ToSet(store[a].unsent)

(* No request is left behind: when the network thread goes idle and a      *)
(* connection the epoller watches could take a request, none waits on the  *)
(* unsent list (in serial mode, unless one is in progress).  Nothing would *)
(* wake it up: no epoll event is due.                                      *)
NoStall ==
  todo = <<>> => \A a \in Adapters :
    link[a].st = "ready" /\ link[a].watched /\ link[a].buf = NoReq /\ current[a] = NoMsg
      => store[a].unsent = <<>>

(* Requests leave an adapter in the order it accepted them: nothing that   *)
(* is unsent is older than anything sent on the connection.                *)
SendInOrder ==
  \A a \in Adapters :
    \A r \in link[a].wire \cup ({link[a].buf} \ {NoReq}) :
      \A k \in DOMAIN store[a].unsent : r.id < store[a].unsent[k]

(* What leaves an adapter leaves it in the order of the calls, in serial   *)
(* mode one at a time.                                                     *)
SendOrderKept == SendInOrder /\ SerialOneInFlight

Phase(m) ==
  CASE msg[m].stat = "new" -> "idle"
    [] msg[m].stat # "new" /\ msg[m].fin = 0 -> "pending"
    [] msg[m].fin = 1 -> msg[m].stat
    [] OTHER -> "finished again"

Contract == INSTANCE CallContract WITH
              Calls <- Msgs, Outcomes <- {"req", "rsp", "time", "exc"},
              phase <- [m \in Msgs |-> Phase(m)]

(* Every call finishes at most once and keeps its outcome. *)
ImplementsContract == Contract!Spec

(* A synchronous caller, who waits on its monitor without a timeout of its *)
(* own (ReqMonitor::wait), is woken; a callback of the network thread      *)
(* runs.                                                                   *)
SyncCallReturns ==
  \A m \in Sync \cup NetAsync : (msg[m].stat # "new") ~> (msg[m].fin = 1)

(* An asynchronous call that was given an adapter is called back. *)
AsyncOnAdapterCalledBack ==
  \A m \in Async : (msg[m].adapter # NoAdapter) ~> (msg[m].fin = 1)

-----------------------------------------------------------------------------
(***************************************************************************)
(* What the repository says and the code does not keep in every            *)
(* configuration; README.md, "Disagreements found", says when each fails.  *)
(***************************************************************************)

(* A finished call is not "in progress" (REQ_REQ): it was answered, timed  *)
(* out or failed.                                                          *)
FinishedHasStatus ==
  \A m \in Msgs \ NoReply : msg[m].fin > 0 => msg[m].stat \in {"rsp", "time", "exc"}

(* invoke_connection_serial asserts that no one-way message reaches it. *)
SerialNeverOneWay ==
  Serial => \A m \in NoReply, a \in Adapters : ~Running(Call(m, a))

(* Every asynchronous call is called back, with the response or with the   *)
(* exception (onDispatchException).                                        *)
AsyncCalledBack ==
  \A m \in Async : (msg[m].stat # "new") ~> (msg[m].fin = 1)
=============================================================================
