----------------------------- MODULE EpollServer -----------------------------
(***************************************************************************)
(* TC_EpollServer with the ServantHandle of a TARS service: the thread of  *)
(* waitForShutdown, which accepts connections and stops the server, one    *)
(* network thread with its ConnectionList, and the handler threads behind  *)
(* the receive queue (NET_THREAD_QUEUE_HANDLES_THREAD), for one TCP        *)
(* adapter.                                                                *)
(*                                                                         *)
(* A request context carries the connection it came on (c, for the         *)
(* properties) and the program sees only its uid.  A uid is handed out     *)
(* again after the connection is gone, so the answer to an old request may *)
(* find a new connection under it.  If that one is still being accepted,   *)
(* the object is deleted under the thread that accepts it; the two threads *)
(* end there ("crashed").  How a reply is written is in ServerConn.        *)
(***************************************************************************)
EXTENDS Integers, Sequences, FiniteSets

CONSTANTS ConnNum,        \* bound: connections of the clients
          MaxConns,       \* _iMaxConns of the adapter
          MaxRequests,    \* bound: requests of the clients
          HandleNum,      \* number of handler threads
          Options         \* the configurations of the adapter to consider,
                          \* each with its own bounds below the two

ASSUME ServerAssumption ==
    /\ ConnNum \in Nat
    /\ MaxConns \in Nat \ {0} /\ MaxRequests \in Nat
    /\ HandleNum \in Nat \ {0}
    /\ Options \subseteq
         [queueMode : BOOLEAN, capacity : Nat, overloadAt : Nat, timeout : Nat,
          conns : 0..ConnNum, requests : 0..MaxRequests]

\* createEpoll: as many uids as connections, 0 is not one of them.
Uids     == 1..MaxConns
Handles  == 0..(HandleNum - 1)
Requests == 1..MaxRequests

\* Connections are numbered in the order of the backlog of the listening
\* socket.
Conns == 1..ConnNum
None  == 0

VARIABLES
    opt,          \* the configuration, fixed
    conn,         \* per connection: where it is in its life
    sent,         \* requests the clients have sent
    acc,          \* the thread of waitForShutdown: [pc, c]
    curConns,     \* _iCurConns
    uid,          \* Connection::_uid
    vConn,        \* ConnectionList::_vConn
    free,         \* ConnectionList::_free
    net,          \* the network thread: [pc, c, why, batch]
    dq,           \* DataBuffer::_threadDataQueue
    recvSize,     \* DataBuffer::_iRecvBufferSize
    hd,           \* per handler thread: [at, ctx]
    async,        \* requests the servant answers later
    sbuffer,      \* NetThread::_sbuffer
    terminated,   \* isTerminate()
    replies,      \* history: answers sent per request
    closeTold,    \* history: close contexts queued per connection
    ahead         \* history: uids to be handed out before that of a gone one

list    == <<curConns, uid, vConn, free, ahead>>
queue   == <<dq, recvSize>>
vars == <<opt, conn, sent, acc, list, net, queue, hd, async, sbuffer,
          terminated, replies, closeTold>>

Idle == [at |-> "idle", ctx |-> [c |-> None, n |-> 0, over |-> FALSE]]

Loop == [pc |-> "loop", c |-> None, why |-> "none", batch |-> <<>>]

Init ==
    /\ opt \in Options
    /\ conn = [c \in Conns |-> "backlog"]
    /\ sent = 0
    /\ acc = [pc |-> "loop", c |-> None]
    /\ curConns = 0
    /\ uid = [c \in Conns |-> 0]
    /\ vConn = [u \in Uids |-> None]
    /\ free = [u \in Uids |-> u]
    /\ net = Loop
    /\ dq = [h \in Handles |-> <<>>] /\ recvSize = 0
    /\ hd = [h \in Handles |-> Idle]
    /\ async = {} /\ sbuffer = <<>> /\ terminated = FALSE
    /\ replies = [r \in Requests |-> 0]
    /\ closeTold = [c \in Conns |-> 0]
    /\ ahead = [c \in Conns |-> 0]

-----------------------------------------------------------------------------
(* The receive queue *)

queueMode     == opt.queueMode    \* DataBuffer::_queueMode
QueueCapacity == opt.capacity     \* _iQueueCapacity
OverloadAt    == opt.overloadAt   \* (int)(_iQueueCapacity / 5.*4)

getDataQueueShared(index) == 0                 \* mutant of getDataQueue

\* The queue of a connection, and the one a handler takes from.
getDataQueue(index) == IF queueMode THEN index % HandleNum ELSE 0

Request(c, n) == [c |-> c, n |-> n, over |-> FALSE]
Closed(c)     == [c |-> c, n |-> 0, over |-> FALSE]

\* BindAdapter::isOverloadorDiscard.  At exactly the capacity it is neither.
isOverload == /\ recvSize > OverloadAt /\ recvSize < QueueCapacity
              /\ QueueCapacity > 0
isDiscard  == recvSize > QueueCapacity /\ QueueCapacity > 0

\* DataBuffer::insertRecvQueue counts the contexts first and pushes them in
\* the next step (NetPush).
insertRecvQueue(c, why, batch) ==
    /\ recvSize' = recvSize + Len(batch)
    /\ net' = [pc |-> "push", c |-> c, why |-> why, batch |-> batch]
    /\ UNCHANGED dq

UnlockedAlways == TRUE                         \* mutant of Unlocked

\* _mutex of the list, which checkTimeout holds while it deletes.
Unlocked == net.why # "timeout"

-----------------------------------------------------------------------------
(* TC_EpollServer::accept and NetThread::addTcpConnection *)

isLimitMaxConnection == curConns + 1 > MaxConns

Accept(c) ==
    /\ acc.pc = "loop" /\ c <= opt.conns
    /\ conn[c] = "backlog" /\ \A d \in 1..(c - 1) : conn[d] # "backlog"
    /\ IF isLimitMaxConnection
       THEN conn' = [conn EXCEPT ![c] = "refused"] /\ UNCHANGED acc
       ELSE acc' = [pc |-> "uid", c |-> c] /\ UNCHANGED conn
    /\ UNCHANGED <<opt, sent, list, net, queue, hd, async, sbuffer,
                   terminated, replies, closeTold>>

\* ConnectionList::getUniqId
AcceptUid ==
    /\ acc.pc = "uid" /\ Unlocked /\ free # <<>>
    /\ uid' = [uid EXCEPT ![acc.c] = Head(free)]
    /\ free' = Tail(free)
    /\ ahead' = [c \in Conns |-> IF ahead[c] > 0 THEN ahead[c] - 1 ELSE 0]
    /\ acc' = [acc EXCEPT !.pc = "add"]
    /\ UNCHANGED <<opt, conn, sent, curConns, vConn, net, queue, hd,
                   async, sbuffer, terminated, replies, closeTold>>

\* ConnectionList::add: from here on the network thread can find it.
AcceptAdd ==
    /\ acc.pc = "add" /\ Unlocked
    /\ vConn' = [vConn EXCEPT ![uid[acc.c]] = acc.c]
    /\ acc' = [acc EXCEPT !.pc = "count"]
    /\ UNCHANGED <<opt, conn, sent, curConns, uid, free, ahead, net,
                   queue, hd, async, sbuffer, terminated, replies, closeTold>>

\* increaseNowConnection
AcceptCount ==
    /\ acc.pc = "count"
    /\ curConns' = curConns + 1
    /\ acc' = [acc EXCEPT !.pc = "register"]
    /\ UNCHANGED <<opt, conn, sent, uid, vConn, free, ahead, net,
                   queue, hd, async, sbuffer, terminated, replies, closeTold>>

\* Connection::registerEvent: the network thread gets its events.
AcceptRegister ==
    /\ acc.pc = "register"
    /\ conn' = [conn EXCEPT ![acc.c] = "open"]
    /\ acc' = [pc |-> "loop", c |-> None]
    /\ UNCHANGED <<opt, sent, list, net, queue, hd, async, sbuffer,
                   terminated, replies, closeTold>>

-----------------------------------------------------------------------------
(* The network thread *)

delNoLockFront(c) ==                           \* mutant of delNoLock
    /\ vConn' = [vConn EXCEPT ![uid[c]] = None]
    /\ free' = <<uid[c]>> \o free
    /\ ahead' = [ahead EXCEPT ![c] = Len(free) + 1]

\* ConnectionList::delNoLock
delNoLock(c) ==
    /\ vConn' = [vConn EXCEPT ![uid[c]] = None]
    /\ free' = Append(free, uid[c])
    /\ ahead' = [ahead EXCEPT ![c] = Len(free) + 1]

\* ConnectionList::delConnection starts with the context that tells the
\* handlers; it cannot be refused.
delConnection(c, why) ==
    /\ insertRecvQueue(c, why, <<Closed(c)>>)
    /\ closeTold' = [closeTold EXCEPT ![c] = @ + 1]

\* The push of DataBuffer::insertRecvQueue, and what its caller does next.
\* NetThread::delConnection closes the socket and gives the uid back under
\* the lock, then decreases the count (NetDec).  checkTimeout holds the lock:
\* it closes the socket, decreases the count and then gives the uid back
\* (NetDel).
NetPush ==
    /\ net.pc = "push"
    /\ dq' = [dq EXCEPT ![getDataQueue(uid[net.c])] = @ \o net.batch]
    /\ \/ /\ net.why = "read"
          /\ net' = Loop
          /\ UNCHANGED <<conn, list>>
       \/ /\ net.why = "close"
          /\ conn' = [conn EXCEPT ![net.c] = "gone"]
          /\ delNoLock(net.c)
          /\ net' = [net EXCEPT !.pc = "dec", !.batch = <<>>]
          /\ UNCHANGED <<curConns, uid>>
       \/ /\ net.why = "timeout"
          /\ curConns' = curConns - 1
          /\ net' = [net EXCEPT !.pc = "del", !.batch = <<>>]
          /\ UNCHANGED <<conn, uid, vConn, free, ahead>>
    /\ UNCHANGED <<opt, sent, acc, recvSize, hd, async, sbuffer,
                   terminated, replies, closeTold>>

NetDec ==
    /\ net.pc = "dec"
    /\ curConns' = curConns - 1
    /\ net' = Loop
    /\ UNCHANGED <<opt, conn, sent, acc, uid, vConn, free, ahead,
                   queue, hd, async, sbuffer, terminated, replies, closeTold>>

NetDel ==
    /\ net.pc = "del"
    /\ conn' = [conn EXCEPT ![net.c] = "gone"]
    /\ delNoLock(net.c)
    /\ net' = Loop
    /\ UNCHANGED <<opt, sent, acc, curConns, uid, queue, hd, async,
                   sbuffer, terminated, replies, closeTold>>

\* Connection::handleInputImp and BindAdapter::insertRecvQueue: the k requests
\* that a client sent are read and queued, or dropped by a full queue.
NetRead(c) ==
    /\ net.pc = "loop"
    /\ conn[c] \in {"open", "closing"}
    /\ \E k \in 1..(opt.requests - sent) :
         /\ sent' = sent + k
         /\ IF isDiscard THEN UNCHANGED <<net, queue>>
            ELSE insertRecvQueue(c, "read",
                   [j \in 1..k |-> [Request(c, sent + j)
                                      EXCEPT !.over = isOverload]])
    /\ UNCHANGED <<opt, conn, acc, list, hd, async, sbuffer,
                   terminated, replies, closeTold>>

\* The peer closed or the stream is broken (handleInputImp, handleOutputImp,
\* handleCloseImp), or the reply before a close is written (handleOutputImp).
NetClose(c) ==
    /\ net.pc = "loop"
    /\ conn[c] \in {"open", "closing"}
    /\ delConnection(c, "close")
    /\ UNCHANGED <<opt, conn, sent, acc, list, hd, async, sbuffer,
                   terminated, replies>>

NetTimeoutValid(c) ==                          \* mutant of NetTimeout
    /\ net.pc = "loop" /\ opt.timeout > 0
    /\ conn[c] \in {"open", "closing"}
    /\ delConnection(c, "timeout")
    /\ UNCHANGED <<opt, conn, sent, acc, list, hd, async, sbuffer,
                   terminated, replies>>

\* ConnectionList::checkTimeout: the idle time of a connection, which only an
\* endpoint with a timeout has.  (The limit of setEmptyConnTimeout on
\* connections that never sent anything is left out.)
NetTimeout(c) ==
    /\ net.pc = "loop" /\ opt.timeout > 0
    /\ conn[c] \in {"open", "closing", "broken"}
    /\ delConnection(c, "timeout")
    /\ UNCHANGED <<opt, conn, sent, acc, list, hd, async, sbuffer,
                   terminated, replies>>

(* NetThread::processPipe, one command at a time *)

\* getConnectionPtr: whoever has the uid now.
Holder(cmd) == vConn[uid[cmd.c]]

First == IF sbuffer = <<>> THEN {} ELSE {Head(sbuffer)}

Pipe(cmd) ==
    /\ net.pc = "loop"
    /\ sbuffer' = Tail(sbuffer)

PipeGone ==
    /\ \E cmd \in First : Pipe(cmd) /\ Holder(cmd) = None
    /\ UNCHANGED <<opt, conn, sent, acc, list, net, queue, hd, async,
                   terminated, replies, closeTold>>

\* Connection::send
PipeSend ==
    /\ \E cmd \in First :
         /\ Pipe(cmd) /\ cmd.op = "s" /\ Holder(cmd) # None
         /\ conn[Holder(cmd)] \in {"open", "closing"}
         /\ replies' = [replies EXCEPT ![cmd.n] = @ + 1]
    /\ UNCHANGED <<opt, conn, sent, acc, list, net, queue, hd, async,
                   terminated, closeTold>>

\* ... that throws: the socket is closed, the connection stays listed.  One
\* that is being closed still has replies to send, so send only queues there.
PipeSendThrows ==
    /\ \E cmd \in First :
         /\ Pipe(cmd) /\ cmd.op = "s" /\ Holder(cmd) # None
         /\ conn[Holder(cmd)] = "open"
         /\ conn' = [conn EXCEPT ![Holder(cmd)] = "broken"]
    /\ UNCHANGED <<opt, sent, acc, list, net, queue, hd, async, terminated,
                   replies, closeTold>>

\* Either command on a connection whose socket was closed deletes it.
PipeBroken ==
    /\ \E cmd \in First :
         /\ Pipe(cmd) /\ Holder(cmd) # None
         /\ conn[Holder(cmd)] = "broken"
         /\ delConnection(Holder(cmd), "close")
    /\ UNCHANGED <<opt, conn, sent, acc, list, hd, async, terminated, replies>>

\* Connection::setClose; NetClose follows when the replies are written.
PipeClose ==
    /\ \E cmd \in First :
         /\ Pipe(cmd) /\ cmd.op = "c" /\ Holder(cmd) # None
         /\ conn[Holder(cmd)] \in {"open", "closing"}
         /\ conn' = [conn EXCEPT ![Holder(cmd)] = "closing"]
    /\ UNCHANGED <<opt, sent, acc, list, net, queue, hd, async, terminated,
                   replies, closeTold>>

\* Either command on a connection that is listed and not registered yet: it
\* has no socket, so it is deleted while the other thread works on it.
PipeAccepting ==
    /\ \E cmd \in First :
         /\ Pipe(cmd) /\ Holder(cmd) # None
         /\ conn[Holder(cmd)] = "backlog"
    /\ net' = [Loop EXCEPT !.pc = "crashed"]
    /\ acc' = [acc EXCEPT !.pc = "crashed"]
    /\ UNCHANGED <<opt, conn, sent, list, queue, hd, async, terminated,
                   replies, closeTold>>

ProcessPipe ==
    \/ PipeGone \/ PipeSend \/ PipeSendThrows
    \/ PipeBroken \/ PipeClose \/ PipeAccepting

-----------------------------------------------------------------------------
(* The handler threads: handleLoopThread, handleOnceThread, ServantHandle *)

\* NetThread::send and close drop the command once the server is stopping.
Push(cmds) == sbuffer' = IF terminated THEN sbuffer ELSE sbuffer \o cmds

Answer(ctx)   == [c |-> ctx.c, n |-> ctx.n, op |-> "s"]
CloseOf(ctx)  == [c |-> ctx.c, n |-> ctx.n, op |-> "c"]

\* DataBuffer::pop, up to the decrement of the size.
Take(h) ==
    /\ hd[h].at = "idle"
    /\ dq[getDataQueue(h)] # <<>>
    /\ hd' = [hd EXCEPT ![h] = [at  |-> "popped",
                                ctx |-> Head(dq[getDataQueue(h)])]]
    /\ dq' = [dq EXCEPT ![getDataQueue(h)] = Tail(@)]
    /\ UNCHANGED <<opt, conn, sent, acc, list, net, recvSize, async,
                   sbuffer, terminated, replies, closeTold>>

Popped(h) == hd[h].at = "popped" /\ recvSize' = recvSize - 1

\* handleClose: doClose of the servant.
HandleClose(h) ==
    /\ Popped(h) /\ hd[h].ctx.n = 0
    /\ hd' = [hd EXCEPT ![h] = Idle]
    /\ UNCHANGED <<opt, conn, sent, acc, list, net, dq, async,
                   sbuffer, terminated, replies, closeTold>>

RefusalTwice(ctx) == { <<Answer(ctx), Answer(ctx)>> }   \* mutant of Refusal

\* handleOverload and handleTimeout: createCurrent answers a request that its
\* caller gave up and returns NULL, otherwise they answer.  A one-way request
\* gets no answer.
Refusal(ctx) == { <<>>, <<Answer(ctx)>> }

HandleRefused(h) ==
    /\ Popped(h) /\ hd[h].ctx.n > 0
    /\ \E cmds \in Refusal(hd[h].ctx) : Push(cmds)
    /\ hd' = [hd EXCEPT ![h] = Idle]
    /\ UNCHANGED <<opt, conn, sent, acc, list, net, dq, async,
                   terminated, replies, closeTold>>

\* A request that cannot be decoded: createCurrent closes the connection.
HandleUndecodable(h) ==
    /\ Popped(h) /\ hd[h].ctx.n > 0
    /\ Push(<<CloseOf(hd[h].ctx)>>)
    /\ hd' = [hd EXCEPT ![h] = Idle]
    /\ UNCHANGED <<opt, conn, sent, acc, list, net, dq, async,
                   terminated, replies, closeTold>>

\* handle: the servant works on the request.
Dispatch(h) ==
    /\ Popped(h) /\ hd[h].ctx.n > 0 /\ ~hd[h].ctx.over
    /\ hd' = [hd EXCEPT ![h].at = "busy"]
    /\ UNCHANGED <<opt, conn, sent, acc, list, net, dq, async,
                   sbuffer, terminated, replies, closeTold>>

\* handleTarsProtocol sends what dispatch returned, unless the request is
\* one-way; the servant may also have closed the connection.
Return(h) ==
    /\ hd[h].at = "busy"
    /\ LET ctx == hd[h].ctx
       IN \E cmds \in {<<>>, <<Answer(ctx)>>, <<CloseOf(ctx), Answer(ctx)>>} :
            Push(cmds)
    /\ hd' = [hd EXCEPT ![h] = Idle]
    /\ UNCHANGED <<opt, conn, sent, acc, list, net, queue, async,
                   terminated, replies, closeTold>>

\* The servant called setResponse(false) and keeps the request.
ReturnAsync(h) ==
    /\ hd[h].at = "busy"
    /\ async' = async \cup {hd[h].ctx}
    /\ hd' = [hd EXCEPT ![h] = Idle]
    /\ UNCHANGED <<opt, conn, sent, acc, list, net, queue, sbuffer,
                   terminated, replies, closeTold>>

\* Current::sendResponse of a kept request, from any thread, and perhaps
\* Current::close after it.
AsyncReply ==
    /\ \E ctx \in async :
         /\ \E cmds \in {<<Answer(ctx)>>, <<Answer(ctx), CloseOf(ctx)>>} :
              Push(cmds)
         /\ async' = async \ {ctx}
    /\ UNCHANGED <<opt, conn, sent, acc, list, net, queue, hd,
                   terminated, replies, closeTold>>

HandleExitIdle(h) ==                           \* mutant of HandleExit
    /\ hd[h].at = "idle" /\ dq[getDataQueue(h)] = <<>>
    /\ hd' = [hd EXCEPT ![h].at = "exited"]
    /\ UNCHANGED <<opt, conn, sent, acc, list, net, queue, async,
                   sbuffer, terminated, replies, closeTold>>

HandleExitWaits(h) ==                          \* mutant of HandleExit
    /\ hd[h].at = "idle" /\ terminated /\ dq[getDataQueue(h)] # <<>>
    /\ hd' = [hd EXCEPT ![h].at = "exited"]
    /\ UNCHANGED <<opt, conn, sent, acc, list, net, queue, async,
                   sbuffer, terminated, replies, closeTold>>

\* handleLoopThread ends.  Before that handleOnceThread may still take what
\* is queued, up to 100 contexts.
HandleExit(h) ==
    /\ hd[h].at = "idle" /\ terminated
    /\ hd' = [hd EXCEPT ![h].at = "exited"]
    /\ UNCHANGED <<opt, conn, sent, acc, list, net, queue, async,
                   sbuffer, terminated, replies, closeTold>>

-----------------------------------------------------------------------------
(* terminate and the end of waitForShutdown *)

Terminate ==
    /\ ~terminated /\ terminated' = TRUE
    /\ UNCHANGED <<opt, conn, sent, acc, list, net, queue, hd, async,
                   sbuffer, replies, closeTold>>

\* stopThread: the network thread first, then the handlers.
Stop ==
    /\ \/ acc.pc = "loop" /\ terminated /\ acc' = [acc EXCEPT !.pc = "joinNet"]
       \/ acc.pc = "joinNet" /\ net.pc = "down"
          /\ acc' = [acc EXCEPT !.pc = "joinHandles"]
       \/ /\ acc.pc = "joinHandles" /\ \A h \in Handles : hd[h].at = "exited"
          /\ acc' = [acc EXCEPT !.pc = "down"]
    /\ UNCHANGED <<opt, conn, sent, list, net, queue, hd, async,
                   sbuffer, terminated, replies, closeTold>>

\* NetThread::run ends with ConnectionList::close.
NetDown ==
    /\ acc.pc = "joinNet" /\ net.pc = "loop"
    /\ net' = [Loop EXCEPT !.pc = "down"]
    /\ conn' = [c \in Conns |->
                  IF \E u \in Uids : vConn[u] = c THEN "gone" ELSE conn[c]]
    /\ vConn' = [u \in Uids |-> None]
    /\ UNCHANGED <<opt, sent, acc, curConns, uid, free, ahead, queue,
                   hd, async, sbuffer, terminated, replies, closeTold>>

-----------------------------------------------------------------------------
NetStep    == NetPush \/ NetDec \/ NetDel
AcceptStep == AcceptUid \/ AcceptAdd \/ AcceptCount \/ AcceptRegister

HandleStep(h) ==
    \/ Take(h) \/ HandleClose(h) \/ HandleRefused(h) \/ HandleUndecodable(h)
    \/ Dispatch(h) \/ Return(h) \/ ReturnAsync(h) \/ HandleExit(h)

Next ==
    \/ \E c \in Conns : \/ Accept(c) \/ NetRead(c)
                        \/ NetClose(c) \/ NetTimeout(c)
    \/ AcceptStep \/ NetStep \/ ProcessPipe
    \/ \E h \in Handles : HandleStep(h)
    \/ AsyncReply
    \/ Terminate \/ Stop \/ NetDown

Spec == Init /\ [][Next]_vars

\* Every thread runs; a servant returns; the idle time of a connection whose
\* socket is closed runs out, if it has one; a connection being closed gets
\* written.
Fairness ==
    /\ WF_vars(AcceptStep)
    /\ WF_vars(NetStep \/ ProcessPipe)
    /\ WF_vars(NetDown)
    /\ WF_vars(Stop)
    /\ \A c \in Conns :
         /\ WF_vars(conn[c] = "closing" /\ NetClose(c))
         /\ WF_vars(conn[c] = "broken" /\ NetTimeout(c))
    /\ \A h \in Handles : WF_vars(HandleStep(h))

FairSpec == Spec /\ Fairness
-----------------------------------------------------------------------------
(* Properties *)

Contexts == [c : Conns, n : 0..MaxRequests, over : BOOLEAN]
Commands == [c : Conns, n : 1..MaxRequests, op : {"s", "c"}]

TypeOK ==
    /\ opt \in Options /\ terminated \in BOOLEAN
    /\ conn \in [Conns -> {"backlog", "refused", "open", "closing", "broken",
                           "gone"}]
    /\ sent \in 0..MaxRequests
    /\ acc \in [pc : {"loop", "uid", "add", "count", "register", "joinNet",
                      "joinHandles", "down", "crashed"},
                c : Conns \cup {None}]
    /\ curConns \in 0..MaxConns
    /\ uid \in [Conns -> {0} \cup Uids]
    /\ vConn \in [Uids -> Conns \cup {None}]
    /\ free \in Seq(Uids)
    /\ net.pc \in {"loop", "push", "dec", "del", "down", "crashed"}
    /\ net.c \in Conns \cup {None} /\ net.batch \in Seq(Contexts)
    /\ net.why \in {"none", "read", "close", "timeout"}
    /\ \A h \in Handles : dq[h] \in Seq(Contexts)
    /\ recvSize \in Nat
    /\ hd \in [Handles -> [at : {"idle", "popped", "busy", "exited"},
                           ctx : Contexts \cup {Idle.ctx}]]
    /\ async \subseteq Contexts
    /\ sbuffer \in Seq(Commands)
    /\ replies \in [Requests -> Nat] /\ closeTold \in [Conns -> Nat]
    /\ ahead \in [Conns -> 0..MaxConns]

Listed == {u \in Uids : vConn[u] # None}
Held   == IF acc.pc = "add" THEN {uid[acc.c]} ELSE {}

\* Every uid is exactly one of free, held by the thread that accepts, and
\* listed under the connection that has it.
UidExact ==
    net.pc \notin {"down", "crashed"} =>
      /\ \A i, j \in DOMAIN free : free[i] = free[j] => i = j
      /\ {free[i] : i \in DOMAIN free} = Uids \ (Listed \cup Held)
      /\ Held \cap Listed = {}
      /\ \A u \in Listed : uid[vConn[u]] = u

\* _iCurConns, written by two threads outside the lock of the list, is the
\* number of listed connections up to the one each of them is working on.
CountExact ==
    net.pc \notin {"down", "crashed"} =>
      curConns = Cardinality(Listed) - (IF acc.pc = "count" THEN 1 ELSE 0)
                                     + (IF net.pc = "dec" THEN 1 ELSE 0)
                                     - (IF net.pc = "del" THEN 1 ELSE 0)

\* The limit is tested without the lock and long before a uid is taken, and
\* checkTimeout decreases the count before it gives the uid back: still the
\* assertions of getUniqId (a free uid) and add (an empty slot) hold.
AssertsHold ==
    net.pc \notin {"down", "crashed"} =>
      /\ acc.pc = "uid" /\ Unlocked => free # <<>>
      /\ acc.pc = "add" => vConn[uid[acc.c]] = None

\* The list of connections, its uids and the count of the adapter agree,
\* whatever the accepting thread and the network thread are in the middle of.
ListExact == TypeOK /\ UidExact /\ CountExact /\ AssertsHold

\* The handlers are told of the end of a connection once, and no request of
\* the connection is queued behind that.
CloseToldOnce ==
    /\ \A c \in Conns : closeTold[c] <= 1
    /\ \A h \in Handles : \A i, j \in DOMAIN dq[h] :
         i < j /\ dq[h][i].n = 0 => dq[h][j].c # dq[h][i].c

\* A request is answered at most once: by the handler, by the refusal of an
\* overloaded queue or of a late request, or later by the servant.
AnsweredOnce == \A r \in Requests : replies[r] <= 1

\* With queueMode the requests of one connection are handled one at a time
\* and its close after all of them.
QueueModeSerial ==
    queueMode =>
      \A g, h \in Handles :
        hd[g].at \in {"popped", "busy"} =>
          /\ g # h => hd[h].ctx.c # hd[g].ctx.c
          /\ hd[g].ctx.n = 0 => \A j \in DOMAIN dq[h] :
                                   dq[h][j].c # hd[g].ctx.c

\* The places of the receive queues that hold a context.
Queued == UNION {{h} \X (1..Len(dq[h])) : h \in Handles}

\* _iRecvBufferSize, from which the overload of the queue is told and which
\* is unsigned, never counts less than what is queued.
SizeCovers == recvSize >= Cardinality(Queued)

\* What the handlers take from the receive queue comes in the order of its
\* connection, ends with the close, and is counted.
QueueOrdered == CloseToldOnce /\ QueueModeSerial /\ SizeCovers

\* A command that comes too late finds no connection as long as the uids that
\* were free before its own have not been used up.
StaleFindsNobody ==
    \A c \in Conns :
      conn[c] = "gone" /\ ahead[c] > 0 =>
        vConn[uid[c]] = None /\ uid[c] \notin Held

\* Whatever is queued is handled, unless the server stops.
QueuedIsHandled ==
    \A h \in Handles : dq[h] # <<>> ~> (dq[h] = <<>> \/ terminated)

\* Some command in _sbuffer is for this connection.
Commanded(c) == \E i \in DOMAIN sbuffer : Holder(sbuffer[i]) = c

\* A connection that the service closes is given up and its uid returned.  So
\* is one whose socket broke under a reply, by the idle check or, of an
\* endpoint without an idle time, by the next command for it.
ClosedIsGone ==
    \A c \in Conns :
      (\/ conn[c] = "closing"
       \/ conn[c] = "broken" /\ (opt.timeout > 0 \/ Commanded(c)))
        ~> (conn[c] = "gone" \/ net.pc = "crashed")

\* terminate() ends waitForShutdown.
ShutdownCompletes == terminated ~> (acc.pc \in {"down", "crashed"})

-----------------------------------------------------------------------------
(***************************************************************************)
(* What the repository says and the code does not keep; README.md,         *)
(* "Disagreements found".                                                  *)
(***************************************************************************)

\* A command finds the connection of its request or none: the uid of a
\* context is the unique number of its connection.
ReplyOwnConnection ==
    net.pc = "loop" /\ sbuffer # <<>> =>
      Holder(Head(sbuffer)) \in {None, Head(sbuffer).c}
=============================================================================
