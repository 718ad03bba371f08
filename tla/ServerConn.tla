----------------------------- MODULE ServerConn -----------------------------
(***************************************************************************)
(* The sending side of one TCP connection of TC_EpollServer: the commands  *)
(* of the handler threads in NetThread::_sbuffer, Connection::send, the    *)
(* queue _messages behind the send buffer of the transceiver, the write    *)
(* event, the close asked for by the application and the flow control.     *)
(*                                                                         *)
(* A reply is a number, in the order in which the handlers push it.  Its   *)
(* bytes are one TC_NetWorkBuffer::Buffer, shared by pointer between the   *)
(* send buffer and _messages: left[r] is what it still holds, wherever it  *)
(* is referenced.  The socket takes any part of what it is given; it may   *)
(* also fail.  TLS and the authentication handshake are not modelled.      *)
(***************************************************************************)
EXTENDS Integers, Sequences

CONSTANTS MaxReplies,       \* bound: replies pushed in a behaviour
          MaxCloses,        \* bound: close commands pushed in a behaviour
          Size,             \* length of a reply
          BackPacketBuffLimit, BackPacketBuffMin,
          SlowChecks,       \* 3 in the code
          GrowChecks,       \* 12 in the code
          Timeouts          \* the idle times of the endpoint to consider

ASSUME ConnAssumption ==
    /\ MaxReplies \in Nat /\ MaxCloses \in Nat
    /\ Size \in Nat \ {0}
    /\ BackPacketBuffLimit \in Nat /\ BackPacketBuffMin \in Nat
    /\ SlowChecks \in Nat \ {0} /\ GrowChecks \in Nat \ {0}
    /\ Timeouts \subseteq Nat

Replies == 1..MaxReplies

\* The command 'c' in _sbuffer; every other command is 's' with its reply.
CloseCmd == 0

VARIABLES
    sbuffer,      \* commands for this connection in NetThread::_sbuffer
    asked,        \* number of replies pushed so far
    taken,        \* history: number of replies processPipe has popped
    closes,       \* number of close commands pushed so far
    listed,       \* the Connection object is in the ConnectionList
    valid,        \* the transceiver has its socket (isValid())
    bClose,       \* _bClose
    sendBuffer,   \* the buffers in the send buffer of the transceiver
    messages,     \* _messages
    left,         \* bytes the buffer of a reply still holds
    messageSize,  \* _messageSize
    blocked,      \* the socket was full: EPOLLOUT comes when it is not
    window,       \* 5 s have passed since _lastCheckTime
    accumulate,   \* _accumulateBufferSize
    checkSend,    \* _checkSend
    got,          \* replies that reached the socket in full, in order
    flushTo,      \* history: replies taken before the first close command
    how,          \* history: why the connection was deleted
    unsentAtFlow, \* history: bytes unsent when the flow control closed it
    timeout       \* Connection::getTimeout() in seconds, fixed

socket == <<valid, sendBuffer, messages, left, messageSize, blocked, got>>
flow   == <<window, accumulate, checkSend>>
vars   == <<sbuffer, asked, taken, closes, listed, bClose, socket, flow,
            flushTo, how, unsentAtFlow, timeout>>

Init ==
    /\ sbuffer = <<>> /\ asked = 0 /\ taken = 0 /\ closes = 0
    /\ listed = TRUE /\ valid = TRUE /\ bClose = FALSE
    /\ sendBuffer = <<>> /\ messages = <<>>
    /\ left = [r \in Replies |-> Size]
    /\ messageSize = 0 /\ blocked = FALSE
    /\ window = FALSE /\ accumulate = 0 /\ checkSend = <<>>
    /\ got = <<>> /\ flushTo = 0 /\ how = "none" /\ unsentAtFlow = 0
    /\ timeout \in Timeouts

-----------------------------------------------------------------------------
(* What is to be sent *)

UnsentOfCopied(buffers, queue) == buffers \o queue     \* mutant of UnsentOf

\* The buffers still to be written, first one first.  A reply of which the
\* socket took only a part stands in both the send buffer and _messages.
UnsentOf(buffers, queue) ==
    IF buffers # <<>> /\ queue # <<>> /\ Head(buffers) = Head(queue)
    THEN queue
    ELSE buffers \o queue

\* Only the first of them can be incomplete.
BytesOf(unsent, rest) ==
    IF unsent = <<>> THEN 0
    ELSE rest[Head(unsent)] + (Len(unsent) - 1) * Size

Unsent == UnsentOf(sendBuffer, messages)

SendBufferLength ==
    IF sendBuffer = <<>> THEN 0 ELSE left[Head(sendBuffer)]

\* TC_Transceiver::doRequest and, once the send buffer is empty,
\* onRequestCallback, which feeds _messages to sendRequest one by one: i
\* buffers are written to the end and p bytes of the next one, on which the
\* socket is full.  That one is moved into the send buffer and out of
\* _messages.  The size of an erased message is taken off _messageSize after
\* sendRequest, when a buffer that was written is already empty.
CanWrite(i, p) ==
    /\ i \in 0..Len(Unsent)
    /\ IF i = Len(Unsent) THEN p = 0 ELSE p \in 0..(left[Unsent[i + 1]] - 1)
    /\ blocked => i + p > 0                    \* EPOLLOUT: there is room

doRequestNoCallback(i, p) ==                           \* mutant of doRequest
    LET next == Head(sendBuffer)
        all  == i > 0 \/ sendBuffer = <<>>
    IN [left |-> IF sendBuffer = <<>> THEN left
                 ELSE [left EXCEPT ![next] = IF all THEN 0 ELSE @ - p],
        sendBuffer |-> IF all THEN <<>> ELSE sendBuffer,
        messages   |-> messages,
        messageSize |-> messageSize,
        length |-> IF all THEN 0 ELSE left[next] - p,
        got    |-> IF all THEN got \o sendBuffer ELSE got]

doRequest(i, p) ==
    LET all  == i = Len(Unsent)
        next == Unsent[i + 1]
        same == i = 0 /\ sendBuffer # <<>>
        rest == IF all THEN 0 ELSE left[next] - p
    IN [left |-> [r \in Replies |->
                    IF \E j \in 1..i : Unsent[j] = r THEN 0
                    ELSE IF ~all /\ r = next THEN rest ELSE left[r]],
        sendBuffer |-> IF all THEN <<>> ELSE <<next>>,
        messages   |-> IF all THEN <<>>
                       ELSE IF same THEN messages
                       ELSE SubSeq(Unsent, i + 2, Len(Unsent)),
        messageSize |-> IF same THEN messageSize ELSE messageSize - rest,
        length |-> rest,
        got    |-> got \o SubSeq(Unsent, 1, i)]

\* NetThread::delConnection: the object is deleted with all it holds.
delConnection(why) ==
    /\ listed' = FALSE
    /\ valid' = FALSE
    /\ sendBuffer' = <<>> /\ messages' = <<>>
    /\ blocked' = FALSE
    /\ how' = why

-----------------------------------------------------------------------------
(* The handler threads *)

\* TC_EpollServer::send from a handler thread.
PushSend ==
    /\ asked < MaxReplies
    /\ asked' = asked + 1
    /\ sbuffer' = Append(sbuffer, asked + 1)
    /\ UNCHANGED <<taken, closes, listed, bClose, socket, flow,
                   flushTo, how, unsentAtFlow, timeout>>

\* TC_EpollServer::close from a handler thread.
PushClose ==
    /\ closes < MaxCloses
    /\ closes' = closes + 1
    /\ sbuffer' = Append(sbuffer, CloseCmd)
    /\ UNCHANGED <<asked, taken, listed, bClose, socket, flow,
                   flushTo, how, unsentAtFlow, timeout>>

-----------------------------------------------------------------------------
(* NetThread::processPipe, one command at a time *)

Pop(cmd) ==
    /\ sbuffer # <<>>
    /\ cmd = Head(sbuffer)
    /\ sbuffer' = Tail(sbuffer)
    /\ taken' = IF cmd = CloseCmd THEN taken ELSE taken + 1

\* getConnectionPtr finds nothing: the connection is gone.
PipeNoConnection ==
    /\ ~listed
    /\ \E cmd \in {CloseCmd} \cup Replies : Pop(cmd)
    /\ UNCHANGED <<asked, closes, listed, bClose, socket, flow,
                   flushTo, how, unsentAtFlow, timeout>>

SendDirectNoEvent(r, p) ==                             \* mutant of SendDirect
    /\ messages = <<>> /\ sendBuffer = <<>>
    /\ left' = [left EXCEPT ![r] = Size - p]
    /\ sendBuffer' = IF p = Size THEN <<>> ELSE <<r>>
    /\ messages' = sendBuffer'
    /\ messageSize' = messageSize + (Size - p)
    /\ got' = IF p = Size THEN Append(got, r) ELSE got
    /\ UNCHANGED <<valid, blocked>>

\* Connection::send with nothing before the reply: sendRequest puts it in the
\* send buffer and the socket takes p bytes.  What is left of it is counted
\* and kept in _messages too.
SendDirect(r, p) ==
    /\ messages = <<>> /\ sendBuffer = <<>>
    /\ left' = [left EXCEPT ![r] = Size - p]
    /\ sendBuffer' = IF p = Size THEN <<>> ELSE <<r>>
    /\ messages' = sendBuffer'
    /\ messageSize' = messageSize + (Size - p)
    /\ blocked' = (p < Size)
    /\ got' = IF p = Size THEN Append(got, r) ELSE got
    /\ UNCHANGED valid

SendLaterUncounted(r) ==                               \* mutant of SendLater
    /\ messages # <<>> \/ sendBuffer # <<>>
    /\ messages' = Append(messages, r)
    /\ UNCHANGED <<valid, sendBuffer, left, messageSize, blocked, got>>

\* Connection::send behind other replies: _messages is not empty, or
\* sendRequest refuses because the send buffer is not.
SendLater(r) ==
    /\ messages # <<>> \/ sendBuffer # <<>>
    /\ messages' = Append(messages, r)
    /\ messageSize' = messageSize + Size
    /\ UNCHANGED <<valid, sendBuffer, left, blocked, got>>

PipeSend ==
    /\ listed /\ valid
    /\ \E r \in Replies :
         /\ Pop(r)
         /\ (\E p \in 0..Size : SendDirect(r, p)) \/ SendLater(r)
    /\ UNCHANGED <<asked, closes, listed, bClose, flow,
                   flushTo, how, unsentAtFlow, timeout>>

\* ::send fails: the transceiver closes its socket and throws out of
\* processPipe.  The Connection stays in the list.
PipeSendThrows ==
    /\ listed /\ valid
    /\ messages = <<>> /\ sendBuffer = <<>>
    /\ \E r \in Replies : Pop(r)
    /\ valid' = FALSE
    /\ UNCHANGED <<asked, closes, listed, bClose, sendBuffer, messages, left,
                   messageSize, blocked, got, flow, flushTo, how,
                   unsentAtFlow, timeout>>

\* Connection::send returns -1: the socket was closed before.
PipeSendInvalid ==
    /\ listed /\ ~valid
    /\ \E r \in Replies : Pop(r)
    /\ delConnection("error")
    /\ UNCHANGED <<asked, closes, bClose, left, messageSize, got, flow,
                   flushTo, unsentAtFlow, timeout>>

PipeCloseNow ==                                        \* mutant of PipeClose
    /\ listed
    /\ Pop(CloseCmd)
    /\ bClose' = TRUE
    /\ flushTo' = IF bClose THEN flushTo ELSE taken
    /\ delConnection(IF valid THEN "close" ELSE "error")
    /\ UNCHANGED <<asked, closes, left, messageSize, got, flow, unsentAtFlow, timeout>>

\* Connection::setClose: closed at once if the send buffer is empty, else by
\* the write event that empties it.
PipeClose ==
    /\ listed
    /\ Pop(CloseCmd)
    /\ bClose' = TRUE
    /\ flushTo' = IF bClose THEN flushTo ELSE taken
    /\ IF sendBuffer = <<>>
       THEN delConnection(IF valid THEN "close" ELSE "error")
       ELSE UNCHANGED <<listed, valid, sendBuffer, messages, blocked, how>>
    /\ UNCHANGED <<asked, closes, left, messageSize, got, flow, unsentAtFlow, timeout>>

-----------------------------------------------------------------------------
(* The write event *)

\* Connection::checkFlow runs when the write is over: lastLeft is what was
\* unsent before it and size what is unsent after it, as _messageSize counts.
Backlogged(size) == BackPacketBuffLimit > 0 /\ size > BackPacketBuffLimit

\* A record is made when 5 s have passed since _lastCheckTime, which starts
\* again as long as nothing was sent.
CheckDue(size) == Backlogged(size) /\ window /\ accumulate # 0

Recorded(lastLeft, size) ==
    Append(checkSend, [sent |-> accumulate + lastLeft - size,
                       left |-> lastLeft])

\* The last SlowChecks records each sent next to nothing.
TooSlow(records) ==
    /\ Len(records) >= SlowChecks
    /\ \A j \in (Len(records) - SlowChecks + 1)..Len(records) :
         records[j].sent <= BackPacketBuffMin

\* GrowChecks records in a row, and what was unsent never went down.
Growing(records) ==
    /\ Len(records) >= GrowChecks
    /\ \A j \in 2..Len(records) : records[j].left >= records[j - 1].left

\* checkFlow returns a negative value.
FlowCloses(lastLeft, size) ==
    /\ CheckDue(size)
    /\ LET records == Recorded(lastLeft, size)
       IN TooSlow(records) \/ Growing(records)

checkFlow(lastLeft, size) ==
    /\ window' = FALSE
    /\ IF ~Backlogged(size)
       THEN accumulate' = 0 /\ checkSend' = <<>>
       ELSE IF ~CheckDue(size)
       THEN accumulate' = accumulate + lastLeft - size /\ UNCHANGED checkSend
       ELSE LET records == Recorded(lastLeft, size) IN
            /\ accumulate' = 0
            /\ checkSend' = IF Len(records) >= GrowChecks THEN Tail(records)
                            ELSE records

\* Connection::handleOutputImp and sendBuffer: write, then close if the
\* application asked for it and nothing is left, else check the flow.
LastLeft == messageSize + SendBufferLength

handleOutput(i, p) ==
    /\ listed /\ valid
    /\ CanWrite(i, p)
    /\ LET w    == doRequest(i, p)
           size == w.messageSize + w.length
       IN /\ left' = w.left
          /\ messageSize' = w.messageSize
          /\ got' = w.got
          /\ \/ /\ bClose /\ w.sendBuffer = <<>>
                /\ delConnection("close")
                /\ UNCHANGED <<flow, unsentAtFlow>>
             \/ /\ ~(bClose /\ w.sendBuffer = <<>>)
                /\ FlowCloses(LastLeft, size)
                /\ delConnection("flow")
                /\ unsentAtFlow' =
                     BytesOf(UnsentOf(w.sendBuffer, w.messages), w.left)
                /\ UNCHANGED flow
             \/ /\ ~(bClose /\ w.sendBuffer = <<>>)
                /\ ~FlowCloses(LastLeft, size)
                /\ sendBuffer' = w.sendBuffer
                /\ messages' = w.messages
                /\ blocked' = (w.sendBuffer # <<>>)
                /\ checkFlow(LastLeft, size)
                /\ UNCHANGED <<listed, valid, how, unsentAtFlow>>
    /\ UNCHANGED <<sbuffer, asked, taken, closes, bClose, flushTo, timeout>>

HandleOutput ==
    \E i \in 0..MaxReplies, p \in 0..(Size - 1) : handleOutput(i, p)

\* A write that fails: handleOutputImp deletes the connection.
HandleOutputFails ==
    /\ listed /\ valid /\ sendBuffer # <<>>
    /\ delConnection("error")
    /\ UNCHANGED <<sbuffer, asked, taken, closes, bClose, left, messageSize,
                   got, flow, flushTo, unsentAtFlow, timeout>>

-----------------------------------------------------------------------------
(* Other ends of a connection, and time *)

\* handleInputImp reads the end of the stream or an error; handleCloseImp.
PeerCloses ==
    /\ listed /\ valid
    /\ delConnection("peer")
    /\ UNCHANGED <<sbuffer, asked, taken, closes, bClose, left, messageSize,
                   got, flow, flushTo, unsentAtFlow, timeout>>

\* ConnectionList::checkTimeout: nothing was read or written for the idle
\* time, if the endpoint has one.  A socket that was closed under the
\* Connection is not refreshed.
CheckTimeout ==
    /\ listed /\ timeout > 0
    /\ delConnection("timeout")
    /\ UNCHANGED <<sbuffer, asked, taken, closes, bClose, left, messageSize,
                   got, flow, flushTo, unsentAtFlow, timeout>>

\* 5 s pass (external: the clock).
Tick ==
    /\ listed /\ ~window
    /\ window' = TRUE
    /\ UNCHANGED <<sbuffer, asked, taken, closes, listed, bClose, socket,
                   accumulate, checkSend, flushTo, how, unsentAtFlow, timeout>>

ProcessPipe ==
    \/ PipeNoConnection \/ PipeSend \/ PipeSendThrows
    \/ PipeSendInvalid \/ PipeClose

Next ==
    \/ PushSend \/ PushClose
    \/ ProcessPipe
    \/ HandleOutput \/ HandleOutputFails
    \/ PeerCloses \/ CheckTimeout \/ Tick

Spec == Init /\ [][Next]_vars

\* The network thread runs processPipe in every round of its loop, the peer
\* reads, so that a full socket becomes writable, and time passes.
Fairness ==
    /\ WF_vars(ProcessPipe)
    /\ WF_vars(blocked /\ HandleOutput)
    /\ WF_vars(~valid /\ CheckTimeout)

FairSpec == Spec /\ Fairness
-----------------------------------------------------------------------------
(* Properties *)

TypeOK ==
    /\ sbuffer \in Seq({CloseCmd} \cup Replies)
    /\ asked \in 0..MaxReplies /\ taken \in 0..MaxReplies
    /\ closes \in 0..MaxCloses
    /\ listed \in BOOLEAN /\ valid \in BOOLEAN /\ bClose \in BOOLEAN
    /\ sendBuffer \in Seq(Replies) /\ Len(sendBuffer) <= 1
    /\ messages \in Seq(Replies)
    /\ left \in [Replies -> 0..Size]
    /\ messageSize \in Nat
    /\ blocked \in BOOLEAN /\ window \in BOOLEAN
    /\ accumulate \in Nat
    /\ checkSend \in Seq([sent : Nat, left : Nat])
    /\ Len(checkSend) < GrowChecks
    /\ got \in Seq(Replies)
    /\ flushTo \in 0..MaxReplies
    /\ how \in {"none", "error", "close", "flow", "peer", "timeout"}
    /\ unsentAtFlow \in Nat
    /\ timeout \in Nat

\* The peer receives the replies in the order of the pushes, none twice and
\* none left out, although a reply that was sent in part is referenced by both
\* the send buffer and _messages.
RepliesInOrder == got = [j \in 1..Len(got) |-> j]

\* A reply is started only when the one before it is finished: bytes of two
\* replies are never mixed on the connection.
OneStarted ==
    \A r \in Replies : valid /\ left[r] \in 1..(Size - 1) => sendBuffer = <<r>>

\* The stream the peer reads is the replies, whole, in order and each once.
RepliesIntact == RepliesInOrder /\ OneStarted

\* Nothing waits behind an empty send buffer, where no write event would come
\* for it and where setClose would take the connection for flushed.
NothingStranded ==
    listed /\ messages # <<>> => sendBuffer # <<>> /\ blocked

\* A connection that the application closed was closed after every reply that
\* was pushed before the close had been sent.
CloseFlushes == how = "close" => Len(got) >= flushTo

\* The flow control never takes less into account than is really unsent.
BacklogCounted ==
    listed => BytesOf(Unsent, left) <= messageSize + SendBufferLength

\* Every reply is sent, unless the socket is closed.
ReplyArrives == \A r \in Replies : asked >= r ~> (Len(got) >= r \/ ~valid)

\* A close of the application takes effect.
CloseHappens == bClose ~> ~listed

\* A connection whose socket was closed by a send that threw out of
\* processPipe does not stay in the list for ever: the idle check takes it
\* out or, of an endpoint without an idle time, the next command for it.
DeadIsDropped == ~valid /\ (timeout > 0 \/ sbuffer # <<>>) ~> ~listed

\* Whatever is asked of a connection is done, or the connection ends: replies
\* are sent, a close takes effect, a dead socket is given up as soon as
\* anything looks at it.
AskedIsDone == ReplyArrives /\ CloseHappens /\ DeadIsDropped

-----------------------------------------------------------------------------
(***************************************************************************)
(* What the repository says and the code does not keep; README.md,         *)
(* "Disagreements found".                                                  *)
(***************************************************************************)

\* The flow control closes a connection only if its backlog is above the limit
\* (the comment before checkFlow).
FlowCloseJustified == how = "flow" => unsentAtFlow > BackPacketBuffLimit
=============================================================================
