# TarsCpp: a TLA+ verification project

TarsCpp is a C++ RPC framework: a client runtime and a server runtime
(`src/servant`), the utility library under them (`src/util`), compilers from the
Tars interface language (`src/tools`), examples and tests. This project models

- the **client runtime**: what happens to a call from the moment an application
  thread makes it until that thread is woken or its callback is run;
- the **server runtime**: what happens to a connection and to the requests on it,
  from accept to the last byte of a reply, and the end of the server;
- the **shared-memory hash map** of the utility library, whose content outlives the
  process that writes it.

Line numbers below and in `PROJECT.json` refer to the sources in `src/`.

## 1. Inventory

### The path of a call on the client

```
application thread                 network thread (CommunicatorEpoll, one epoll loop)
------------------                 ---------------------------------------------------
ServantProxy::invoke               handleNotify ── ObjectProxy::invoke
  push_back ── TC_LoopQueue ──────▶     │  EndpointManager::selectAdapterProxy
  notify   ─── FDInfo ────────────▶     │      (round robin, shielded servers skipped)
  ReqMonitor::wait                      ├─ no connection yet: _reqTimeoutQueue
      ▲                                 └─ AdapterProxy::invoke
      │                                      ├─ sent: TC_TimeoutQueueNew, wait for answer
      │                                      └─ not sent: unsent list, flushed on EPOLLOUT
      └──── finishInvoke ◀── response, timeout, exception ◀── TC_Transceiver, TC_Epoller
```

### The path of a request on the server

```
waitForShutdown          network thread                        handler threads (ServantHandle)
---------------          --------------                        -------------------------------
accept                   handleInputImp ── insertRecvQueue ──▶ DataBuffer::pop
  getUniqId                (overloaded: refused, full: dropped)  handle / handleOverload /
  ConnectionList::add                                            handleTimeout / handleClose
  increaseNowConnection                                             │
  registerEvent ───────▶ processPipe ◀── _sbuffer ◀─────────────────┘ send, close
                           Connection::send ── send buffer, _messages ── EPOLLOUT
terminate ─ stopThread   checkTimeout, delConnection ── uid back to the free list
```

### Components, their state, operations and what makes them correct

**TC_TimeoutQueueNew** (`tc_timeout_queue_new.h`). State: a hash map from request
id to call, a multimap from deadline to entry, a list of unsent entries; each
holds iterators into the others, and a 32-bit id counter. Operations: `push`,
`get`, `getSend`, `popSend`, `erase`, `timeout`, `generateId`. Used by one network
thread. Hard: one operation that forgets one container leaves a dangling iterator
which is used much later. Correct when the three containers describe one store of
calls and an entry leaves it once.

**TC_LoopQueue** (`tc_loop_queue.h`). State: an array and two indices. One
producer and one consumer, no lock. Hard: each side acts on an old value of the
other side's index. Correct when it is a bounded FIFO.

**SeqManager, ServantProxyThreadData, FDInfo, CommunicatorEpoll hand-over**
(`ServantProxy.cpp`, `CommunicatorEpoll.cpp`). State: a free list of 2048 thread
numbers; per network thread an array `_notify` of handles, each owning a queue and
an event; what `handleNotify` is doing. Operations: taking and returning a number,
`initNotify`, push and `notify`, the handler's loop with its one-millisecond limit,
quit, terminate. Hard: wake-ups, handles deleted by one thread and used by
another, numbers reused, termination with callers blocked. Correct when an accepted
message is taken, nothing refers to a deleted handle, numbers are exclusive, and
everybody gets out at the end.

**ObjectProxy, AdapterProxy and TC_Transceiver** (calls). State: the calls waiting
for a connection or the registry; per server the timeout queue, the serial request
in progress, the connection with its send buffer and handshake state. Operations:
invoke, connect and its completion, flush, response, timeouts, close, keep-alive.
Hard: a send in the middle of a handler may close the connection and throw; events
are edge triggered; responses arrive late or out of order; serial mode matches
answers without an id. Correct when every call has one owner, is finished once
with its own answer, and nobody waits for ever.

**EndpointManager and AdapterProxy** (choice of server, shielding). State: the
round-robin position; per server the active flag, retry time, failure counters and
windows, connection-exception flag and count. Operations: choose, finish a call well
or badly, count a connection exception, shield, retry. Hard: six handlers change
the same flags; time windows; all servers failing at once. Correct when flags and
connection agree, live servers are preferred and all of them used, and a shielded
one is retried in time. With `tars_reconnect` a closed connection is also made again by the
network thread (`reConnect`, `doReconnect`), which does not ask whether the server is shielded.

**Communicator.** Owns all of it; `terminate()` stops statistics and network threads.

**TC_EpollServer and ServantHandle** (`tc_epoll_server.cpp`, `ServantHandle.cpp`,
`Current.cpp`). State: per network thread a `ConnectionList` (slots, free list of uids,
idle times) under a lock, the commands of other threads in `_sbuffer`; per adapter the
number of connections, outside that lock, and the receive queue with its size, one
queue per handler or one for all; what each handler is doing. Operations: accept in four
steps, read, close, idle timeout, the commands send and close, take a request, refuse
it, answer it at once or later from any thread, terminate. Hard: the accepting thread and
the network thread work on the same list and count; a uid is given to the next
connection while answers to the old one are on their way; a queue at its limit;
connections that end while their requests are queued; shutdown with everything in
progress. Correct when a uid names one connection, the count is exact, the handlers
learn of an end once and last, a request is answered at most once, whatever is queued
is handled and the server stops.

**Connection, the sending side** (`Connection::send`, `sendBuffer`, `handleOutputImp`,
`checkFlow`). State: the send buffer of the transceiver, `_messages` behind it, both
sharing the same byte buffers, `_bClose`, and the counts of the flow control. Hard: the
socket takes any part of what it is given; a buffer is referenced twice while it
shrinks; an edge-triggered event must come for whatever is left; the close must come
after the replies; the counts are changed by amounts that do not match. Correct when
the peer gets the replies whole, in order, each once, and then the close.

**TC_HashMap** (`tc_hashmap.cpp`, `tc_mem_chunk.cpp`). State, all of it in shared memory: a
modify log; per bucket a chain of blocks; the list by time of set and the list by time of
get; three tails (dirty, write-back, backup) into the first; the counts; the
allocator's free list. Operations: get, set, del, eviction, dirty flags, the
write-back and backup rounds, `recover`. Hard: the process may die between any two
stores; most stores go through the log, the allocator's and the block's data do not.
Correct when every update is atomic over a crash, the lists stay lists of the same
blocks, a free block is in none of them, and no round forgets a record.

Not modelled, with the reason in `PROJECT.json`: see "Not modelled" at the end of
section 5.

## 2. Modules

| module | models | kind |
|---|---|---|
| `CallStore` | what TC_TimeoutQueueNew promises: one store of calls | abstract spec |
| `TimeoutQueue` | TC_TimeoutQueueNew: map, multimap, list, ids that wrap | component, refines `CallStore` |
| `TimeoutQueueProofs` | | proofs |
| `BoundedFifo` | what TC_LoopQueue promises | abstract spec |
| `LoopQueue` | TC_LoopQueue, one memory access of an index or slot per step | component, refines `BoundedFifo` |
| `LoopQueueProofs` | | proofs |
| `ReqHandoff` | application threads, SeqManager, FDInfo, handleNotify, quit, terminate | composition over the FIFO |
| `ReqHandoffProofs` | | proofs |
| `CallContract` | what a caller is promised: an outcome, once | abstract spec |
| `RpcClient` | ObjectProxy, AdapterProxy, TC_Transceiver, epoll events | composition over the store, refines `CallContract` |
| `RpcClientProofs` | | proofs |
| `EndpointShield` | EndpointManager round robin, AdapterProxy shielding | component |
| `EndpointShieldProofs` | | proofs |
| `EpollServer` | accept, ConnectionList, receive queue, handler threads, processPipe, shutdown | composition of the server's threads |
| `EpollServerProofs` | | proofs |
| `ServerConn` | the sending side of one connection, byte by byte, with flow control | component |
| `ServerConnProofs` | | proofs |
| `SharedWords` | which words of a container are written without the log | used by the next two |
| `AtomicWrites` | what the modify log promises: the words of an update change at once | abstract spec |
| `ModifyLog` | `update`, `doUpdate` and a crash between any two stores | component, refines `AtomicWrites` |
| `HashMap` | TC_HashMap and the free list of TC_MemChunk | component over the log, implements `ModifyLog` |
| `HashMapProofs` | | proofs, of the log and of the map |
| `MC...` | symmetry sets and sequence constants for TLC | model checking |

How they fit: `ReqHandoff` uses the queue as the FIFO that `LoopQueue` implements,
and finishes a message that was taken at some later time, which `RpcClient`
justifies (`SyncCallReturns`); `RpcClient` uses the store as `CallStore` and lets the
choice of a server be any, which contains what `EndpointShield` does. `EpollServer`
sends a reply in one step and closes a connection once its replies are written;
`ServerConn` is what happens in between. `HashMap` extends `ModifyLog`: that its
operations keep the protocol of the log (`LogSpec`) and that any user of the protocol gets
atomic writes (`AllOrNothing`) are theorems, and properties of its run.

### Correspondence with the code

*TimeoutQueue.* `data`, `time` and `send` are the three containers; an iterator is the
identity of the node it points to, so a node left behind is a reference to
something that is gone. `MaxId` stands for 2^32 - 1, and ids come round at it.

*LoopQueue.* `iBegin`, `iEnd` and `p` are the members. The producer's check, each
write of a slot and each advance of `_iBegin` are separate steps, and so are the
consumer's check, read and advance. `last` and the program counters belong to the
model. The indices are plain integers in the code, which is a data race in C++;
the model takes loads and stores in program order (x86-64 with the code as the
compilers emit it). Weak memory is not covered.

*ReqHandoff.* `pc` says where an application thread is in `ServantProxy::invoke` or
in the destructor of its thread data; `free` is SeqManager's linked list as a
sequence; `slot` is `_notify`, `fd[t]` the FDInfo that thread t created, `queue[t]` its
queue; `net` is the network thread, idle or inside `handleNotify`. A handler is split
where another thread can see the difference: the loop of `handleNotify` is one step
per message. A thread runs once; a thread that is started later is another member of
`Threads`. Threads with a coroutine scheduler own a communicator and are left out.

*RpcClient.* The network thread runs one handler at a time, but a handler contains
loops and calls that may throw. `todo` is the rest of the running handler; an
exception empties it, as the `catch` in CommunicatorEpoll does. `event` is the epoll
event that is running, needed because an exception also decides what happens to
*its* connection (`Thrown`). `mode`, fixed in the initial state, is one of the
constant `Modes`: parallel or serial, with or without handshake, socket errors and TLS
errors, the limit of the unsent list, and which of the calls are made. `msg[m].fin` counts completions. Deadlines are a set of
calls whose time has passed. The server may answer any request it was sent, in any
order, or never; a connection may close at any time.

*EndpointShield.* One record per adapter with the members of AdapterProxy that the
shielding uses. A time stamp is the seconds left until it, so the clock needs no
bound; `_nextFinishInvokeTime` is compared with `>` and the others with `>=`, hence the
`+ 1`. `last` records the choice for the properties. The ratio of failed calls is the
default, one half. `again` counts the entries of an adapter in `_reconnect`: every close of a TCP
connection adds one (`onCloseCallback`, when `tars_reconnect` is set), a refused `connect()`
included. The map is unordered and keyed by the millisecond, so `doReconnect`, which stops at the
first entry that is not due, serves any of the adapters that have one, each once per pass; an
entry may be taken over by another connection that closes in the same millisecond (`reConnect`), and
one whose `connect()` throws stays. `doReconnect` passes by the shield: `NoEarlyRetry` allows it,
and it alone, to connect to a shielded server early.

*EpollServer.* `vConn`, `free` and `uid` are the ConnectionList, `curConns` the count of
the adapter. A step ends where another thread can see the difference: between taking a
uid, listing the connection, counting it and registering its events; between counting
the contexts of a read and queueing them; between deleting a connection and counting
it. `checkTimeout` holds the list's lock over several of these, and `AcceptUid` waits for
it (`Unlocked`). A context carries the connection it came on so that properties can speak
of it; the commands look it up by uid, as the program does. A command that finds a
connection still being accepted deletes it under the thread that accepts it, which is
undefined behaviour: both threads end there ("crashed"), and `ClosedIsGone` and `ShutdownCompletes`
allow for it. `opt`, fixed, is the adapter's configuration with the bounds that go with it.
`opt.timeout` is the idle time of the endpoint (`-t`): `checkTimeout` closes an idle connection only if it is
positive (`tc_epoll_server.cpp:1219`). `replies`, `closeTold` and `ahead` are histories. One network thread, one TCP adapter, the
open mode NET_THREAD_QUEUE_HANDLES_THREAD.

*ServerConn.* A reply is a number in the order of the pushes; `left[r]` is what its
buffer still holds, in the send buffer and in `_messages` alike because they share it. A
write may take any number of bytes. `timeout` is the idle time of the endpoint, 0 or positive. The flow control's five seconds are the flag
`window`; its samples are `checkSend`; `SlowChecks` and `GrowChecks` are 3 and 12 in the code.

*ModifyLog.* The memory is a function from words to values. Entries are appended to the
log, the status is set to 2, the entries are copied one per step, and the log is reset. A
crash (`Crash`) keeps the memory and forgets the loop index; the next operation opens with
`doUpdate()`. Stores are taken in program order. A store past the log (`WrittenPast`, in `SharedWords`)
changes the words of one member of `Groups`, or of one object that is `Loose`: no link outside a set of objects
leads into the set. Either way the log holds no write to them. `AtomicWrites` allows the same and
nothing more, so that a `doUpdate` that copied its entries before the log is finished, and died half way, does
not satisfy it: it would change links of blocks in use one by one.

*HashMap.* An operation is the list `todo` of the steps it still has to make, one store
of shared memory each; `Die` is possible before each of them. The words are the members
of the header, of the blocks and of the buckets. `mode` says which operations are called, on
how many blocks, how often and with how many crashes. The allocator's free list and a
block's data are written directly, not through the log, as in the code. The counts are
unsigned and wrap at `MaxCount` (`Inc`, `Dec`), which is at least the number of blocks. `find` walks
the links (`Follow`), so a wrong link leads it astray as it would in the program. Each part of a
log that the code gathers for one list or chain has its operator (`Unlink`, `Unchain`,
`PutFirst`, `PutInChain`, `MoveToHead`, `TailToHead`, `TailsPast`, `Uncount`). `HashGroups` lists what the code writes past
the log at any time: the count of used chunks, the three tails of the rounds, the two flags of a record and
its data; everything else it writes so is a block that is linked nowhere (`makeNew`, the `memset` of `deallocate`). `Init` is
`create()` on memory that is zero, as fresh shared memory and fresh files are: `create()` stores neither
`_iOnlyKeyCount` nor the head of the log (`tc_hashmap.cpp:1426`), so on memory of the caller's own that
is not zero (`MemStorePolicy`, `jmem_policy.h:42`) `CountsDrift` and the first `doUpdate()` are not covered.

## 3. Runs

TLC, two workers. "Bounds" says why the interesting cases happen.

| run | states | checks |
|---|---|---|
| `timeout_queue` | 82,080 | three containers agree; refines `CallStore` |
| `loop_queue` | 111,800 | checks still hold when used; refines `BoundedFifo` |
| `handoff` | 248,034 | no lost wake-up, nothing lost, handle exists; accepted is taken, quit drops the handle |
| `handoff_numbers` | 715,237 | numbers exclusive, no dangling handle, with exceptions and termination |
| `rpc_calls` | 1,704,998 | parallel and serial mode: one owner, own answer, no stall, order, one in flight; refines `CallContract` |
| `rpc_live` | 27,932 | handshake, pings, TLS errors: callers woken, callbacks run, list bounded and flushed |
| `shield_safety` | 627,333 | flags consistent, connected preferred, no early retry but by a reconnection |
| `shield_live` | 84,976 | everyone served, shielded retried |
| `server_conn` | 122,878 | replies whole and in order, nothing stranded, close last, backlog counted; replies arrive, closes happen, a dead socket is dropped once looked at |
| `epoll_server` | 382,088 | uids and count exact, assertions hold, close told once, one answer, requests of a connection one at a time, stale commands find nobody; queues handled, connections given up, shutdown completes |
| `hashmap` | 432,722 | lists, free list, tails, keys, log size, dirty and backup rounds after crashes; keeps the protocol of the log; updates are atomic |

Invariants are conjunctions of named parts where the parts make one statement:
`Consistent` (of TimeoutQueue and of LoopQueue), `CallsHeld`, `SendOrderKept`, `KeepsAll`,
`FlagsAgree`, `RepliesIntact`, `ListExact`, `QueueOrdered`, `MapSound`, `RoundsCover`, and the temporal
`AskedIsDone`; the comment at each part says what it adds. The type invariants of ReqHandoff,
EndpointShield and ServerConn are in no run because they are theorems.

Every property of a passing run has a mutant in `PROJECT.json`: a plausible bug in
one definition under which TLC finds the property violated. The mutants stand in
the modules, marked as such, in front of the definition they replace.

**Bounds.** *timeout_queue*: three ids make the counter come round while calls of the
last round are stored; two messages and deadlines 0 to 2 give equal, passed and
future deadlines. *loop_queue*: size 3 with batches up to 3 gives a full ring, an
empty one, batches that fit exactly, and the wrap inside a batch. *handoff*: two
threads with a number each, three calls and a queue of two, so a queue is full,
emptied during a push, and left half full by the millisecond limit. No number is used
twice there, so `KeepsAll` says nothing of reuse.
*handoff_numbers*: three threads share one number, so it is reused twice in any
position of the quit. *rpc_...*: two or three calls and one or two connections with
an unsent limit of 0 or 1: queues at their limit, calls waiting behind others, a
send failing while other calls are queued, calls moved between connections. The
ids of `RpcClient` do not come round (TimeoutQueue has that), which bounds its state
space together with one use of each message. *shield_...*: windows and limits of 0 to
2 seconds and calls; `MaxInvoke` caps the counters, which the code resets or
shields at these limits; `MaxReconnects` caps the entries of one adapter in `_reconnect` at one, and
a second entry would only make the same connection later. `shield_live` has no reconnection: a
shielded server is retried by the calls alone. *rpc_calls*: its two modes are parallel with an unsent list
of one and serial with handshake and no unsent list, both with failing sends.
*server_conn*: four replies of two bytes and one close; the send buffer, `_messages` and the pipe
each hold something at once, a reply is cut in half, and the limits of 3 and 1 bytes with
2 and 3 samples let every branch of the flow control be taken; the endpoint has an idle time
or none. *epoll_server*: three
connections for two uids, so a uid is used again while a request of its first owner is
open, and two requests of one connection, read in one batch or in two; each with one queue
per handler (two handlers, capacity 2, refused from 1 on) and with one shared queue of capacity 1, so
that the queue is overloaded and full; the options with one connection also without an idle
time. *hashmap*: up to three blocks and three keys
in one bucket, so that a removal has a block before and behind it in every list and
an insertion evicts; nine modes of three to eight operations, three of them with write-back rounds
(alone, among deletions, and among deletions and evictions), four with one or
two crashes, because the last operation is cut at every store and the next one
recovers; counts up to 7, which no run of that length exhausts upwards, while one that drifted below
zero comes round.

Deadlock is checked in all runs but those of ReqHandoff, ServerConn and EpollServer, where all
threads may have ended, the connection may be deleted and the server may have stopped.
HashMap ends with an explicit `Stop`.

**Fairness.** *RpcClient*: a handler ends (WF), time passes for every call (WF), and
the timeout scans are strongly fair because every turn of the epoll loop runs the timers
that are due, whatever else is ready. Nothing is assumed of the network, the
server or the registry: callers are woken even if none of them ever does anything.
*ReqHandoff*: threads inside a call go on and the network thread serves every
notified handle; nothing forces a thread to call, to end or to terminate, and
spurious wake-ups are possible but not promised. *EndpointShield*: the application
keeps calling and time passes. *ServerConn*: `processPipe` runs in every turn of the loop;
the peer reads, so a full socket becomes writable (without it no reply need arrive, and
the flow control is what the code has against such a peer); the idle time of a socket that was
closed runs out, where the endpoint has one. *EpollServer*: every thread runs; a servant returns; a connection
being closed gets written (`CloseHappens` of ServerConn); the idle time of a broken
connection runs out, where the endpoint has one. An endpoint with `-t 0` (`unit-test/server/hello.conf:420`) has none: a
connection whose socket a throw closed then stays in the list, with its uid and its count, until the
next command for it, and `AskedIsDone` and `ClosedIsGone` promise no more than that. Clients promise nothing, and a kept request need never be answered.

### Disagreements found

One is a run with `expect: violation`; `PROJECT.json` quotes the lines: in `rpc_send_throws` a
socket error in the first `send` throws past the push into the timeout queue and the
synchronous caller waits for ever (`SyncCallReturns`).

The others are visible in the same models; the property is defined in the module
and TLC finds a counterexample with the constants given here, but no run is kept:

- `TerminateWakesCallers` (ReqHandoff, one thread and one synchronous call, `Terminates`, `FairSpec`):
  `terminate()` stops the network thread and does not wake callers that are blocked
  (`CommunicatorEpoll.cpp:139`, `Message.cpp:53`, `ServantProxy.cpp:914`).
- `ChosenIsTried` (EndpointShield, one TCP server, `MinTimeoutInvoke` 2, `CheckTimeoutInterval` 1,
  `FrequenceFailInvoke` 2, `MinFrequenceFailTime` 0, `TryTimeInterval` 1, `MaxConnectExc` 1,
  `MaxInvoke` 2, no options): with all servers shielded for failed calls, the one that is chosen
  is not connected to (`EndpointManager.cpp:894`, `AdapterProxy.cpp:703`; the comment at
  `EndpointManager.cpp:893` and `Message.h:37` say it is tried).
- `FlowCloseJustified` (ServerConn, constants of `ServerConn.cfg` with `MaxReplies` 5): `_messageSize`
  does not fall for replies that are written in full at once, so the flow control may close a
  connection with little unsent (`tc_epoll_server.cpp:724`; comment at `:827`). What holds
  instead is `BacklogCounted`: never too little is counted.
- `ReplyOwnConnection` (EpollServer, constants of `EpollServer.cfg`): the uid of a connection is given
  to the next one, and a late reply is sent to it; `tc_epoll_server.h:496` calls it
  "连接的唯一id". `StaleFindsNobody` says when this cannot happen: the free list is a
  FIFO, so as many connections as there were free uids must come first.
- `setDirtyAfterSync` (HashMap): the dirty tail is moved to a record marked dirty again after a failed
  write-back only if it stands right in front of that record; otherwise the record stays where no
  round looks, and `DirtyCovered`, which leaves this operation out, fails with it
  (`tc_hashmap.cpp:1774`; `tc_hashmap.h:1714` says it becomes dirty data again).
- `eraseExcept` (HashMap): counts only the records that have a value while the header calls it the
  number of records evicted (`tc_hashmap.cpp:2389`, `tc_hashmap.h:2190`).
- `AsyncCalledBack` (RpcClient, one asynchronous call): a call that fails before it has an
  adapter is only logged, its callback never runs and the message is leaked
  (`ObjectProxy.cpp:288`).
- `FinishedHasStatus` (a serial mode with `sslErrors`): `doInvoke_serial` finishes a call whose
  TLS write failed without a status, as "in progress" (`AdapterProxy.cpp:505`, `Message.h:150`).
- `SerialNeverOneWay` (a serial mode with a ping): the keep-alive ping is one-way and
  fails the assertion of `invoke_connection_serial` (`AdapterProxy.cpp:1038` and `:324`).
- `NotifyFdExists` (two threads, one number): a number reused before the network
  thread handled the end of its last owner; the late handler clears the new
  owner's handle and its next call fails the assertion of `notify`
  (`CommunicatorEpoll.cpp:80` and `:308`). With 2048 numbers and a FIFO free list it
  needs as many thread starts in between as there are free numbers.
- `QuitSendsAll` (`Throws`): an exception in `handleNotify` leaves the rest of the queue without a
  notification; if the thread has ended, for ever (`CommunicatorEpoll.cpp:564`; the comment
  at `:96` says everything is sent).
- `TerminateEnds` (`Terminates`): when one event lasts longer than the second `syncCallback` is
  given, `handleTerminate` never runs and `terminate()` joins a thread that was not
  told to stop (`CommunicatorEpoll.cpp:127`, `Communicator.cpp:680`).

The models keep the behaviour of the code; the passing runs switch off the cause
(`sendThrows`, `Throws`, `Terminates` false, or enough thread numbers) only where
the property fails because of it.

## 4. Proofs

Checked by tlapm with Z3, Zenon and LS4; no step is left without a proof.

**TimeoutQueueProofs.** `Consistent` (types, every multimap node points to a stored
entry that points back, the unsent list holds exactly the entries not sent, each
once) is inductive as it stands, while no conjunct is alone: an operation that
removes an entry must know that the nodes it unlinks are the only ones of it. `QueueIteratorsLive` follows; `QueueImplementsStore` maps
`entry` to the map, `unsent` to the list, and each operation to the store's
operation of the same name; the earliest multimap node is an entry with the least
deadline. `QueueSendListExact` is its other part.

**LoopQueueProofs.** `Consistent`: indices in range; between check and use the free
room (or the content) can only have grown, because only the other side moves the
other index and only in that direction; the slots in use are written. From
`ChecksStillHold` follows the refinement: a push of one slot appends to the
abstract queue when `_iBegin` advances, a pop removes when `_iEnd` does, and slot
arithmetic modulo the capacity is done by cases without division. Holds for every
size, batch length and value set. `RingContentWritten`: what is popped has been written.

**ReqHandoffProofs.** `HandoffInv` says who owns what: besides the types,
`NumbersExclusive` and `HandlesLive`, a thread that has started has a number; one
that did not attach yet owns no handle and no queue; a queue has one handle, a handle
one number, and a handle marked for deletion none; the handle under a running
thread's number is the one of its queue. The strengthening is needed because a
handle may be deleted only when it has left `_notify`, and because `initNotify` reuses
a handle that is still there. It holds with exceptions, termination and reuse of
numbers.
`WakeupsNotLost` adds the wake-up invariant, under the assumption that invoke does
not throw; the failure of `QuitSendsAll` shows that it is needed.
`HandoffKeepsAll` (no accepted message is lost with its queue, and `notify` finds the
handle) needs as many numbers as threads and no `terminate()`. Its argument: the free
list is a FIFO whose first elements are numbers never used, one for each thread not yet started
(`UnusedFirst`), so a thread gets a number nobody had and its slot is its own (`OwnHandle`).

**RpcClientProofs.** `ClientInvariant` proves `ClientInv`, the conjunction of four parts, for any
number of calls and connections and for every mode: parallel and serial, with handshake, failing
sends, TLS errors.
*AdapterInv*, per connection: the ids of the store grow with time; the unsent ones are stored, in
increasing order and within the limit; what was sent is older than what is unsent, and is the call its
id says; in serial mode one request is on its way, it is `_requestMsg`, and
that one is stored.
*HandlerInv*, of the running handler: only its first item carries a message, and an item that flushes
or completes a request belongs to the connection of the event.
*StallInv*: a connection that has something unsent and could send it has a flush or a completion left in
`todo`, unless the epoller dropped it. *OwnInv*: there is a function from calls to places (new, queue, store, handler,
lost, done) that agrees with the containers. The place is what makes the ownership inductive: one lemma
per handler shows that it moves at most one call, and from where to where (`OwnStep`,
`Progress`), and everything said of a call is then a statement about its place. `CallHasOneOwner`
counts the containers that hold a call in each place; `AnswersMatch` uses that a response is looked up
by id and the ids of the store are never given twice; `SendsInOrder`, `NothingStalls` and `CallsAreHeld` follow from the
parts (a call is lost only by a send that throws, or as an asynchronous call that never had an adapter).
`ClientKeepsContract` is the refinement: the phase of `CallContract` is a function of the place and every
handler step is a contract step of one call or a stutter. These theorems also hold where `rpc_send_throws` shows
a caller waiting for ever: they say what is never done wrongly, not that something is done.

**EndpointShieldProofs.** Every handler changes an adapter by one of a dozen
functions; one lemma per function shows that it keeps a record `Sound` (its types; a
connection exception implies shielded; shielded TCP implies not connected), then
one step per action. `ConnectedPreferred` follows a scan of the round robin: every
adapter is looked at once (arithmetic modulo the number of servers), and one that was connected
and active when the scan began would have been taken. `RetriesNotEarly` is an action property and needs
only that the records are `Sound`, which includes that nothing is in `_reconnect` without `tars_reconnect`.

**EpollServerProofs.** `ServerInvariant` proves `ServerInv`, three invariants on top of each other, for any
connections, uids, requests, handlers and limits, in both queue modes. *ListInv*: every uid is in the
free list once, or held by a thread in the middle of accept or delete, or names the one connection listed
under it (`UidsSplit`); a connection with a socket is listed, and what else is listed is being
accepted (`LiveListed`); the limit still leaves room for the connection that accept let through
(`Reserved`); a returned uid is where it was put in the free list, less those taken since (`ReturnedUid`); the count of the adapter differs from the list
by exactly what the two threads are in the middle of, which their program counters tell. It is why `ListIsExact` holds although the count is outside the list's lock. *QueueInv*: a queued
context belongs to a connection that was served, nothing of a connection follows its close,
and `_iRecvBufferSize` is exactly what is queued, about to be queued and just taken (`SizeExact`); with it `QueueIsOrdered`.
*AnswerInv*: a function from requests to places (unsent, batch, queue, handler, async, pipe, answered)
agrees with every container, as in `RpcClientProofs`; with it `AnswersOnce`. `StaleIsHarmless` follows
from `ReturnedUid`: the free list is a FIFO, so a uid is not given again before all that were free
in front of it.

**ServerConnProofs.** `ConnInv`: what is in the send buffer, in `_messages` and in the pipe is one
run of consecutive replies behind those that arrived (`Lined`, `PipeInOrder`), of which only the
first can be incomplete and only while it is in the send buffer; messages wait only
behind a send buffer that is not empty, with a write event to come; a close command in
the pipe or `_bClose` remembers how many replies were in front of it (`CloseNoted`). Order, no mixing,
nothing stranded and close last follow (`RepliesStayIntact`, `MessagesNotStranded`, `CloseIsLast`). `WriteFacts` is the lemma that matters: what a write of any
number of bytes leaves. `FlowInv` adds the counts, which stay natural numbers although
`_messageSize` is decreased by other amounts than it was increased by: it always
covers what is unsent. For any number and size of replies and any limits.

**HashMapProofs.** First the log. `LogInv`: the status says which part of the log protocol is under
way, and of a finished log the entries copied so far are in the memory unless a later
one of them wrote the same word (`Reached`). `LogAtomic` maps the memory to what it will be once
the log is redone: a crash and a second copy from the start do not change that,
finishing the log changes it once, by all the words gathered, and the copies change nothing. It
holds for any set of words, groups and objects and any number of crashes.

Then the map. `MapInvariant` proves `MapInv` for any blocks, keys, buckets, hash function and modes, and
any number of crashes, each between any two stores. What makes it inductive is to speak of sequences:
`MapOK` says which sequences the links of a memory spell in both directions (`Linear`), that the two
lists and the chains together hold the same blocks, that the tails point into them and that a key has one
record, in its bucket. `DataInv` says so of two memories: of the one a process that dies now would
recover (`Recovered`), and of the one the running operation is about to make (`Coming`). The log
entries of each operation then become an operation on sequences: taking one element out (`Without`), putting one in front (`Pushed`),
moving one to the front (`Moved`); one lemma per operator of the model says so (`UnlinkEffect`, `PutFirstEffect`,
`MoveToHeadEffect`, `UnchainEffect`, ...), one per operation puts the parts together (`EraseEffect`,
`MakeNewEffect`, `RefreshSetEffect`, ...), and that the links decide the sequence (`WalkUnique`, `LinearFollow`)
is the only place where a list is walked. `ControlInv` says what may still be to do: which step may follow which and what
stands behind a commit (`Follows`, `Commits`), how much of the log is in use before each step (`Room`, which gives
the assertion `LogFits`), and that outside a commit the log holds nothing but counts. `Serves` is what each step may
rely on: that the operation's block is linked, or is in neither list nor free list, and that a key about to be inserted
has no record. `AllocInv` ties the allocator's count to its list, which differ by one in the middle of an allocation.
`MapIsSound` follows (`MapSound`: a process that attaches after any crash finds a sound map), and so does
`MapKeepsProtocol`, because an update writes words that exist only if a block in the middle of a list has
neighbours, and because no link leads to a block that is in no list (`UnlinkedLoose`: the blocks outside the lists
are the set that `Loose` asks for) while the log holds only counts whenever a store goes past it; with `LogAtomic` it
gives `MapIsAtomic`.

Assumptions are those named in the modules, which TLC evaluates in the runs: sizes
are positive naturals, null values are not members, thread numbers are distinct,
options are Booleans, the round-robin list is not empty and has no duplicates, a call
whose callback runs in a callback thread is neither synchronous nor called back in the network
thread (`KindAssumption`), and only a TLS connection, which has a handshake, returns errors from a send (`SslAssumption`). Of the hash map:
the blocks are finitely many and a count can hold their number (`MapAssumption`), the null address is no block, key or bucket, a
mode has no more blocks than there are (`MapModes`), and the words of the log are those of the map (`MapWords`).

**Only model-checked:** all liveness properties (fairness and ENABLED are outside the
prover); of `HashMap` the invariants `CountsDrift` and `RoundsCover` (section 5 says how they could be proved).
The linked free list of SeqManager as a sequence
would need induction over data, which is outside the prover.

## 5. Plan

Done in this order: the store of calls, the life of a call on top of it, the queue and the
hand-over in front of it, the choice of a server; then the server's threads, the sending
side of a connection, and the hash map over its log.

Next:

1. `EndpointRefresh`: `refreshReg`, `doEndpoints`, `doEndpointsExp`, `updateEndpoints`
   with the endpoint cache and concurrent requests to the registry; hash and
   static-weight selection; abstract spec: the active list is some recent answer.
2. Util concurrency: `TC_ThreadQueue` with `notifyT`, `TC_CasQueue` and AsyncProcThread,
   `TC_ThreadRWLocker`, `TC_Monitor`, `TC_Timer` (a timer deleted while it fires), the
   coroutine scheduler's wake-up, promises; the life of ReqMonitor's memory.
3. The other containers on the modify log (`TC_MemQueue`, `TC_RBTree`, `TC_Multi_HashMap_Malloc`,
   the compact maps) and the chunks behind a block of TC_HashMap.
4. The server's other open modes (merged threads and the coroutine modes), UDP adapters, several
   network threads, push responses.
5. Proofs of `CountsDrift` and `RoundsCover`: a second pass over the steps of `HashMap` on top of `MapInv`, which
   says for each what it leaves of the counts and flags, and of the order of the two lists between a tail and
   the head.

### Hazards known and not yet covered

Besides those that `PROJECT.json` lists with a note:

- client: one-way pings in serial mode (`AdapterProxy.cpp:1038`); a failing TLS write while the unsent
  list is flushed (`AdapterProxy.cpp:505`); `syncCallback` giving up after a second
  (`CommunicatorEpoll.cpp:127`); all servers shielded (`EndpointManager.cpp:894`), each stated by a
  property under "Disagreements found". Finer than the models: `_notify[iSeq]` read and
  written without a lock (`CommunicatorEpoll.cpp:323`); an exception of another adapter's send
  that makes the epoller drop the running connection (`tc_epoller.cpp:634`, the state is in
  `RpcClient`, and `NoStall` leaves it out); a connect that completes at once inside `doInvoke`'s loop
  (`ObjectProxy.cpp:217`).
- server: `_messages` of a client that does not read grows without a bound when
  `BackPacketBuffLimit` is 0, the default (`tc_epoll_server.cpp:953`); the timeout of empty connections
  steps an erased iterator (`:1256`) and is not modelled (`Application` always sets it, to five seconds or more: a
connection that never sent anything is closed by it even with `-t 0`); `closeConnections` copies the list without its
  lock (`:1070`); a queue at exactly its capacity is neither overloaded nor full (`:1570`).
- hash map: a crash between storing data and moving the record to the head of the list leaves a
  dirty record behind the dirty tail (`tc_hashmap.cpp:1916`), which is why `DirtyCovered` is stated
  without crashes; `clear()` neither finishes nor drops a log left by a dead process
  (`:1530`) and is not modelled.

### Not modelled

- *Statistics, properties, remote log, configuration and notification, node keep-alive,
  administration commands*: clients of framework services around the core; no
  call or request depends on them.
- *Application*: sequential start-up from configuration files.
- *Protocol parsers, codecs, network buffer, ciphers, encodings, jmem*: functions of
  bytes, where a model would be as long as the code.
- *IDL compilers* (`src/tools`): batch programs with no state over time.
- *Windows port of epoll* (`src/util/src/epoll_windows`) and other vendored code.
- *Examples, game server, tests*: read as statements of intent only.
- Of modelled components: weak memory, TLS details, IPv6 and addresses, tracing, the
  paths listed under "partly" in `PROJECT.json`.

## 6. Running

In this directory: `tlc -workers 2 -config X.cfg M` for a run (`PROJECT.json` has the
pairs), `tlapm M.tla` for a proof module.
