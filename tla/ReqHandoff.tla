------------------------------ MODULE ReqHandoff ------------------------------
(***************************************************************************)
(* How a call gets from an application thread to a network thread          *)
(* (CommunicatorEpoll), and how both let go of each other.                 *)
(*                                                                         *)
(* A thread that makes its first call takes a number from SeqManager and   *)
(* gives the network thread a queue and a notification handle (FDInfo)     *)
(* under that number.  A call pushes its message into the queue and then   *)
(* notifies the handle; the network thread takes the messages from the     *)
(* queue.  A thread that ends asks the network thread to drop the handle   *)
(* and gives the number back without waiting, and the communicator may be  *)
(* terminated at any time.                                                 *)
(*                                                                         *)
(* The queue is LoopQueue, used through what BoundedFifo promises.  What   *)
(* the network thread does with a message it took is RpcClient; here the   *)
(* message is finished at some later time (Finish).  Threads that run a    *)
(* coroutine scheduler have a communicator of their own and are left out.  *)
(***************************************************************************)
EXTENDS Naturals, Sequences, FiniteSets

CONSTANTS Threads,      \* the application threads, each runs once
          SyncThreads,  \* those that make synchronous calls
          Seqs,         \* the numbers of SeqManager, in their first order
          MaxCalls,     \* bound on the calls of one thread
          Limit,        \* getNoSendQueueLimit()
          Throws,       \* may ObjectProxy::invoke throw
          Terminates,   \* may the communicator be terminated
          NULL

ASSUME SyncAssumption == SyncThreads \subseteq Threads
ASSUME SeqsAssumption == /\ Seqs \in Seq(Nat)
                         /\ \A i, j \in DOMAIN Seqs : Seqs[i] = Seqs[j] => i = j
ASSUME NullAssumption == NULL \notin Threads /\ NULL \notin Nat
ASSUME BoundsAssumption == MaxCalls \in Nat /\ Limit \in Nat \ {0}
ASSUME FlagsAssumption == Throws \in BOOLEAN /\ Terminates \in BOOLEAN

Calls == Threads \X (1..MaxCalls)
SeqNos == {Seqs[i] : i \in DOMAIN Seqs}

VARIABLES free,    \* the free list of SeqManager, oldest first
          pc,      \* where each thread is
          seq,     \* _reqQNo
          made,    \* how many calls each thread has made
          state,   \* what became of each call
          queue,   \* the ReqInfoQueue that each thread created
          fd,      \* the FDInfo that each thread created
          slot,    \* _notify: the FDInfo under each number
          quits,   \* threads whose handleServantThreadQuit is pending
          net,     \* the network thread: idle, or inside handleNotify
          term     \* "no", "flagged": _terminating and handleTerminate posted,
                   \* "done": it ran, "abandoned": terminate() gave up on it

vars == <<free, pc, seq, made, state, queue, fd, slot, quits, net, term>>
thread == <<free, pc, seq, made>>

FDInfo == [live : BOOLEAN, msgQueue : Threads \cup {NULL},
           autoDestroy : BOOLEAN, armed : BOOLEAN]
NoFd == [live |-> FALSE, msgQueue |-> NULL, autoDestroy |-> FALSE, armed |-> FALSE]
IdleNet == [pc |-> "idle", fd |-> NULL]

Current(t) == <<t, made[t]>>

Init ==
  /\ free = Seqs
  /\ pc = [t \in Threads |-> "start"]
  /\ seq = [t \in Threads |-> NULL]
  /\ made = [t \in Threads |-> 0]
  /\ state = [c \in Calls |-> "new"]
  /\ queue = [t \in Threads |-> <<>>]
  /\ fd = [t \in Threads |-> NoFd]
  /\ slot = [s \in SeqNos |-> NULL]
  /\ quits = {}
  /\ net = IdleNet
  /\ term = "no"

-----------------------------------------------------------------------------
(* The application thread. *)

(* Mutant: get() leaves the number on the free list. *)

getKeeps(t) ==
  /\ pc[t] = "start" /\ free # <<>>
  /\ seq' = [seq EXCEPT ![t] = Head(free)]
  /\ pc' = [pc EXCEPT ![t] = "attach"]
  /\ UNCHANGED <<free, made, state, queue, fd, slot, quits, net, term>>

(* ServantProxyThreadData(): a number for the thread. *)
get(t) ==
  /\ pc[t] = "start" /\ free # <<>>
  /\ seq' = [seq EXCEPT ![t] = Head(free)]
  /\ free' = Tail(free)
  /\ pc' = [pc EXCEPT ![t] = "attach"]
  /\ UNCHANGED <<made, state, queue, fd, slot, quits, net, term>>

(* What is in the queue of q is freed with the queue, not sent. *)
Lost(q) == [c \in Calls |-> IF c \in {queue[q][i] : i \in DOMAIN queue[q]}
                              THEN "lost" ELSE state[c]]

(* A new queue under the number of t.  A handle that is still there is     *)
(* reused, and the queue it had loses its last owner.                      *)
initNotify(t) ==
  LET f == slot[seq[t]]
  IN /\ pc[t] = "attach" /\ term # "done"
     /\ IF f = NULL
          THEN /\ fd' = [fd EXCEPT ![t] = [live |-> TRUE, msgQueue |-> t,
                                           autoDestroy |-> FALSE, armed |-> TRUE]]
               /\ slot' = [slot EXCEPT ![seq[t]] = t]
               /\ UNCHANGED <<state, queue>>
          ELSE /\ fd' = [fd EXCEPT ![f].msgQueue = t]
               /\ state' = Lost(fd[f].msgQueue)
               /\ queue' = [queue EXCEPT ![fd[f].msgQueue] = <<>>]
               /\ UNCHANGED slot
     /\ pc' = [pc EXCEPT ![t] = "idle"]
     /\ UNCHANGED <<free, seq, made, quits, net, term>>

(* weak_ptr::lock: some handle still owns the queue. *)
QueueLive(t) == \E f \in Threads : fd[f].live /\ fd[f].msgQueue = t

(* Up to push_back: no queue, a full queue, or the message is accepted. *)
invoke(t) ==
  LET c == <<t, made[t] + 1>>
  IN /\ pc[t] = "idle" /\ made[t] < MaxCalls
     /\ made' = [made EXCEPT ![t] = made[t] + 1]
     /\ \/ /\ ~QueueLive(t)
           /\ state' = [state EXCEPT ![c] = "released"]
           /\ UNCHANGED <<pc, queue>>
        \/ /\ QueueLive(t) /\ Len(queue[t]) >= Limit
           /\ state' = [state EXCEPT ![c] = "full"]
           /\ UNCHANGED <<pc, queue>>
        \/ /\ QueueLive(t) /\ Len(queue[t]) < Limit
           /\ state' = [state EXCEPT ![c] = "queued"]
           /\ queue' = [queue EXCEPT ![t] = Append(queue[t], c)]
           /\ pc' = [pc EXCEPT ![t] = "pushed"]
     /\ UNCHANGED <<free, seq, fd, slot, quits, net, term>>

(* Its assertion that the handle exists stops the process. *)
notify(t) ==
  LET f == slot[seq[t]]
  IN /\ pc[t] = "pushed" /\ f # NULL
     /\ fd' = [fd EXCEPT ![f].armed = TRUE]
     /\ pc' = [pc EXCEPT ![t] = IF t \in SyncThreads THEN "wait" ELSE "idle"]
     /\ UNCHANGED <<free, seq, made, state, queue, slot, quits, net, term>>

(* ReqMonitor::wait: the condition is looked at once before the thread     *)
(* blocks.                                                                 *)
wait(t) ==
  /\ pc[t] = "wait"
  /\ pc' = [pc EXCEPT ![t] = IF state[Current(t)] = "finished" \/ term # "no"
                               THEN "idle" ELSE "blocked"]
  /\ UNCHANGED <<free, seq, made, state, queue, fd, slot, quits, net, term>>

(* It is looked at again when the network thread notified the monitor. *)
wake(t) ==
  /\ pc[t] = "blocked" /\ state[Current(t)] = "finished"
  /\ pc' = [pc EXCEPT ![t] = "idle"]
  /\ UNCHANGED <<free, seq, made, state, queue, fd, slot, quits, net, term>>

(* Or when a wake-up without a reason finds the communicator terminating. *)
spuriousWake(t) ==
  /\ pc[t] = "blocked" /\ state[Current(t)] # "finished" /\ term # "no"
  /\ pc' = [pc EXCEPT ![t] = "idle"]
  /\ UNCHANGED <<free, seq, made, state, queue, fd, slot, quits, net, term>>

(* ~ServantProxyThreadData(), first half. *)
notifyServantThreadQuit(t) ==
  /\ pc[t] = "idle"
  /\ pc' = [pc EXCEPT ![t] = "quitting"]
  /\ quits' = IF term = "done" THEN quits ELSE quits \cup {t}
  /\ UNCHANGED <<free, seq, made, state, queue, fd, slot, net, term>>

(* Second half: the number goes to the end of the free list. *)
del(t) ==
  /\ pc[t] = "quitting"
  /\ free' = Append(free, seq[t])
  /\ pc' = [pc EXCEPT ![t] = "gone"]
  /\ UNCHANGED <<seq, made, state, queue, fd, slot, quits, net, term>>

-----------------------------------------------------------------------------
(* The network thread. *)

(* Mutants: the number keeps its handle, or nobody is woken to drop it. *)
handleServantThreadQuitKeeps(t) ==
  /\ net = IdleNet /\ term # "done" /\ t \in quits
  /\ quits' = quits \ {t}
  /\ fd' = IF slot[seq[t]] = NULL THEN fd
           ELSE [fd EXCEPT ![slot[seq[t]]].autoDestroy = TRUE,
                           ![slot[seq[t]]].armed = TRUE]
  /\ UNCHANGED <<thread, state, queue, slot, net, term>>

handleServantThreadQuitSilent(t) ==
  /\ net = IdleNet /\ term # "done" /\ t \in quits
  /\ quits' = quits \ {t}
  /\ fd' = IF slot[seq[t]] = NULL THEN fd
           ELSE [fd EXCEPT ![slot[seq[t]]].autoDestroy = TRUE]
  /\ slot' = [slot EXCEPT ![seq[t]] = NULL]
  /\ UNCHANGED <<thread, state, queue, net, term>>

handleServantThreadQuit(t) ==
  /\ net = IdleNet /\ term # "done" /\ t \in quits
  /\ quits' = quits \ {t}
  /\ fd' = IF slot[seq[t]] = NULL THEN fd
           ELSE [fd EXCEPT ![slot[seq[t]]].autoDestroy = TRUE,
                           ![slot[seq[t]]].armed = TRUE]
  /\ slot' = [slot EXCEPT ![seq[t]] = NULL]
  /\ UNCHANGED <<thread, state, queue, net, term>>

(* The event of a handle is taken, and with it all notifications so far. *)
handleNotify(f) ==
  /\ net = IdleNet /\ term # "done" /\ fd[f].live /\ fd[f].armed
  /\ fd' = [fd EXCEPT ![f].armed = FALSE]
  /\ net' = [pc |-> "loop", fd |-> f]
  /\ UNCHANGED <<thread, state, queue, slot, quits, term>>

Popped(q) ==
  /\ queue[q] # <<>>
  /\ queue' = [queue EXCEPT ![q] = Tail(queue[q])]
  /\ state' = [state EXCEPT ![Head(queue[q])] = "taken"]

(* Mutant: the loop is left after a millisecond and the rest is forgotten. *)
PopBreaks(f, q) ==
  /\ Popped(q)
  /\ net' = [net EXCEPT !.pc = "check"]
  /\ UNCHANGED fd

(* One message takes a millisecond: the handler leaves and comes back. *)
PopBreak(f, q) ==
  /\ Popped(q)
  /\ net' = [net EXCEPT !.pc = "check"]
  /\ fd' = [fd EXCEPT ![f].armed = TRUE]

(* One round of the loop. *)
PopLoop ==
  LET f == net.fd
      q == fd[f].msgQueue
  IN /\ net.pc = "loop"
     /\ \/ Popped(q) /\ UNCHANGED <<fd, net>>
        \/ PopBreak(f, q)
        \/ Throws /\ Popped(q) /\ net' = IdleNet /\ UNCHANGED fd
        \/ /\ queue[q] = <<>>
           /\ net' = [net EXCEPT !.pc = "check"]
           /\ UNCHANGED <<fd, queue, state>>
     /\ UNCHANGED <<thread, slot, quits, term>>

(* Mutants: notifications that came during the loop are cleared after it,  *)
(* or the handle goes although messages are left.                          *)
CheckDestroyDisarms ==
  /\ net.pc = "check"
  /\ fd' = IF fd[net.fd].autoDestroy /\ queue[fd[net.fd].msgQueue] = <<>>
             THEN [fd EXCEPT ![net.fd] = NoFd]
             ELSE [fd EXCEPT ![net.fd].armed = FALSE]
  /\ net' = IdleNet
  /\ UNCHANGED <<thread, state, queue, slot, quits, term>>

CheckDestroyEager ==
  /\ net.pc = "check"
  /\ fd' = IF fd[net.fd].autoDestroy THEN [fd EXCEPT ![net.fd] = NoFd] ELSE fd
  /\ state' = IF fd[net.fd].autoDestroy THEN Lost(fd[net.fd].msgQueue) ELSE state
  /\ net' = IdleNet
  /\ UNCHANGED <<thread, queue, slot, quits, term>>

(* After the loop: the handle of a thread that quit goes when it is empty. *)
CheckDestroy ==
  /\ net.pc = "check"
  /\ fd' = IF fd[net.fd].autoDestroy /\ queue[fd[net.fd].msgQueue] = <<>>
             THEN [fd EXCEPT ![net.fd] = NoFd] ELSE fd
  /\ net' = IdleNet
  /\ UNCHANGED <<thread, state, queue, slot, quits, term>>

(* Between events a message that was taken is finished (RpcClient). *)
Finish(c) ==
  /\ net = IdleNet /\ term # "done" /\ state[c] = "taken"
  /\ state' = [state EXCEPT ![c] = "finished"]
  /\ UNCHANGED <<thread, queue, fd, slot, quits, net, term>>

-----------------------------------------------------------------------------
(* Communicator::terminate, by any other thread. *)
terminate ==
  /\ Terminates /\ term = "no"
  /\ term' = "flagged"
  /\ UNCHANGED <<thread, state, queue, fd, slot, quits, net>>

(* The handles still in _notify are deleted with the messages in their     *)
(* queues; nobody tells the callers.                                       *)
handleTerminate ==
  LET Dropped == {slot[s] : s \in SeqNos} \ {NULL}
      Emptied == {fd[f].msgQueue : f \in Dropped}
  IN /\ term = "flagged" /\ net = IdleNet
     /\ fd' = [f \in Threads |-> IF f \in Dropped THEN NoFd ELSE fd[f]]
     /\ slot' = [s \in SeqNos |-> NULL]
     /\ state' = [c \in Calls |->
                    IF \E q \in Emptied : \E i \in DOMAIN queue[q] : queue[q][i] = c
                      THEN "deleted" ELSE state[c]]
     /\ queue' = [q \in Threads |-> IF q \in Emptied THEN <<>> ELSE queue[q]]
     /\ term' = "done"
     /\ UNCHANGED <<thread, quits, net>>

(* syncCallback waits a second for it.  If one event keeps the network     *)
(* thread busy for longer, the callback goes with the handle of the caller *)
(* and terminate() waits for a thread that was never told to stop.         *)
notifyTerminateTimeout ==
  /\ term = "flagged" /\ net # IdleNet
  /\ term' = "abandoned"
  /\ UNCHANGED <<thread, state, queue, fd, slot, quits, net>>

Next ==
  \/ \E t \in Threads :
       \/ get(t)
       \/ initNotify(t)
       \/ invoke(t)
       \/ notify(t)
       \/ wait(t)
       \/ wake(t)
       \/ spuriousWake(t)
       \/ notifyServantThreadQuit(t)
       \/ del(t)
       \/ handleServantThreadQuit(t)
       \/ handleNotify(t)
  \/ PopLoop
  \/ CheckDestroy
  \/ \E c \in Calls : Finish(c)
  \/ terminate
  \/ handleTerminate
  \/ notifyTerminateTimeout

Spec == Init /\ [][Next]_vars

(* A thread that runs goes on, and so does the network thread: epoll       *)
(* reports every handle that was notified, in turn.  What is taken is      *)
(* finished (SyncCallReturns of RpcClient).  Nothing makes a thread call,  *)
(* end or terminate the communicator, and no wake-up is given for free.    *)
Fairness ==
  /\ \A t \in Threads : /\ WF_vars(notify(t)) /\ WF_vars(wait(t))
                        /\ WF_vars(wake(t)) /\ WF_vars(del(t))
                        /\ WF_vars(handleServantThreadQuit(t))
                        /\ WF_vars(handleNotify(t))
  /\ WF_vars(PopLoop) /\ WF_vars(CheckDestroy) /\ WF_vars(handleTerminate)
  /\ \A c \in Calls : WF_vars(Finish(c))

FairSpec == Spec /\ Fairness

-----------------------------------------------------------------------------
(* The states a thread, a call, a handle and the network thread can be in. *)
TypeOK ==
  /\ free \in Seq(SeqNos)
  /\ pc \in [Threads -> {"start", "attach", "idle", "pushed", "wait", "blocked",
                         "quitting", "gone"}]
  /\ seq \in [Threads -> SeqNos \cup {NULL}]
  /\ made \in [Threads -> 0..MaxCalls]
  /\ state \in [Calls -> {"new", "queued", "taken", "finished", "full",
                          "released", "lost", "deleted"}]
  /\ queue \in [Threads -> Seq(Calls)]
  /\ fd \in [Threads -> FDInfo]
  /\ slot \in [SeqNos -> Threads \cup {NULL}]
  /\ quits \subseteq Threads
  /\ net \in [pc : {"idle", "loop", "check"}, fd : Threads \cup {NULL}]
  /\ term \in {"no", "flagged", "done", "abandoned"}

(* Threads that have a number and did not give it back. *)
Holders == {t \in Threads : pc[t] \notin {"start", "gone"}}

(* SeqManager gives a number to one thread at a time: no two running       *)
(* threads share one, and the free list holds the others, once each.       *)
NumbersExclusive ==
  /\ \A t, u \in Holders : seq[t] = seq[u] => t = u
  /\ \A i \in DOMAIN free : \A t \in Holders : free[i] # seq[t]
  /\ \A i, j \in DOMAIN free : free[i] = free[j] => i = j

(* No entry of _notify points to a handle that was deleted, and the        *)
(* network thread is never inside the handler of one.                      *)
HandlesLive ==
  /\ \A s \in SeqNos : slot[s] # NULL => fd[slot[s]].live
  /\ net # IdleNet => fd[net.fd].live

(* No wake-up is lost: while a queue holds messages, its handle has a      *)
(* notification pending, or the network thread is emptying it, or the      *)
(* thread that pushed is about to notify, however the push, the            *)
(* notification and the end of the handler's loop fall together.           *)
NoLostWakeup ==
  \A f \in Threads :
    fd[f].live /\ queue[fd[f].msgQueue] # <<>> =>
      \/ fd[f].armed
      \/ net = [pc |-> "loop", fd |-> f]
      \/ pc[fd[f].msgQueue] = "pushed"

(* A message that was accepted is never dropped with its queue, whatever   *)
(* the thread that sent it does next.                                      *)
NothingLost == \A c \in Calls : state[c] \notin {"lost", "deleted"}

(* The assertion of CommunicatorEpoll::notify: a thread that notifies      *)
(* finds its handle.                                                       *)
NotifyFdExists == \A t \in Threads : pc[t] = "pushed" => slot[seq[t]] # NULL

(* With a number of its own a thread loses nothing to the handler that     *)
(* cleans up after another one: neither its handle nor its messages.       *)
KeepsAll == NotifyFdExists /\ NothingLost

(* Every accepted message is taken by the network thread. *)
AcceptedIsTaken ==
  \A c \in Calls : state[c] = "queued" ~> state[c] # "queued"

(* A thread that ended leaves no handle behind: its FDInfo is deleted once *)
(* the network thread has sent what was left.                              *)
QuitDropsHandle == \A t \in Threads : pc[t] = "gone" ~> ~fd[t].live

-----------------------------------------------------------------------------
(***************************************************************************)
(* What the repository says and the code does not keep in every            *)
(* configuration; README.md, "Disagreements found", says when each fails.  *)
(***************************************************************************)

(* A thread that ends leaves nothing unsent (notifyServantThreadQuit). *)
QuitSendsAll ==
  \A t \in Threads : pc[t] = "gone" ~> \A k \in 1..MaxCalls : state[<<t, k>>] # "queued"

(* A caller that is blocked when the communicator is terminated is told    *)
(* so: ServantProxy::invoke throws TarsCommunicatorException.              *)
TerminateWakesCallers ==
  \A t \in Threads : (pc[t] = "blocked" /\ term = "done") ~> pc[t] # "blocked"

(* terminate() stops the network thread: syncCallback returns after the    *)
(* network thread has run handleTerminate.                                 *)
TerminateEnds == term = "flagged" ~> term = "done"
=============================================================================
