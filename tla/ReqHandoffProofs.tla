-------------------------- MODULE ReqHandoffProofs --------------------------
(***************************************************************************)
(* Proofs about ReqHandoff, for any number of threads, numbers, calls and  *)
(* any queue limit, with numbers that are reused and a communicator that   *)
(* may be terminated: numbers are exclusive, no handle that was deleted is *)
(* used, and no wake-up is lost unless ObjectProxy::invoke throws.         *)
(***************************************************************************)
EXTENDS ReqHandoff, SequenceTheorems, FiniteSetTheorems, TLAPS

(* A thread has a number from get to del, and a queue from initNotify. *)
Numbered(t) == pc[t] \in {"attach", "idle", "pushed", "wait", "blocked", "quitting"}
Attached(t) == pc[t] \in {"idle", "pushed", "wait", "blocked", "quitting"}

HasNumber ==
  /\ \A t \in Threads : pc[t] # "start" => seq[t] \in SeqNos
  /\ \A t \in quits : pc[t] # "start"

(* A thread that did not attach yet owns nothing the network thread knows. *)
FreshThreads ==
  \A t \in Threads : pc[t] \in {"start", "attach"} =>
    /\ ~fd[t].live
    /\ queue[t] = <<>>
    /\ \A f \in Threads : fd[f].live => fd[f].msgQueue # t

(* A queue has one handle, a handle has one number, and a handle that is   *)
(* to be destroyed has none.                                               *)
OneHandle ==
  /\ \A f \in Threads : fd[f].live => fd[f].msgQueue \in Threads
  /\ \A f, g \in Threads :
       fd[f].live /\ fd[g].live /\ fd[f].msgQueue = fd[g].msgQueue => f = g
  /\ \A r, s \in SeqNos : slot[r] = slot[s] /\ slot[r] # NULL => r = s
  /\ \A s \in SeqNos : slot[s] # NULL => ~fd[slot[s]].autoDestroy

(* The handle under the number of a thread is the one of its queue. *)
SlotOwner ==
  \A t \in Threads : Attached(t) /\ slot[seq[t]] # NULL =>
    fd[slot[seq[t]]].msgQueue = t

NetShape == net = IdleNet \/ (net.pc \in {"loop", "check"} /\ net.fd \in Threads)

HandoffInv ==
  /\ TypeOK /\ NumbersExclusive /\ HandlesLive
  /\ HasNumber /\ FreshThreads /\ OneHandle /\ SlotOwner /\ NetShape

LEMMA FreeListFacts ==
  ASSUME NEW S, NEW s \in Seq(S)
  PROVE  /\ DOMAIN s = 1..Len(s) /\ Len(s) \in Nat
         /\ s # <<>> => /\ Head(s) \in S /\ Head(s) = s[1] /\ 1 \in DOMAIN s
                        /\ Tail(s) \in Seq(S)
                        /\ DOMAIN Tail(s) = 1..(Len(s) - 1)
                        /\ \A i \in DOMAIN Tail(s) :
                             i + 1 \in DOMAIN s /\ i + 1 # 1 /\ Tail(s)[i] = s[i + 1]
         /\ \A e \in S : /\ Append(s, e) \in Seq(S)
                         /\ DOMAIN Append(s, e) = 1..(Len(s) + 1)
                         /\ Append(s, e)[Len(s) + 1] = e
                         /\ \A i \in DOMAIN s : Append(s, e)[i] = s[i]
<1>1. DOMAIN s = 1..Len(s) /\ Len(s) \in Nat
  BY LenProperties
<1>2. ASSUME s # <<>>
      PROVE  /\ Head(s) \in S /\ Head(s) = s[1] /\ 1 \in DOMAIN s
             /\ Tail(s) \in Seq(S)
             /\ DOMAIN Tail(s) = 1..(Len(s) - 1)
             /\ \A i \in DOMAIN Tail(s) :
                  i + 1 \in DOMAIN s /\ i + 1 # 1 /\ Tail(s)[i] = s[i + 1]
  <2>1. Len(s) \in Nat \ {0} /\ Head(s) = s[1]
    BY <1>2, EmptySeq
  <2>2. /\ Head(s) \in S /\ Tail(s) \in Seq(S) /\ Len(Tail(s)) = Len(s) - 1
        /\ \A i \in 1..Len(Tail(s)) : Tail(s)[i] = s[i + 1]
    BY <1>2, HeadTailProperties
  <2>3. DOMAIN Tail(s) = 1..(Len(s) - 1)
    BY <2>2, LenProperties
  <2>4. \A i \in 1..(Len(s) - 1) : i + 1 \in 1..Len(s) /\ i + 1 # 1
    BY <2>1
  <2> QED BY <1>1, <2>1, <2>2, <2>3, <2>4
<1>3. ASSUME NEW e \in S
      PROVE  /\ Append(s, e) \in Seq(S)
             /\ DOMAIN Append(s, e) = 1..(Len(s) + 1)
             /\ Append(s, e)[Len(s) + 1] = e
             /\ \A i \in DOMAIN s : Append(s, e)[i] = s[i]
  BY <1>1, AppendProperties, LenProperties
<1> QED BY <1>1, <1>2, <1>3

(* The updates of a handle. *)
LEMMA HandleFacts ==
  ASSUME NEW h \in FDInfo, NEW q \in Threads, NEW b \in BOOLEAN
  PROVE  /\ [h EXCEPT !.msgQueue = q] \in FDInfo
         /\ [h EXCEPT !.armed = b] \in FDInfo
         /\ [h EXCEPT !.autoDestroy = TRUE, !.armed = TRUE] \in FDInfo
         /\ [live |-> TRUE, msgQueue |-> q, autoDestroy |-> FALSE, armed |-> TRUE]
              \in FDInfo
         /\ NoFd \in FDInfo
BY DEF FDInfo, NoFd

LEMMA InitInv == Init => HandoffInv
<1> SUFFICES ASSUME Init PROVE HandoffInv
  OBVIOUS
<1> USE DEF Init
<1>1. free \in Seq(SeqNos)
  <2>1. Seqs \in [1..Len(Seqs) -> SeqNos] /\ Len(Seqs) \in Nat
    BY SeqsAssumption, LenProperties DEF SeqNos
  <2> QED BY <2>1, SeqDef
<1>2. TypeOK
  BY <1>1, EmptySeq, BoundsAssumption DEF TypeOK, NoFd, FDInfo, IdleNet
<1>3. NumbersExclusive
  BY SeqsAssumption DEF NumbersExclusive, Holders
<1>4. HandlesLive /\ HasNumber /\ FreshThreads /\ OneHandle /\ SlotOwner /\ NetShape
  BY DEF HandlesLive, HasNumber, FreshThreads, OneHandle, SlotOwner, NetShape,
         NoFd, Attached
<1> QED BY <1>2, <1>3, <1>4 DEF HandoffInv

-----------------------------------------------------------------------------
(* SeqManager: taking the head of the free list and appending to its end   *)
(* keep the numbers exclusive.                                             *)
LEMMA GetInv ==
  ASSUME HandoffInv, NEW t \in Threads, get(t)
  PROVE  HandoffInv'
<1> USE DEF HandoffInv
<1> DEFINE s == Head(free)
<1>1. /\ pc[t] = "start" /\ free # <<>> /\ free' = Tail(free)
      /\ seq' = [seq EXCEPT ![t] = s] /\ pc' = [pc EXCEPT ![t] = "attach"]
      /\ UNCHANGED <<made, state, queue, fd, slot, quits, net, term>>
  BY DEF get
<1>2. /\ s \in SeqNos /\ s = free[1] /\ 1 \in DOMAIN free
      /\ Tail(free) \in Seq(SeqNos)
      /\ \A i \in DOMAIN Tail(free) :
           i + 1 \in DOMAIN free /\ i + 1 # 1 /\ Tail(free)[i] = free[i + 1]
      /\ DOMAIN Tail(free) = 1..(Len(free) - 1) /\ Len(free) \in Nat
  BY <1>1, FreeListFacts DEF TypeOK
<1> HIDE DEF s
<1>3. TypeOK'
  BY <1>1, <1>2 DEF TypeOK
<1>4. /\ Holders' = Holders \cup {t} /\ t \notin Holders
      /\ seq'[t] = s /\ \A u \in Holders : seq'[u] = seq[u]
  BY <1>1 DEF Holders, TypeOK
<1>5. NumbersExclusive'
  <2>1. \A u, v \in Holders' : seq'[u] = seq'[v] => u = v
    BY <1>2, <1>4 DEF NumbersExclusive
  <2>2. \A i \in DOMAIN free' : \A u \in Holders' : free'[i] # seq'[u]
    BY <1>1, <1>2, <1>4 DEF NumbersExclusive
  <2>3. \A i, j \in DOMAIN free' : free'[i] = free'[j] => i = j
    <3>1. ASSUME NEW i \in DOMAIN free', NEW j \in DOMAIN free', free'[i] = free'[j]
          PROVE  i = j
      <4>1. free[i + 1] = free[j + 1] /\ i + 1 \in DOMAIN free /\ j + 1 \in DOMAIN free
        BY <1>1, <1>2, <3>1
      <4>2. i + 1 = j + 1
        BY <4>1 DEF NumbersExclusive
      <4> QED BY <4>2, <1>1, <1>2
    <3> QED BY <3>1
  <2> QED BY <2>1, <2>2, <2>3 DEF NumbersExclusive
<1>6. HasNumber' /\ FreshThreads'
  BY <1>1, <1>2 DEF HasNumber, FreshThreads, TypeOK
<1>7. SlotOwner'
  BY <1>1 DEF SlotOwner, Attached, TypeOK
<1> QED BY <1>1, <1>3, <1>5, <1>6, <1>7 DEF HandlesLive, OneHandle, NetShape

LEMMA DelInv ==
  ASSUME HandoffInv, NEW t \in Threads, del(t)
  PROVE  HandoffInv'
<1> USE DEF HandoffInv
<1> DEFINE s == seq[t]
<1>1. /\ pc[t] = "quitting" /\ free' = Append(free, s)
      /\ pc' = [pc EXCEPT ![t] = "gone"]
      /\ UNCHANGED <<seq, made, state, queue, fd, slot, quits, net, term>>
  BY DEF del
<1>2. s \in SeqNos
  BY <1>1 DEF HasNumber
<1>3. /\ Append(free, s) \in Seq(SeqNos) /\ Len(free) \in Nat
      /\ DOMAIN free = 1..Len(free)
      /\ DOMAIN Append(free, s) = 1..(Len(free) + 1)
      /\ Append(free, s)[Len(free) + 1] = s
      /\ \A i \in DOMAIN free : Append(free, s)[i] = free[i]
  BY <1>2, FreeListFacts DEF TypeOK
<1>4. TypeOK'
  BY <1>1, <1>3 DEF TypeOK
<1>5. Holders' = Holders \ {t} /\ t \in Holders
  BY <1>1 DEF Holders, TypeOK
<1>6. \A i \in DOMAIN free : free[i] # s
  BY <1>5 DEF NumbersExclusive
<1>7. ASSUME NEW i \in DOMAIN free' PROVE i \in DOMAIN free \/ i = Len(free) + 1
  BY <1>1, <1>3, <1>7
<1>8. NumbersExclusive'
  <2>1. \A u, v \in Holders' : seq'[u] = seq'[v] => u = v
    BY <1>1, <1>5 DEF NumbersExclusive
  <2>2. \A i \in DOMAIN free' : \A u \in Holders' : free'[i] # seq'[u]
    BY <1>1, <1>3, <1>5, <1>7 DEF NumbersExclusive
  <2>3. \A i, j \in DOMAIN free' : free'[i] = free'[j] => i = j
    BY <1>1, <1>3, <1>6, <1>7 DEF NumbersExclusive
  <2> QED BY <2>1, <2>2, <2>3 DEF NumbersExclusive
<1>9. HasNumber' /\ FreshThreads' /\ SlotOwner'
  BY <1>1 DEF HasNumber, FreshThreads, SlotOwner, Attached, TypeOK
<1> QED BY <1>1, <1>4, <1>8, <1>9 DEF HandlesLive, OneHandle, NetShape

-----------------------------------------------------------------------------
(* Attaching a queue: a new handle, or the handle that the last owner of   *)
(* the number left behind.                                                 *)
LEMMA InitNotifyInv ==
  ASSUME HandoffInv, NEW t \in Threads, initNotify(t)
  PROVE  HandoffInv'
<1> USE DEF HandoffInv
<1> DEFINE f == slot[seq[t]]
<1>1. /\ pc[t] = "attach" /\ pc' = [pc EXCEPT ![t] = "idle"]
      /\ UNCHANGED <<free, seq, made, quits, net, term>>
  BY DEF initNotify
<1>2. seq[t] \in SeqNos /\ t \in Holders
  BY <1>1 DEF HasNumber, Holders
<1>3. Holders' = Holders
  BY <1>1 DEF Holders, TypeOK
<1>4. NumbersExclusive' /\ HasNumber' /\ NetShape'
  BY <1>1, <1>3 DEF NumbersExclusive, HasNumber, NetShape, TypeOK
<1>5. \A u \in Threads : u # t /\ Attached(u)' => Attached(u) /\ seq[u] # seq[t]
  BY <1>1, <1>2 DEF Attached, NumbersExclusive, Holders, TypeOK
<1>6. /\ ~fd[t].live /\ queue[t] = <<>>
      /\ \A g \in Threads : fd[g].live => fd[g].msgQueue # t
      /\ \A r \in SeqNos : slot[r] # t
      /\ net # IdleNet => net.fd # t
  BY <1>1, NullAssumption DEF FreshThreads, HandlesLive
<1>7. CASE f = NULL
  <2>1. /\ fd' = [fd EXCEPT ![t] = [live |-> TRUE, msgQueue |-> t,
                                    autoDestroy |-> FALSE, armed |-> TRUE]]
        /\ slot' = [slot EXCEPT ![seq[t]] = t]
        /\ UNCHANGED <<state, queue>>
    BY <1>7 DEF initNotify
  <2>2. /\ fd'[t].live /\ fd'[t].msgQueue = t /\ ~fd'[t].autoDestroy
        /\ \A g \in Threads : g # t => fd'[g] = fd[g]
        /\ slot'[seq[t]] = t /\ \A r \in SeqNos : r # seq[t] => slot'[r] = slot[r]
    BY <2>1, <1>2 DEF TypeOK
  <2>3. TypeOK'
    BY <2>1, <1>1, <1>2, HandleFacts DEF TypeOK
  <2>4. HandlesLive'
    <3>1. \A r \in SeqNos : slot'[r] # NULL => fd'[slot'[r]].live
      <4>1. \A r \in SeqNos : slot[r] \in Threads \cup {NULL}
        BY DEF TypeOK
      <4> QED BY <1>6, <2>2, <4>1 DEF HandlesLive
    <3>2. net' # IdleNet => fd'[net'.fd].live
      BY <1>1, <1>6, <2>2 DEF HandlesLive, NetShape
    <3> QED BY <3>1, <3>2 DEF HandlesLive
  <2>5. FreshThreads'
    BY <1>1, <2>1, <2>2 DEF FreshThreads, TypeOK
  <2>6. OneHandle'
    <3>1. \A g \in Threads : fd'[g].live => fd'[g].msgQueue \in Threads
      BY <2>2 DEF OneHandle
    <3>2. \A g, h \in Threads :
            fd'[g].live /\ fd'[h].live /\ fd'[g].msgQueue = fd'[h].msgQueue => g = h
      BY <1>6, <2>2 DEF OneHandle
    <3>3. \A r, s \in SeqNos : slot'[r] = slot'[s] /\ slot'[r] # NULL => r = s
      BY <1>6, <2>2 DEF OneHandle
    <3>4. \A r \in SeqNos : slot'[r] # NULL => ~fd'[slot'[r]].autoDestroy
      <4>1. \A r \in SeqNos : slot[r] \in Threads \cup {NULL}
        BY DEF TypeOK
      <4> QED BY <1>6, <2>2, <4>1 DEF OneHandle
    <3> QED BY <3>1, <3>2, <3>3, <3>4 DEF OneHandle
  <2>7. SlotOwner'
    <3>1. ASSUME NEW u \in Threads, Attached(u)', slot'[seq'[u]] # NULL
          PROVE  fd'[slot'[seq'[u]]].msgQueue = u
      <4>1. CASE u = t
        BY <1>1, <2>2, <4>1
      <4>2. CASE u # t
        <5>1. Attached(u) /\ seq[u] # seq[t] /\ seq[u] \in SeqNos
          BY <1>5, <3>1, <4>2 DEF HasNumber, Attached
        <5>2. slot'[seq'[u]] = slot[seq[u]] /\ slot[seq[u]] # t
          BY <1>1, <1>6, <2>2, <5>1
        <5> QED BY <2>2, <3>1, <5>1, <5>2 DEF SlotOwner, TypeOK
      <4> QED BY <4>1, <4>2
    <3> QED BY <3>1 DEF SlotOwner
  <2> QED BY <1>4, <2>3, <2>4, <2>5, <2>6, <2>7
<1>8. CASE f # NULL
  <2>1. /\ fd' = [fd EXCEPT ![f].msgQueue = t]
        /\ state' = Lost(fd[f].msgQueue)
        /\ queue' = [queue EXCEPT ![fd[f].msgQueue] = <<>>]
        /\ slot' = slot
    BY <1>8 DEF initNotify
  <2>2. f \in Threads /\ fd[f].live /\ f # t /\ ~fd[f].autoDestroy
    BY <1>2, <1>6, <1>8 DEF HandlesLive, TypeOK, OneHandle
  <2>3. /\ fd'[f].msgQueue = t /\ fd'[f].live /\ ~fd'[f].autoDestroy
        /\ \A g \in Threads : g # f => fd'[g] = fd[g]
        /\ \A g \in Threads : fd'[g].live = fd[g].live
    BY <2>1, <2>2 DEF TypeOK
  <2>4. fd[f].msgQueue \in Threads
    BY <2>2 DEF OneHandle
  <2>5. TypeOK'
    <3>1. Lost(fd[f].msgQueue) \in [Calls -> {"new", "queued", "taken", "finished", "full",
                                              "released", "lost", "deleted"}]
      BY DEF Lost, TypeOK
    <3>2. fd' \in [Threads -> FDInfo]
      BY <2>1, <2>2, HandleFacts DEF TypeOK
    <3>3. queue' \in [Threads -> Seq(Calls)]
      BY <2>1, <2>4, EmptySeq DEF TypeOK
    <3> QED BY <1>1, <2>1, <3>1, <3>2, <3>3 DEF TypeOK
  <2>6. HandlesLive'
    BY <1>1, <2>1, <2>3 DEF HandlesLive, TypeOK, NetShape
  <2>7. FreshThreads'
    BY <1>1, <2>1, <2>2, <2>3, <2>4 DEF FreshThreads, TypeOK
  <2>8. OneHandle'
    BY <1>6, <2>1, <2>2, <2>3 DEF OneHandle, TypeOK
  <2>9. SlotOwner'
    <3>1. ASSUME NEW u \in Threads, Attached(u)', slot'[seq'[u]] # NULL
          PROVE  fd'[slot'[seq'[u]]].msgQueue = u
      <4>1. CASE u = t
        BY <1>1, <2>1, <2>3, <4>1
      <4>2. CASE u # t
        <5>1. Attached(u) /\ seq[u] # seq[t] /\ seq[u] \in SeqNos
          BY <1>5, <3>1, <4>2 DEF HasNumber, Attached
        <5>2. slot'[seq'[u]] = slot[seq[u]] /\ slot[seq[u]] # f
          BY <1>1, <1>2, <1>8, <2>1, <5>1 DEF OneHandle
        <5> QED BY <2>3, <3>1, <5>1, <5>2 DEF SlotOwner, TypeOK
      <4> QED BY <4>1, <4>2
    <3> QED BY <3>1 DEF SlotOwner
  <2> QED BY <1>4, <2>5, <2>6, <2>7, <2>8, <2>9
<1> QED BY <1>7, <1>8

(* Letting go of a handle: the quit of its thread, the handler that finds  *)
(* it empty, and the end of the communicator.                              *)
LEMMA QuitInv ==
  ASSUME HandoffInv, NEW t \in Threads, handleServantThreadQuit(t)
  PROVE  HandoffInv'
<1> USE DEF HandoffInv
<1> DEFINE f == slot[seq[t]]
<1>1. /\ fd' = IF f = NULL THEN fd
               ELSE [fd EXCEPT ![f].autoDestroy = TRUE, ![f].armed = TRUE]
      /\ slot' = [slot EXCEPT ![seq[t]] = NULL]
      /\ quits' = quits \ {t}
      /\ UNCHANGED <<free, pc, seq, made, state, queue, net, term>>
  BY DEF handleServantThreadQuit, thread
<1>a. seq[t] \in SeqNos
  BY DEF handleServantThreadQuit, HasNumber
<1>2. /\ \A g \in Threads : /\ fd'[g].live = fd[g].live
                             /\ fd'[g].msgQueue = fd[g].msgQueue
                             /\ g # f => fd'[g] = fd[g]
      /\ slot'[seq[t]] = NULL /\ \A r \in SeqNos : r # seq[t] => slot'[r] = slot[r]
  BY <1>1, <1>a DEF TypeOK
<1>3. TypeOK'
  <2>1. fd' \in [Threads -> FDInfo]
    <3>1. f # NULL => f \in Threads /\ fd[f] \in FDInfo
      BY <1>a DEF TypeOK
    <3>2. f # NULL =>
            fd' = [fd EXCEPT ![f] = [fd[f] EXCEPT !.autoDestroy = TRUE, !.armed = TRUE]]
      BY <1>1, <3>1 DEF TypeOK
    <3> QED BY <1>1, <3>1, <3>2, HandleFacts DEF TypeOK
  <2> QED BY <1>1, <2>1 DEF TypeOK
<1>4. NumbersExclusive' /\ HasNumber' /\ NetShape'
  BY <1>1 DEF NumbersExclusive, Holders, HasNumber, NetShape
<1>5. HandlesLive'
  BY <1>1, <1>2 DEF HandlesLive, TypeOK, NetShape
<1>6. FreshThreads'
  BY <1>1, <1>2 DEF FreshThreads, TypeOK
<1>7. OneHandle'
  BY <1>1, <1>2 DEF OneHandle, TypeOK
<1>8. SlotOwner'
  BY <1>1, <1>2 DEF SlotOwner, Attached, HasNumber, TypeOK
<1> QED BY <1>3, <1>4, <1>5, <1>6, <1>7, <1>8

LEMMA CheckDestroyInv ==
  ASSUME HandoffInv, CheckDestroy
  PROVE  HandoffInv'
<1> USE DEF HandoffInv
<1> DEFINE f == net.fd
<1>1. /\ net.pc = "check" /\ net' = IdleNet
      /\ fd' = IF fd[f].autoDestroy /\ queue[fd[f].msgQueue] = <<>>
                 THEN [fd EXCEPT ![f] = NoFd] ELSE fd
      /\ UNCHANGED <<free, pc, seq, made, state, queue, slot, quits, term>>
  BY DEF CheckDestroy, thread
<1>2. f \in Threads /\ fd[f].live
  BY <1>1 DEF NetShape, HandlesLive, IdleNet
<1>3. CASE fd' = fd
  <2>1. TypeOK' /\ NetShape'
    BY <1>1, <1>3 DEF TypeOK, NetShape, IdleNet
  <2> QED BY <1>1, <1>3, <2>1
             DEF NumbersExclusive, Holders, HandlesLive, HasNumber, FreshThreads,
                 OneHandle, SlotOwner, Attached
<1>4. CASE fd[f].autoDestroy /\ fd' = [fd EXCEPT ![f] = NoFd]
  <2>1. /\ ~fd'[f].live /\ \A g \in Threads : g # f => fd'[g] = fd[g]
        /\ \A g \in Threads : fd'[g].live => g # f
    BY <1>2, <1>4 DEF TypeOK, NoFd
  <2>2. \A r \in SeqNos : slot[r] # f /\ slot[r] \in Threads \cup {NULL}
    BY <1>2, <1>4, NullAssumption DEF OneHandle, TypeOK
  <2>3. TypeOK'
    <3>1. NoFd \in FDInfo /\ IdleNet \in [pc : {"idle", "loop", "check"},
                                          fd : Threads \cup {NULL}]
      BY DEF NoFd, FDInfo, IdleNet
    <3>2. fd' \in [Threads -> FDInfo]
      BY <1>2, <1>4, <3>1 DEF TypeOK
    <3> QED BY <1>1, <3>1, <3>2 DEF TypeOK
  <2>4. NumbersExclusive' /\ HasNumber' /\ NetShape'
    BY <1>1 DEF NumbersExclusive, Holders, HasNumber, NetShape
  <2>5. HandlesLive'
    BY <1>1, <2>1, <2>2 DEF HandlesLive
  <2>6. FreshThreads' /\ OneHandle'
    BY <1>1, <2>1, <2>2 DEF FreshThreads, OneHandle
  <2>7. SlotOwner'
    <3>1. \A u \in Threads : Attached(u) => seq[u] \in SeqNos
      BY DEF HasNumber, Attached
    <3> QED BY <1>1, <2>1, <2>2, <3>1 DEF SlotOwner, Attached
  <2> QED BY <2>3, <2>4, <2>5, <2>6, <2>7
<1> QED BY <1>1, <1>3, <1>4

LEMMA TerminateInv ==
  ASSUME HandoffInv, handleTerminate
  PROVE  HandoffInv'
<1> USE DEF HandoffInv
<1>1. /\ net = IdleNet /\ net' = net /\ term' = "done"
      /\ \A f \in Threads : fd'[f] = fd[f] \/ fd'[f] = NoFd
      /\ slot' = [s \in SeqNos |-> NULL]
      /\ \A q \in Threads : queue'[q] = queue[q] \/ queue'[q] = <<>>
      /\ UNCHANGED <<free, pc, seq, made, quits>>
  BY DEF handleTerminate, thread
<1>2. TypeOK'
  <2>1. fd' \in [Threads -> FDInfo]
    <3>1. /\ fd' = [f \in Threads |-> fd'[f]] /\ \A f \in Threads : fd[f] \in FDInfo
          /\ NoFd \in FDInfo
      BY DEF handleTerminate, TypeOK, NoFd, FDInfo
    <3>2. \A f \in Threads : fd'[f] \in FDInfo
      BY <1>1, <3>1
    <3> QED BY <3>1, <3>2
  <2>2. queue' \in [Threads -> Seq(Calls)]
    <3>1. queue' = [q \in Threads |-> queue'[q]]
      BY DEF handleTerminate
    <3>2. \A q \in Threads : queue'[q] \in Seq(Calls)
      BY <1>1, EmptySeq, ZenonT(60) DEF TypeOK
    <3> QED BY <3>1, <3>2
  <2>3. state' \in [Calls -> {"new", "queued", "taken", "finished", "full",
                              "released", "lost", "deleted"}]
    BY DEF handleTerminate, TypeOK
  <2> QED BY <1>1, <2>1, <2>2, <2>3 DEF TypeOK
<1>3. NumbersExclusive' /\ HasNumber' /\ NetShape' /\ HandlesLive'
  BY <1>1 DEF NumbersExclusive, Holders, HasNumber, NetShape, HandlesLive
<1>4. \A f \in Threads : fd'[f].live => fd[f].live /\ fd'[f] = fd[f]
  BY <1>1 DEF NoFd
<1>5. FreshThreads' /\ OneHandle'
  BY <1>1, <1>4 DEF FreshThreads, OneHandle
<1>6. SlotOwner'
  BY <1>1 DEF SlotOwner, Attached, HasNumber
<1> QED BY <1>2, <1>3, <1>5, <1>6

-----------------------------------------------------------------------------
(* Steps of a thread that only move it among the places where it has its   *)
(* queue.                                                                  *)
LEMMA ThreadMovesInv ==
  ASSUME HandoffInv, NEW t \in Threads,
         NEW p \in {"idle", "pushed", "wait", "blocked", "quitting"},
         Attached(t), pc' = [pc EXCEPT ![t] = p],
         quits' \subseteq quits \cup {t},
         UNCHANGED <<free, seq, fd, slot, net>>,
         \A u \in Threads : u # t => queue'[u] = queue[u],
         TypeOK'
  PROVE  HandoffInv'
<1> USE DEF HandoffInv
<1>1. /\ pc'[t] = p /\ \A u \in Threads : u # t => pc'[u] = pc[u]
      /\ pc[t] \in {"idle", "pushed", "wait", "blocked", "quitting"}
  BY DEF TypeOK, Attached
<1>2. Holders' = Holders /\ \A u \in Threads : Attached(u)' <=> Attached(u)
  BY <1>1 DEF Holders, Attached
<1>3. NumbersExclusive' /\ SlotOwner'
  BY <1>2 DEF NumbersExclusive, SlotOwner
<1>4. HasNumber'
  BY <1>1 DEF HasNumber, TypeOK
<1>5. FreshThreads'
  BY <1>1 DEF FreshThreads
<1> QED BY <1>3, <1>4, <1>5 DEF HandlesLive, OneHandle, NetShape

(* Steps of the network thread that change handles only in whether they    *)
(* are armed, and take messages from queues.                               *)
LEMMA NetMovesInv ==
  ASSUME HandoffInv, TypeOK', NetShape',
         net' # IdleNet => fd[net'.fd].live,
         UNCHANGED <<free, pc, seq, slot, quits>>,
         \A f \in Threads : /\ fd'[f].live = fd[f].live
                            /\ fd'[f].msgQueue = fd[f].msgQueue
                            /\ fd'[f].autoDestroy = fd[f].autoDestroy,
         \A q \in Threads : queue[q] = <<>> => queue'[q] = <<>>
  PROVE  HandoffInv'
<1> USE DEF HandoffInv
<1>1. \A r \in SeqNos : slot[r] \in Threads \cup {NULL}
  BY DEF TypeOK
<1>2. NumbersExclusive' /\ HasNumber'
  BY DEF NumbersExclusive, Holders, HasNumber
<1>3. HandlesLive'
  BY <1>1 DEF HandlesLive, NetShape
<1>4. FreshThreads' /\ OneHandle'
  BY <1>1 DEF FreshThreads, OneHandle
<1>5. SlotOwner'
  <2>1. \A u \in Threads : Attached(u) => seq[u] \in SeqNos
    BY DEF HasNumber, Attached
  <2> QED BY <1>1, <2>1 DEF SlotOwner, Attached
<1> QED BY <1>2, <1>3, <1>4, <1>5

LEMMA StepInv == HandoffInv /\ [Next]_vars => HandoffInv'
<1> SUFFICES ASSUME HandoffInv, [Next]_vars PROVE HandoffInv'
  OBVIOUS
<1> USE DEF HandoffInv
<1>1. ASSUME NEW t \in Threads, get(t) PROVE HandoffInv'
  BY <1>1, GetInv
<1>2. ASSUME NEW t \in Threads, initNotify(t) PROVE HandoffInv'
  BY <1>2, InitNotifyInv
<1>3. ASSUME NEW t \in Threads, invoke(t) PROVE HandoffInv'
  <2> DEFINE c == <<t, made[t] + 1>>
  <2>1. /\ pc[t] = "idle" /\ made[t] < MaxCalls
        /\ made' = [made EXCEPT ![t] = made[t] + 1]
        /\ UNCHANGED <<free, seq, fd, slot, quits, net, term>>
    BY <1>3 DEF invoke
  <2>2. c \in Calls /\ made' \in [Threads -> 0..MaxCalls]
    BY <2>1, BoundsAssumption DEF Calls, TypeOK
  <2> HIDE DEF c
  <2>3. \/ /\ state' \in {[state EXCEPT ![c] = "released"], [state EXCEPT ![c] = "full"]}
           /\ UNCHANGED <<pc, queue>>
        \/ /\ state' = [state EXCEPT ![c] = "queued"]
           /\ queue' = [queue EXCEPT ![t] = Append(queue[t], c)]
           /\ pc' = [pc EXCEPT ![t] = "pushed"]
    BY <1>3 DEF invoke, c
  <2>4. Append(queue[t], c) \in Seq(Calls)
    BY <2>2, AppendProperties DEF TypeOK
  <2>5. TypeOK'
    <3>1. state' \in [Calls -> {"new", "queued", "taken", "finished", "full",
                                "released", "lost", "deleted"}]
      BY <2>2, <2>3 DEF TypeOK
    <3>2. queue' \in [Threads -> Seq(Calls)]
      BY <2>3, <2>4 DEF TypeOK
    <3>3. pc' \in [Threads -> {"start", "attach", "idle", "pushed", "wait", "blocked",
                               "quitting", "gone"}]
      BY <2>3 DEF TypeOK
    <3> QED BY <2>1, <2>2, <3>1, <3>2, <3>3 DEF TypeOK
  <2>6. \E p \in {"idle", "pushed"} : pc' = [pc EXCEPT ![t] = p]
    BY <2>1, <2>3 DEF TypeOK
  <2>7. \A u \in Threads : u # t => queue'[u] = queue[u]
    BY <2>3 DEF TypeOK
  <2>8. Attached(t)
    BY <2>1 DEF Attached
  <2> QED BY <2>1, <2>5, <2>6, <2>7, <2>8, ThreadMovesInv
<1>4. ASSUME NEW t \in Threads, notify(t) PROVE HandoffInv'
  <2> DEFINE f == slot[seq[t]]
  <2>1. /\ pc[t] = "pushed" /\ f # NULL /\ fd' = [fd EXCEPT ![f].armed = TRUE]
        /\ pc' = [pc EXCEPT ![t] = IF t \in SyncThreads THEN "wait" ELSE "idle"]
        /\ UNCHANGED <<free, seq, made, state, queue, slot, quits, net, term>>
    BY <1>4 DEF notify
  <2>2. f \in Threads /\ fd[f] \in FDInfo
    BY <2>1 DEF HasNumber, TypeOK
  <2>3. fd' = [fd EXCEPT ![f] = [fd[f] EXCEPT !.armed = TRUE]]
    BY <2>1, <2>2 DEF TypeOK
  <2>4. fd' \in [Threads -> FDInfo]
    BY <2>2, <2>3, HandleFacts DEF TypeOK
  <2>5. TypeOK'
    BY <2>1, <2>4 DEF TypeOK
  <2>6. \A g \in Threads : /\ fd'[g].live = fd[g].live
                           /\ fd'[g].msgQueue = fd[g].msgQueue
                           /\ fd'[g].autoDestroy = fd[g].autoDestroy
    BY <2>2, <2>3 DEF TypeOK, FDInfo
  <2>7. /\ pc'[t] \in {"wait", "idle"} /\ \A u \in Threads : u # t => pc'[u] = pc[u]
    BY <2>1 DEF TypeOK
  <2>8. Holders' = Holders /\ \A u \in Threads : Attached(u)' <=> Attached(u)
    BY <2>1, <2>7 DEF Holders, Attached
  <2>9. NumbersExclusive' /\ HasNumber' /\ NetShape'
    BY <2>1, <2>7, <2>8 DEF NumbersExclusive, HasNumber, NetShape, TypeOK
  <2>10. \A r \in SeqNos : slot[r] \in Threads \cup {NULL}
    BY DEF TypeOK
  <2>11. HandlesLive' /\ OneHandle'
    BY <2>1, <2>6, <2>10 DEF HandlesLive, OneHandle, NetShape
  <2>12. FreshThreads'
    BY <2>1, <2>6, <2>7 DEF FreshThreads
  <2>13. SlotOwner'
    <3>1. \A u \in Threads : Attached(u) => seq[u] \in SeqNos
      BY DEF HasNumber, Attached
    <3> QED BY <2>1, <2>6, <2>8, <2>10, <3>1 DEF SlotOwner
  <2> QED BY <2>5, <2>9, <2>11, <2>12, <2>13
<1>5. ASSUME NEW t \in Threads, wait(t) \/ wake(t) \/ spuriousWake(t) PROVE HandoffInv'
  <2>1. /\ pc[t] \in {"wait", "blocked"}
        /\ \E p \in {"idle", "blocked"} : pc' = [pc EXCEPT ![t] = p]
        /\ UNCHANGED <<free, seq, made, state, queue, fd, slot, quits, net, term>>
    BY <1>5 DEF wait, wake, spuriousWake
  <2>2. TypeOK' /\ Attached(t)
    BY <2>1 DEF TypeOK, Attached
  <2> QED BY <2>1, <2>2, ThreadMovesInv
<1>6. ASSUME NEW t \in Threads, notifyServantThreadQuit(t) PROVE HandoffInv'
  <2>1. /\ pc[t] = "idle" /\ pc' = [pc EXCEPT ![t] = "quitting"]
        /\ quits' \subseteq quits \cup {t}
        /\ UNCHANGED <<free, seq, made, state, queue, fd, slot, net, term>>
    BY <1>6 DEF notifyServantThreadQuit
  <2>2. TypeOK' /\ Attached(t)
    BY <2>1 DEF TypeOK, Attached
  <2> QED BY <2>1, <2>2, ThreadMovesInv
<1>7. ASSUME NEW t \in Threads, del(t) PROVE HandoffInv'
  BY <1>7, DelInv
<1>8. ASSUME NEW t \in Threads, handleServantThreadQuit(t) PROVE HandoffInv'
  BY <1>8, QuitInv
<1>9. ASSUME NEW f \in Threads, handleNotify(f) PROVE HandoffInv'
  <2>1. /\ fd[f].live /\ fd' = [fd EXCEPT ![f].armed = FALSE]
        /\ net' = [pc |-> "loop", fd |-> f]
        /\ UNCHANGED <<free, pc, seq, made, state, queue, slot, quits, term>>
    BY <1>9 DEF handleNotify, thread
  <2>2. fd[f] \in FDInfo /\ fd' = [fd EXCEPT ![f] = [fd[f] EXCEPT !.armed = FALSE]]
    BY <2>1 DEF TypeOK
  <2>3. fd' \in [Threads -> FDInfo]
    BY <2>2, HandleFacts DEF TypeOK
  <2>4. TypeOK' /\ NetShape'
    BY <2>1, <2>3 DEF TypeOK, NetShape
  <2>5. \A g \in Threads : /\ fd'[g].live = fd[g].live
                           /\ fd'[g].msgQueue = fd[g].msgQueue
                           /\ fd'[g].autoDestroy = fd[g].autoDestroy
    BY <2>2 DEF TypeOK, FDInfo
  <2> QED BY <2>1, <2>4, <2>5, NetMovesInv
<1>10. CASE PopLoop
  <2> DEFINE f == net.fd
             q == fd[f].msgQueue
  <2>1. f \in Threads /\ fd[f].live /\ fd[f] \in FDInfo /\ net.pc = "loop"
    BY <1>10 DEF PopLoop, NetShape, HandlesLive, IdleNet, TypeOK
  <2>2. q \in Threads
    BY <2>1 DEF OneHandle
  <2>3. /\ UNCHANGED <<free, pc, seq, made, slot, quits, term>>
        /\ fd' = fd \/ fd' = [fd EXCEPT ![f].armed = TRUE]
        /\ net' = net \/ net' = [net EXCEPT !.pc = "check"] \/ net' = IdleNet
        /\ Popped(q) \/ UNCHANGED <<queue, state>>
    BY <1>10 DEF PopLoop, PopBreak, thread
  <2> HIDE DEF f, q
  <2>4. fd' \in [Threads -> FDInfo]
    <3>1. [fd EXCEPT ![f].armed = TRUE] = [fd EXCEPT ![f] = [fd[f] EXCEPT !.armed = TRUE]]
      BY <2>1 DEF TypeOK
    <3> QED BY <2>1, <2>3, <3>1, HandleFacts, ZenonT(60) DEF TypeOK
  <2>5. \A g \in Threads : /\ fd'[g].live = fd[g].live
                           /\ fd'[g].msgQueue = fd[g].msgQueue
                           /\ fd'[g].autoDestroy = fd[g].autoDestroy
    BY <2>1, <2>3 DEF TypeOK, FDInfo
  <2>6. /\ queue' \in [Threads -> Seq(Calls)]
        /\ state' \in [Calls -> {"new", "queued", "taken", "finished", "full",
                                 "released", "lost", "deleted"}]
        /\ \A u \in Threads : queue[u] = <<>> => queue'[u] = <<>>
    <3>1. CASE Popped(q)
      <4>1. Head(queue[q]) \in Calls /\ Tail(queue[q]) \in Seq(Calls)
        BY <2>2, <3>1, HeadTailProperties DEF Popped, TypeOK
      <4> QED BY <2>2, <3>1, <4>1 DEF Popped, TypeOK
    <3>2. CASE UNCHANGED <<queue, state>>
      BY <3>2 DEF TypeOK
    <3> QED BY <2>3, <3>1, <3>2
  <2>7. net' \in [pc : {"idle", "loop", "check"}, fd : Threads \cup {NULL}]
        /\ NetShape' /\ (net' # IdleNet => fd[net'.fd].live)
    <3>1. CASE net' = net
      BY <2>1, <3>1 DEF TypeOK, NetShape, f
    <3>2. CASE net' = [net EXCEPT !.pc = "check"]
      <4>1. net'.pc = "check" /\ net'.fd = f
        BY <3>2 DEF TypeOK, f
      <4>2. net' \in [pc : {"idle", "loop", "check"}, fd : Threads \cup {NULL}]
        BY <3>2 DEF TypeOK
      <4> QED BY <2>1, <4>1, <4>2 DEF NetShape
    <3>3. CASE net' = IdleNet
      BY <3>3 DEF NetShape, IdleNet
    <3> QED BY <2>3, <3>1, <3>2, <3>3
  <2>8. TypeOK'
    BY <2>3, <2>4, <2>6, <2>7 DEF TypeOK
  <2> QED BY <2>3, <2>5, <2>6, <2>7, <2>8, NetMovesInv
<1>11. CASE CheckDestroy
  BY <1>11, CheckDestroyInv
<1>12. ASSUME NEW c \in Calls, Finish(c) PROVE HandoffInv'
  <2>1. /\ state' = [state EXCEPT ![c] = "finished"]
        /\ UNCHANGED <<free, pc, seq, made, queue, fd, slot, quits, net, term>>
    BY <1>12 DEF Finish, thread
  <2>2. TypeOK' /\ NetShape'
    BY <2>1 DEF TypeOK, NetShape
  <2> QED BY <2>1, <2>2, NetMovesInv DEF HandlesLive
<1>13. CASE terminate \/ notifyTerminateTimeout \/ UNCHANGED vars
  <2>1. /\ UNCHANGED <<free, pc, seq, made, state, queue, fd, slot, quits, net>>
        /\ term' = term \/ term' = "flagged" \/ term' = "abandoned"
    BY <1>13 DEF terminate, notifyTerminateTimeout, vars, thread
  <2>2. TypeOK' /\ NetShape'
    BY <2>1 DEF TypeOK, NetShape
  <2> QED BY <2>1, <2>2, NetMovesInv DEF HandlesLive
<1>14. CASE handleTerminate
  BY <1>14, TerminateInv
<1> QED BY <1>1, <1>2, <1>3, <1>4, <1>5, <1>6, <1>7, <1>8, <1>9, <1>10, <1>11,
           <1>12, <1>13, <1>14 DEF Next

(* The invariant that ties numbers, handles and queues together holds in   *)
(* every behaviour, whatever the number of threads and numbers.            *)
THEOREM HandoffConsistent == Spec => []HandoffInv
BY InitInv, StepInv, PTL DEF Spec

(* Threads, calls, queues, handles and the network thread keep to their    *)
(* types.                                                                  *)
THEOREM HandoffTypes == Spec => []TypeOK
BY HandoffConsistent, PTL DEF HandoffInv

(* SeqManager gives a number to one thread at a time. *)
THEOREM NumbersAreExclusive == Spec => []NumbersExclusive
BY HandoffConsistent, PTL DEF HandoffInv

(* No entry of _notify and no running handler refers to a handle that was  *)
(* deleted, even when numbers are reused before the network thread has     *)
(* seen the quit of their last owner.                                      *)
THEOREM HandlesStayLive == Spec => []HandlesLive
BY HandoffConsistent, PTL DEF HandoffInv

-----------------------------------------------------------------------------
(* No lost wake-up, handle by handle. *)
Awake(f) ==
  fd[f].live /\ queue[fd[f].msgQueue] # <<>> =>
    \/ fd[f].armed
    \/ net = [pc |-> "loop", fd |-> f]
    \/ pc[fd[f].msgQueue] = "pushed"

LEMMA WakeupStep ==
  ASSUME ~Throws, HandoffInv, HandoffInv', NoLostWakeup, [Next]_vars
  PROVE  NoLostWakeup'
<1> USE DEF HandoffInv
<1> SUFFICES ASSUME NEW g \in Threads PROVE Awake(g)'
  BY DEF NoLostWakeup, Awake
<1> DEFINE m == fd[g].msgQueue
<1>a. Awake(g) /\ fd[g] \in FDInfo /\ fd'[g] \in FDInfo
  BY DEF NoLostWakeup, Awake, TypeOK
<1>b. fd[g].live => m \in Threads
  BY DEF OneHandle
<1>1. ASSUME NEW t \in Threads, get(t) PROVE Awake(g)'
  BY <1>1, <1>a, <1>b DEF get, Awake, TypeOK
<1>2. ASSUME NEW t \in Threads, initNotify(t) PROVE Awake(g)'
  <2> DEFINE f == slot[seq[t]]
  <2>1. /\ pc[t] = "attach" /\ pc' = [pc EXCEPT ![t] = "idle"] /\ net' = net
        /\ seq[t] \in SeqNos /\ queue[t] = <<>> /\ ~fd[t].live
        /\ fd[g].live => m # t
    BY <1>2 DEF initNotify, HasNumber, FreshThreads
  <2>2. CASE f = NULL
    <3>1. /\ fd' = [fd EXCEPT ![t] = [live |-> TRUE, msgQueue |-> t,
                                      autoDestroy |-> FALSE, armed |-> TRUE]]
          /\ queue' = queue
      BY <1>2, <2>2 DEF initNotify
    <3>2. CASE g = t
      BY <3>1, <3>2 DEF Awake, TypeOK
    <3>3. CASE g # t
      BY <1>a, <1>b, <2>1, <3>1, <3>3 DEF Awake, TypeOK
    <3> QED BY <3>2, <3>3
  <2>3. CASE f # NULL
    <3>1. /\ fd' = [fd EXCEPT ![f].msgQueue = t]
          /\ queue' = [queue EXCEPT ![fd[f].msgQueue] = <<>>]
          /\ f \in Threads /\ fd[f].live /\ fd[f].msgQueue \in Threads
      BY <1>2, <2>1, <2>3, SMTT(30) DEF initNotify, HandlesLive, OneHandle, TypeOK
    <3>2. CASE g = f
      <4>1. fd'[g].msgQueue = t /\ queue'[t] = <<>>
        BY <1>a, <2>1, <3>1, <3>2 DEF TypeOK, FDInfo
      <4> QED BY <4>1 DEF Awake
    <3>3. CASE g # f
      <4>1. fd'[g] = fd[g]
        BY <3>1, <3>3 DEF TypeOK
      <4>2. fd[g].live => pc'[m] = pc[m] /\ (queue'[m] # <<>> => queue[m] # <<>>)
        BY <1>b, <2>1, <3>1 DEF TypeOK
      <4> QED BY <1>a, <2>1, <4>1, <4>2 DEF Awake
    <3> QED BY <3>2, <3>3
  <2> QED BY <2>2, <2>3
<1>3. ASSUME NEW t \in Threads, invoke(t) PROVE Awake(g)'
  <2>1. fd' = fd /\ net' = net /\ pc[t] = "idle"
    BY <1>3 DEF invoke
  <2>2. \/ UNCHANGED <<pc, queue>>
        \/ /\ pc' = [pc EXCEPT ![t] = "pushed"]
           /\ \A u \in Threads : u # t => queue'[u] = queue[u]
    BY <1>3 DEF invoke, TypeOK
  <2> QED BY <1>a, <1>b, <2>1, <2>2 DEF Awake, TypeOK
(* The handle that is notified is the one of the queue. *)
<1>4. ASSUME NEW t \in Threads, notify(t) PROVE Awake(g)'
  <2> DEFINE f == slot[seq[t]]
  <2>1. /\ pc[t] = "pushed" /\ f # NULL /\ fd' = [fd EXCEPT ![f].armed = TRUE]
        /\ \E p \in {"wait", "idle"} : pc' = [pc EXCEPT ![t] = p]
        /\ queue' = queue /\ net' = net
    BY <1>4 DEF notify
  <2>2. f \in Threads /\ fd[f].live /\ fd[f].msgQueue = t
    BY <2>1 DEF HasNumber, TypeOK, HandlesLive, SlotOwner, Attached
  <2>3. CASE g = f
    BY <1>a, <2>1, <2>2, <2>3 DEF Awake, TypeOK, FDInfo
  <2>4. CASE g # f
    <3>1. fd'[g] = fd[g] /\ (fd[g].live => m # t)
      BY <2>1, <2>2, <2>4 DEF TypeOK, OneHandle
    <3>2. fd[g].live => pc'[m] = pc[m]
      BY <1>b, <2>1, <3>1 DEF TypeOK
    <3> QED BY <1>a, <2>1, <3>1, <3>2 DEF Awake
  <2> QED BY <2>3, <2>4
<1>5. ASSUME NEW t \in Threads,
             wait(t) \/ wake(t) \/ spuriousWake(t) \/ notifyServantThreadQuit(t) \/ del(t)
      PROVE  Awake(g)'
  <2>1. /\ pc[t] # "pushed" /\ \E p \in {"idle", "blocked", "quitting", "gone"} :
                                  pc' = [pc EXCEPT ![t] = p]
        /\ UNCHANGED <<queue, fd, net>>
    BY <1>5 DEF wait, wake, spuriousWake, notifyServantThreadQuit, del
  <2>2. fd[g].live => (pc[m] = "pushed" => pc'[m] = "pushed")
    BY <1>b, <2>1 DEF TypeOK
  <2> QED BY <1>a, <2>1, <2>2 DEF Awake
<1>6. ASSUME NEW t \in Threads, handleServantThreadQuit(t) PROVE Awake(g)'
  <2>1. /\ UNCHANGED <<pc, queue, net>>
        /\ fd' = IF slot[seq[t]] = NULL THEN fd
                 ELSE [fd EXCEPT ![slot[seq[t]]].autoDestroy = TRUE,
                                 ![slot[seq[t]]].armed = TRUE]
    BY <1>6 DEF handleServantThreadQuit, thread
  <2>2. /\ fd'[g].live = fd[g].live /\ fd'[g].msgQueue = fd[g].msgQueue
        /\ fd[g].armed => fd'[g].armed
    <3>1. CASE fd'[g] = fd[g]
      BY <3>1
    <3>2. CASE fd'[g] = [fd[g] EXCEPT !.autoDestroy = TRUE, !.armed = TRUE]
      BY <1>a, <3>2 DEF FDInfo
    <3>3. fd'[g] = fd[g] \/ fd'[g] = [fd[g] EXCEPT !.autoDestroy = TRUE, !.armed = TRUE]
      BY <2>1 DEF TypeOK
    <3> QED BY <3>1, <3>2, <3>3
  <2> QED BY <1>a, <2>1, <2>2 DEF Awake
(* The network thread takes the notification before it looks at the queue. *)
<1>7. ASSUME NEW f \in Threads, handleNotify(f) PROVE Awake(g)'
  <2>1. /\ net = IdleNet /\ net' = [pc |-> "loop", fd |-> f]
        /\ fd' = [fd EXCEPT ![f].armed = FALSE] /\ UNCHANGED <<pc, queue>>
    BY <1>7 DEF handleNotify, thread
  <2>2. CASE g = f
    BY <2>1, <2>2 DEF Awake
  <2>3. CASE g # f
    <3>1. fd'[g] = fd[g] /\ net # [pc |-> "loop", fd |-> g]
      BY <2>1, <2>3 DEF TypeOK, IdleNet
    <3> QED BY <1>a, <2>1, <3>1 DEF Awake
  <2> QED BY <2>2, <2>3
(* It leaves the loop with the queue empty, or notifies itself. *)
<1>8. CASE PopLoop
  <2> DEFINE f == net.fd
             q == fd[f].msgQueue
  <2>1. f \in Threads /\ fd[f].live /\ q \in Threads /\ net.pc = "loop"
    BY <1>8 DEF PopLoop, NetShape, HandlesLive, IdleNet, OneHandle
  <2>2. /\ pc' = pc
        /\ \/ Popped(q) /\ UNCHANGED <<fd, net>>
           \/ /\ Popped(q) /\ net' = [net EXCEPT !.pc = "check"]
              /\ fd' = [fd EXCEPT ![f].armed = TRUE]
           \/ /\ queue[q] = <<>> /\ net' = [net EXCEPT !.pc = "check"]
              /\ UNCHANGED <<fd, queue>>
    BY <1>8 DEF PopLoop, PopBreak, thread
  <2>3. \A u \in Threads : u # q => queue'[u] = queue[u]
    BY <2>1, <2>2 DEF Popped, TypeOK
  <2>4. CASE g = f
    <3>1. CASE UNCHANGED <<fd, net>>
      <4>1. net' = [pc |-> "loop", fd |-> g]
        BY <2>1, <2>4, <3>1 DEF TypeOK
      <4> QED BY <4>1 DEF Awake
    <3>2. CASE fd' = [fd EXCEPT ![f].armed = TRUE]
      BY <1>a, <2>1, <2>4, <3>2 DEF Awake, TypeOK, FDInfo
    <3>3. CASE queue[q] = <<>> /\ UNCHANGED <<fd, queue>>
      BY <2>4, <3>3 DEF Awake
    <3> QED BY <2>2, <3>1, <3>2, <3>3
  <2>5. CASE g # f
    <3>1. fd'[g] = fd[g] /\ net # [pc |-> "loop", fd |-> g] /\ (fd[g].live => m # q)
      BY <2>1, <2>2, <2>5 DEF TypeOK, OneHandle
    <3> QED BY <1>a, <1>b, <2>2, <2>3, <3>1 DEF Awake
  <2> QED BY <2>4, <2>5
<1>9. CASE CheckDestroy
  <2>1. /\ net.pc = "check" /\ UNCHANGED <<pc, queue>>
        /\ fd' = fd \/ fd' = [fd EXCEPT ![net.fd] = NoFd]
    BY <1>9 DEF CheckDestroy, thread
  <2>2. fd'[g] = fd[g] \/ ~fd'[g].live
    BY <2>1 DEF TypeOK, NoFd
  <2>3. net # [pc |-> "loop", fd |-> g]
    BY <2>1
  <2> QED BY <1>a, <2>1, <2>2, <2>3 DEF Awake
<1>10. ASSUME NEW c \in Calls, Finish(c) PROVE Awake(g)'
  BY <1>10, <1>a DEF Finish, thread, Awake
<1>11. CASE terminate \/ notifyTerminateTimeout \/ UNCHANGED vars
  BY <1>11, <1>a DEF terminate, notifyTerminateTimeout, vars, thread, Awake
<1>12. CASE handleTerminate
  <2>1. /\ UNCHANGED <<pc, net>>
        /\ fd'[g] = fd[g] \/ fd'[g] = NoFd
        /\ \A u \in Threads : queue'[u] = queue[u] \/ queue'[u] = <<>>
    BY <1>12 DEF handleTerminate, thread
  <2> QED BY <1>a, <1>b, <2>1 DEF Awake, NoFd
<1> QED BY <1>1, <1>2, <1>3, <1>4, <1>5, <1>6, <1>7, <1>8, <1>9, <1>10, <1>11,
           <1>12 DEF Next

(* No wake-up is lost, whatever the order in which threads push, notify,   *)
(* end and reuse numbers and the network thread looks at its queues: while *)
(* a queue holds messages somebody is bound to come for them, unless       *)
(* ObjectProxy::invoke throws out of the handler.                          *)
THEOREM WakeupsNotLost == ~Throws => (Spec => []NoLostWakeup)
<1> SUFFICES ASSUME ~Throws PROVE Spec => []NoLostWakeup
  OBVIOUS
<1>1. Init => NoLostWakeup
  BY DEF Init, NoLostWakeup, NoFd
<1>2. HandoffInv /\ HandoffInv' /\ NoLostWakeup /\ [Next]_vars => NoLostWakeup'
  BY WakeupStep
<1> QED BY <1>1, <1>2, HandoffConsistent, PTL DEF Spec

-----------------------------------------------------------------------------
(* With at least as many numbers as threads SeqManager never gives a       *)
(* number twice: those that came back stay behind the unused ones.         *)
EnoughNumbers == IsFiniteSet(Threads) /\ Cardinality(Threads) <= Len(Seqs)

Started == {t \in Threads : pc[t] # "start"}
Used == Cardinality(Started)

UnusedFirst ==
  /\ \A i \in 1..(Len(Seqs) - Used) : i \in DOMAIN free /\ free[i] = Seqs[Used + i]
  /\ \A t \in Started : \E j \in 1..Used : seq[t] = Seqs[j]
  /\ \A t, u \in Started : seq[t] = seq[u] => t = u

LEMMA UsedFacts ==
  ASSUME EnoughNumbers, TypeOK
  PROVE  /\ IsFiniteSet(Started) /\ Used \in Nat /\ Len(Seqs) \in Nat
         /\ \A t \in Threads : pc[t] = "start" => Used < Len(Seqs)
<1>1. /\ IsFiniteSet(Started) /\ Used <= Cardinality(Threads)
      /\ Used = Cardinality(Threads) => Started = Threads
  BY FS_Subset DEF Started, Used, EnoughNumbers
<1>2. Used \in Nat /\ Cardinality(Threads) \in Nat /\ Len(Seqs) \in Nat
  BY <1>1, FS_CardinalityType, SeqsAssumption, LenProperties DEF Used, EnoughNumbers
<1>3. ASSUME NEW t \in Threads, pc[t] = "start" PROVE Used < Len(Seqs)
  <2>1. Started # Threads
    BY <1>3 DEF Started
  <2> QED BY <1>1, <1>2, <2>1 DEF EnoughNumbers
<1> QED BY <1>1, <1>2, <1>3

LEMMA InitUnusedFirst == Init => UnusedFirst
<1> SUFFICES ASSUME Init PROVE UnusedFirst
  OBVIOUS
<1>1. Started = {} /\ Used = 0
  BY FS_EmptySet DEF Init, Started, Used
<1>2. DOMAIN Seqs = 1..Len(Seqs) /\ Len(Seqs) \in Nat
  BY SeqsAssumption, LenProperties
<1> QED BY <1>1, <1>2 DEF Init, UnusedFirst

LEMMA StepUnusedFirst ==
  ASSUME EnoughNumbers, HandoffInv, UnusedFirst, [Next]_vars
  PROVE  UnusedFirst'
<1> USE DEF HandoffInv
<1> DEFINE n == Len(Seqs)
<1>0. /\ IsFiniteSet(Started) /\ Used \in Nat /\ n \in Nat
      /\ DOMAIN Seqs = 1..n
      /\ DOMAIN free = 1..Len(free) /\ Len(free) \in Nat
  BY UsedFacts, SeqsAssumption, LenProperties DEF TypeOK
<1>1. ASSUME NEW t \in Threads, get(t) PROVE UnusedFirst'
  <2>1. /\ pc[t] = "start" /\ free # <<>> /\ free' = Tail(free)
        /\ seq' = [seq EXCEPT ![t] = Head(free)] /\ pc' = [pc EXCEPT ![t] = "attach"]
    BY <1>1 DEF get
  <2>2. Used < n
    BY <2>1, UsedFacts
  <2>3. Started' = Started \cup {t} /\ t \notin Started
    BY <2>1 DEF Started, TypeOK
  <2>4. Used' = Used + 1
    BY <1>0, <2>3, FS_AddElement DEF Used
  <2>5. /\ Head(free) = free[1] /\ DOMAIN Tail(free) = 1..(Len(free) - 1)
        /\ \A i \in DOMAIN Tail(free) : Tail(free)[i] = free[i + 1]
    BY <2>1, FreeListFacts DEF TypeOK
  <2>6. Head(free) = Seqs[Used + 1]
    BY <1>0, <2>2, <2>5 DEF UnusedFirst
  <2>7. /\ seq'[t] = Seqs[Used + 1]
        /\ \A u \in Started : u \in Threads /\ u # t /\ seq'[u] = seq[u]
    BY <2>1, <2>3, <2>6 DEF TypeOK, Started
  <2>8. \A i \in 1..(n - Used') : i \in DOMAIN free' /\ free'[i] = Seqs[Used' + i]
    <3> SUFFICES ASSUME NEW i \in 1..(n - (Used + 1))
                 PROVE  i \in DOMAIN Tail(free) /\ Tail(free)[i] = Seqs[(Used + 1) + i]
      BY <2>1, <2>4
    <3>1. i + 1 \in 1..(n - Used)
      BY <1>0
    <3>2. i + 1 \in DOMAIN free /\ free[i + 1] = Seqs[Used + (i + 1)]
      BY <3>1 DEF UnusedFirst
    <3>3. i \in DOMAIN Tail(free)
      BY <1>0, <2>5, <3>2
    <3>4. Used + (i + 1) = (Used + 1) + i
      BY <1>0
    <3> QED BY <2>5, <3>2, <3>3, <3>4
  <2>9. \A u \in Started' : \E j \in 1..Used' : seq'[u] = Seqs[j]
    BY <1>0, <2>3, <2>4, <2>7 DEF UnusedFirst
  <2>10. \A u \in Started : seq'[u] # seq'[t]
    <3> SUFFICES ASSUME NEW u \in Started, seq'[u] = seq'[t] PROVE FALSE
      OBVIOUS
    <3>1. PICK j \in 1..Used : seq[u] = Seqs[j]
      BY DEF UnusedFirst
    <3>2. Seqs[j] = Seqs[Used + 1]
      BY <2>7, <3>1
    <3>3. j \in DOMAIN Seqs /\ Used + 1 \in DOMAIN Seqs
      BY <1>0, <2>2
    <3> QED BY <1>0, <3>2, <3>3, SeqsAssumption
  <2>11. \A u, v \in Started' : seq'[u] = seq'[v] => u = v
    BY <2>3, <2>7, <2>10 DEF UnusedFirst
  <2> QED BY <2>8, <2>9, <2>11 DEF UnusedFirst
<1>2. ASSUME NEW t \in Threads, del(t) PROVE UnusedFirst'
  <2>1. /\ pc[t] = "quitting" /\ pc' = [pc EXCEPT ![t] = "gone"]
        /\ free' = Append(free, seq[t]) /\ seq' = seq
    BY <1>2 DEF del
  <2>2. Started' = Started
    BY <2>1 DEF Started, TypeOK
  <2>3. Used' = Used
    BY <2>2 DEF Used
  <2>4. /\ \A i \in DOMAIN free : Append(free, seq[t])[i] = free[i]
        /\ DOMAIN Append(free, seq[t]) = 1..(Len(free) + 1)
    <3>1. seq[t] \in SeqNos
      BY <2>1 DEF HasNumber
    <3> QED BY <3>1, FreeListFacts DEF TypeOK
  <2>5. \A i \in DOMAIN free : i \in DOMAIN free' /\ free'[i] = free[i]
    BY <1>0, <2>1, <2>4
  <2> QED BY <2>1, <2>2, <2>3, <2>5 DEF UnusedFirst
<1>3. ASSUME UNCHANGED <<free, seq>>,
             \A t \in Threads : pc'[t] = "start" <=> pc[t] = "start"
      PROVE  UnusedFirst'
  <2>1. Started' = Started
    BY <1>3 DEF Started
  <2>2. Used' = Used
    BY <2>1 DEF Used
  <2> QED BY <1>3, <2>1, <2>2 DEF UnusedFirst
<1>4. ASSUME NEW t \in Threads,
             \/ initNotify(t) \/ invoke(t) \/ notify(t) \/ wait(t) \/ wake(t)
             \/ spuriousWake(t) \/ notifyServantThreadQuit(t)
      PROVE  UnusedFirst'
  <2>1. /\ UNCHANGED <<free, seq>> /\ pc[t] # "start"
        /\ pc' = pc \/ \E p \in {"idle", "pushed", "wait", "blocked", "quitting"} :
                         pc' = [pc EXCEPT ![t] = p]
    BY <1>4 DEF initNotify, invoke, notify, wait, wake, spuriousWake,
                notifyServantThreadQuit
  <2> QED BY <1>3, <2>1 DEF TypeOK
<1>5. ASSUME UNCHANGED <<free, pc, seq>> PROVE UnusedFirst'
  BY <1>3, <1>5
<1>6. ASSUME NEW t \in Threads, handleServantThreadQuit(t) \/ handleNotify(t)
      PROVE  UnusedFirst'
  BY <1>5, <1>6 DEF handleServantThreadQuit, handleNotify, thread
<1>7. ASSUME NEW c \in Calls, Finish(c) PROVE UnusedFirst'
  BY <1>5, <1>7 DEF Finish, thread
<1>8. CASE \/ PopLoop \/ CheckDestroy \/ terminate \/ handleTerminate
           \/ notifyTerminateTimeout \/ UNCHANGED vars
  BY <1>5, <1>8 DEF PopLoop, CheckDestroy, terminate, handleTerminate,
                    notifyTerminateTimeout, thread, vars
<1> QED BY <1>1, <1>2, <1>4, <1>6, <1>7, <1>8 DEF Next

(* The handle under a number was made by the thread that has the number,   *)
(* and it stays until the quit of that thread is handled.                  *)
OwnHandle ==
  /\ \A s \in SeqNos : slot[s] # NULL =>
       slot[s] \in Threads /\ seq[slot[s]] = s /\ pc[slot[s]] \notin {"start", "attach"}
  /\ \A t \in Threads : pc[t] \in {"idle", "pushed", "wait", "blocked"} =>
       slot[seq[t]] # NULL
  /\ \A t \in quits : pc[t] \in {"quitting", "gone"}
  /\ term = "no"

LEMMA StepOwnHandle ==
  ASSUME ~Terminates, HandoffInv, HandoffInv', UnusedFirst, OwnHandle, NothingLost,
         [Next]_vars
  PROVE  OwnHandle' /\ NothingLost'
<1> USE DEF HandoffInv
<1>1. ASSUME NEW t \in Threads, get(t) PROVE OwnHandle' /\ NothingLost'
  <2>1. /\ pc[t] = "start" /\ pc' = [pc EXCEPT ![t] = "attach"]
        /\ \A u \in Threads : u # t => seq'[u] = seq[u]
        /\ UNCHANGED <<state, slot, quits, term>>
    BY <1>1 DEF get, TypeOK
  <2>2. OwnHandle'
    BY <2>1 DEF OwnHandle, TypeOK
  <2> QED BY <2>1, <2>2 DEF NothingLost
<1>2. ASSUME NEW t \in Threads, initNotify(t) PROVE OwnHandle' /\ NothingLost'
  <2>1. /\ pc[t] = "attach" /\ pc' = [pc EXCEPT ![t] = "idle"]
        /\ UNCHANGED <<seq, quits, term>>
    BY <1>2 DEF initNotify
  <2>2. seq[t] \in SeqNos /\ t \in Started
    BY <2>1 DEF HasNumber, Started
  <2>3. slot[seq[t]] = NULL
    <3> SUFFICES ASSUME slot[seq[t]] # NULL PROVE FALSE
      OBVIOUS
    <3> DEFINE u == slot[seq[t]]
    <3>1. u \in Threads /\ seq[u] = seq[t] /\ pc[u] \notin {"start", "attach"}
      BY <2>2 DEF OwnHandle
    <3>2. u \in Started /\ u # t
      BY <2>1, <3>1 DEF Started
    <3> QED BY <2>2, <3>1, <3>2 DEF UnusedFirst
  <2>4. slot' = [slot EXCEPT ![seq[t]] = t] /\ state' = state
    BY <1>2, <2>3 DEF initNotify
  <2>5. \A u \in Threads : pc[u] \notin {"start"} => seq[u] \in SeqNos
    BY DEF HasNumber
  <2>6. OwnHandle'
    BY <2>1, <2>2, <2>4, <2>5, NullAssumption DEF OwnHandle, TypeOK
  <2> QED BY <2>4, <2>6 DEF NothingLost
<1>3. ASSUME UNCHANGED <<seq, slot, quits, term>>,
             \A t \in Threads : \/ pc'[t] = pc[t]
                                \/ /\ pc[t] \in {"idle", "pushed", "wait", "blocked"}
                                   /\ pc'[t] \in {"idle", "pushed", "wait", "blocked"}
                                \/ pc[t] = "quitting" /\ pc'[t] = "gone"
      PROVE  OwnHandle'
  <2>1. \A t \in Threads :
          /\ pc'[t] \in {"idle", "pushed", "wait", "blocked"} =>
               pc[t] \in {"idle", "pushed", "wait", "blocked"}
          /\ pc'[t] \in {"start", "attach"} => pc[t] \in {"start", "attach"}
          /\ pc[t] \in {"quitting", "gone"} => pc'[t] \in {"quitting", "gone"}
    BY <1>3
  <2>2. \A t \in quits : t \in Threads
    BY DEF TypeOK
  <2> QED BY <1>3, <2>1, <2>2 DEF OwnHandle
<1>4. ASSUME NEW c, NEW s \in {"released", "full", "queued", "taken", "finished"},
             state' = [state EXCEPT ![c] = s]
      PROVE  NothingLost'
  BY <1>4 DEF NothingLost, TypeOK
<1>5. ASSUME NEW t \in Threads, invoke(t) PROVE OwnHandle' /\ NothingLost'
  <2>1. /\ UNCHANGED <<seq, slot, quits, term>> /\ pc[t] = "idle"
        /\ pc' = pc \/ pc' = [pc EXCEPT ![t] = "pushed"]
        /\ \E s \in {"released", "full", "queued"} :
             state' = [state EXCEPT ![<<t, made[t] + 1>>] = s]
    BY <1>5 DEF invoke
  <2>2. OwnHandle'
    BY <1>3, <2>1 DEF TypeOK
  <2> QED BY <1>4, <2>1, <2>2
<1>6. ASSUME NEW t \in Threads, notify(t) \/ wait(t) \/ wake(t) \/ spuriousWake(t) \/ del(t)
      PROVE  OwnHandle' /\ NothingLost'
  <2>1. /\ UNCHANGED <<seq, slot, quits, term, state>>
        /\ \/ /\ pc[t] \in {"pushed", "wait", "blocked"}
              /\ \E p \in {"idle", "wait", "blocked"} : pc' = [pc EXCEPT ![t] = p]
           \/ pc[t] = "quitting" /\ pc' = [pc EXCEPT ![t] = "gone"]
    BY <1>6 DEF notify, wait, wake, spuriousWake, del
  <2>2. OwnHandle'
    BY <1>3, <2>1 DEF TypeOK
  <2> QED BY <2>1, <2>2 DEF NothingLost
<1>7. ASSUME NEW t \in Threads, notifyServantThreadQuit(t) PROVE OwnHandle' /\ NothingLost'
  <2>1. /\ UNCHANGED <<seq, slot, term, state>> /\ quits' = quits \cup {t}
        /\ pc[t] = "idle" /\ pc' = [pc EXCEPT ![t] = "quitting"]
    BY <1>7 DEF notifyServantThreadQuit, OwnHandle
  <2>2. OwnHandle'
    BY <2>1 DEF OwnHandle, TypeOK
  <2> QED BY <2>1, <2>2 DEF NothingLost
<1>8. ASSUME NEW t \in Threads, handleServantThreadQuit(t) PROVE OwnHandle' /\ NothingLost'
  <2>1. /\ t \in quits /\ quits' = quits \ {t} /\ slot' = [slot EXCEPT ![seq[t]] = NULL]
        /\ UNCHANGED <<pc, seq, term, state>>
    BY <1>8 DEF handleServantThreadQuit, thread
  <2>2. pc[t] \in {"quitting", "gone"} /\ seq[t] \in SeqNos /\ t \in Started
    BY <2>1 DEF OwnHandle, HasNumber, Started
  <2>3. \A u \in Threads : pc[u] \in {"idle", "pushed", "wait", "blocked"} =>
          seq[u] # seq[t] /\ seq[u] \in SeqNos
    BY <2>2 DEF UnusedFirst, Started, HasNumber
  <2>4. OwnHandle'
    BY <2>1, <2>2, <2>3 DEF OwnHandle, TypeOK
  <2> QED BY <2>1, <2>4 DEF NothingLost
<1>9. ASSUME UNCHANGED <<pc, seq, slot, quits, term>> PROVE OwnHandle'
  BY <1>3, <1>9
<1>10. ASSUME NEW t \in Threads, handleNotify(t) PROVE OwnHandle' /\ NothingLost'
  BY <1>9, <1>10 DEF handleNotify, thread, NothingLost
<1>11. CASE PopLoop
  <2>1. /\ UNCHANGED <<pc, seq, slot, quits, term>>
        /\ state' = state \/ \E c : state' = [state EXCEPT ![c] = "taken"]
    BY <1>11 DEF PopLoop, PopBreak, Popped, thread
  <2>2. CASE state' = state
    BY <1>9, <2>1, <2>2 DEF NothingLost
  <2>3. CASE \E c : state' = [state EXCEPT ![c] = "taken"]
    BY <1>4, <1>9, <2>1, <2>3
  <2> QED BY <2>1, <2>2, <2>3
<1>12. CASE CheckDestroy
  BY <1>9, <1>12 DEF CheckDestroy, thread, NothingLost
<1>13. ASSUME NEW c \in Calls, Finish(c) PROVE OwnHandle' /\ NothingLost'
  BY <1>4, <1>9, <1>13 DEF Finish, thread
<1>14. CASE terminate \/ handleTerminate \/ notifyTerminateTimeout
  BY <1>14 DEF terminate, handleTerminate, notifyTerminateTimeout, OwnHandle
<1>15. CASE UNCHANGED vars
  BY <1>9, <1>15 DEF vars, NothingLost
<1> QED BY <1>1, <1>2, <1>5, <1>6, <1>7, <1>8, <1>10, <1>11, <1>12, <1>13, <1>14,
           <1>15 DEF Next

(* As long as there are as many numbers as threads and the communicator    *)
(* lives, a thread that notifies finds its handle (the assertion of        *)
(* CommunicatorEpoll::notify) and no accepted message goes with its queue, *)
(* whatever the order in which threads start, call and end.                *)
THEOREM HandoffKeepsAll ==
  EnoughNumbers /\ ~Terminates => (Spec => []KeepsAll)
<1> SUFFICES ASSUME EnoughNumbers, ~Terminates
             PROVE  Spec => []KeepsAll
  OBVIOUS
<1>1. Init => UnusedFirst /\ OwnHandle /\ NothingLost
  <2>1. Init => OwnHandle /\ NothingLost
    BY DEF Init, OwnHandle, NothingLost
  <2> QED BY <2>1, InitUnusedFirst
<1>2. HandoffInv /\ UnusedFirst /\ [Next]_vars => UnusedFirst'
  BY StepUnusedFirst
<1>3. HandoffInv /\ HandoffInv' /\ UnusedFirst /\ OwnHandle /\ NothingLost /\ [Next]_vars
        => OwnHandle' /\ NothingLost'
  BY StepOwnHandle
<1>4. OwnHandle /\ NothingLost => KeepsAll
  BY DEF OwnHandle, NotifyFdExists, KeepsAll
<1> QED BY <1>1, <1>2, <1>3, <1>4, HandoffConsistent, PTL DEF Spec
=============================================================================
