---------------------------- MODULE EndpointShield ----------------------------
(***************************************************************************)
(* How the client chooses a server for a call and keeps away from the ones *)
(* that fail: the round robin of EndpointManager over the AdapterProxys of *)
(* one object, and the shielding of an AdapterProxy after failed calls     *)
(* (finishInvoke(bool)) or failed connections (addConnExc), with its       *)
(* periodic retry.                                                         *)
(*                                                                         *)
(* All of it runs in the network thread, one handler at a time.  A time    *)
(* stamp of the code is kept as the seconds left until it, so that the     *)
(* clock needs no bound.  The calls themselves are in RpcClient; here a    *)
(* call only ends well or badly.  The proxies of one object that share a   *)
(* server and shield it together (ServantProxy::onSetInactive) are seen    *)
(* from one of them.  radio is the default, one half.                      *)
(*                                                                         *)
(* With tars_reconnect a closed connection is also made again by a timer   *)
(* of the network thread (doReconnect), which knows nothing of shielding.  *)
(* Its interval is any number of milliseconds: when an entry is due is     *)
(* left open.  The servers of ActiveProxys are active in the registry, so  *)
(* the test of reconnectActiveInReg never keeps an entry out.              *)
(***************************************************************************)
EXTENDS Naturals, Sequences, FiniteSets

CONSTANTS
  ActiveProxys,          \* _activeProxys: the adapters, in round robin order
  Udp,                   \* those with a UDP endpoint
  MinTimeoutInvoke, CheckTimeoutInterval, FrequenceFailInvoke,
  MinFrequenceFailTime, TryTimeInterval, MaxConnectExc,    \* CheckTimeoutInfo
  ConnectThrows,         \* may connect() throw
  KeepAlive,             \* keep-alive-interval > 0
  Siblings,              \* other proxies of the object may shield a server
  Reconnect,             \* tars_reconnect is set
  MaxInvoke,             \* bound on the counters of calls and exceptions
  MaxReconnects          \* bound on the entries of one adapter in _reconnect

Adapters == {ActiveProxys[i] : i \in DOMAIN ActiveProxys}
Num == Len(ActiveProxys)

ASSUME ProxysAssumption ==
  /\ ActiveProxys \in Seq(Adapters) /\ ActiveProxys # <<>>
  /\ \A i, j \in DOMAIN ActiveProxys : ActiveProxys[i] = ActiveProxys[j] => i = j
  /\ Udp \subseteq Adapters
ASSUME InfoAssumption ==
  {MinTimeoutInvoke, CheckTimeoutInterval, FrequenceFailInvoke, MinFrequenceFailTime,
   TryTimeInterval, MaxConnectExc, MaxInvoke, MaxReconnects} \subseteq Nat
ASSUME FlagsAssumption == {ConnectThrows, KeepAlive, Siblings, Reconnect} \subseteq BOOLEAN

VARIABLES ad,      \* the state of each adapter
          round,   \* _lastRoundPosition
          last     \* the last operation: <<"chosen", adapter>>,
                   \* <<"reconnect">> or <<"other">>

vars == <<ad, round, last>>

AdapterState ==
  [active : BOOLEAN,                       \* _activeStatus
   link : {"none", "connecting", "connected"},
   connTimeout : BOOLEAN,                  \* _isConnTimeout of the transceiver
   connExc : BOOLEAN, connExcCnt : Nat,
   retryIn : Nat,                          \* until _nextRetryTime
   frequenceFail : Nat, frequenceIn : Nat, \* until _frequenceFailTime
   finishIn : Nat,                         \* until after _nextFinishInvokeTime
   total : Nat, timeout : Nat,
   again : Nat]                            \* entries of its transceiver in _reconnect

NewAdapter ==
  [active |-> TRUE, link |-> "none", connTimeout |-> FALSE, connExc |-> FALSE,
   connExcCnt |-> 0, retryIn |-> 0, frequenceFail |-> 0, frequenceIn |-> 0,
   finishIn |-> 0, total |-> 0, timeout |-> 0, again |-> 0]

Init ==
  /\ ad = [a \in Adapters |-> NewAdapter]
  /\ round = 0
  /\ last = <<"other">>

-----------------------------------------------------------------------------
(* AdapterProxy *)

(* onCloseCallback: an entry for doReconnect.  UDP sockets do not call it. *)
onCloseCallback(r, a) ==
  IF Reconnect /\ a \notin Udp /\ r.again < MaxReconnects
    THEN [r EXCEPT !.again = r.again + 1] ELSE r

(* close() of the transceiver. *)
close(r, a) ==
  IF r.link = "none" THEN r ELSE onCloseCallback([r EXCEPT !.link = "none"], a)

(* Mutant: the connection of a shielded server is left open. *)
setInactiveOpen(r, a) == [r EXCEPT !.active = FALSE, !.retryIn = TryTimeInterval]

setInactive(r, a) ==
  close([r EXCEPT !.active = FALSE, !.retryIn = TryTimeInterval], a)

(* onConnectCallback: addConnExc(false). *)
Connected(r) ==
  [r EXCEPT !.link = "connected", !.connExc = FALSE, !.connExcCnt = 0, !.active = TRUE]

(* addConnExc(true). *)
ConnException(r, a) ==
  IF r.connExc THEN r
  ELSE IF r.connExcCnt + 1 >= MaxConnectExc
    THEN [setInactive(r, a) EXCEPT !.connExc = TRUE, !.connExcCnt = r.connExcCnt + 1]
    ELSE [r EXCEPT !.connExcCnt = r.connExcCnt + 1]

(* What connect() may find: the connection is in progress, made at once    *)
(* or refused at once.  A UDP socket is connected without the callback.    *)
Outcomes == {"wait", "now"} \cup {o \in {"throw"} : ConnectThrows}

connect(r, a, o) ==
  CASE o = "throw" ->
         onCloseCallback([r EXCEPT !.connTimeout = r.connTimeout /\ a \in Udp], a)
    [] o # "throw" /\ a \in Udp -> [r EXCEPT !.link = "connected"]
    [] o = "wait" /\ a \notin Udp -> [r EXCEPT !.link = "connecting", !.connTimeout = FALSE]
    [] o = "now" /\ a \notin Udp -> Connected([r EXCEPT !.connTimeout = FALSE])

(* Mutant: the retry time is not looked at. *)
NeverTooEarly(r) == FALSE

(* Shielded, and the time of the next retry has not come. *)
TooEarly(r) == ~r.active /\ r.retryIn > 0

(* A connect() that throws is caught by checkActive. *)
tryConnect(r, a, o) ==
  IF o = "throw" THEN [connect(r, a, o) EXCEPT !.active = FALSE] ELSE connect(r, a, o)

(* Mutant: a shielded adapter is only given its next retry time. *)
CheckedPutsOff(r, a, o) ==
  LET s == IF r.active THEN r ELSE [r EXCEPT !.retryIn = TryTimeInterval]
  IN IF TooEarly(r) THEN r
     ELSE IF s.link = "none" /\ s.active THEN tryConnect(s, a, o) ELSE s

(* The adapter after checkActive. *)
Checked(r, a, o) ==
  LET s == IF r.active THEN r ELSE [r EXCEPT !.retryIn = TryTimeInterval]
  IN IF TooEarly(r) THEN r
     ELSE IF s.link = "none" THEN tryConnect(s, a, o) ELSE s

(* What checkActive(false) returns. *)
checkActive(r, a, o) == ~TooEarly(r) /\ Checked(r, a, o).link = "connected"

(* finishInvoke(true) of an active adapter: shielded for the failures in a *)
(* row, or for their share once the interval is over.                      *)
Failed(r, a) ==
  LET s == [r EXCEPT !.total = r.total + 1, !.timeout = r.timeout + 1,
                     !.frequenceFail = r.frequenceFail + 1,
                     !.frequenceIn = IF r.frequenceFail = 0 THEN MinFrequenceFailTime
                                                           ELSE r.frequenceIn]
      t == [s EXCEPT !.finishIn = CheckTimeoutInterval + 1]
  IN CASE s.frequenceFail >= FrequenceFailInvoke /\ s.frequenceIn = 0 -> setInactive(s, a)
       [] OTHER ->
            IF s.finishIn > 0 THEN s
            ELSE IF s.timeout >= MinTimeoutInvoke /\ 2 * s.timeout >= s.total
                   THEN setInactive(t, a)
                   ELSE [t EXCEPT !.total = 0, !.timeout = 0]

(* finishInvoke(false) of an active adapter. *)
Succeeded(r) ==
  LET s == [r EXCEPT !.total = r.total + 1, !.frequenceFail = 0]
  IN IF s.finishIn > 0 THEN s
     ELSE [s EXCEPT !.finishIn = CheckTimeoutInterval + 1, !.total = 0, !.timeout = 0]

(* finishInvoke(false) of a shielded adapter: the retry succeeded. *)
Recovered(r) ==
  [r EXCEPT !.active = TRUE, !.frequenceFail = 0, !.total = 1, !.timeout = 0,
            !.finishIn = CheckTimeoutInterval + 1, !.connTimeout = FALSE, !.connExc = FALSE]

Becomes(a, r) ==
  /\ ad' = [ad EXCEPT ![a] = r]
  /\ last' = <<"other">>
  /\ UNCHANGED round

(* A response came, so the connection is there. *)
finishInvokeOk(a) ==
  /\ ad[a].link = "connected" /\ ad[a].total < MaxInvoke
  /\ Becomes(a, IF ad[a].active THEN Succeeded(ad[a]) ELSE Recovered(ad[a]))

(* A call timed out or failed, perhaps long after the connection was lost. *)
finishInvokeFail(a) ==
  /\ ad[a].active /\ ad[a].total < MaxInvoke /\ ad[a].frequenceFail < MaxInvoke
  /\ Becomes(a, Failed(ad[a], a))

onConnectCallback(a) ==
  /\ ad[a].link = "connecting"
  /\ Becomes(a, Connected(ad[a]))

(* The timer of connect(); nothing is counted. *)
checkConnectTimeout(a) ==
  /\ ad[a].link = "connecting"
  /\ Becomes(a, close([ad[a] EXCEPT !.connTimeout = TRUE], a))

(* Reading or writing failed: the exception closed a TCP connection before *)
(* the handler counts it.                                                  *)
handleError(a) ==
  /\ ad[a].link # "none" /\ ad[a].connExcCnt < MaxInvoke
  /\ Becomes(a, ConnException(IF a \in Udp THEN ad[a] ELSE close(ad[a], a), a))

(* EPOLLERR: closed and not counted. *)
handleCloseImp(a) ==
  /\ ad[a].link # "none"
  /\ Becomes(a, close(ad[a], a))

onSetInactive(a) ==
  /\ Siblings
  /\ Becomes(a, setInactive(ad[a], a))

doKeepAlive ==
  /\ KeepAlive
  /\ \E o \in [Adapters -> Outcomes] :
       ad' = [a \in Adapters |-> Checked(ad[a], a, o[a])]
  /\ last' = <<"other">>
  /\ UNCHANGED round

(* doReconnect takes entries of the hash map in any order and stops at the *)
(* first that is not due, so it serves some adapters: each once, n of its  *)
(* entries being left.  A connect() that throws ends it; its entry stays.  *)
doReconnect ==
  \E S \in SUBSET {a \in Adapters : ad[a].again > 0} :
  \E o \in [S -> Outcomes], n \in [S -> 0..MaxReconnects] :
    LET refused(a) == ad[a].link = "none" /\ o[a] = "throw"
        tried(a) == IF ad[a].link = "none" THEN connect(ad[a], a, o[a]) ELSE ad[a]
    IN /\ S # {} /\ \A a \in S : n[a] < ad[a].again
       /\ \A a, b \in S : refused(a) /\ refused(b) => a = b
       /\ ad' = [a \in Adapters |->
                   IF a \notin S THEN ad[a]
                   ELSE IF refused(a) THEN tried(a) ELSE [tried(a) EXCEPT !.again = n[a]]]
       /\ last' = <<"reconnect">>
       /\ UNCHANGED round

(* reConnect: the map is keyed by the time, so another transceiver of the  *)
(* thread that closes in the same millisecond takes the entry over.        *)
reConnect(a) ==
  /\ ad[a].again > 0
  /\ Becomes(a, [ad[a] EXCEPT !.again = ad[a].again - 1])

Tick ==
  LET Less(n) == IF n = 0 THEN 0 ELSE n - 1
  IN /\ ad' = [a \in Adapters |->
                 [ad[a] EXCEPT !.retryIn = Less(ad[a].retryIn),
                               !.frequenceIn = Less(ad[a].frequenceIn),
                               !.finishIn = Less(ad[a].finishIn)]]
     /\ ad' # ad
     /\ last' = <<"other">>
     /\ UNCHANGED round

-----------------------------------------------------------------------------
(* EndpointManager *)

(* The i-th adapter that getNextValidProxy looks at. *)
At(i) == ActiveProxys[((round + i) % Num) + 1]

(* Mutant: the loop does not come back to the adapter it started from. *)
UsableButLast(o) == {i \in 1..(Num - 1) : checkActive(ad[At(i)], At(i), o[At(i)])}

(* Where the loop may stop. *)
Usable(o) == {i \in 1..Num : checkActive(ad[At(i)], At(i), o[At(i)])}


(* Mutant: the round does not move on. *)
RoundAfterStays(k) == round

(* _lastRoundPosition when the loop stops at its k-th adapter. *)
RoundAfter(k) == (round + k) % Num

(* The first adapter that is connected; those before it were checked. *)
takeFirst(o) ==
  \E k \in Usable(o) :
    /\ \A i \in Usable(o) : k <= i
    /\ ad' = [a \in Adapters |-> IF \E i \in 1..k : At(i) = a
                                   THEN Checked(ad[a], a, o[a]) ELSE ad[a]]
    /\ round' = RoundAfter(k)
    /\ last' = <<"chosen", At(k)>>

(* None is: one without a connection problem, or else any one, which is    *)
(* then retried whatever its retry time.                                   *)
takeAny(o) ==
  LET seen(a) == Checked(ad[a], a, o[a])
      conn == {a \in Adapters : ~seen(a).connTimeout /\ ~seen(a).connExc}
  IN /\ Usable(o) = {}
     /\ \E a \in IF conn # {} THEN conn ELSE Adapters, p \in Outcomes :
          /\ ad' = [b \in Adapters |->
                      IF b # a THEN seen(b)
                      ELSE Checked(IF conn # {} THEN seen(a)
                                                ELSE [seen(a) EXCEPT !.retryIn = 0], a, p)]
          /\ last' = <<"chosen", a>>
     /\ UNCHANGED round

getNextValidProxy == \E o \in [Adapters -> Outcomes] : takeFirst(o) \/ takeAny(o)

Next ==
  \/ getNextValidProxy
  \/ \E a \in Adapters :
       \/ finishInvokeOk(a)
       \/ finishInvokeFail(a)
       \/ onConnectCallback(a)
       \/ checkConnectTimeout(a)
       \/ handleError(a)
       \/ handleCloseImp(a)
       \/ onSetInactive(a)
       \/ reConnect(a)
  \/ doKeepAlive
  \/ doReconnect
  \/ Tick

Spec == Init /\ [][Next]_vars

(* The application keeps calling and time passes.  Nothing is assumed of   *)
(* the servers and of the network.                                         *)
FairSpec == Spec /\ WF_vars(getNextValidProxy) /\ WF_vars(Tick)

-----------------------------------------------------------------------------
TypeOK ==
  /\ ad \in [Adapters -> AdapterState]
  /\ round \in 0..(Num - 1)
  /\ last \in {<<"other">>, <<"reconnect">>} \cup ({"chosen"} \X Adapters)

(* A connection problem shields the server as long as it is noted: isConnExc *)
(* and _activeStatus, which the selection reads one after the other, never *)
(* contradict each other, on whatever path the server comes back.          *)
ConnExcShielded == \A a \in Adapters : ad[a].connExc => ~ad[a].active

(* A shielded server has no open TCP connection: the one it had is closed  *)
(* when it is shielded, and a new one makes it active.  checkActive relies *)
(* on it when it takes "connected" for "may be used".                      *)
ShieldedUnconnected ==
  \A a \in Adapters \ Udp : ~ad[a].active => ad[a].link # "connected"

(* The flags that six handlers change and the selection reads agree with   *)
(* each other and with the connection.                                     *)
FlagsAgree == ConnExcShielded /\ ShieldedUnconnected

(* A call is given to a server without a connection only when no server    *)
(* that is not shielded has one.                                           *)
PrefersConnected ==
  \A a \in Adapters :
    last = <<"chosen", a>> /\ ad[a].link # "connected" =>
      \A b \in Adapters : ad[b].active => ad[b].link # "connected"

(* A shielded server is left alone until its retry time: neither a call    *)
(* nor the keep-alive connects to it earlier, unless every server has a    *)
(* connection problem.  Only doReconnect may, when tars_reconnect is set   *)
(* and a close of this server's own connection asked for it.               *)
NoEarlyRetry ==
  [][\A a \in Adapters :
       ~ad[a].active /\ ad[a].retryIn > 0 /\ ad[a].link = "none" /\ ad'[a].link # "none" =>
         \/ \A b \in Adapters : ad[b].connExc \/ ad[b].connTimeout
         \/ Reconnect /\ ad[a].again > 0 /\ last' = <<"reconnect">>]_vars

(* Calls are spread: while a server stays connected it gets its turn again *)
(* and again.                                                              *)
EveryoneServed ==
  \A a \in Adapters :
    <>[](ad[a].link = "connected" /\ ad[a].active) => []<>(last = <<"chosen", a>>)

(* A shielded server is tried again: it does not stay without a connection *)
(* for ever while calls are made and connect() does not fail at once.      *)
ShieldedRetried ==
  \A a \in Adapters : ~ad[a].active ~> ad[a].active \/ ad[a].link # "none"

-----------------------------------------------------------------------------
(***************************************************************************)
(* What the repository says and the code does not keep in every            *)
(* configuration; README.md, "Disagreements found", says when each fails.  *)
(***************************************************************************)

(* When every server is shielded one is chosen and tried: the server a     *)
(* call is given to is connected, or a connection to it has been started.  *)
ChosenIsTried ==
  \A a \in Adapters : last = <<"chosen", a>> => ad[a].link # "none"
=============================================================================
