------------------------ MODULE EndpointShieldProofs ------------------------
(***************************************************************************)
(* What the shielding keeps true of every adapter, for any number of       *)
(* servers, any CheckTimeoutInfo and any order of failures, connections    *)
(* and calls.  Every handler changes each adapter by one of the functions  *)
(* of EndpointShield, so the proof is one lemma per function and then one  *)
(* step per action.                                                        *)
(***************************************************************************)
EXTENDS EndpointShield, SequenceTheorems, TLAPS

(* The inductive invariant of one adapter. *)
Sound(r, a) ==
  /\ r \in AdapterState
  /\ r.connExc => ~r.active
  /\ a \notin Udp => (~r.active => r.link # "connected")
  /\ ~Reconnect => r.again = 0

AllSound ==
  /\ DOMAIN ad = Adapters
  /\ ad = [a \in Adapters |-> ad[a]]
  /\ \A a \in Adapters : Sound(ad[a], a)

-----------------------------------------------------------------------------
(* An entry for doReconnect (onCloseCallback) changes nothing else. *)
LEMMA CallbackFacts ==
  ASSUME NEW a, NEW r \in AdapterState
  PROVE  /\ onCloseCallback(r, a) \in AdapterState
         /\ onCloseCallback(r, a).active = r.active
         /\ onCloseCallback(r, a).link = r.link
         /\ onCloseCallback(r, a).connExc = r.connExc
         /\ onCloseCallback(r, a).connTimeout = r.connTimeout
         /\ ~Reconnect => onCloseCallback(r, a).again = r.again
         /\ Sound(r, a) => Sound(onCloseCallback(r, a), a)
<1>1. r.again + 1 \in Nat
  BY DEF AdapterState
<1>2. \/ onCloseCallback(r, a) = r
      \/ Reconnect /\ onCloseCallback(r, a) = [r EXCEPT !.again = r.again + 1]
  BY DEF onCloseCallback
<1>3. QED
  BY <1>1, <1>2 DEF AdapterState, Sound

(* close() leaves an adapter without a connection and otherwise as it was. *)
LEMMA CloseFacts ==
  ASSUME NEW a, NEW r \in AdapterState
  PROVE  /\ close(r, a) \in AdapterState
         /\ close(r, a).link = "none"
         /\ close(r, a).active = r.active
         /\ close(r, a).connExc = r.connExc
         /\ (r.connExc => ~r.active) /\ (~Reconnect => r.again = 0) => Sound(close(r, a), a)
<1> DEFINE s == [r EXCEPT !.link = "none"]
<1>1. /\ s \in AdapterState /\ s.link = "none" /\ s.active = r.active
      /\ s.connExc = r.connExc /\ s.again = r.again
  BY DEF AdapterState
<1>2. close(r, a) = IF r.link = "none" THEN r ELSE onCloseCallback(s, a)
  BY DEF close
<1> HIDE DEF s
<1>3. /\ close(r, a) \in AdapterState /\ close(r, a).link = "none"
      /\ close(r, a).active = r.active /\ close(r, a).connExc = r.connExc
      /\ ~Reconnect => close(r, a).again = r.again
  BY <1>1, <1>2, CallbackFacts
<1>4. QED
  BY <1>3 DEF Sound

(* Shielding an adapter (setInactive) makes it sound whatever it was. *)
LEMMA SetInactiveSound ==
  ASSUME NEW a, NEW r \in AdapterState, ~Reconnect => r.again = 0
  PROVE  /\ setInactive(r, a) \in AdapterState
         /\ Sound(setInactive(r, a), a)
         /\ ~setInactive(r, a).active /\ setInactive(r, a).link = "none"
<1> DEFINE s == [r EXCEPT !.active = FALSE, !.retryIn = TryTimeInterval]
<1>1. s \in AdapterState /\ ~s.active /\ s.again = r.again
  BY InfoAssumption DEF AdapterState
<1>2. setInactive(r, a) = close(s, a)
  BY DEF setInactive
<1> HIDE DEF s
<1>3. QED
  BY <1>1, <1>2, CloseFacts

(* A connection made (addConnExc(false)) keeps an adapter sound. *)
LEMMA ConnectedSound ==
  ASSUME NEW a, NEW r \in AdapterState, ~Reconnect => r.again = 0
  PROVE  Sound(Connected(r), a)
BY DEF Connected, Sound, AdapterState

(* A connection exception counted (addConnExc(true)) keeps it sound. *)
LEMMA ConnExceptionSound ==
  ASSUME NEW a, NEW r, Sound(r, a)
  PROVE  Sound(ConnException(r, a), a)
<1>1. /\ r \in AdapterState /\ setInactive(r, a) \in AdapterState
      /\ Sound(setInactive(r, a), a)
      /\ ~setInactive(r, a).active /\ setInactive(r, a).link = "none"
  BY SetInactiveSound DEF Sound
<1>2. r.connExcCnt + 1 \in Nat
  BY <1>1 DEF AdapterState
<1>3. CASE r.connExc
  BY <1>3 DEF ConnException
<1>4. CASE ~r.connExc /\ r.connExcCnt + 1 >= MaxConnectExc
  <2>1. ConnException(r, a) = [setInactive(r, a) EXCEPT !.connExc = TRUE, !.connExcCnt = r.connExcCnt + 1]
    BY <1>4 DEF ConnException
  <2>2. QED
    BY <2>1, <1>1, <1>2 DEF Sound, AdapterState
<1>5. CASE ~r.connExc /\ ~(r.connExcCnt + 1 >= MaxConnectExc)
  <2>1. ConnException(r, a) = [r EXCEPT !.connExcCnt = r.connExcCnt + 1]
    BY <1>5 DEF ConnException
  <2>2. QED
    BY <2>1, <1>1, <1>2 DEF Sound, AdapterState
<1>6. QED
  BY <1>3, <1>4, <1>5

(* connect() keeps an adapter sound, when it throws too, and notes no      *)
(* connection problem.                                                     *)
LEMMA ConnectSound ==
  ASSUME NEW a, NEW o \in Outcomes, NEW r, Sound(r, a), r.link = "none"
  PROVE  /\ Sound(connect(r, a, o), a)
         /\ connect(r, a, o).connTimeout => r.connTimeout
         /\ connect(r, a, o).connExc => r.connExc
         /\ o = "throw" => connect(r, a, o).link = "none"
<1>1. o \in {"throw", "wait", "now"} /\ r \in AdapterState
  BY DEF Outcomes, Sound
<1>2. CASE o = "throw"
  <2> DEFINE s == [r EXCEPT !.connTimeout = r.connTimeout /\ a \in Udp]
  <2>1. connect(r, a, o) = onCloseCallback(s, a)
    BY <1>2 DEF connect
  <2>2. /\ Sound(s, a) /\ s \in AdapterState /\ s.link = "none"
        /\ s.connTimeout => r.connTimeout
        /\ s.connExc = r.connExc
    BY <1>1 DEF Sound, AdapterState
  <2> HIDE DEF s
  <2>3. QED
    BY <2>1, <2>2, CallbackFacts
<1>3. CASE o # "throw" /\ a \in Udp
  <2>1. connect(r, a, o) = [r EXCEPT !.link = "connected"]
    BY <1>3 DEF connect
  <2>2. QED
    BY <2>1, <1>1, <1>3 DEF Sound, AdapterState
<1>4. CASE o = "wait" /\ a \notin Udp
  <2>1. connect(r, a, o) = [r EXCEPT !.link = "connecting", !.connTimeout = FALSE]
    BY <1>4 DEF connect
  <2>2. QED
    BY <2>1, <1>1, <1>4 DEF Sound, AdapterState
<1>5. CASE o = "now" /\ a \notin Udp
  <2>1. connect(r, a, o) = Connected([r EXCEPT !.connTimeout = FALSE])
    BY <1>5 DEF connect
  <2>2. /\ [r EXCEPT !.connTimeout = FALSE] \in AdapterState
        /\ ~Reconnect => [r EXCEPT !.connTimeout = FALSE].again = 0
    BY <1>1 DEF AdapterState, Sound
  <2>3. connect(r, a, o).connTimeout = FALSE /\ connect(r, a, o).connExc = FALSE
    BY <1>1, <2>1 DEF Connected, AdapterState
  <2>4. QED
    BY <1>5, <2>1, <2>2, <2>3, ConnectedSound
<1>6. QED
  BY <1>1, <1>2, <1>3, <1>4, <1>5

(* The same of a connect() of checkActive, which shields when it throws. *)
LEMMA TryConnectSound ==
  ASSUME NEW a, NEW o \in Outcomes, NEW r, Sound(r, a), r.link = "none"
  PROVE  /\ Sound(tryConnect(r, a, o), a)
         /\ tryConnect(r, a, o).connTimeout => r.connTimeout
         /\ tryConnect(r, a, o).connExc => r.connExc
<1> DEFINE s == connect(r, a, o)
<1>1. /\ Sound(s, a) /\ s \in AdapterState
      /\ o = "throw" => s.link = "none"
      /\ s.connTimeout => r.connTimeout
      /\ s.connExc => r.connExc
  BY ConnectSound DEF Sound
<1>2. tryConnect(r, a, o) = IF o = "throw" THEN [s EXCEPT !.active = FALSE] ELSE s
  BY DEF tryConnect
<1> HIDE DEF s
<1>3. CASE o = "throw"
  BY <1>1, <1>2, <1>3 DEF Sound, AdapterState
<1>4. CASE o # "throw"
  BY <1>1, <1>2, <1>4
<1>5. QED
  BY <1>3, <1>4

(* checkActive keeps an adapter sound. *)
LEMMA CheckedSound ==
  ASSUME NEW a, NEW o \in Outcomes, NEW r, Sound(r, a)
  PROVE  Sound(Checked(r, a, o), a)
<1> DEFINE s == IF r.active THEN r ELSE [r EXCEPT !.retryIn = TryTimeInterval]
<1>1. Sound(s, a)
  BY InfoAssumption DEF Sound, AdapterState
<1>2. CASE TooEarly(r)
  BY <1>2 DEF Checked
<1>3. CASE ~TooEarly(r) /\ s.link = "none"
  <2>1. Checked(r, a, o) = tryConnect(s, a, o)
    BY <1>3 DEF Checked
  <2>2. QED
    BY <2>1, <1>1, <1>3, TryConnectSound
<1>4. CASE ~TooEarly(r) /\ s.link # "none"
  BY <1>1, <1>4 DEF Checked
<1>5. QED
  BY <1>2, <1>3, <1>4

(* A failed call (finishInvoke(true)) keeps an adapter sound, whether it   *)
(* shields it for failures in a row, for their share or not at all.        *)
LEMMA FailedSound ==
  ASSUME NEW a, NEW r, Sound(r, a)
  PROVE  Sound(Failed(r, a), a)
<1> DEFINE s == [r EXCEPT !.total = r.total + 1, !.timeout = r.timeout + 1,
                          !.frequenceFail = r.frequenceFail + 1,
                          !.frequenceIn = IF r.frequenceFail = 0 THEN MinFrequenceFailTime
                                                                ELSE r.frequenceIn]
           t == [s EXCEPT !.finishIn = CheckTimeoutInterval + 1]
           u == [t EXCEPT !.total = 0, !.timeout = 0]
<1>1. /\ r.total + 1 \in Nat /\ r.timeout + 1 \in Nat /\ r.frequenceFail + 1 \in Nat
      /\ (IF r.frequenceFail = 0 THEN MinFrequenceFailTime ELSE r.frequenceIn) \in Nat
      /\ CheckTimeoutInterval + 1 \in Nat
  BY InfoAssumption DEF Sound, AdapterState
<1>2. Sound(s, a)
  BY <1>1 DEF Sound, AdapterState
<1>3. Sound(t, a)
  <2> HIDE DEF s
  <2>1. QED
    BY <1>1, <1>2 DEF Sound, AdapterState
<1>4. Sound(u, a)
  <2> HIDE DEF t
  <2>1. QED
    BY <1>3 DEF Sound, AdapterState
<1>5. Sound(setInactive(s, a), a) /\ Sound(setInactive(t, a), a)
  <2>1. /\ s \in AdapterState /\ t \in AdapterState
        /\ ~Reconnect => s.again = 0 /\ t.again = 0
    BY <1>2, <1>3 DEF Sound
  <2> HIDE DEF s, t
  <2>2. QED
    BY <2>1, SetInactiveSound
<1>6. \/ Failed(r, a) = setInactive(s, a)
      \/ Failed(r, a) = s
      \/ Failed(r, a) = setInactive(t, a)
      \/ Failed(r, a) = u
  BY DEF Failed
<1> HIDE DEF s, t, u
<1>7. QED
  BY <1>2, <1>4, <1>5, <1>6

(* A call that succeeds (finishInvoke(false)) keeps an adapter sound, an   *)
(* active one and a shielded one.                                          *)
LEMMA SucceededSound ==
  ASSUME NEW a, NEW r, Sound(r, a)
  PROVE  Sound(Succeeded(r), a) /\ Sound(Recovered(r), a)
<1> DEFINE s == [r EXCEPT !.total = r.total + 1, !.frequenceFail = 0]
           t == [s EXCEPT !.finishIn = CheckTimeoutInterval + 1, !.total = 0, !.timeout = 0]
<1>1. r.total + 1 \in Nat /\ CheckTimeoutInterval + 1 \in Nat
  BY InfoAssumption DEF Sound, AdapterState
<1>2. Sound(s, a)
  BY <1>1 DEF Sound, AdapterState
<1>3. Sound(t, a)
  <2> HIDE DEF s
  <2>1. QED
    BY <1>1, <1>2 DEF Sound, AdapterState
<1>4. Succeeded(r) = s \/ Succeeded(r) = t
  BY DEF Succeeded
<1>5. Sound(Recovered(r), a)
  BY <1>1 DEF Recovered, Sound, AdapterState
<1> HIDE DEF s, t
<1>6. QED
  BY <1>2, <1>3, <1>4, <1>5

(* A connection that goes away leaves an adapter sound. *)
LEMMA ClosedSound ==
  ASSUME NEW a, NEW r, Sound(r, a)
  PROVE  /\ Sound(close(r, a), a)
         /\ Sound(close([r EXCEPT !.connTimeout = TRUE], a), a)
<1> DEFINE s == [r EXCEPT !.connTimeout = TRUE]
<1>1. /\ r \in AdapterState /\ s \in AdapterState
      /\ r.connExc => ~r.active
      /\ s.connExc => ~s.active
      /\ ~Reconnect => r.again = 0 /\ s.again = 0
  BY DEF Sound, AdapterState
<1> HIDE DEF s
<1>2. QED
  BY <1>1, CloseFacts DEF s

(* Time passes, resetRetryTime(false) of the last resort, and the entries  *)
(* of doReconnect.                                                         *)
LEMMA TimesSound ==
  ASSUME NEW a, NEW r, Sound(r, a), NEW i \in Nat, NEW j \in Nat, NEW k \in Nat
  PROVE  /\ Sound([r EXCEPT !.retryIn = i, !.frequenceIn = j, !.finishIn = k], a)
         /\ Sound([r EXCEPT !.retryIn = 0], a)
         /\ Reconnect => Sound([r EXCEPT !.again = i], a)
BY DEF Sound, AdapterState

-----------------------------------------------------------------------------
(* A handler that changes one adapter soundly keeps all of them sound. *)
LEMMA OneAdapter ==
  ASSUME AllSound, NEW a \in Adapters, NEW r, Sound(r, a), ad' = [ad EXCEPT ![a] = r]
  PROVE  AllSound'
<1>1. ad' = [b \in Adapters |-> IF b = a THEN r ELSE ad[b]]
  BY DEF AllSound
<1>2. QED
  BY <1>1 DEF AllSound

(* The same for a handler that changes them all. *)
LEMMA EveryAdapter ==
  ASSUME NEW f, ad' = [a \in Adapters |-> f[a]], \A a \in Adapters : Sound(f[a], a)
  PROVE  AllSound'
BY DEF AllSound

LEMMA InitSound == Init => AllSound
<1>1. \A a : Sound(NewAdapter, a)
  BY DEF NewAdapter, Sound, AdapterState
<1>2. QED
  BY <1>1 DEF Init, AllSound

(* The calls that pick a server keep all adapters sound. *)
LEMMA SelectSound ==
  ASSUME AllSound, getNextValidProxy
  PROVE  AllSound'
<1>1. PICK o \in [Adapters -> Outcomes] : takeFirst(o) \/ takeAny(o)
  BY DEF getNextValidProxy
<1>2. \A a \in Adapters : Sound(ad[a], a) /\ Sound(Checked(ad[a], a, o[a]), a)
  BY <1>1, CheckedSound DEF AllSound
<1>3. CASE takeFirst(o)
  <2>1. PICK k \in Usable(o) :
          ad' = [a \in Adapters |-> IF \E i \in 1..k : At(i) = a
                                      THEN Checked(ad[a], a, o[a]) ELSE ad[a]]
    BY <1>3 DEF takeFirst
  <2> DEFINE f == [a \in Adapters |-> IF \E i \in 1..k : At(i) = a
                                        THEN Checked(ad[a], a, o[a]) ELSE ad[a]]
  <2>2. \A a \in Adapters : Sound(f[a], a)
    BY <1>2
  <2>3. ad' = [a \in Adapters |-> f[a]]
    BY <2>1
  <2> HIDE DEF f
  <2>4. QED
    BY <2>2, <2>3, EveryAdapter
<1>4. CASE takeAny(o)
  <2> DEFINE seen(a) == Checked(ad[a], a, o[a])
             conn == {a \in Adapters : ~seen(a).connTimeout /\ ~seen(a).connExc}
             again(a) == IF conn # {} THEN seen(a) ELSE [seen(a) EXCEPT !.retryIn = 0]
  <2>1. PICK a \in IF conn # {} THEN conn ELSE Adapters, p \in Outcomes :
          ad' = [b \in Adapters |-> IF b # a THEN seen(b) ELSE Checked(again(a), a, p)]
    BY <1>4 DEF takeAny
  <2> DEFINE f == [b \in Adapters |-> IF b # a THEN seen(b) ELSE Checked(again(a), a, p)]
  <2>2. a \in Adapters
    BY <2>1
  <2>3. \A b \in Adapters : Sound(seen(b), b)
    BY <1>2
  <2>4. Sound(again(a), a)
    <3>1. Sound(seen(a), a)
      BY <2>2, <2>3
    <3> HIDE DEF seen, conn
    <3>2. QED
      BY <3>1, TimesSound
  <2>5. Sound(Checked(again(a), a, p), a)
    <3> HIDE DEF again
    <3>1. QED
      BY <2>1, <2>4, CheckedSound
  <2>6. \A b \in Adapters : Sound(f[b], b)
    BY <2>3, <2>5
  <2>7. ad' = [b \in Adapters |-> f[b]]
    BY <2>1
  <2> HIDE DEF f
  <2>8. QED
    BY <2>6, <2>7, EveryAdapter
<1>5. QED
  BY <1>1, <1>3, <1>4

(* So does the timer of the reconnections. *)
LEMMA ReconnectSound ==
  ASSUME AllSound, doReconnect
  PROVE  AllSound'
<1>1. PICK S \in SUBSET {a \in Adapters : ad[a].again > 0} :
        \E o \in [S -> Outcomes], n \in [S -> 0..MaxReconnects] :
          ad' = [a \in Adapters |->
                  IF a \notin S THEN ad[a]
                  ELSE IF ad[a].link = "none" /\ o[a] = "throw"
                    THEN IF ad[a].link = "none" THEN connect(ad[a], a, o[a]) ELSE ad[a]
                    ELSE [(IF ad[a].link = "none" THEN connect(ad[a], a, o[a]) ELSE ad[a])
                             EXCEPT !.again = n[a]]]
  BY DEF doReconnect
<1>2. PICK o \in [S -> Outcomes], n \in [S -> 0..MaxReconnects] :
        ad' = [a \in Adapters |->
                IF a \notin S THEN ad[a]
                ELSE IF ad[a].link = "none" /\ o[a] = "throw"
                  THEN IF ad[a].link = "none" THEN connect(ad[a], a, o[a]) ELSE ad[a]
                  ELSE [(IF ad[a].link = "none" THEN connect(ad[a], a, o[a]) ELSE ad[a])
                           EXCEPT !.again = n[a]]]
  BY <1>1
<1> DEFINE tried(a) == IF ad[a].link = "none" THEN connect(ad[a], a, o[a]) ELSE ad[a]
           f == [a \in Adapters |->
                  IF a \notin S THEN ad[a]
                  ELSE IF ad[a].link = "none" /\ o[a] = "throw" THEN tried(a)
                    ELSE [tried(a) EXCEPT !.again = n[a]]]
<1>3. ASSUME NEW a \in Adapters PROVE Sound(f[a], a)
  <2>1. Sound(ad[a], a)
    BY DEF AllSound
  <2>2. CASE a \notin S
    BY <2>1, <2>2
  <2>3. CASE a \in S
    <3>1. o[a] \in Outcomes /\ n[a] \in Nat /\ Reconnect
      BY <1>2, <2>1, <2>3, InfoAssumption DEF Sound
    <3>2. Sound(tried(a), a)
      BY <2>1, <3>1, ConnectSound
    <3> HIDE DEF tried
    <3>3. Sound([tried(a) EXCEPT !.again = n[a]], a)
      BY <3>1, <3>2, TimesSound
    <3>4. QED
      BY <2>3, <3>2, <3>3
  <2>4. QED
    BY <2>2, <2>3
<1>4. ad' = [a \in Adapters |-> f[a]]
  BY <1>2
<1> HIDE DEF f
<1>5. QED
  BY <1>3, <1>4, EveryAdapter

(* Every step of the network thread keeps all adapters sound. *)
LEMMA StepSound ==
  ASSUME AllSound, [Next]_vars
  PROVE  AllSound'
<1>1. CASE getNextValidProxy
  BY <1>1, SelectSound
<1>2. ASSUME NEW a \in Adapters,
             \/ finishInvokeOk(a) \/ finishInvokeFail(a) \/ onConnectCallback(a)
             \/ checkConnectTimeout(a) \/ handleError(a) \/ handleCloseImp(a)
             \/ onSetInactive(a) \/ reConnect(a)
      PROVE  AllSound'
  <2>1. /\ Sound(ad[a], a) /\ ad[a] \in AdapterState
        /\ ~Reconnect => ad[a].again = 0
    BY DEF AllSound, Sound
  <2>2. ASSUME NEW r, Sound(r, a), Becomes(a, r)
        PROVE  AllSound'
    BY <2>2, OneAdapter DEF Becomes
  <2>3. CASE finishInvokeOk(a)
    <3>1. Sound(IF ad[a].active THEN Succeeded(ad[a]) ELSE Recovered(ad[a]), a)
      BY <2>1, SucceededSound
    <3>2. QED
      BY <2>2, <2>3, <3>1 DEF finishInvokeOk
  <2>4. CASE finishInvokeFail(a)
    BY <2>1, <2>2, <2>4, FailedSound DEF finishInvokeFail
  <2>5. CASE onConnectCallback(a)
    BY <2>1, <2>2, <2>5, ConnectedSound DEF onConnectCallback
  <2>6. CASE checkConnectTimeout(a)
    BY <2>1, <2>2, <2>6, ClosedSound DEF checkConnectTimeout
  <2>7. CASE handleError(a)
    <3> DEFINE r == IF a \in Udp THEN ad[a] ELSE close(ad[a], a)
    <3>1. Sound(r, a)
      BY <2>1, ClosedSound
    <3>2. Becomes(a, ConnException(r, a))
      BY <2>7 DEF handleError
    <3> HIDE DEF r
    <3>3. QED
      BY <2>2, <3>1, <3>2, ConnExceptionSound
  <2>8. CASE handleCloseImp(a)
    BY <2>1, <2>2, <2>8, ClosedSound DEF handleCloseImp
  <2>9. CASE onSetInactive(a)
    BY <2>1, <2>2, <2>9, SetInactiveSound DEF onSetInactive
  <2>10. CASE reConnect(a)
    <3>1. ad[a].again - 1 \in Nat /\ Reconnect
      BY <2>1, <2>10 DEF reConnect, AdapterState, Sound
    <3>2. QED
      BY <2>1, <2>2, <2>10, <3>1, TimesSound DEF reConnect
  <2>11. QED
    BY <1>2, <2>3, <2>4, <2>5, <2>6, <2>7, <2>8, <2>9, <2>10
<1>3. CASE doKeepAlive
  <2>1. PICK o \in [Adapters -> Outcomes] :
          ad' = [a \in Adapters |-> Checked(ad[a], a, o[a])]
    BY <1>3 DEF doKeepAlive
  <2> DEFINE f == [a \in Adapters |-> Checked(ad[a], a, o[a])]
  <2>2. \A a \in Adapters : Sound(f[a], a)
    BY CheckedSound DEF AllSound
  <2>3. ad' = [a \in Adapters |-> f[a]]
    BY <2>1
  <2> HIDE DEF f
  <2>4. QED
    BY <2>2, <2>3, EveryAdapter
<1>4. CASE Tick
  <2> DEFINE Less(n) == IF n = 0 THEN 0 ELSE n - 1
             f == [a \in Adapters |->
                     [ad[a] EXCEPT !.retryIn = Less(ad[a].retryIn),
                                   !.frequenceIn = Less(ad[a].frequenceIn),
                                   !.finishIn = Less(ad[a].finishIn)]]
  <2>1. ASSUME NEW a \in Adapters PROVE Sound(f[a], a)
    <3>1. Sound(ad[a], a)
      BY DEF AllSound
    <3>2. /\ Less(ad[a].retryIn) \in Nat /\ Less(ad[a].frequenceIn) \in Nat
          /\ Less(ad[a].finishIn) \in Nat
      BY <3>1 DEF Sound, AdapterState
    <3> HIDE DEF Less
    <3>3. QED
      BY <3>1, <3>2, TimesSound
  <2>2. ad' = [a \in Adapters |-> f[a]]
    BY <1>4 DEF Tick
  <2> HIDE DEF f
  <2>3. QED
    BY <2>1, <2>2, EveryAdapter
<1>5. CASE UNCHANGED vars
  BY <1>5 DEF vars, AllSound
<1>6. CASE doReconnect
  BY <1>6, ReconnectSound
<1>7. QED
  BY <1>1, <1>2, <1>3, <1>4, <1>5, <1>6 DEF Next

(* The inductive invariant holds in every reachable state. *)
THEOREM ShieldSound == Spec => []AllSound
<1>1. Init => AllSound
  BY InitSound
<1>2. AllSound /\ [Next]_vars => AllSound'
  BY StepSound
<1>3. QED
  BY <1>1, <1>2, PTL DEF Spec

(* A server with a noted connection problem is shielded: isConnExc and     *)
(* _activeStatus of AdapterProxy never contradict each other.              *)
THEOREM ExceptionsShield == Spec => []ConnExcShielded
<1>1. AllSound => ConnExcShielded
  BY DEF AllSound, Sound, ConnExcShielded
<1>2. QED
  BY <1>1, ShieldSound, PTL

(* A shielded server has no open TCP connection, which checkActive relies  *)
(* on when it takes "connected" for "may be used".                         *)
THEOREM ShieldedHasNoConnection == Spec => []ShieldedUnconnected
<1>1. AllSound => ShieldedUnconnected
  BY DEF AllSound, Sound, ShieldedUnconnected
<1>2. QED
  BY <1>1, ShieldSound, PTL

(* Both together: the flags of AdapterProxy agree with each other and with *)
(* the connection, for any servers and any CheckTimeoutInfo.               *)
THEOREM FlagsStayAgreed == Spec => []FlagsAgree
BY ExceptionsShield, ShieldedHasNoConnection, PTL DEF FlagsAgree

-----------------------------------------------------------------------------
(* The round robin looks at every adapter. *)
LEMMA ModFacts ==
  ASSUME NEW n \in Nat \ {0}, NEW x \in 0..(n - 1)
  PROVE  x % n = x /\ (x + n) % n = x
OBVIOUS

LEMMA ModRange ==
  ASSUME NEW n \in Nat \ {0}, NEW x \in Nat
  PROVE  x % n \in 0..(n - 1)
OBVIOUS

LEMMA NumFacts ==
  Num \in Nat \ {0} /\ DOMAIN ActiveProxys = 1..Num
BY ProxysAssumption, EmptySeq, LenProperties DEF Num

LEMMA AllLookedAt ==
  ASSUME round \in 0..(Num - 1), NEW b \in Adapters
  PROVE  \E i \in 1..Num : At(i) = b
<1>1. PICK j \in 1..Num : b = ActiveProxys[j]
  BY NumFacts DEF Adapters
<1>2. j - 1 \in 0..(Num - 1)
  BY <1>1, NumFacts
<1>3. CASE j - 1 > round
  <2>1. (j - 1) - round \in 1..Num /\ round + ((j - 1) - round) = j - 1
    BY <1>1, <1>3, NumFacts
  <2>2. (round + ((j - 1) - round)) % Num = j - 1
    BY <1>2, <2>1, NumFacts, ModFacts
  <2>3. At((j - 1) - round) = ActiveProxys[(j - 1) + 1]
    BY <2>2 DEF At
  <2>4. (j - 1) + 1 = j
    BY <1>1, NumFacts
  <2> QED BY <1>1, <2>1, <2>3, <2>4
<1>4. CASE ~(j - 1 > round)
  <2>1. /\ ((j - 1) + Num) - round \in 1..Num
        /\ round + (((j - 1) + Num) - round) = (j - 1) + Num
    BY <1>1, <1>4, NumFacts
  <2>2. (round + (((j - 1) + Num) - round)) % Num = j - 1
    BY <1>2, <2>1, NumFacts, ModFacts
  <2>3. At(((j - 1) + Num) - round) = ActiveProxys[(j - 1) + 1]
    BY <2>2 DEF At
  <2>4. (j - 1) + 1 = j
    BY <1>1, NumFacts
  <2> QED BY <1>1, <2>1, <2>3, <2>4
<1> QED BY <1>3, <1>4

LEMMA AtIsAdapter ==
  ASSUME round \in 0..(Num - 1), NEW i \in Nat
  PROVE  At(i) \in Adapters /\ (round + i) % Num \in 0..(Num - 1)
<1>1. round + i \in Nat
  BY NumFacts
<1>2. (round + i) % Num \in 0..(Num - 1)
  BY <1>1, NumFacts, ModRange
<1>3. ((round + i) % Num) + 1 \in DOMAIN ActiveProxys
  BY <1>2, NumFacts
<1> QED BY <1>2, <1>3 DEF At, Adapters

(* The position and the last choice keep to their types. *)
Position ==
  /\ round \in 0..(Num - 1)
  /\ last \in {<<"other">>, <<"reconnect">>} \cup ({"chosen"} \X Adapters)

LEMMA StepPosition ==
  ASSUME Position, [Next]_vars
  PROVE  Position'
<1>1. CASE getNextValidProxy
  <2>1. PICK o \in [Adapters -> Outcomes] : takeFirst(o) \/ takeAny(o)
    BY <1>1 DEF getNextValidProxy
  <2>2. CASE takeFirst(o)
    <3>1. PICK k \in Usable(o) : round' = RoundAfter(k) /\ last' = <<"chosen", At(k)>>
      BY <2>2 DEF takeFirst
    <3>2. k \in Nat
      BY <3>1, NumFacts DEF Usable
    <3>3. At(k) \in Adapters /\ RoundAfter(k) \in 0..(Num - 1)
      BY <3>2, AtIsAdapter DEF Position, RoundAfter
    <3> QED BY <3>1, <3>3 DEF Position
  <2>3. CASE takeAny(o)
    <3>1. round' = round /\ \E a \in Adapters : last' = <<"chosen", a>>
      BY <2>3 DEF takeAny
    <3> QED BY <3>1 DEF Position
  <2> QED BY <2>1, <2>2, <2>3
<1>2. ASSUME NEW a \in Adapters,
             \/ finishInvokeOk(a) \/ finishInvokeFail(a) \/ onConnectCallback(a)
             \/ checkConnectTimeout(a) \/ handleError(a) \/ handleCloseImp(a)
             \/ onSetInactive(a) \/ reConnect(a)
      PROVE  Position'
  BY <1>2 DEF finishInvokeOk, finishInvokeFail, onConnectCallback, checkConnectTimeout,
              handleError, handleCloseImp, onSetInactive, reConnect, Becomes, Position
<1>3. CASE doKeepAlive \/ doReconnect \/ Tick \/ UNCHANGED vars
  BY <1>3 DEF doKeepAlive, doReconnect, Tick, vars, Position
<1> QED BY <1>1, <1>2, <1>3 DEF Next

(* Every adapter, the position of the round robin and the last choice keep *)
(* to their types.                                                         *)
THEOREM ShieldTypes == Spec => []TypeOK
<1>1. Init => Position
  BY NumFacts DEF Init, Position
<1>2. Position /\ [Next]_vars => Position'
  BY StepPosition
<1>3. AllSound /\ Position => TypeOK
  BY DEF AllSound, Sound, Position, TypeOK
<1> QED BY <1>1, <1>2, <1>3, ShieldSound, PTL DEF Spec

(* What checkActive leaves of an adapter. *)
LEMMA CheckedFacts ==
  ASSUME NEW a, NEW o \in Outcomes, NEW r, Sound(r, a)
  PROVE  /\ TooEarly(r) => Checked(r, a, o) = r
         /\ Checked(r, a, o).connTimeout => r.connTimeout
         /\ Checked(r, a, o).connExc => r.connExc
<1> DEFINE s == IF r.active THEN r ELSE [r EXCEPT !.retryIn = TryTimeInterval]
<1>1. s \in AdapterState /\ s.connTimeout = r.connTimeout /\ s.connExc = r.connExc
  BY InfoAssumption DEF Sound, AdapterState
<1>2. CASE TooEarly(r)
  BY <1>2 DEF Checked
<1>3. CASE ~TooEarly(r) /\ s.link # "none"
  BY <1>1, <1>3 DEF Checked
<1>4. CASE ~TooEarly(r) /\ s.link = "none"
  <2>1. Checked(r, a, o) = tryConnect(s, a, o)
    BY <1>4 DEF Checked
  <2>2. Sound(s, a)
    BY InfoAssumption DEF Sound, AdapterState
  <2> HIDE DEF s
  <2>3. Checked(r, a, o).connTimeout => s.connTimeout
    BY <1>4, <2>1, <2>2, TryConnectSound
  <2>4. Checked(r, a, o).connExc => s.connExc
    BY <1>4, <2>1, <2>2, TryConnectSound
  <2> QED BY <1>1, <1>4, <2>3, <2>4
<1> QED BY <1>2, <1>3, <1>4

(* A call goes to a server without a connection only when no server that   *)
(* is not shielded has one (getNextValidProxy), for any list of servers.   *)
THEOREM ConnectedPreferred == Spec => []PrefersConnected
<1>1. Init => PrefersConnected
  BY DEF Init, PrefersConnected
<1>2. ASSUME AllSound, AllSound', TypeOK, PrefersConnected, [Next]_vars
      PROVE  PrefersConnected'
  <2>1. CASE getNextValidProxy
    <3>1. PICK o \in [Adapters -> Outcomes] : takeFirst(o) \/ takeAny(o)
      BY <2>1 DEF getNextValidProxy
    <3>2. CASE takeFirst(o)
      <4>1. PICK k \in Usable(o) :
              /\ ad' = [a \in Adapters |-> IF \E i \in 1..k : At(i) = a
                                             THEN Checked(ad[a], a, o[a]) ELSE ad[a]]
              /\ last' = <<"chosen", At(k)>>
        BY <3>2 DEF takeFirst
      <4>2. k \in 1..k /\ k \in Nat
        BY <4>1, NumFacts DEF Usable
      <4>3. At(k) \in Adapters
        BY <1>2, <4>2, AtIsAdapter DEF TypeOK
      <4>4. ad'[At(k)].link = "connected"
        BY <4>1, <4>2, <4>3 DEF Usable, checkActive
      <4> QED BY <4>1, <4>4 DEF PrefersConnected
    <3>3. CASE takeAny(o)
      <4> DEFINE seen(a) == Checked(ad[a], a, o[a])
                 conn == {a \in Adapters : ~seen(a).connTimeout /\ ~seen(a).connExc}
                 again(a) == IF conn # {} THEN seen(a) ELSE [seen(a) EXCEPT !.retryIn = 0]
      <4>1. PICK a \in IF conn # {} THEN conn ELSE Adapters, p \in Outcomes :
              /\ ad' = [b \in Adapters |-> IF b # a THEN seen(b) ELSE Checked(again(a), a, p)]
              /\ last' = <<"chosen", a>>
        BY <3>3 DEF takeAny
      <4>2. ASSUME NEW b \in Adapters, b # a, ad'[b].active
            PROVE  ad'[b].link # "connected"
        <5>1. PICK i \in 1..Num : At(i) = b
          BY <1>2, AllLookedAt DEF TypeOK
        <5>2. ~checkActive(ad[b], b, o[b])
          BY <3>3, <5>1 DEF takeAny, Usable
        <5>3. ad'[b] = Checked(ad[b], b, o[b])
          BY <4>1, <4>2
        <5>4. o[b] \in Outcomes /\ Sound(ad[b], b)
          BY <1>2, <3>1 DEF AllSound
        <5>5. TooEarly(ad[b]) => ~ad'[b].active
          BY <5>3, <5>4, CheckedFacts DEF TooEarly
        <5> QED BY <4>2, <5>2, <5>3, <5>5 DEF checkActive
      <4>3. a \in Adapters
        BY <4>1
      <4> HIDE DEF conn, seen, again
      <4> SUFFICES ASSUME NEW c \in Adapters, last' = <<"chosen", c>>,
                          ad'[c].link # "connected", NEW b \in Adapters, ad'[b].active
                   PROVE  ad'[b].link # "connected"
        BY DEF PrefersConnected
      <4>4. c = a
        BY <4>1
      <4> QED BY <4>2, <4>4
    <3> QED BY <3>1, <3>2, <3>3
  <2>2. ASSUME NEW a \in Adapters,
               \/ finishInvokeOk(a) \/ finishInvokeFail(a) \/ onConnectCallback(a)
               \/ checkConnectTimeout(a) \/ handleError(a) \/ handleCloseImp(a)
               \/ onSetInactive(a) \/ reConnect(a)
        PROVE  PrefersConnected'
    <3>1. last' = <<"other">>
      BY <2>2 DEF finishInvokeOk, finishInvokeFail, onConnectCallback, checkConnectTimeout,
                  handleError, handleCloseImp, onSetInactive, reConnect, Becomes
    <3> QED BY <3>1 DEF PrefersConnected
  <2>3. CASE doKeepAlive \/ doReconnect \/ Tick
    <3>1. last' \in {<<"other">>, <<"reconnect">>}
      BY <2>3 DEF doKeepAlive, doReconnect, Tick
    <3> QED BY <3>1 DEF PrefersConnected
  <2>4. CASE UNCHANGED vars
    BY <1>2, <2>4 DEF vars, PrefersConnected
  <2> QED BY <1>2, <2>1, <2>2, <2>3, <2>4 DEF Next
<1>3. AllSound /\ AllSound' /\ TypeOK /\ PrefersConnected /\ [Next]_vars => PrefersConnected'
  BY <1>2
<1> QED BY <1>1, <1>3, ShieldSound, ShieldTypes, PTL DEF Spec

(* No handler connects to a shielded server before its retry time, unless  *)
(* every server has a connection problem (checkActive, getNextValidProxy,  *)
(* doKeepAlive) or a close has asked doReconnect for it.                   *)
LEMMA NoEarlyRetryStep ==
  ASSUME AllSound, [Next]_vars,
         NEW a \in Adapters, TooEarly(ad[a]), ad[a].link = "none", ad'[a].link # "none"
  PROVE  \/ \A b \in Adapters : ad[b].connExc \/ ad[b].connTimeout
         \/ Reconnect /\ ad[a].again > 0 /\ last' = <<"reconnect">>
<1>0. \A b \in Adapters : Sound(ad[b], b) /\ ad[b] \in AdapterState /\ (~Reconnect => ad[b].again = 0)
  BY DEF AllSound, Sound
<1>1. CASE getNextValidProxy
  <2>1. PICK o \in [Adapters -> Outcomes] : takeFirst(o) \/ takeAny(o)
    BY <1>1 DEF getNextValidProxy
  <2>2. Checked(ad[a], a, o[a]) = ad[a]
    BY <1>0, <2>1, CheckedFacts
  <2>3. CASE takeFirst(o)
    BY <2>2, <2>3 DEF takeFirst
  <2>4. CASE takeAny(o)
    <3> DEFINE seen(b) == Checked(ad[b], b, o[b])
               conn == {b \in Adapters : ~seen(b).connTimeout /\ ~seen(b).connExc}
               again(b) == IF conn # {} THEN seen(b) ELSE [seen(b) EXCEPT !.retryIn = 0]
    <3>1. PICK c \in IF conn # {} THEN conn ELSE Adapters, p \in Outcomes :
            ad' = [b \in Adapters |-> IF b # c THEN seen(b) ELSE Checked(again(c), c, p)]
      BY <2>4 DEF takeAny
    <3>2. conn = {}
      <4> SUFFICES ASSUME conn # {} PROVE FALSE
        OBVIOUS
      <4>1. again(c) = seen(c)
        OBVIOUS
      <4>2. ad'[a] = seen(a) \/ ad'[a] = Checked(seen(a), a, p)
        BY <3>1, <4>1
      <4>3. Checked(ad[a], a, p) = ad[a]
        BY <1>0, <3>1, CheckedFacts
      <4> QED BY <2>2, <4>2, <4>3
    <3>3. ASSUME NEW b \in Adapters PROVE ad[b].connExc \/ ad[b].connTimeout
      <4>1. seen(b).connTimeout \/ seen(b).connExc
        BY <3>2
      <4> QED BY <1>0, <2>1, <4>1, CheckedFacts
    <3> QED BY <3>3
  <2> QED BY <2>1, <2>3, <2>4
<1>2. ASSUME NEW c \in Adapters,
             \/ finishInvokeOk(c) \/ finishInvokeFail(c) \/ onConnectCallback(c)
             \/ checkConnectTimeout(c) \/ handleError(c) \/ handleCloseImp(c)
             \/ onSetInactive(c) \/ reConnect(c)
      PROVE  FALSE
  <2>1. c = a /\ (onSetInactive(c) \/ reConnect(c))
    <3>1. \E r : ad' = [ad EXCEPT ![c] = r]
      BY <1>2 DEF finishInvokeOk, finishInvokeFail, onConnectCallback, checkConnectTimeout,
                  handleError, handleCloseImp, onSetInactive, reConnect, Becomes
    <3>2. c = a
      BY <3>1 DEF AllSound
    <3>3. ~ad[a].active
      BY DEF TooEarly
    <3> QED BY <1>2, <3>2, <3>3
            DEF finishInvokeOk, finishInvokeFail, onConnectCallback, checkConnectTimeout,
                handleError, handleCloseImp
  <2>2. CASE onSetInactive(c)
    <3>1. ad'[a] = setInactive(ad[a], a)
      BY <2>1, <2>2 DEF onSetInactive, Becomes, AllSound
    <3> QED BY <1>0, <3>1, SetInactiveSound
  <2>3. CASE reConnect(c)
    <3>1. ad'[a] = [ad[a] EXCEPT !.again = ad[a].again - 1]
      BY <2>1, <2>3 DEF reConnect, Becomes, AllSound
    <3> QED BY <1>0, <3>1 DEF AdapterState
  <2> QED BY <2>1, <2>2, <2>3
<1>3. CASE doKeepAlive
  <2>1. PICK o \in [Adapters -> Outcomes] :
          ad' = [b \in Adapters |-> Checked(ad[b], b, o[b])]
    BY <1>3 DEF doKeepAlive
  <2>2. Checked(ad[a], a, o[a]) = ad[a]
    BY <1>0, <2>1, CheckedFacts
  <2> QED BY <2>1, <2>2
<1>4. CASE Tick
  <2>1. ad'[a].link = ad[a].link
    BY <1>0, <1>4 DEF Tick, AdapterState
  <2> QED BY <2>1
<1>5. CASE UNCHANGED vars
  BY <1>5 DEF vars
<1>6. CASE doReconnect
  <2>1. PICK S \in SUBSET {b \in Adapters : ad[b].again > 0} :
          \A b \in Adapters : b \notin S => ad'[b] = ad[b]
    BY <1>6 DEF doReconnect
  <2>2. a \in S
    BY <2>1
  <2>3. last' = <<"reconnect">>
    BY <1>6 DEF doReconnect
  <2>4. Reconnect /\ ad[a].again > 0
    BY <1>0, <2>1, <2>2 DEF Sound
  <2> QED BY <2>3, <2>4
<1> QED BY <1>1, <1>2, <1>3, <1>4, <1>5, <1>6 DEF Next

(* A shielded server is left alone until its retry time: neither a call    *)
(* nor the keep-alive connects to it earlier, unless every server has a    *)
(* connection problem, for any CheckTimeoutInfo and any list of servers.   *)
(* With tars_reconnect, doReconnect may, for a close of this connection.   *)
THEOREM RetriesNotEarly == Spec => NoEarlyRetry
<1> DEFINE Step ==
      \A a \in Adapters :
        ~ad[a].active /\ ad[a].retryIn > 0 /\ ad[a].link = "none" /\ ad'[a].link # "none" =>
          \/ \A b \in Adapters : ad[b].connExc \/ ad[b].connTimeout
          \/ Reconnect /\ ad[a].again > 0 /\ last' = <<"reconnect">>
<1>1. AllSound /\ [Next]_vars => [Step]_vars
  BY NoEarlyRetryStep DEF TooEarly
<1> HIDE DEF Step
<1>2. Spec => [][Step]_vars
  BY <1>1, ShieldSound, PTL DEF Spec
<1> QED BY <1>2 DEF NoEarlyRetry, Step
=============================================================================
