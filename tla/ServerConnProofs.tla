-------------------------- MODULE ServerConnProofs --------------------------
(***************************************************************************)
(* What a connection of TC_EpollServer keeps true for any number and size  *)
(* of replies, any flow control limits and any split of the bytes by the   *)
(* socket: replies are sent in order and never mixed, nothing is stranded  *)
(* in _messages, a close of the application waits for what was pushed      *)
(* before it, and the flow control sees all of the backlog.                *)
(***************************************************************************)
EXTENDS ServerConn, SequenceTheorems, TLAPS

(* The part of the type invariant that does not count bytes. *)
ConnTypes ==
  /\ sbuffer \in Seq({CloseCmd} \cup Replies)
  /\ asked \in 0..MaxReplies /\ taken \in 0..MaxReplies
  /\ closes \in 0..MaxCloses
  /\ listed \in BOOLEAN /\ valid \in BOOLEAN /\ bClose \in BOOLEAN
  /\ blocked \in BOOLEAN
  /\ sendBuffer \in Seq(Replies) /\ messages \in Seq(Replies)
  /\ left \in [Replies -> 0..Size]
  /\ got \in Seq(Replies)
  /\ flushTo \in 0..MaxReplies
  /\ how \in {"none", "error", "close", "flow", "peer", "timeout"}

(* _sbuffer holds the replies that were pushed and not yet taken, in order. *)
PipeInOrder ==
  /\ taken <= asked
  /\ \A k \in DOMAIN sbuffer : sbuffer[k] # CloseCmd => sbuffer[k] \in (taken + 1)..asked
  /\ \A j, k \in DOMAIN sbuffer :
       j < k /\ sbuffer[j] # CloseCmd /\ sbuffer[k] # CloseCmd => sbuffer[j] < sbuffer[k]
  /\ \A r \in (taken + 1)..asked : \E k \in DOMAIN sbuffer : sbuffer[k] = r

(* Nothing is left to send. *)
Flushed(buffers, queue, sent) ==
  buffers = <<>> /\ queue = <<>> /\ Len(sent) = taken

(* The next reply is in the send buffer, and perhaps in _messages too;     *)
(* those taken after it follow in _messages.                               *)
Sending(buffers, queue, sent) ==
  /\ Len(sent) < taken
  /\ buffers = <<Len(sent) + 1>>
  /\ \E d \in {0, 1} :
       /\ Len(queue) = (taken - Len(sent)) - d
       /\ \A j \in 1..Len(queue) : queue[j] = Len(sent) + d + j

Lined ==
  /\ valid => /\ listed
              /\ \/ Flushed(sendBuffer, messages, got) /\ ~blocked
                 \/ Sending(sendBuffer, messages, got) /\ blocked
  /\ ~valid => sendBuffer = <<>> /\ messages = <<>>

(* A reply is whole until it is the one in the send buffer, then gone. *)
Whole(buffers, sent, rest) ==
  \A r \in Replies : /\ r <= Len(sent) => rest[r] = 0
                     /\ r > Len(sent) /\ buffers # <<r>> => rest[r] = Size

(* The close of the application. *)
CloseNoted ==
  /\ flushTo <= taken
  /\ ~bClose => flushTo = 0
  /\ listed => how # "close"

ConnInv ==
  /\ ConnTypes /\ PipeInOrder /\ Lined
  /\ valid => Whole(sendBuffer, got, left)
  /\ RepliesInOrder
  /\ CloseNoted /\ CloseFlushes

-----------------------------------------------------------------------------
LEMMA SeqFacts ==
  ASSUME NEW S, NEW s \in Seq(S)
  PROVE  /\ DOMAIN s = 1..Len(s) /\ Len(s) \in Nat
         /\ s = <<>> <=> Len(s) = 0
         /\ s # <<>> => /\ Head(s) \in S /\ Head(s) = s[1] /\ 1 \in DOMAIN s
                        /\ Tail(s) \in Seq(S) /\ Len(Tail(s)) = Len(s) - 1
                        /\ DOMAIN Tail(s) = 1..(Len(s) - 1)
                        /\ \A i \in 1..(Len(s) - 1) : Tail(s)[i] = s[i + 1]
         /\ \A e \in S : /\ Append(s, e) \in Seq(S) /\ Len(Append(s, e)) = Len(s) + 1
                         /\ DOMAIN Append(s, e) = 1..(Len(s) + 1)
                         /\ Append(s, e)[Len(s) + 1] = e
                         /\ \A i \in 1..Len(s) : Append(s, e)[i] = s[i]
<1>1. DOMAIN s = 1..Len(s) /\ Len(s) \in Nat
  BY LenProperties
<1>2. s = <<>> <=> Len(s) = 0
  BY EmptySeq
<1>3. ASSUME s # <<>>
      PROVE  /\ Head(s) \in S /\ Head(s) = s[1] /\ 1 \in DOMAIN s
             /\ Tail(s) \in Seq(S) /\ Len(Tail(s)) = Len(s) - 1
             /\ DOMAIN Tail(s) = 1..(Len(s) - 1)
             /\ \A i \in 1..(Len(s) - 1) : Tail(s)[i] = s[i + 1]
  <2>1. Len(s) \in Nat \ {0} /\ Head(s) = s[1]
    BY <1>1, <1>2, <1>3
  <2>2. /\ Head(s) \in S /\ Tail(s) \in Seq(S) /\ Len(Tail(s)) = Len(s) - 1
        /\ \A i \in 1..Len(Tail(s)) : Tail(s)[i] = s[i + 1]
    BY <1>3, HeadTailProperties
  <2>3. DOMAIN Tail(s) = 1..(Len(s) - 1)
    BY <2>2, LenProperties
  <2> QED BY <1>1, <2>1, <2>2, <2>3
<1>4. ASSUME NEW e \in S
      PROVE  /\ Append(s, e) \in Seq(S) /\ Len(Append(s, e)) = Len(s) + 1
             /\ DOMAIN Append(s, e) = 1..(Len(s) + 1)
             /\ Append(s, e)[Len(s) + 1] = e
             /\ \A i \in 1..Len(s) : Append(s, e)[i] = s[i]
  BY <1>1, AppendProperties, LenProperties
<1> QED BY <1>1, <1>2, <1>3, <1>4

LEMMA FunSeq ==
  ASSUME NEW S, NEW n \in Nat, NEW f \in [1..n -> S]
  PROVE  f \in Seq(S) /\ Len(f) = n
BY SeqDef, LenProperties

(* What processPipe takes is the next reply. *)
LEMMA PopReply ==
  ASSUME ConnTypes, PipeInOrder, NEW r \in Replies, Pop(r)
  PROVE  /\ r = taken + 1 /\ taken' = taken + 1
         /\ sbuffer' \in Seq({CloseCmd} \cup Replies)
         /\ taken' \in 0..MaxReplies
         /\ asked' = asked => PipeInOrder'
<1> DEFINE C == {CloseCmd} \cup Replies
<1>1. /\ sbuffer # <<>> /\ r = Head(sbuffer) /\ sbuffer' = Tail(sbuffer)
      /\ r # CloseCmd /\ taken' = taken + 1
  BY ConnAssumption DEF Pop, Replies, CloseCmd
<1>2. sbuffer \in Seq(C)
  BY DEF ConnTypes
<1> HIDE DEF C
<1>3. /\ r = sbuffer[1] /\ 1 \in DOMAIN sbuffer /\ Tail(sbuffer) \in Seq(C)
      /\ DOMAIN sbuffer = 1..Len(sbuffer) /\ Len(sbuffer) \in Nat
      /\ DOMAIN Tail(sbuffer) = 1..(Len(sbuffer) - 1)
      /\ \A i \in 1..(Len(sbuffer) - 1) : Tail(sbuffer)[i] = sbuffer[i + 1]
  BY <1>1, <1>2, SeqFacts
<1>4. r \in (taken + 1)..asked
  BY <1>1, <1>3 DEF PipeInOrder
<1>5. taken \in Nat /\ asked \in Nat /\ taken + 1 \in (taken + 1)..asked
  BY <1>4, ConnAssumption DEF ConnTypes
<1>6. PICK k \in DOMAIN sbuffer : sbuffer[k] = taken + 1
  BY <1>5 DEF PipeInOrder
<1>7. r = taken + 1
  <2>1. CASE k = 1
    BY <1>3, <1>6, <2>1
  <2>2. CASE k # 1
    <3>1. 1 < k /\ taken + 1 # CloseCmd
      BY <1>3, <1>5, <2>2 DEF CloseCmd
    <3>2. r < taken + 1
      BY <1>1, <1>3, <1>6, <3>1 DEF PipeInOrder
    <3> QED BY <1>4, <1>5, <3>2
  <2> QED BY <2>1, <2>2
<1>8. ASSUME asked' = asked PROVE PipeInOrder'
  <2>1. taken' <= asked'
    BY <1>1, <1>5, <1>8
  <2>2. \A i \in DOMAIN sbuffer' : i + 1 \in DOMAIN sbuffer /\ 1 < i + 1
                                   /\ sbuffer'[i] = sbuffer[i + 1]
    BY <1>1, <1>3
  <2>3. ASSUME NEW i \in DOMAIN sbuffer', sbuffer'[i] # CloseCmd
        PROVE  sbuffer'[i] \in (taken' + 1)..asked'
    <3>1. sbuffer[i + 1] \in (taken + 1)..asked /\ r < sbuffer[i + 1]
      BY <1>1, <1>3, <2>2, <2>3 DEF PipeInOrder
    <3> QED BY <1>1, <1>5, <1>7, <1>8, <2>2, <3>1
  <2>4. ASSUME NEW i \in DOMAIN sbuffer', NEW j \in DOMAIN sbuffer', i < j,
               sbuffer'[i] # CloseCmd, sbuffer'[j] # CloseCmd
        PROVE  sbuffer'[i] < sbuffer'[j]
    <3>1. i + 1 < j + 1
      BY <1>1, <1>3, <2>4
    <3> QED BY <2>2, <2>4, <3>1 DEF PipeInOrder
  <2>5. ASSUME NEW q \in (taken' + 1)..asked' PROVE \E i \in DOMAIN sbuffer' : sbuffer'[i] = q
    <3>1. q \in (taken + 1)..asked /\ q # r
      BY <1>1, <1>5, <1>7, <1>8
    <3>2. PICK j \in DOMAIN sbuffer : sbuffer[j] = q
      BY <3>1 DEF PipeInOrder
    <3>3. j # 1
      BY <1>3, <3>1, <3>2
    <3>4. j - 1 \in 1..(Len(sbuffer) - 1) /\ (j - 1) + 1 = j
      BY <1>3, <3>3
    <3>5. sbuffer'[j - 1] = q
      BY <1>1, <1>3, <3>2, <3>4
    <3> QED BY <1>1, <1>3, <3>4, <3>5
  <2> QED BY <2>1, <2>3, <2>4, <2>5 DEF PipeInOrder
<1>9. taken' \in 0..MaxReplies
  BY <1>1, <1>5, <1>7, ConnAssumption DEF Replies
<1> QED BY <1>1, <1>3, <1>7, <1>8, <1>9 DEF C

LEMMA PopClose ==
  ASSUME ConnTypes, PipeInOrder, Pop(CloseCmd)
  PROVE  /\ taken' = taken /\ sbuffer' \in Seq({CloseCmd} \cup Replies)
         /\ asked' = asked => PipeInOrder'
<1> DEFINE C == {CloseCmd} \cup Replies
<1>1. /\ sbuffer # <<>> /\ CloseCmd = Head(sbuffer) /\ sbuffer' = Tail(sbuffer)
      /\ taken' = taken
  BY DEF Pop
<1>2. sbuffer \in Seq(C)
  BY DEF ConnTypes
<1> HIDE DEF C
<1>3. /\ CloseCmd = sbuffer[1] /\ Tail(sbuffer) \in Seq(C)
      /\ DOMAIN sbuffer = 1..Len(sbuffer) /\ Len(sbuffer) \in Nat
      /\ DOMAIN Tail(sbuffer) = 1..(Len(sbuffer) - 1)
      /\ \A i \in 1..(Len(sbuffer) - 1) : Tail(sbuffer)[i] = sbuffer[i + 1]
  BY <1>1, <1>2, SeqFacts
<1>4. ASSUME asked' = asked PROVE PipeInOrder'
  <2>2. \A i \in DOMAIN sbuffer' : i + 1 \in DOMAIN sbuffer /\ sbuffer'[i] = sbuffer[i + 1]
    BY <1>1, <1>3
  <2>4. ASSUME NEW i \in DOMAIN sbuffer', NEW j \in DOMAIN sbuffer', i < j,
               sbuffer'[i] # CloseCmd, sbuffer'[j] # CloseCmd
        PROVE  sbuffer'[i] < sbuffer'[j]
    <3>1. i + 1 < j + 1
      BY <1>1, <1>3, <2>4
    <3> QED BY <2>2, <2>4, <3>1 DEF PipeInOrder
  <2>5. ASSUME NEW q \in (taken + 1)..asked PROVE \E i \in DOMAIN sbuffer' : sbuffer'[i] = q
    <3>2. PICK j \in DOMAIN sbuffer : sbuffer[j] = q
      BY DEF PipeInOrder
    <3>3. j # 1
      BY <1>3, <3>2, ConnAssumption DEF CloseCmd, ConnTypes
    <3>4. j - 1 \in 1..(Len(sbuffer) - 1) /\ (j - 1) + 1 = j
      BY <1>3, <3>3
    <3>5. sbuffer'[j - 1] = q
      BY <1>1, <1>3, <3>2, <3>4
    <3> QED BY <1>1, <1>3, <3>4, <3>5
  <2> QED BY <1>1, <1>4, <2>2, <2>4, <2>5 DEF PipeInOrder
<1> QED BY <1>1, <1>3, <1>4 DEF C

-----------------------------------------------------------------------------
(* What is unsent, whether or not the first reply of it stands twice. *)
LEMMA UnsentFacts ==
  ASSUME ConnTypes, Lined, valid
  PROVE  /\ Unsent \in Seq(Replies) /\ Len(Unsent) \in Nat
         /\ Len(Unsent) = taken - Len(got) /\ Len(got) \in Nat
         /\ \A j \in 1..Len(Unsent) : Unsent[j] = Len(got) + j
<1>1. /\ sendBuffer \in Seq(Replies) /\ messages \in Seq(Replies)
      /\ Len(sendBuffer) \in Nat /\ Len(messages) \in Nat
      /\ Len(got) \in Nat /\ taken \in Nat
  BY SeqFacts, ConnAssumption DEF ConnTypes
<1>2. /\ sendBuffer \o messages \in Seq(Replies)
      /\ Len(sendBuffer \o messages) = Len(sendBuffer) + Len(messages)
      /\ \A j \in 1..(Len(sendBuffer) + Len(messages)) :
           (sendBuffer \o messages)[j] = IF j <= Len(sendBuffer) THEN sendBuffer[j]
                                         ELSE messages[j - Len(sendBuffer)]
  BY <1>1, ConcatProperties
<1>3. CASE Flushed(sendBuffer, messages, got)
  <2>1. Unsent = sendBuffer \o messages /\ Len(sendBuffer) = 0 /\ Len(messages) = 0
    BY <1>3 DEF Flushed, Unsent, UnsentOf
  <2>2. Len(got) = taken
    BY <1>3 DEF Flushed
  <2> QED BY <1>1, <1>2, <2>1, <2>2
<1>4. CASE Sending(sendBuffer, messages, got)
  <2>1. PICK d \in {0, 1} : /\ Len(messages) = (taken - Len(got)) - d
                            /\ \A j \in 1..Len(messages) : messages[j] = Len(got) + d + j
    BY <1>4 DEF Sending
  <2>2. /\ Len(got) < taken /\ sendBuffer = <<Len(got) + 1>>
        /\ Len(sendBuffer) = 1 /\ sendBuffer[1] = Len(got) + 1
        /\ Head(sendBuffer) = Len(got) + 1
    BY <1>4 DEF Sending
  <2>3. CASE d = 0
    <3>1. Len(messages) = taken - Len(got) /\ Len(messages) > 0
      BY <1>1, <2>1, <2>2, <2>3
    <3>2. messages[1] = Len(got) + 1 /\ messages # <<>> /\ sendBuffer # <<>>
      BY <1>1, <2>1, <2>2, <2>3, <3>1
    <3>3. Head(messages) = messages[1]
      BY <1>1, <3>2, SeqFacts
    <3>4. Unsent = messages
      BY <2>2, <3>2, <3>3 DEF Unsent, UnsentOf
    <3>5. \A j \in 1..Len(messages) : messages[j] = Len(got) + j
      BY <1>1, <2>1, <2>3
    <3> QED BY <1>1, <3>1, <3>4, <3>5
  <2>4. CASE d = 1
    <3>1. Len(messages) = (taken - Len(got)) - 1
      BY <2>1, <2>4
    <3>2. messages # <<>> => Head(messages) # Head(sendBuffer)
      <4> SUFFICES ASSUME messages # <<>> PROVE Head(messages) # Head(sendBuffer)
        OBVIOUS
      <4>1. Head(messages) = messages[1] /\ Len(messages) > 0
        BY <1>1, SeqFacts
      <4>2. messages[1] = Len(got) + 1 + 1
        BY <1>1, <2>1, <2>4, <4>1
      <4> QED BY <1>1, <2>2, <4>1, <4>2
    <3>3. Unsent = sendBuffer \o messages
      BY <3>2 DEF Unsent, UnsentOf
    <3>4. Len(Unsent) = taken - Len(got)
      BY <1>1, <1>2, <2>2, <3>1, <3>3
    <3>5. ASSUME NEW j \in 1..Len(Unsent) PROVE Unsent[j] = Len(got) + j
      <4>1. j \in 1..(Len(sendBuffer) + Len(messages))
        BY <1>2, <3>3
      <4>2. CASE j = 1
        BY <1>2, <2>2, <3>3, <4>1, <4>2
      <4>3. CASE j # 1
        <5>1. j - 1 \in 1..Len(messages) /\ ~(j <= Len(sendBuffer))
          BY <1>1, <2>2, <4>1, <4>3
        <5>2. Unsent[j] = messages[j - 1]
          BY <1>2, <2>2, <3>3, <4>1, <5>1
        <5>3. messages[j - 1] = Len(got) + 1 + (j - 1)
          BY <2>1, <2>4, <5>1
        <5> QED BY <1>1, <4>1, <5>2, <5>3
      <4> QED BY <4>2, <4>3
    <3> QED BY <1>1, <1>2, <3>3, <3>4, <3>5
  <2> QED BY <2>3, <2>4
<1> QED BY <1>3, <1>4 DEF Lined

(* One write event: i replies are finished and the next one is begun. *)
LEMMA WriteFacts ==
  ASSUME ConnTypes, Lined, valid, Whole(sendBuffer, got, left), RepliesInOrder,
         NEW i, NEW p, CanWrite(i, p)
  PROVE  LET w == doRequest(i, p)
         IN /\ w.got \in Seq(Replies) /\ w.sendBuffer \in Seq(Replies)
            /\ w.messages \in Seq(Replies) /\ w.left \in [Replies -> 0..Size]
            /\ w.got = [j \in 1..Len(w.got) |-> j]
            /\ w.sendBuffer = <<>> => Flushed(w.sendBuffer, w.messages, w.got)
            /\ w.sendBuffer # <<>> => Sending(w.sendBuffer, w.messages, w.got)
            /\ Whole(w.sendBuffer, w.got, w.left)
            /\ Len(w.got) = Len(got) + i
            /\ w.sendBuffer = <<>> <=> i = Len(Unsent)
<1> DEFINE w == doRequest(i, p)
           n == Len(Unsent)
           g == Len(got)
<1>0. /\ w.got = got \o SubSeq(Unsent, 1, i)
      /\ i = n => /\ w.sendBuffer = <<>> /\ w.messages = <<>>
                  /\ w.left = [r \in Replies |-> IF \E j \in 1..i : Unsent[j] = r THEN 0
                                                ELSE left[r]]
      /\ i # n => /\ w.sendBuffer = <<Unsent[i + 1]>>
                  /\ w.left = [r \in Replies |->
                                 IF \E j \in 1..i : Unsent[j] = r THEN 0
                                 ELSE IF r = Unsent[i + 1] THEN left[Unsent[i + 1]] - p
                                 ELSE left[r]]
                  /\ w.messages = IF i = 0 /\ sendBuffer # <<>> THEN messages
                                  ELSE SubSeq(Unsent, i + 2, n)
  BY DEF doRequest
<1> HIDE DEF w
<1>1. /\ Unsent \in Seq(Replies) /\ n \in Nat /\ n = taken - g /\ g \in Nat
      /\ \A j \in 1..n : Unsent[j] = g + j
      /\ taken \in Nat
  BY UnsentFacts, ConnAssumption DEF ConnTypes
<1>2. i \in 0..n /\ i \in Nat
  BY <1>1 DEF CanWrite
<1>3. \A j \in 1..n : g + j \in Replies
  <2>1. \A j \in 1..n : Unsent[j] \in Replies
    BY <1>1, ElementOfSeq
  <2> QED BY <1>1, <2>1
<1>4. /\ SubSeq(Unsent, 1, i) \in Seq(Replies) /\ Len(SubSeq(Unsent, 1, i)) = i
      /\ \A j \in 1..i : SubSeq(Unsent, 1, i)[j] = g + j
  <2>1. \A j \in 1..i : j \in 1..n /\ Unsent[j] \in Replies
    BY <1>1, <1>2, <1>3
  <2>2. SubSeq(Unsent, 1, i) = [k \in 1..i |-> Unsent[k]]
    BY <1>1, <1>2
  <2>3. SubSeq(Unsent, 1, i) \in [1..i -> Replies]
    BY <2>1, <2>2
  <2>4. SubSeq(Unsent, 1, i) \in Seq(Replies) /\ Len(SubSeq(Unsent, 1, i)) = i
    BY <1>2, <2>3, FunSeq
  <2> QED BY <1>1, <1>2, <2>1, <2>2, <2>4
<1>5. /\ w.got \in Seq(Replies) /\ Len(w.got) = g + i
      /\ w.got = [j \in 1..Len(w.got) |-> j]
  <2>1. w.got = got \o SubSeq(Unsent, 1, i)
    BY <1>0
  <2>2. /\ w.got \in Seq(Replies) /\ Len(w.got) = g + i
        /\ \A j \in 1..(g + i) : w.got[j] = IF j <= g THEN got[j]
                                           ELSE SubSeq(Unsent, 1, i)[j - g]
    BY <1>1, <1>4, <2>1, ConcatProperties, SMTT(30) DEF ConnTypes
  <2>3. ASSUME NEW j \in 1..(g + i) PROVE w.got[j] = j
    <3>1. CASE j <= g
      BY <1>1, <1>2, <2>2, <3>1 DEF RepliesInOrder
    <3>2. CASE ~(j <= g)
      <4>1. j - g \in 1..i /\ g + (j - g) = j
        BY <1>1, <1>2, <3>2
      <4> QED BY <1>4, <2>2, <3>2, <4>1
    <3> QED BY <3>1, <3>2
  <2>4. DOMAIN w.got = 1..(g + i) /\ w.got = [j \in 1..(g + i) |-> w.got[j]]
    BY <2>2, LenProperties
  <2> QED BY <2>2, <2>3, <2>4
<1>6. CASE i = n
  <2>1. /\ w.sendBuffer = <<>> /\ w.messages = <<>>
        /\ w.left = [r \in Replies |-> IF \E j \in 1..i : Unsent[j] = r THEN 0 ELSE left[r]]
    BY <1>0, <1>6
  <2>2. Flushed(w.sendBuffer, w.messages, w.got)
    BY <1>1, <1>5, <1>6, <2>1 DEF Flushed
  <2>3. Whole(w.sendBuffer, w.got, w.left)
    <3> SUFFICES ASSUME NEW r \in Replies
                 PROVE  /\ r <= g + i => w.left[r] = 0
                        /\ r > g + i => w.left[r] = Size
      BY <1>5 DEF Whole
    <3>1. r \in Nat
      BY DEF Replies
    <3>2. CASE r <= g
      <4>1. left[r] = 0
        BY <3>2 DEF Whole
      <4> QED BY <1>1, <1>2, <2>1, <3>1, <3>2, <4>1
    <3>3. CASE r > g /\ r <= g + i
      <4>1. r - g \in 1..i /\ r - g \in 1..n /\ g + (r - g) = r
        BY <1>1, <1>2, <3>1, <3>3
      <4>2. Unsent[r - g] = r
        BY <1>1, <4>1
      <4> QED BY <1>1, <1>2, <2>1, <3>1, <3>3, <4>1, <4>2
    <3>4. CASE r > g + i
      <4>1. \A j \in 1..i : Unsent[j] # r
        BY <1>1, <1>2, <3>1, <3>4
      <4>2. sendBuffer # <<r>>
        <5>1. CASE Flushed(sendBuffer, messages, got)
          BY <5>1 DEF Flushed
        <5>2. CASE Sending(sendBuffer, messages, got)
          <6>1. sendBuffer[1] = g + 1 /\ n > 0
            BY <1>1, <5>2 DEF Sending
          <6> QED BY <1>1, <1>2, <1>6, <3>1, <3>4, <6>1
        <5> QED BY <5>1, <5>2 DEF Lined
      <4>3. left[r] = Size
        BY <1>1, <1>2, <3>1, <3>4, <4>2 DEF Whole
      <4> QED BY <1>1, <1>2, <2>1, <3>1, <3>4, <4>1, <4>3
    <3> QED BY <1>1, <1>2, <3>1, <3>2, <3>3, <3>4
  <2>4. w.left \in [Replies -> 0..Size]
    BY <2>1, ConnAssumption DEF ConnTypes
  <2> QED BY <1>5, <1>6, <2>1, <2>2, <2>3, <2>4, EmptySeq DEF w
<1>7. CASE i # n
  <2> DEFINE q == g + (i + 1)
             rest == left[q] - p
  <2>0. i + 1 \in 1..n /\ i < n /\ q = (g + i) + 1
    BY <1>1, <1>2, <1>7
  <2>1. /\ i + 1 \in 1..n /\ i < n /\ Unsent[i + 1] = q /\ q \in Replies
        /\ q = (g + i) + 1
    BY <1>1, <1>3, <2>0
  <2>2. rest \in 0..Size /\ left[q] \in 0..Size
    <3>1. left[q] \in 0..Size /\ p \in 0..(left[q] - 1)
      BY <1>7, <2>1 DEF ConnTypes, CanWrite
    <3> QED BY <3>1, ConnAssumption
  <2>3. /\ w.sendBuffer = <<q>>
        /\ w.left = [r \in Replies |-> IF \E j \in 1..i : Unsent[j] = r THEN 0
                                       ELSE IF r = q THEN rest ELSE left[r]]
        /\ w.messages = IF i = 0 /\ sendBuffer # <<>> THEN messages
                        ELSE SubSeq(Unsent, i + 2, n)
    BY <1>0, <1>7, <2>1
  <2> HIDE DEF rest
  <2>4. w.left \in [Replies -> 0..Size]
    BY <2>2, <2>3, ConnAssumption DEF ConnTypes
  <2>5. w.sendBuffer \in Seq(Replies) /\ w.sendBuffer # <<>> /\ w.sendBuffer[1] = q
    BY <2>1, <2>3
  <2>6. Whole(w.sendBuffer, w.got, w.left)
    <3> SUFFICES ASSUME NEW r \in Replies
                 PROVE  /\ r <= g + i => w.left[r] = 0
                        /\ r > g + i /\ r # q => w.left[r] = Size
      BY <1>5, <2>3, <2>5 DEF Whole
    <3>1. r \in Nat
      BY DEF Replies
    <3>2. CASE r <= g
      <4>1. left[r] = 0 /\ r # q
        BY <1>1, <1>2, <2>1, <3>1, <3>2 DEF Whole
      <4> QED BY <1>1, <1>2, <2>3, <3>1, <3>2, <4>1
    <3>3. CASE r > g /\ r <= g + i
      <4>1. r - g \in 1..i /\ r - g \in 1..n /\ g + (r - g) = r
        BY <1>1, <1>2, <3>1, <3>3
      <4>2. Unsent[r - g] = r
        BY <1>1, <4>1
      <4> QED BY <1>1, <1>2, <2>3, <3>1, <3>3, <4>1, <4>2
    <3>4. CASE r > g + i /\ r # q
      <4>1. \A j \in 1..i : Unsent[j] # r
        BY <1>1, <1>2, <3>1, <3>4
      <4>2. sendBuffer # <<r>>
        <5>1. CASE Flushed(sendBuffer, messages, got)
          BY <5>1 DEF Flushed
        <5>2. CASE Sending(sendBuffer, messages, got)
          <6>1. sendBuffer[1] = g + 1
            BY <5>2 DEF Sending
          <6> QED BY <1>1, <1>2, <2>1, <3>1, <3>4, <6>1
        <5> QED BY <5>1, <5>2 DEF Lined
      <4>3. left[r] = Size
        BY <1>1, <1>2, <3>1, <3>4, <4>2 DEF Whole
      <4> QED BY <1>1, <1>2, <2>3, <3>1, <3>4, <4>1, <4>3
    <3>5. CASE r = q
      BY <1>1, <1>2, <2>1, <3>1, <3>5
    <3> QED BY <1>1, <1>2, <3>1, <3>2, <3>3, <3>4, <3>5
  <2>7. /\ w.messages \in Seq(Replies)
        /\ \E d \in {0, 1} :
             /\ Len(w.messages) = (taken - (g + i)) - d
             /\ \A j \in 1..Len(w.messages) : w.messages[j] = (g + i) + d + j
    <3>1. CASE i = 0 /\ sendBuffer # <<>>
      <4>1. Sending(sendBuffer, messages, got) /\ w.messages = messages
        BY <2>3, <3>1 DEF Lined, Flushed
      <4>2. g + i = g
        BY <1>1, <3>1
      <4> QED BY <4>1, <4>2 DEF Sending, ConnTypes
    <3>2. CASE ~(i = 0 /\ sendBuffer # <<>>)
      <4>1. w.messages = SubSeq(Unsent, i + 2, n)
        BY <2>3, <3>2
      <4>2. /\ i + 2 \in 1..(n + 1) /\ n \in (i + 1)..n
            /\ (n - (i + 2)) + 1 = n - (i + 1) /\ n - (i + 1) \in Nat
        BY <1>1, <1>2, <2>1
      <4>3. SubSeq(Unsent, i + 2, n) = [k \in 1..(n - (i + 1)) |-> Unsent[k + (i + 2) - 1]]
        BY <1>1, <1>2, <4>2
      <4>4. ASSUME NEW k \in 1..(n - (i + 1))
            PROVE  Unsent[k + (i + 2) - 1] = (g + i) + 1 + k /\ Unsent[k + (i + 2) - 1] \in Replies
        <5>1. k + (i + 2) - 1 \in 1..n /\ g + (k + (i + 2) - 1) = (g + i) + 1 + k
          BY <1>1, <1>2, <4>2
        <5> QED BY <1>1, <1>3, <5>1
      <4>5. /\ w.messages \in Seq(Replies) /\ Len(w.messages) = n - (i + 1)
            /\ \A k \in 1..(n - (i + 1)) : w.messages[k] = (g + i) + 1 + k
        <5>1. w.messages \in [1..(n - (i + 1)) -> Replies]
          BY <4>1, <4>3, <4>4
        <5>2. w.messages \in Seq(Replies) /\ Len(w.messages) = n - (i + 1)
          BY <4>2, <5>1, FunSeq
        <5> QED BY <4>1, <4>3, <4>4, <5>2
      <4>6. n - (i + 1) = (taken - (g + i)) - 1
        BY <1>1, <1>2
      <4> QED BY <4>5, <4>6
    <3> QED BY <3>1, <3>2
  <2>8. Sending(w.sendBuffer, w.messages, w.got)
    <3>1. Len(w.got) < taken /\ w.sendBuffer = <<Len(w.got) + 1>>
      BY <1>1, <1>2, <1>5, <2>1, <2>3
    <3> QED BY <1>5, <2>7, <3>1 DEF Sending
  <2> QED BY <1>5, <1>7, <2>4, <2>5, <2>6, <2>7, <2>8 DEF w
<1> QED BY <1>6, <1>7

-----------------------------------------------------------------------------
LEMMA ConnInit == Init => ConnInv
<1> SUFFICES ASSUME Init PROVE ConnInv
  OBVIOUS
<1>1. ConnTypes
  <2>1. listed \in BOOLEAN /\ valid \in BOOLEAN /\ bClose \in BOOLEAN /\ blocked \in BOOLEAN
    BY Zenon DEF Init
  <2>2. \A S : <<>> \in Seq(S)
    BY EmptySeq
  <2>3. 0 \in 0..MaxReplies /\ 0 \in 0..MaxCloses /\ left \in [Replies -> 0..Size]
    BY ConnAssumption DEF Init
  <2> QED BY <2>1, <2>2, <2>3 DEF Init, ConnTypes
<1>2. PipeInOrder
  BY EmptySeq DEF Init, PipeInOrder
<1>3. Len(got) = 0 /\ taken = 0
  BY EmptySeq DEF Init
<1>4. Lined
  BY <1>3 DEF Init, Lined, Flushed
<1>5. Whole(sendBuffer, got, left)
  BY <1>3, ConnAssumption DEF Init, Whole, Replies
<1>6. RepliesInOrder
  <2>1. DOMAIN got = 1..0 /\ got = [j \in 1..0 |-> got[j]]
    BY <1>1, <1>3, LenProperties DEF ConnTypes
  <2>2. [j \in 1..0 |-> got[j]] = [j \in 1..0 |-> j]
    OBVIOUS
  <2> QED BY <1>3, <2>1, <2>2 DEF RepliesInOrder
<1>7. CloseNoted /\ CloseFlushes
  BY <1>3 DEF Init, CloseNoted, CloseFlushes
<1> QED BY <1>1, <1>2, <1>4, <1>5, <1>6, <1>7 DEF ConnInv

(* A connection that is deleted, for whatever reason, keeps what was sent. *)
LEMMA DeletedInv ==
  ASSUME ConnInv, NEW why \in {"error", "flow", "peer", "timeout", "close"},
         delConnection(why), ConnTypes', PipeInOrder', RepliesInOrder',
         flushTo' <= taken', ~bClose' => flushTo' = 0,
         why = "close" => Len(got') >= flushTo'
  PROVE  ConnInv'
BY DEF ConnInv, delConnection, Lined, CloseNoted, CloseFlushes

(* A command that is dropped because the connection is gone. *)
LEMMA GoneInv ==
  ASSUME ConnInv, ~valid, UNCHANGED <<valid, listed, sendBuffer, messages, got, how, flushTo, bClose>>,
         ConnTypes', PipeInOrder', taken <= taken'
  PROVE  ConnInv'
<1>1. taken \in Nat /\ taken' \in Nat /\ flushTo \in Nat
  BY ConnAssumption DEF ConnInv, ConnTypes
<1>2. CloseNoted'
  BY <1>1 DEF ConnInv, CloseNoted
<1> QED BY <1>2 DEF ConnInv, Lined, RepliesInOrder, CloseFlushes

LEMMA PushInv ==
  ASSUME ConnInv, PushSend \/ PushClose
  PROVE  ConnInv'
<1> DEFINE C == {CloseCmd} \cup Replies
<1>1. ConnTypes /\ PipeInOrder
  BY DEF ConnInv
<1>2. /\ sbuffer \in Seq(C) /\ taken \in Nat /\ asked \in Nat
      /\ taken <= asked /\ asked <= MaxReplies
  BY <1>1, ConnAssumption DEF ConnTypes, PipeInOrder
<1>3. UNCHANGED <<taken, listed, bClose, socket, flushTo, how>>
  BY DEF PushSend, PushClose
<1>4. PICK e \in C : /\ sbuffer' = Append(sbuffer, e)
                     /\ \/ e = CloseCmd /\ asked' = asked /\ closes' \in 0..MaxCloses
                        \/ e = asked + 1 /\ asked' = asked + 1 /\ asked' <= MaxReplies
                           /\ closes' = closes
  <2>1. CASE PushSend
    <3>1. asked < MaxReplies /\ asked + 1 \in C
      BY <1>2, <2>1, ConnAssumption DEF PushSend, Replies
    <3> QED BY <1>2, <2>1, <3>1, ConnAssumption DEF PushSend
  <2>2. CASE PushClose
    <3>1. CloseCmd \in C /\ closes + 1 \in 0..MaxCloses
      BY <1>1, <2>2, ConnAssumption DEF PushClose, ConnTypes
    <3> QED BY <2>2, <3>1 DEF PushClose
  <2> QED BY <2>1, <2>2
<1> HIDE DEF C
<1>5. /\ Append(sbuffer, e) \in Seq(C) /\ Len(sbuffer) \in Nat
      /\ DOMAIN sbuffer = 1..Len(sbuffer)
      /\ DOMAIN Append(sbuffer, e) = 1..(Len(sbuffer) + 1)
      /\ Append(sbuffer, e)[Len(sbuffer) + 1] = e
      /\ \A i \in 1..Len(sbuffer) : Append(sbuffer, e)[i] = sbuffer[i]
  BY <1>2, SeqFacts
<1>6. ConnTypes'
  <2>1. sbuffer' \in Seq({CloseCmd} \cup Replies)
    BY <1>4, <1>5 DEF C
  <2>2. asked' \in 0..MaxReplies /\ closes' \in 0..MaxCloses
    BY <1>1, <1>2, <1>4, ConnAssumption DEF ConnTypes
  <2> QED BY <1>1, <1>3, <2>1, <2>2 DEF ConnTypes, socket
<1>7. PipeInOrder'
  <2>1. \A k \in DOMAIN sbuffer' : \/ k \in DOMAIN sbuffer /\ sbuffer'[k] = sbuffer[k]
                                   \/ k = Len(sbuffer) + 1 /\ sbuffer'[k] = e
    BY <1>4, <1>5
  <2>2. \A k \in DOMAIN sbuffer : k \in DOMAIN sbuffer' /\ sbuffer'[k] = sbuffer[k]
                                  /\ k < Len(sbuffer) + 1
    BY <1>4, <1>5
  <2>3. taken' = taken /\ taken <= asked' /\ asked' \in Nat
    BY <1>2, <1>3, <1>4
  <2>4. ASSUME NEW k \in DOMAIN sbuffer', sbuffer'[k] # CloseCmd
        PROVE  sbuffer'[k] \in (taken + 1)..asked'
    <3>1. CASE k \in DOMAIN sbuffer /\ sbuffer'[k] = sbuffer[k]
      <4>1. sbuffer[k] \in (taken + 1)..asked
        BY <1>1, <2>4, <3>1 DEF PipeInOrder
      <4> QED BY <1>2, <1>4, <3>1, <4>1
    <3>2. CASE sbuffer'[k] = e
      BY <1>2, <1>4, <2>4, <3>2
    <3> QED BY <2>1, <3>1, <3>2
  <2>5. ASSUME NEW j \in DOMAIN sbuffer', NEW k \in DOMAIN sbuffer', j < k,
               sbuffer'[j] # CloseCmd, sbuffer'[k] # CloseCmd
        PROVE  sbuffer'[j] < sbuffer'[k]
    <3>1. j \in DOMAIN sbuffer /\ sbuffer'[j] = sbuffer[j]
      BY <1>4, <1>5, <2>5
    <3>2. CASE k \in DOMAIN sbuffer /\ sbuffer'[k] = sbuffer[k]
      BY <1>1, <2>5, <3>1, <3>2 DEF PipeInOrder
    <3>3. CASE sbuffer'[k] = e
      <4>1. sbuffer[j] \in (taken + 1)..asked
        BY <1>1, <2>5, <3>1 DEF PipeInOrder
      <4>2. e = asked + 1
        BY <1>4, <2>5, <3>3
      <4> QED BY <1>2, <3>1, <3>3, <4>1, <4>2
    <3> QED BY <2>1, <3>2, <3>3
  <2>6. ASSUME NEW r \in (taken + 1)..asked' PROVE \E k \in DOMAIN sbuffer' : sbuffer'[k] = r
    <3>1. CASE r \in (taken + 1)..asked
      BY <1>1, <2>2, <3>1 DEF PipeInOrder
    <3>2. CASE r \notin (taken + 1)..asked
      <4>1. r = e
        BY <1>2, <1>4, <2>6, <3>2
      <4>2. Len(sbuffer) + 1 \in DOMAIN sbuffer' /\ sbuffer'[Len(sbuffer) + 1] = e
        BY <1>4, <1>5
      <4> QED BY <4>1, <4>2
    <3> QED BY <3>1, <3>2
  <2> QED BY <2>3, <2>4, <2>5, <2>6 DEF PipeInOrder
<1>8. /\ Lined' /\ (valid' => Whole(sendBuffer', got', left')) /\ RepliesInOrder'
      /\ CloseNoted' /\ CloseFlushes'
  BY <1>3 DEF ConnInv, socket, Lined, Flushed, Sending, Whole, RepliesInOrder, CloseNoted,
              CloseFlushes
<1> QED BY <1>6, <1>7, <1>8 DEF ConnInv

(* Connection::send with nothing before the reply. *)
LEMMA SendDirectInv ==
  ASSUME ConnInv, valid, NEW r \in Replies, Pop(r), NEW p \in 0..Size, SendDirect(r, p),
         UNCHANGED <<asked, closes, listed, bClose, flushTo, how>>
  PROVE  ConnInv'
<1>1. ConnTypes /\ PipeInOrder /\ Lined /\ Whole(sendBuffer, got, left) /\ RepliesInOrder
  BY DEF ConnInv
<1>2. /\ r = taken + 1 /\ taken' = taken + 1 /\ PipeInOrder'
      /\ sbuffer' \in Seq({CloseCmd} \cup Replies) /\ taken' \in 0..MaxReplies
  BY <1>1, PopReply
<1>3. /\ sendBuffer = <<>> /\ messages = <<>> /\ valid' = valid
      /\ left' = [left EXCEPT ![r] = Size - p]
      /\ sendBuffer' = IF p = Size THEN <<>> ELSE <<r>>
      /\ messages' = sendBuffer' /\ blocked' = (p < Size)
      /\ got' = IF p = Size THEN Append(got, r) ELSE got
  BY DEF SendDirect
<1>4. Len(got) = taken /\ Len(got) \in Nat /\ taken \in Nat /\ ~blocked /\ listed
  <2>1. ~Sending(sendBuffer, messages, got)
    BY <1>3 DEF Sending
  <2> QED BY <1>1, <2>1, ConnAssumption, SeqFacts DEF Lined, Flushed, ConnTypes
<1>5. Size - p \in 0..Size /\ left' \in [Replies -> 0..Size] /\ left'[r] = Size - p
      /\ \A q \in Replies : q # r => left'[q] = left[q]
  BY <1>1, <1>3, ConnAssumption DEF ConnTypes
<1>6. CASE p = Size
  <2>1. /\ got' = Append(got, r) /\ sendBuffer' = <<>> /\ messages' = <<>> /\ ~blocked'
    <3>1. ~(p < Size)
      BY <1>6, ConnAssumption
    <3> QED BY <1>3, <1>6, <3>1, Zenon
  <2>2. /\ got' \in Seq(Replies) /\ Len(got') = Len(got) + 1
        /\ DOMAIN got' = 1..(Len(got) + 1)
        /\ got'[Len(got) + 1] = r /\ \A j \in 1..Len(got) : got'[j] = got[j]
    BY <1>1, <2>1, SeqFacts DEF ConnTypes
  <2>3. RepliesInOrder'
    <3>1. \A j \in 1..Len(got) : got[j] = j
      BY <1>1 DEF RepliesInOrder
    <3>2. \A j \in 1..(Len(got) + 1) : got'[j] = j
      BY <1>2, <1>4, <2>2, <3>1
    <3>3. got' = [j \in 1..(Len(got) + 1) |-> got'[j]]
      BY <2>2, LenProperties
    <3> QED BY <2>2, <3>2, <3>3 DEF RepliesInOrder
  <2>4. ConnTypes'
    BY <1>1, <1>2, <1>3, <1>5, <2>1, <2>2, EmptySeq DEF ConnTypes
  <2>5. Lined'
    BY <1>2, <1>3, <1>4, <2>1, <2>2 DEF Lined, Flushed
  <2>6. Whole(sendBuffer', got', left')
    <3> SUFFICES ASSUME NEW q \in Replies
                 PROVE  /\ q <= Len(got) + 1 => left'[q] = 0
                        /\ q > Len(got) + 1 => left'[q] = Size
      BY <2>2 DEF Whole
    <3>1. CASE q = r
      BY <1>2, <1>4, <1>5, <1>6, <3>1, ConnAssumption
    <3>2. CASE q # r
      <4>1. /\ q <= Len(got) => left[q] = 0
            /\ q > Len(got) => left[q] = Size
        BY <1>1, <1>3 DEF Whole
      <4>2. q \in Nat
        BY DEF Replies
      <4> QED BY <1>2, <1>4, <1>5, <3>2, <4>1, <4>2
    <3> QED BY <3>1, <3>2
  <2>7. CloseNoted' /\ CloseFlushes'
    BY <1>2, <1>4, ConnAssumption DEF ConnInv, CloseNoted, CloseFlushes, ConnTypes
  <2> QED BY <1>2, <2>3, <2>4, <2>5, <2>6, <2>7 DEF ConnInv
<1>7. CASE p # Size
  <2>1. got' = got /\ sendBuffer' = <<r>> /\ messages' = <<r>> /\ blocked'
    <3>1. p < Size
      BY <1>7, ConnAssumption
    <3> QED BY <1>3, <1>7, <3>1, Zenon
  <2>2. ConnTypes'
    BY <1>1, <1>2, <1>3, <1>5, <2>1 DEF ConnTypes
  <2>3. Sending(sendBuffer, messages, got)'
    <3>1. Len(got') < taken' /\ sendBuffer' = <<Len(got') + 1>>
      BY <1>2, <1>4, <2>1
    <3>2. Len(messages') = (taken' - Len(got')) - 0
      BY <1>2, <1>4, <2>1
    <3>3. \A j \in 1..Len(messages') : messages'[j] = Len(got') + 0 + j
      BY <1>2, <1>4, <2>1
    <3> QED BY <3>1, <3>2, <3>3 DEF Sending
  <2>4. Lined'
    BY <1>3, <1>4, <2>1, <2>3 DEF Lined
  <2>5. Whole(sendBuffer', got', left')
    <3> SUFFICES ASSUME NEW q \in Replies
                 PROVE  /\ q <= Len(got) => left'[q] = 0
                        /\ q > Len(got) /\ q # r => left'[q] = Size
      BY <2>1 DEF Whole
    <3>1. /\ q <= Len(got) => left[q] = 0
          /\ q > Len(got) => left[q] = Size
      BY <1>1, <1>3 DEF Whole
    <3>2. q \in Nat
      BY DEF Replies
    <3> QED BY <1>2, <1>4, <1>5, <3>1, <3>2
  <2>6. CloseNoted' /\ CloseFlushes'
    BY <1>2, <1>4, <2>1, ConnAssumption DEF ConnInv, CloseNoted, CloseFlushes, ConnTypes
  <2>7. RepliesInOrder'
    BY <1>1, <2>1 DEF RepliesInOrder
  <2> QED BY <1>2, <2>2, <2>4, <2>5, <2>6, <2>7 DEF ConnInv
<1> QED BY <1>6, <1>7

(* Connection::send behind other replies. *)
LEMMA SendLaterInv ==
  ASSUME ConnInv, valid, NEW r \in Replies, Pop(r), SendLater(r),
         UNCHANGED <<asked, closes, listed, bClose, flushTo, how>>
  PROVE  ConnInv'
<1>1. ConnTypes /\ PipeInOrder /\ Lined /\ Whole(sendBuffer, got, left) /\ RepliesInOrder
  BY DEF ConnInv
<1>2. /\ r = taken + 1 /\ taken' = taken + 1 /\ PipeInOrder'
      /\ sbuffer' \in Seq({CloseCmd} \cup Replies) /\ taken' \in 0..MaxReplies
  BY <1>1, PopReply
<1>3. /\ messages' = Append(messages, r)
      /\ UNCHANGED <<valid, sendBuffer, left, blocked, got>>
      /\ messages # <<>> \/ sendBuffer # <<>>
  BY DEF SendLater
<1>4. Sending(sendBuffer, messages, got) /\ blocked
  BY <1>1, <1>3 DEF Lined, Flushed
<1>5. /\ Append(messages, r) \in Seq(Replies) /\ Len(Append(messages, r)) = Len(messages) + 1
      /\ Append(messages, r)[Len(messages) + 1] = r /\ Len(messages) \in Nat
      /\ \A i \in 1..Len(messages) : Append(messages, r)[i] = messages[i]
      /\ Len(got) \in Nat /\ taken \in Nat
  BY <1>1, SeqFacts, ConnAssumption DEF ConnTypes
<1>6. Sending(sendBuffer, messages, got)'
  <2>1. PICK d \in {0, 1} : /\ Len(messages) = (taken - Len(got)) - d
                            /\ \A j \in 1..Len(messages) : messages[j] = Len(got) + d + j
    BY <1>4 DEF Sending
  <2>2. d \in Nat
    BY <2>1
  <2>3. Len(messages') = (taken' - Len(got')) - d
    BY <1>2, <1>3, <1>5, <2>1, <2>2
  <2>4. ASSUME NEW j \in 1..Len(messages') PROVE messages'[j] = Len(got') + d + j
    <3>1. CASE j = Len(messages) + 1
      BY <1>2, <1>3, <1>5, <2>1, <2>2, <3>1
    <3>2. CASE j # Len(messages) + 1
      <4>1. j \in 1..Len(messages)
        BY <1>3, <1>5, <3>2
      <4> QED BY <1>3, <1>5, <2>1, <4>1
    <3> QED BY <3>1, <3>2
  <2>5. Len(got') < taken' /\ sendBuffer' = <<Len(got') + 1>>
    BY <1>2, <1>3, <1>4, <1>5 DEF Sending
  <2> QED BY <2>1, <2>3, <2>4, <2>5 DEF Sending
<1>7. ConnTypes'
  BY <1>1, <1>2, <1>3, <1>5 DEF ConnTypes
<1>8. Lined' /\ Whole(sendBuffer', got', left') /\ RepliesInOrder'
  BY <1>1, <1>3, <1>4, <1>6 DEF Lined, RepliesInOrder
<1>9. CloseNoted' /\ CloseFlushes'
  BY <1>1, <1>2, <1>3, <1>5, ConnAssumption DEF ConnInv, CloseNoted, CloseFlushes, ConnTypes
<1> QED BY <1>2, <1>7, <1>8, <1>9 DEF ConnInv

(* The other commands of processPipe. *)
LEMMA PipeInv ==
  ASSUME ConnInv, ProcessPipe
  PROVE  ConnInv'
<1>1. /\ ConnTypes /\ PipeInOrder /\ Lined /\ RepliesInOrder /\ CloseNoted /\ CloseFlushes
      /\ taken \in Nat /\ flushTo \in Nat
  BY ConnAssumption DEF ConnInv, ConnTypes
<1>2. CASE PipeNoConnection
  <2>1. PICK cmd \in {CloseCmd} \cup Replies : Pop(cmd)
    BY <1>2 DEF PipeNoConnection
  <2>2. UNCHANGED <<asked, closes, listed, bClose, socket, flushTo, how>> /\ ~listed
    BY <1>2 DEF PipeNoConnection
  <2>3. /\ PipeInOrder' /\ sbuffer' \in Seq({CloseCmd} \cup Replies)
        /\ taken' \in 0..MaxReplies /\ taken <= taken'
    <3>1. CASE cmd = CloseCmd
      BY <1>1, <2>1, <2>2, <3>1, PopClose DEF ConnTypes
    <3>2. CASE cmd \in Replies
      BY <1>1, <2>1, <2>2, <3>2, PopReply
    <3> QED BY <2>1, <3>1, <3>2
  <2>4. ConnTypes'
    BY <1>1, <2>2, <2>3 DEF ConnTypes, socket
  <2>5. ~valid
    BY <1>1, <2>2 DEF Lined
  <2> QED BY <2>2, <2>3, <2>4, <2>5, GoneInv DEF socket
<1>3. CASE PipeSend
  <2>1. PICK r \in Replies : /\ Pop(r)
                             /\ (\E p \in 0..Size : SendDirect(r, p)) \/ SendLater(r)
    BY <1>3 DEF PipeSend
  <2>2. valid /\ UNCHANGED <<asked, closes, listed, bClose, flushTo, how>>
    BY <1>3 DEF PipeSend
  <2>3. CASE SendLater(r)
    BY <2>1, <2>2, <2>3, SendLaterInv
  <2>4. CASE \E p \in 0..Size : SendDirect(r, p)
    BY <2>1, <2>2, <2>4, SendDirectInv
  <2> QED BY <2>1, <2>3, <2>4
<1>4. CASE PipeSendThrows
  <2>1. PICK r \in Replies : Pop(r)
    BY <1>4 DEF PipeSendThrows
  <2>2. /\ messages = <<>> /\ sendBuffer = <<>> /\ ~valid'
        /\ UNCHANGED <<asked, closes, listed, bClose, sendBuffer, messages, left,
                       messageSize, blocked, got, flow, flushTo, how>>
    BY <1>4, Zenon DEF PipeSendThrows
  <2>3. /\ taken' = taken + 1 /\ PipeInOrder'
        /\ sbuffer' \in Seq({CloseCmd} \cup Replies) /\ taken' \in 0..MaxReplies
    BY <1>1, <2>1, <2>2, PopReply
  <2>4. valid' \in BOOLEAN
    BY <1>4, Zenon DEF PipeSendThrows
  <2>5. ConnTypes'
    BY <1>1, <2>2, <2>3, <2>4 DEF ConnTypes
  <2>6. CloseNoted' /\ CloseFlushes'
    BY <1>1, <2>2, <2>3 DEF CloseNoted, CloseFlushes
  <2> QED BY <1>1, <2>2, <2>3, <2>5, <2>6 DEF ConnInv, Lined, RepliesInOrder
<1>5. CASE PipeSendInvalid
  <2>1. PICK r \in Replies : Pop(r)
    BY <1>5 DEF PipeSendInvalid
  <2>2. /\ delConnection("error")
        /\ UNCHANGED <<asked, closes, bClose, left, got, flushTo>>
    BY <1>5 DEF PipeSendInvalid
  <2>3. /\ taken' = taken + 1 /\ PipeInOrder'
        /\ sbuffer' \in Seq({CloseCmd} \cup Replies) /\ taken' \in 0..MaxReplies
    BY <1>1, <2>1, <2>2, PopReply
  <2>4. ConnTypes'
    BY <1>1, <2>2, <2>3, EmptySeq DEF ConnTypes, delConnection
  <2>5. flushTo' <= taken' /\ (~bClose' => flushTo' = 0) /\ RepliesInOrder'
    BY <1>1, <2>2, <2>3 DEF CloseNoted, RepliesInOrder
  <2> QED BY <2>2, <2>3, <2>4, <2>5, DeletedInv
<1>6. CASE PipeClose
  <2>1. /\ listed /\ Pop(CloseCmd) /\ UNCHANGED <<asked, closes, left, got>>
        /\ flushTo' = IF bClose THEN flushTo ELSE taken
    BY <1>6 DEF PipeClose
  <2>2. taken' = taken /\ PipeInOrder' /\ sbuffer' \in Seq({CloseCmd} \cup Replies)
    BY <1>1, <2>1, PopClose
  <2>3. bClose' /\ bClose' \in BOOLEAN
    BY <1>6, Zenon DEF PipeClose
  <2>4. flushTo' \in 0..MaxReplies /\ flushTo' <= taken' /\ RepliesInOrder'
    BY <1>1, <2>1, <2>2 DEF CloseNoted, ConnTypes, RepliesInOrder
  <2>5. CASE sendBuffer = <<>>
    <3>1. PICK why \in {"close", "error"} :
            delConnection(why) /\ (why = "close" => valid)
      BY <1>6, <2>5 DEF PipeClose
    <3>2. ConnTypes'
      BY <1>1, <2>1, <2>2, <2>3, <2>4, <3>1, EmptySeq DEF ConnTypes, delConnection
    <3>3. why = "close" => Len(got') >= flushTo'
      <4>1. why = "close" => Len(got) = taken
        BY <1>1, <2>5, <3>1 DEF Lined, Flushed, Sending
      <4> QED BY <1>1, <2>1, <2>2, <2>4, <4>1
    <3> QED BY <2>2, <2>3, <2>4, <3>1, <3>2, <3>3, DeletedInv
  <2>6. CASE sendBuffer # <<>>
    <3>1. UNCHANGED <<listed, valid, sendBuffer, messages, blocked, how>>
      BY <1>6, <2>6 DEF PipeClose
    <3>2. ConnTypes'
      BY <1>1, <2>1, <2>2, <2>3, <2>4, <3>1 DEF ConnTypes
    <3>3. Lined' /\ (valid' => Whole(sendBuffer', got', left'))
      BY <2>1, <2>2, <3>1 DEF ConnInv, Lined, Flushed, Sending
    <3>4. CloseNoted' /\ CloseFlushes'
      BY <1>1, <2>1, <2>3, <2>4, <3>1 DEF CloseNoted, CloseFlushes
    <3> QED BY <2>2, <2>4, <3>2, <3>3, <3>4 DEF ConnInv
  <2> QED BY <2>5, <2>6
<1> QED BY <1>2, <1>3, <1>4, <1>5, <1>6 DEF ProcessPipe

(* The write event. *)
LEMMA OutputInv ==
  ASSUME ConnInv, NEW i \in 0..MaxReplies, NEW p \in 0..(Size - 1), handleOutput(i, p)
  PROVE  ConnInv'
<1> DEFINE w == doRequest(i, p)
<1>1. /\ ConnTypes /\ PipeInOrder /\ Lined /\ RepliesInOrder /\ CloseNoted /\ CloseFlushes
      /\ taken \in Nat /\ flushTo \in Nat
  BY ConnAssumption DEF ConnInv, ConnTypes
<1>2. /\ listed /\ valid /\ CanWrite(i, p)
      /\ left' = w.left /\ got' = w.got
      /\ \/ /\ w.sendBuffer = <<>> /\ delConnection("close")
         \/ /\ ~(bClose /\ w.sendBuffer = <<>>) /\ delConnection("flow")
         \/ /\ ~(bClose /\ w.sendBuffer = <<>>)
            /\ sendBuffer' = w.sendBuffer /\ messages' = w.messages
            /\ blocked' = (w.sendBuffer # <<>>)
            /\ UNCHANGED <<listed, valid, how>>
      /\ UNCHANGED <<sbuffer, asked, taken, closes, bClose, flushTo>>
  BY DEF handleOutput
<1>3. Whole(sendBuffer, got, left)
  BY <1>2 DEF ConnInv
<1>4. /\ w.got \in Seq(Replies) /\ w.sendBuffer \in Seq(Replies)
      /\ w.messages \in Seq(Replies) /\ w.left \in [Replies -> 0..Size]
      /\ w.got = [j \in 1..Len(w.got) |-> j]
      /\ w.sendBuffer = <<>> => Flushed(w.sendBuffer, w.messages, w.got)
      /\ w.sendBuffer # <<>> => Sending(w.sendBuffer, w.messages, w.got)
      /\ Whole(w.sendBuffer, w.got, w.left)
  BY <1>1, <1>2, <1>3, WriteFacts
<1> HIDE DEF w
<1>5. PipeInOrder' /\ RepliesInOrder'
  BY <1>1, <1>2, <1>4 DEF PipeInOrder, RepliesInOrder
<1>6. flushTo' <= taken' /\ (~bClose' => flushTo' = 0)
  BY <1>1, <1>2 DEF CloseNoted
<1>7. ASSUME NEW why \in {"close", "flow"}, delConnection(why),
             why = "close" => w.sendBuffer = <<>>
      PROVE  ConnInv'
  <2>1. ConnTypes'
    BY <1>1, <1>2, <1>4, <1>7, EmptySeq DEF ConnTypes, delConnection
  <2>2. why = "close" => Len(got') >= flushTo'
    <3>1. why = "close" => Len(got') = taken
      BY <1>2, <1>4, <1>7 DEF Flushed
    <3> QED BY <1>1, <1>2, <3>1 DEF CloseNoted
  <2> QED BY <1>5, <1>6, <1>7, <2>1, <2>2, DeletedInv
<1>8. ASSUME sendBuffer' = w.sendBuffer, messages' = w.messages,
             blocked' = (w.sendBuffer # <<>>), UNCHANGED <<listed, valid, how>>
      PROVE  ConnInv'
  <2>1. blocked' \in BOOLEAN /\ (blocked' <=> w.sendBuffer # <<>>)
    BY <1>8, Zenon
  <2>2. ConnTypes'
    BY <1>1, <1>2, <1>4, <1>8, <2>1 DEF ConnTypes
  <2>3. Lined'
    BY <1>2, <1>4, <1>8, <2>1 DEF Lined, Flushed, Sending
  <2>4. Whole(sendBuffer', got', left')
    BY <1>2, <1>4, <1>8
  <2>5. CloseNoted' /\ CloseFlushes'
    BY <1>1, <1>2, <1>8 DEF CloseNoted, CloseFlushes
  <2> QED BY <1>5, <2>2, <2>3, <2>4, <2>5 DEF ConnInv
<1> QED BY <1>2, <1>7, <1>8

LEMMA ConnStep == ConnInv /\ [Next]_vars => ConnInv'
<1> SUFFICES ASSUME ConnInv, [Next]_vars PROVE ConnInv'
  OBVIOUS
<1>1. /\ ConnTypes /\ PipeInOrder /\ RepliesInOrder /\ CloseNoted
  BY DEF ConnInv
<1>2. CASE PushSend \/ PushClose
  BY <1>2, PushInv
<1>3. CASE ProcessPipe
  BY <1>3, PipeInv
<1>4. CASE HandleOutput
  BY <1>4, OutputInv DEF HandleOutput
<1>5. CASE HandleOutputFails \/ PeerCloses \/ CheckTimeout
  <2>1. PICK why \in {"error", "peer", "timeout"} :
          /\ delConnection(why)
          /\ UNCHANGED <<sbuffer, asked, taken, closes, bClose, left, got, flushTo>>
    BY <1>5 DEF HandleOutputFails, PeerCloses, CheckTimeout
  <2>2. ConnTypes'
    BY <1>1, <2>1, EmptySeq DEF ConnTypes, delConnection
  <2>3. PipeInOrder' /\ RepliesInOrder'
    BY <1>1, <2>1 DEF PipeInOrder, RepliesInOrder
  <2>4. flushTo' <= taken' /\ (~bClose' => flushTo' = 0)
    BY <1>1, <2>1 DEF CloseNoted
  <2> QED BY <2>1, <2>2, <2>3, <2>4, DeletedInv
<1>6. CASE Tick \/ UNCHANGED vars
  <2>1. UNCHANGED <<sbuffer, asked, taken, closes, listed, bClose, socket, flushTo, how>>
    BY <1>6 DEF Tick, vars
  <2> QED BY <2>1 DEF ConnInv, ConnTypes, socket, PipeInOrder, Lined, Flushed, Sending, Whole,
                      RepliesInOrder, CloseNoted, CloseFlushes
<1> QED BY <1>2, <1>3, <1>4, <1>5, <1>6 DEF Next

-----------------------------------------------------------------------------
(* The flow control: what it counts covers what is unsent.                 *)
FlowTypes ==
  /\ messageSize \in Nat /\ window \in BOOLEAN /\ accumulate \in Nat
  /\ checkSend \in Seq([sent : Nat, left : Nat]) /\ Len(checkSend) < GrowChecks
  /\ unsentAtFlow \in Nat

(* _messageSize has every reply behind the one in the send buffer. *)
Counted ==
  valid /\ sendBuffer # <<>> => messageSize >= ((taken - Len(got)) - 1) * Size

FlowInv == FlowTypes /\ Counted

LEMMA Products ==
  ASSUME NEW a \in Nat, NEW b \in Nat, a <= b
  PROVE  /\ a * Size \in Nat /\ b * Size \in Nat /\ a * Size <= b * Size
         /\ (a + 1) * Size = a * Size + Size
<1>1. Size \in Nat
  BY ConnAssumption
<1> QED BY <1>1

(* The bytes of a queue of replies. *)
LEMMA BytesNat ==
  ASSUME NEW u \in Seq(Replies), NEW rest \in [Replies -> 0..Size]
  PROVE  BytesOf(u, rest) \in Nat
<1>1. CASE u = <<>>
  BY <1>1 DEF BytesOf
<1>2. CASE u # <<>>
  <2>1. Head(u) \in Replies /\ Len(u) - 1 \in Nat
    BY <1>2, SeqFacts
  <2>2. rest[Head(u)] \in Nat /\ (Len(u) - 1) * Size \in Nat
    BY <2>1, Products, ConnAssumption
  <2> QED BY <1>2, <2>2 DEF BytesOf
<1> QED BY <1>1, <1>2

LEMMA UnsentOfSeq ==
  ASSUME NEW b \in Seq(Replies), NEW q \in Seq(Replies)
  PROVE  UnsentOf(b, q) \in Seq(Replies)
BY ConcatProperties DEF UnsentOf

(* What the flow control compares before a write. *)
LEMMA LastLeftFacts ==
  ASSUME ConnInv, FlowInv
  PROVE  /\ SendBufferLength \in 0..Size
         /\ sendBuffer # <<>> => /\ Head(sendBuffer) \in Replies
                                 /\ SendBufferLength = left[Head(sendBuffer)]
         /\ LastLeft \in Nat /\ LastLeft >= messageSize
<1>1. sendBuffer # <<>> => Head(sendBuffer) \in Replies
  BY SeqFacts DEF ConnInv, ConnTypes
<1>2. SendBufferLength \in 0..Size
  BY <1>1, ConnAssumption DEF ConnInv, ConnTypes, SendBufferLength
<1> QED BY <1>1, <1>2, ConnAssumption DEF SendBufferLength, LastLeft, FlowInv, FlowTypes

(* What one write event does to the count. *)
LEMMA WriteCounts ==
  ASSUME ConnInv, FlowInv, valid, NEW i, NEW p, CanWrite(i, p)
  PROVE  LET w == doRequest(i, p)
         IN /\ w.messageSize \in Nat /\ w.length \in Nat
            /\ w.messageSize + w.length <= LastLeft
            /\ w.sendBuffer # <<>> =>
                 w.messageSize >= ((taken - Len(w.got)) - 1) * Size
<1> DEFINE w == doRequest(i, p)
           n == Len(Unsent)
           g == Len(got)
           rest == left[Unsent[i + 1]] - p
<1>1. /\ Unsent \in Seq(Replies) /\ n \in Nat /\ n = taken - g /\ g \in Nat
      /\ \A j \in 1..n : Unsent[j] = g + j
      /\ taken \in Nat /\ left \in [Replies -> 0..Size] /\ Size \in Nat
      /\ messageSize \in Nat
  BY UnsentFacts, ConnAssumption DEF ConnInv, ConnTypes, FlowInv, FlowTypes
<1>2. Len(w.got) = g + i /\ (w.sendBuffer = <<>> <=> i = n)
  BY WriteFacts DEF ConnInv
<1>3. /\ i = n => w.messageSize = messageSize - 0 \/ w.messageSize = messageSize
      /\ i = n => w.length = 0
      /\ i # n => /\ w.length = rest
                  /\ w.messageSize = IF i = 0 /\ sendBuffer # <<>> THEN messageSize
                                     ELSE messageSize - rest
  BY DEF doRequest
<1>4. i \in 0..n
  BY <1>1 DEF CanWrite
<1>5. i # n => p \in 0..(left[Unsent[i + 1]] - 1)
  BY DEF CanWrite
<1> HIDE DEF w
<1>6. LastLeft \in Nat /\ LastLeft >= messageSize
  BY LastLeftFacts
<1>7. CASE i = n
  <2>1. w.messageSize = messageSize /\ w.length = 0 /\ w.sendBuffer = <<>>
    BY <1>1, <1>2, <1>3, <1>7
  <2> QED BY <1>1, <1>6, <2>1 DEF w
<1>8. CASE i # n
  <2>1. i + 1 \in 1..n /\ Unsent[i + 1] = (g + i) + 1
    BY <1>1, <1>4, <1>8
  <2>2. Unsent[i + 1] \in Replies
    BY <1>1, <2>1, ElementOfSeq
  <2>3. left[Unsent[i + 1]] \in 0..Size
    BY <1>1, <2>2
  <2>4. rest \in 0..Size /\ rest <= left[Unsent[i + 1]]
    BY <1>1, <1>5, <1>8, <2>3, SMTT(30)
  <2>5. sendBuffer = <<g + 1>>
    <3>1. ~Flushed(sendBuffer, messages, got)
      BY <1>1, <2>1 DEF Flushed
    <3> QED BY <3>1 DEF ConnInv, Lined, Sending
  <2>6. Head(sendBuffer) = g + 1 /\ Len(sendBuffer) = 1
    BY <2>5
  <2>7. sendBuffer # <<>>
    <3>1. Len(sendBuffer) # 0
      BY <2>6
    <3> QED BY <3>1, SeqFacts DEF ConnInv, ConnTypes
  <2>8. messageSize >= (n - 1) * Size
    BY <1>1, <2>7 DEF FlowInv, Counted
  <2>9. CASE i = 0
    <3>1. w.messageSize = messageSize /\ w.length = rest
      BY <1>3, <1>8, <2>7, <2>9
    <3>2. Unsent[i + 1] = g + 1
      BY <1>1, <2>1, <2>9
    <3>3. LastLeft = messageSize + left[Unsent[i + 1]]
      BY <2>6, <2>7, <3>2 DEF LastLeft, SendBufferLength
    <3>4. (taken - Len(w.got)) - 1 = n - 1
      BY <1>1, <1>2, <2>9
    <3>5. w.messageSize >= ((taken - Len(w.got)) - 1) * Size
      BY <2>8, <3>1, <3>4
    <3>6. w.messageSize + w.length <= LastLeft
      BY <1>1, <2>3, <2>4, <3>1, <3>3
    <3>7. w.messageSize \in Nat /\ w.length \in Nat
      BY <1>1, <2>4, <3>1
    <3> QED BY <3>5, <3>6, <3>7 DEF w
  <2>10. CASE i # 0
    <3>1. w.messageSize = messageSize - rest /\ w.length = rest
      BY <1>3, <1>8, <2>10
    <3> DEFINE k == (n - i) - 1
    <3>2. k \in Nat /\ n - 1 \in Nat /\ k + 1 \in Nat /\ k + 1 <= n - 1
          /\ (taken - Len(w.got)) - 1 = k
      BY <1>1, <1>2, <1>4, <2>1, <2>10
    <3> HIDE DEF k
    <3>3. k * Size \in Nat /\ (k + 1) * Size = k * Size + Size
      <4>1. k <= k + 1
        BY <3>2
      <4> QED BY <3>2, <4>1, Products
    <3>4. (k + 1) * Size <= (n - 1) * Size /\ (n - 1) * Size \in Nat
      BY <3>2, Products
    <3>5. messageSize >= k * Size + Size
      BY <1>1, <2>8, <3>3, <3>4
    <3>6. messageSize - rest >= k * Size /\ messageSize - rest \in Nat
      BY <1>1, <2>4, <3>3, <3>5, SMTT(30)
    <3>7. w.messageSize >= ((taken - Len(w.got)) - 1) * Size
      BY <3>1, <3>2, <3>6
    <3>8. w.messageSize + w.length = messageSize
      BY <1>1, <2>4, <3>1
    <3>9. w.messageSize \in Nat /\ w.length \in Nat
      BY <1>1, <2>4, <3>1, <3>6
    <3> QED BY <1>6, <3>7, <3>8, <3>9 DEF w
  <2> QED BY <2>9, <2>10
<1> QED BY <1>7, <1>8

LEMMA FlowInit == Init => FlowInv
<1> SUFFICES ASSUME Init PROVE FlowInv
  OBVIOUS
<1>1. /\ messageSize = 0 /\ accumulate = 0 /\ unsentAtFlow = 0
      /\ checkSend = <<>> /\ sendBuffer = <<>>
  BY DEF Init
<1>2. window \in BOOLEAN
  BY Zenon DEF Init
<1>3. checkSend \in Seq([sent : Nat, left : Nat])
  BY <1>1
<1>4. Len(checkSend) = 0 /\ 0 < GrowChecks
  BY <1>1, ConnAssumption
<1> QED BY <1>1, <1>2, <1>3, <1>4 DEF FlowInv, FlowTypes, Counted

(* A step that leaves the count alone or deletes the connection. *)
LEMMA FlowKept ==
  ASSUME FlowInv, UNCHANGED <<messageSize, accumulate, checkSend, unsentAtFlow>>,
         window' \in BOOLEAN,
         \/ UNCHANGED <<valid, sendBuffer, taken, got>>
         \/ sendBuffer' = <<>>
  PROVE  FlowInv'
BY DEF FlowInv, FlowTypes, Counted

(* checkFlow keeps its records short. *)
LEMMA checkFlowTypes ==
  ASSUME FlowTypes, NEW l \in Nat, NEW size \in Nat, size <= l, checkFlow(l, size)
  PROVE  /\ window' \in BOOLEAN /\ accumulate' \in Nat
         /\ checkSend' \in Seq([sent : Nat, left : Nat]) /\ Len(checkSend') < GrowChecks
<1> DEFINE R == [sent : Nat, left : Nat]
           e == [sent |-> accumulate + l - size, left |-> l]
           records == Append(checkSend, e)
<1>1. window' \in BOOLEAN /\ accumulate \in Nat /\ checkSend \in Seq(R)
      /\ Len(checkSend) < GrowChecks /\ GrowChecks \in Nat
  BY ConnAssumption DEF FlowTypes, checkFlow
<1>2. accumulate + l - size \in Nat
  BY <1>1
<1>3. e \in R
  BY <1>2
<1>4. records = Recorded(l, size)
  BY DEF Recorded
<1> HIDE DEF R, e
<1>5. records \in Seq(R) /\ Len(records) = Len(checkSend) + 1 /\ Len(checkSend) \in Nat
  BY <1>1, <1>3, SeqFacts
<1> HIDE DEF records
<1>6. /\ records # <<>>
      /\ Tail(records) \in Seq(R) /\ Len(Tail(records)) = Len(records) - 1
  <2>1. Len(records) # 0
    BY <1>5
  <2>2. records # <<>>
    BY <1>5, <2>1, SeqFacts
  <2> QED BY <1>5, <2>2, SeqFacts
<1>7. /\ accumulate' \in {0, accumulate + l - size}
      /\ \/ checkSend' = <<>> \/ checkSend' = checkSend
         \/ checkSend' = Tail(records)
         \/ checkSend' = records /\ Len(records) < GrowChecks
  <2>1. CASE ~Backlogged(size)
    BY <2>1 DEF checkFlow
  <2>2. CASE Backlogged(size) /\ ~CheckDue(size)
    BY <2>2 DEF checkFlow
  <2>3. CASE Backlogged(size) /\ CheckDue(size)
    <3>1. /\ accumulate' = 0
          /\ checkSend' = IF Len(records) >= GrowChecks THEN Tail(records) ELSE records
      BY <1>4, <2>3 DEF checkFlow
    <3> QED BY <1>1, <1>5, <3>1
  <2> QED BY <2>1, <2>2, <2>3
<1>8. accumulate' \in Nat
  BY <1>2, <1>7
<1>9. <<>> \in Seq(R) /\ Len(<<>>) = 0 /\ 0 < GrowChecks
  BY EmptySeq, ConnAssumption
<1>10. checkSend' \in Seq(R) /\ Len(checkSend') < GrowChecks
  <2>1. CASE checkSend' = <<>>
    BY <1>9, <2>1
  <2>2. CASE checkSend' = checkSend
    BY <1>1, <2>2
  <2>3. CASE checkSend' = Tail(records)
    BY <1>1, <1>5, <1>6, <2>3
  <2>4. CASE checkSend' = records /\ Len(records) < GrowChecks
    BY <1>5, <2>4
  <2> QED BY <1>7, <2>1, <2>2, <2>3, <2>4
<1> QED BY <1>1, <1>8, <1>10 DEF R

LEMMA FlowSend ==
  ASSUME ConnInv, FlowInv, PipeSend
  PROVE  FlowInv'
<1>1. PICK r \in Replies : /\ Pop(r)
                           /\ (\E p \in 0..Size : SendDirect(r, p)) \/ SendLater(r)
  BY DEF PipeSend
<1>2. valid /\ UNCHANGED <<window, accumulate, checkSend, unsentAtFlow>>
  BY DEF PipeSend, flow
<1>3. taken' = taken + 1 /\ taken \in Nat /\ Size \in Nat /\ messageSize \in Nat
  BY <1>1, PopReply, ConnAssumption DEF ConnInv, ConnTypes, FlowInv, FlowTypes
<1>4. Len(got) \in Nat /\ Len(Unsent) \in Nat /\ Len(Unsent) = taken - Len(got)
  BY <1>2, UnsentFacts DEF ConnInv
<1>5. CASE SendLater(r)
  <2>1. messageSize' = messageSize + Size /\ UNCHANGED <<valid, sendBuffer, got>>
        /\ (messages # <<>> \/ sendBuffer # <<>>)
    BY <1>5 DEF SendLater
  <2>2. Len(got) < taken /\ sendBuffer # <<>>
    <3>1. Sending(sendBuffer, messages, got)
      BY <1>2, <2>1 DEF ConnInv, Lined, Flushed
    <3>2. Len(got) < taken /\ Len(sendBuffer) = 1
      BY <3>1 DEF Sending
    <3>3. Len(sendBuffer) # 0
      BY <3>2
    <3> QED BY <3>2, <3>3, SeqFacts DEF ConnInv, ConnTypes
  <2> DEFINE k == (taken - Len(got)) - 1
  <2>3. k \in Nat /\ k <= k + 1 /\ k + 1 \in Nat /\ (taken' - Len(got')) - 1 = k + 1
    BY <1>3, <1>4, <2>1, <2>2
  <2>4. messageSize >= k * Size
    BY <1>2, <2>2 DEF FlowInv, Counted
  <2> HIDE DEF k
  <2>5. (k + 1) * Size = k * Size + Size /\ k * Size \in Nat
    BY <2>3, Products
  <2>6. messageSize' >= (k + 1) * Size /\ messageSize' \in Nat
    BY <1>3, <2>1, <2>4, <2>5
  <2>7. Counted'
    BY <2>3, <2>6 DEF Counted
  <2> QED BY <1>2, <2>6, <2>7 DEF FlowInv, FlowTypes
<1>6. ASSUME NEW p \in 0..Size, SendDirect(r, p) PROVE FlowInv'
  <2>1. /\ messages = <<>> /\ sendBuffer = <<>> /\ messageSize' = messageSize + (Size - p)
        /\ sendBuffer' = (IF p = Size THEN <<>> ELSE <<r>>)
        /\ got' = (IF p = Size THEN Append(got, r) ELSE got)
    BY <1>6 DEF SendDirect
  <2>2. messageSize' \in Nat
    BY <1>3, <1>6, <2>1
  <2>3. Len(got) = taken
    <3>1. Len(sendBuffer) = 0
      BY <2>1
    <3>2. ~Sending(sendBuffer, messages, got)
      <4>1. Sending(sendBuffer, messages, got) => Len(sendBuffer) = 1
        BY DEF Sending
      <4> QED BY <3>1, <4>1
    <3> QED BY <1>2, <3>2 DEF ConnInv, Lined, Flushed
  <2>4. CASE p = Size
    BY <1>2, <2>1, <2>2, <2>4 DEF FlowInv, FlowTypes, Counted
  <2>5. CASE p # Size
    <3>1. (taken' - Len(got')) - 1 = 0
      BY <1>3, <1>4, <2>1, <2>3, <2>5
    <3>2. 0 * Size = 0
      BY <1>3
    <3>3. Counted'
      BY <2>2, <3>1, <3>2 DEF Counted
    <3> QED BY <1>2, <2>2, <3>3 DEF FlowInv, FlowTypes
  <2> QED BY <2>4, <2>5
<1> QED BY <1>1, <1>5, <1>6

LEMMA FlowOutput ==
  ASSUME ConnInv, FlowInv, NEW i \in 0..MaxReplies, NEW p \in 0..(Size - 1),
         handleOutput(i, p)
  PROVE  FlowInv'
<1> DEFINE w == doRequest(i, p)
           size == w.messageSize + w.length
<1>1. /\ valid /\ CanWrite(i, p) /\ messageSize' = w.messageSize /\ got' = w.got
      /\ \/ /\ delConnection("close") /\ UNCHANGED <<flow, unsentAtFlow>>
         \/ /\ delConnection("flow") /\ UNCHANGED flow
            /\ unsentAtFlow' = BytesOf(UnsentOf(w.sendBuffer, w.messages), w.left)
         \/ /\ sendBuffer' = w.sendBuffer /\ checkFlow(LastLeft, size)
            /\ UNCHANGED <<valid, unsentAtFlow>>
      /\ UNCHANGED taken
  BY DEF handleOutput
<1>2. /\ w.messageSize \in Nat /\ w.length \in Nat /\ size <= LastLeft
      /\ w.sendBuffer # <<>> => w.messageSize >= ((taken - Len(w.got)) - 1) * Size
  BY <1>1, WriteCounts
<1>3. /\ w.sendBuffer \in Seq(Replies) /\ w.messages \in Seq(Replies)
      /\ w.left \in [Replies -> 0..Size]
  BY <1>1, WriteFacts DEF ConnInv
<1> HIDE DEF w
<1>4. messageSize' \in Nat /\ size \in Nat /\ LastLeft \in Nat
  BY <1>1, <1>2, LastLeftFacts
<1>5. CASE delConnection("close") /\ UNCHANGED <<flow, unsentAtFlow>>
  BY <1>4, <1>5 DEF FlowInv, FlowTypes, Counted, flow, delConnection
<1>6. CASE /\ delConnection("flow") /\ UNCHANGED flow
           /\ unsentAtFlow' = BytesOf(UnsentOf(w.sendBuffer, w.messages), w.left)
  <2>1. unsentAtFlow' \in Nat
    BY <1>3, <1>6, UnsentOfSeq, BytesNat
  <2> QED BY <1>4, <1>6, <2>1 DEF FlowInv, FlowTypes, Counted, flow, delConnection
<1>7. CASE /\ sendBuffer' = w.sendBuffer /\ checkFlow(LastLeft, size)
           /\ UNCHANGED <<valid, unsentAtFlow>>
  <2>1. /\ window' \in BOOLEAN /\ accumulate' \in Nat
        /\ checkSend' \in Seq([sent : Nat, left : Nat]) /\ Len(checkSend') < GrowChecks
    BY <1>2, <1>4, <1>7, checkFlowTypes DEF FlowInv
  <2>2. Counted'
    BY <1>1, <1>2, <1>7 DEF Counted
  <2> QED BY <1>4, <1>7, <2>1, <2>2 DEF FlowInv, FlowTypes
<1> QED BY <1>1, <1>5, <1>6, <1>7

LEMMA FlowStep == ConnInv /\ FlowInv /\ [Next]_vars => FlowInv'
<1> SUFFICES ASSUME ConnInv, FlowInv, [Next]_vars PROVE FlowInv'
  OBVIOUS
<1>0. window \in BOOLEAN
  BY DEF FlowInv, FlowTypes
<1>1. CASE PushSend \/ PushClose
  BY <1>0, <1>1, FlowKept DEF PushSend, PushClose, socket, flow
<1>2. CASE PipeNoConnection
  <2>1. ~valid' /\ UNCHANGED <<messageSize, window, accumulate, checkSend, unsentAtFlow>>
    BY <1>2 DEF PipeNoConnection, socket, flow, ConnInv, Lined
  <2> QED BY <1>0, <2>1 DEF FlowInv, FlowTypes, Counted
<1>3. CASE PipeSend
  BY <1>3, FlowSend
<1>4. CASE PipeSendThrows
  BY <1>0, <1>4, FlowKept DEF PipeSendThrows, flow
<1>5. CASE PipeSendInvalid
  BY <1>0, <1>5, FlowKept DEF PipeSendInvalid, delConnection, flow
<1>6. CASE PipeClose
  <2>1. /\ UNCHANGED <<messageSize, window, accumulate, checkSend, unsentAtFlow, got>>
        /\ Pop(CloseCmd)
        /\ sendBuffer' = <<>> \/ UNCHANGED <<valid, sendBuffer>>
    BY <1>6 DEF PipeClose, delConnection, flow
  <2>2. taken' = taken
    BY <2>1 DEF Pop
  <2> QED BY <1>0, <2>1, <2>2, FlowKept
<1>7. CASE HandleOutput
  BY <1>7, FlowOutput DEF HandleOutput
<1>8. CASE HandleOutputFails \/ PeerCloses \/ CheckTimeout
  BY <1>0, <1>8, FlowKept DEF HandleOutputFails, PeerCloses, CheckTimeout, delConnection, flow
<1>9. CASE Tick
  <2>1. window' \in BOOLEAN
    BY <1>9, Zenon DEF Tick
  <2> QED BY <1>9, <2>1, FlowKept DEF Tick, socket
<1>10. CASE UNCHANGED vars
  BY <1>0, <1>10, FlowKept DEF vars, socket, flow
<1> QED BY <1>1, <1>2, <1>3, <1>4, <1>5, <1>6, <1>7, <1>8, <1>9, <1>10 DEF Next, ProcessPipe

(* The inductive invariant holds in every reachable state. *)
THEOREM ConnSafe == Spec => []ConnInv
BY ConnInit, ConnStep, PTL DEF Spec

(* The peer gets the replies in the order of the pushes, none twice and    *)
(* none left out, however the socket splits their bytes                    *)
(* (Connection::send, onRequestCallback, doRequest).                       *)
THEOREM RepliesStayInOrder == Spec => []RepliesInOrder
BY ConnSafe, PTL DEF ConnInv

(* A reply is begun only when the one before it is finished. *)
THEOREM RepliesNotMixed == Spec => []OneStarted
<1>1. ConnInv => OneStarted
  <2> SUFFICES ASSUME ConnInv, valid, NEW r \in Replies, left[r] \in 1..(Size - 1)
               PROVE  sendBuffer = <<r>>
    BY DEF OneStarted
  <2>1. Len(got) \in Nat /\ r \in Nat
    BY SeqFacts DEF ConnInv, ConnTypes, Replies
  <2>2. left[r] # 0 /\ left[r] # Size
    BY ConnAssumption
  <2> QED BY <2>1, <2>2 DEF ConnInv, Whole
<1> QED BY <1>1, ConnSafe, PTL

(* Both together: what the peer reads of Connection::send is the replies,  *)
(* whole, in order and each once, for any number and size of them.         *)
THEOREM RepliesStayIntact == Spec => []RepliesIntact
BY RepliesStayInOrder, RepliesNotMixed, PTL DEF RepliesIntact

(* What is in _messages has a reply in the send buffer before it, and the  *)
(* write event for that one is awaited.                                    *)
THEOREM MessagesNotStranded == Spec => []NothingStranded
<1>1. ConnInv => NothingStranded
  <2> SUFFICES ASSUME ConnInv, messages # <<>>
               PROVE  sendBuffer # <<>> /\ blocked
    BY DEF NothingStranded
  <2>1. valid /\ ~Flushed(sendBuffer, messages, got)
    BY Zenon DEF ConnInv, Lined, Flushed
  <2>2. Sending(sendBuffer, messages, got) /\ blocked
    BY <2>1, Zenon DEF ConnInv, Lined
  <2>3. Len(sendBuffer) = 1
    BY <2>2 DEF Sending
  <2>4. Len(sendBuffer) # 0
    BY <2>3
  <2>5. sendBuffer # <<>>
    BY <2>4, SeqFacts DEF ConnInv, ConnTypes
  <2> QED BY <2>2, <2>5
<1> QED BY <1>1, ConnSafe, PTL

(* A connection closed by the application has sent every reply pushed      *)
(* before the close (setClose, handleOutputImp).                           *)
THEOREM CloseIsLast == Spec => []CloseFlushes
BY ConnSafe, PTL DEF ConnInv
(* The flow control's count and its records stay sound. *)
THEOREM FlowSafe == Spec => []FlowInv
<1>1. Init => FlowInv
  BY FlowInit
<1>2. ConnInv /\ FlowInv /\ [Next]_vars => FlowInv'
  BY FlowStep
<1> QED BY <1>1, <1>2, ConnSafe, PTL DEF Spec

(* The idle time of the endpoint does not change. *)
FromConfig == timeout \in Timeouts

LEMMA TimeoutFixed == Spec => []FromConfig
<1>1. [Next]_vars => UNCHANGED timeout
  BY DEF Next, vars, PushSend, PushClose, ProcessPipe, PipeNoConnection, PipeSend,
         PipeSendThrows, PipeSendInvalid, PipeClose, HandleOutput, handleOutput,
         HandleOutputFails, PeerCloses, CheckTimeout, Tick
<1>2. Init => FromConfig
  BY DEF Init, FromConfig
<1>3. FromConfig /\ [Next]_vars => FromConfig'
  BY <1>1 DEF FromConfig
<1> QED BY <1>2, <1>3, PTL DEF Spec

(* Every variable keeps its type: _messageSize and the accumulated size    *)
(* never go below zero although they are reduced by what a buffer holds    *)
(* after it was written, the send buffer holds one reply, and _checkSend   *)
(* stays below its limit.                                                  *)
THEOREM ConnTypesOK == Spec => []TypeOK
<1>1. ASSUME ConnInv PROVE Len(sendBuffer) <= 1
  <2>1. sendBuffer = <<>> \/ Sending(sendBuffer, messages, got)
    BY <1>1 DEF ConnInv, Lined, Flushed
  <2>2. Sending(sendBuffer, messages, got) => Len(sendBuffer) = 1
    BY DEF Sending
  <2>3. sendBuffer = <<>> => Len(sendBuffer) = 0
    OBVIOUS
  <2>4. Len(sendBuffer) \in {0, 1}
    BY <2>1, <2>2, <2>3
  <2> QED BY <2>4, Z3
<1>2. ConnInv /\ FlowInv /\ FromConfig => TypeOK
  BY <1>1, ConnAssumption DEF ConnInv, ConnTypes, FlowInv, FlowTypes, FromConfig, TypeOK
<1> QED BY <1>2, ConnSafe, FlowSafe, TimeoutFixed, PTL

(* The flow control never takes less into account than is really unsent    *)
(* (Connection::send, onRequestCallback, checkFlow).                       *)
THEOREM BacklogIsCounted == Spec => []BacklogCounted
<1>1. ConnInv /\ FlowInv => BacklogCounted
  <2> SUFFICES ASSUME ConnInv, FlowInv
               PROVE  BytesOf(Unsent, left) <= messageSize + SendBufferLength
    BY DEF BacklogCounted
  <2>1. messageSize \in Nat /\ SendBufferLength \in Nat
    BY LastLeftFacts, ConnAssumption DEF FlowInv, FlowTypes
  <2>2. CASE Unsent = <<>>
    BY <2>1, <2>2 DEF BytesOf
  <2>3. CASE Unsent # <<>>
    <3>1. valid
      <4>1. ASSUME ~valid PROVE FALSE
        <5>1. Unsent = <<>> \o <<>>
          BY <4>1, Zenon DEF ConnInv, Lined, Unsent, UnsentOf
        <5>2. <<>> \o <<>> = <<>>
          OBVIOUS
        <5> QED BY <2>3, <5>1, <5>2
      <4> QED BY <4>1
    <3>2. /\ Unsent \in Seq(Replies) /\ Len(Unsent) \in Nat
          /\ Len(Unsent) = taken - Len(got) /\ Len(got) \in Nat
          /\ \A j \in 1..Len(Unsent) : Unsent[j] = Len(got) + j
      BY <3>1, UnsentFacts DEF ConnInv
    <3>3. Head(Unsent) = Unsent[1] /\ Len(Unsent) # 0
      BY <2>3, <3>2, SeqFacts
    <3>4. Head(Unsent) = Len(got) + 1 /\ Len(got) # taken /\ taken \in Nat
      BY <3>2, <3>3, ConnAssumption DEF ConnInv, ConnTypes
    <3>5. sendBuffer = <<Len(got) + 1>>
      BY <3>1, <3>4 DEF ConnInv, Lined, Flushed, Sending
    <3>6. Head(sendBuffer) = Head(Unsent) /\ Len(sendBuffer) = 1
      BY <3>4, <3>5
    <3>7. sendBuffer # <<>>
      <4>1. Len(sendBuffer) # 0
        BY <3>6
      <4> QED BY <4>1, SeqFacts DEF ConnInv, ConnTypes
    <3>8. SendBufferLength = left[Head(Unsent)]
      BY <3>6, <3>7, LastLeftFacts
    <3>9. messageSize >= (Len(Unsent) - 1) * Size /\ Len(Unsent) - 1 \in Nat
      BY <3>1, <3>2, <3>3, <3>7 DEF FlowInv, Counted
    <3>10. (Len(Unsent) - 1) * Size \in Nat
      BY <3>9, Products
    <3> QED BY <2>1, <2>3, <3>8, <3>9, <3>10 DEF BytesOf
  <2> QED BY <2>2, <2>3
<1> QED BY <1>1, ConnSafe, FlowSafe, PTL
=============================================================================
