---------------------------- MODULE HashMapProofs ----------------------------
(***************************************************************************)
(* The modify log and TC_HashMap on it, for any number of blocks, keys,    *)
(* buckets, operations and crashes.                                        *)
(*                                                                         *)
(* The log: the inductive invariant says what the copying has reached:     *)
(* each word whose last entry among those already copied is i holds the    *)
(* value of that entry. The rest follows from two facts on the memory that *)
(* the log will leave behind: an entry copied twice changes nothing (the   *)
(* log is a redo log), and once every entry is copied nothing is left to   *)
(* redo.                                                                   *)
(*                                                                         *)
(* The map: there are sequences of blocks that the links of the memory     *)
(* spell, as it will be found after a crash (Recovered) and as the running *)
(* operation sees it once it has finished its log (Coming). An update of   *)
(* the links is an operation on these sequences.                           *)
(***************************************************************************)
EXTENDS HashMap, WellFoundedInduction, SequenceTheorems, FiniteSetTheorems, TLAPS

-----------------------------------------------------------------------------
(* The log *)

(* A word that occurs in the log has a last entry. *)
LEMMA LastExists ==
  ASSUME NEW n \in Nat, NEW S, S \subseteq 1..n, S # {}
  PROVE  \E i \in S : \A j \in S : j <= i
<1> DEFINE R == OpToRel(<, Nat)
           T == {k \in Nat : \E i \in S : i + k = n}
<1>0. PICK s \in S : TRUE
  OBVIOUS
<1>1. n - s \in T
  <2>1. s \in Int /\ s <= n
    BY <1>0
  <2>2. n - s \in Nat /\ s + (n - s) = n
    BY <2>1
  <2> QED
    BY <2>2, <1>0
<1>2. T \subseteq Nat /\ T # {}
  BY <1>1
<1>3. PICK x \in T : \A y \in T : ~(<<y, x>> \in R)
  BY <1>2, NatLessThanWellFounded, WFMin
<1>4. \A y, z \in Nat : y < z => <<y, z>> \in R
  BY DEF OpToRel
<1>5. PICK i \in S : i + x = n
  OBVIOUS
<1>6. ASSUME NEW j \in S PROVE j <= i
  <2>1. i \in Int /\ j \in Int /\ i <= n /\ j <= n /\ x \in Nat
    OBVIOUS
  <2>2. SUFFICES ASSUME i < j PROVE FALSE
    BY <2>1
  <2>3. n - j \in Nat /\ j + (n - j) = n /\ n - j < x
    BY <2>1, <2>2, <1>5
  <2>4. n - j \in T
    BY <2>3
  <2>5. <<n - j, x>> \in R
    BY <2>1, <2>3, <1>4
  <2> QED
    BY <2>4, <2>5, <1>3
<1> QED
  BY <1>6

-----------------------------------------------------------------------------
(* What is true of the log in every state. *)
LogTypeOK ==
  /\ mem \in [Addr -> Value]
  /\ log \in Seq(LogEntry)
  /\ status \in 0..2
  /\ copied \in 0..Len(log)
  /\ entered \in BOOLEAN

Reached ==
  \A i \in 1..copied :
    (\A j \in 1..copied : log[j].addr = log[i].addr => j <= i)
      => mem[log[i].addr] = log[i].val

LogInv ==
  /\ LogTypeOK
  /\ status = 0 => log = <<>>
  /\ status # 2 => copied = 0
  /\ Reached

LEMMA EntryType ==
  ASSUME LogTypeOK, NEW i \in 1..Len(log)
  PROVE  log[i].addr \in Addr /\ log[i].val \in Value
<1>1. log[i] \in LogEntry
  BY DEF LogTypeOK
<1> QED
  BY <1>1 DEF LogEntry

(* One turn of the copying keeps what the copying has reached. *)
LEMMA CopyKeepsReached ==
  ASSUME LogInv, CopyOne
  PROVE  Reached'
<1> DEFINE c == copied + 1
<1>1. /\ c \in 1..Len(log) /\ copied \in Nat
      /\ mem' = [mem EXCEPT ![log[c].addr] = log[c].val]
      /\ log' = log /\ copied' = c
  BY DEF LogInv, LogTypeOK, CopyOne
<1>2. SUFFICES ASSUME NEW i \in 1..c,
                      \A j \in 1..c : log[j].addr = log[i].addr => j <= i
               PROVE  mem'[log[i].addr] = log[i].val
  BY <1>1 DEF Reached
<1>3. mem \in [Addr -> Value] /\ log[c].addr \in Addr /\ log[i].addr \in Addr
  BY <1>1, EntryType DEF LogInv, LogTypeOK
<1>4. CASE i = c
  BY <1>1, <1>3, <1>4
<1>5. CASE i # c
  <2>1. i \in 1..copied /\ c \in Nat /\ c > i
    BY <1>1, <1>5
  <2>2. log[c].addr # log[i].addr
    BY <1>1, <1>2, <2>1
  <2>3. \A j \in 1..copied : log[j].addr = log[i].addr => j <= i
    BY <1>1, <1>2
  <2>4. mem[log[i].addr] = log[i].val
    BY <2>1, <2>3 DEF LogInv, Reached
  <2> QED
    BY <1>1, <1>3, <2>2, <2>4
<1> QED
  BY <1>4, <1>5

LEMMA LogInvInit == LogInit => LogInv
<1> SUFFICES ASSUME LogInit PROVE LogInv
  OBVIOUS
<1>1. LogTypeOK
  <2>1. log \in Seq(LogEntry) /\ Len(log) = 0
    BY DEF LogInit
  <2>2. status \in 0..2 /\ copied \in 0..Len(log)
    BY <2>1 DEF LogInit
  <2>3. entered \in BOOLEAN /\ mem \in [Addr -> Value]
    BY DEF LogInit
  <2> QED
    BY <2>1, <2>2, <2>3 DEF LogTypeOK
<1>2. Reached
  BY DEF LogInit, Reached
<1> QED
  BY <1>1, <1>2 DEF LogInit, LogInv

LEMMA LogInvStep == LogInv /\ [LogNext]_logVars => LogInv'
<1> SUFFICES ASSUME LogInv, [LogNext]_logVars PROVE LogInv'
  OBVIOUS
<1> USE DEF LogInv, LogTypeOK
<1>0. copied = 0 => Reached
  BY DEF Reached
<1>1. CASE Gather
  <2>1. copied' = 0 /\ log' \in Seq(LogEntry) /\ Len(log') \in Nat
    BY <1>1 DEF Gather
  <2>2. Reached'
    BY <2>1 DEF Reached
  <2> QED
    BY <1>1, <2>1, <2>2 DEF Gather
<1>2. CASE Finish
  <2>1. copied' = 0 /\ Reached'
    BY <1>2 DEF Finish, finish, Reached
  <2> QED
    BY <1>2, <2>1 DEF Finish, finish
<1>3. CASE CopyOne
  <2>1. Reached'
    BY <1>3, CopyKeepsReached
  <2>2. copied + 1 \in 1..Len(log)
    BY <1>3 DEF CopyOne
  <2>3. log[copied + 1].val \in Value
    BY <2>2, EntryType
  <2>4. mem' \in [Addr -> Value]
    BY <1>3, <2>3 DEF CopyOne
  <2>5. log' = log /\ status' = 2 /\ entered' = entered /\ copied' \in 0..Len(log')
    BY <1>3, <2>2 DEF CopyOne
  <2> QED
    BY <2>1, <2>4, <2>5
<1>4. CASE CopyDone
  <2>1. copied' = 0 /\ Reached'
    BY <1>4 DEF CopyDone, Reached
  <2> QED
    BY <1>4, <2>1 DEF CopyDone
<1>5. CASE Discard
  <2>1. copied' = 0 /\ Reached'
    BY <1>5 DEF Discard, Reached
  <2> QED
    BY <1>5, <2>1 DEF Discard
<1>6. CASE Enter
  BY <1>6 DEF Enter, Reached
<1>7. CASE Return
  BY <1>7 DEF Return, Reached
<1>8. CASE DirectWrite
  <2>1. copied' = 0 /\ Reached'
    BY <1>8 DEF DirectWrite, Reached
  <2> QED
    BY <1>8, <2>1 DEF DirectWrite, WrittenPast
<1>9. CASE Crash
  <2>1. copied' = 0 /\ Reached' /\ mem' = mem /\ entered' = FALSE
    BY <1>9 DEF Crash, Reached
  <2>2. /\ log' \in Seq(LogEntry) /\ status' \in 0..2
        /\ status' = 0 => log' = <<>>
    <3>1. <<>> \in Seq(LogEntry)
      OBVIOUS
    <3>2. CASE UNCHANGED <<log, status>>
      BY <3>2
    <3>3. CASE status' = 1 /\ log' \in Seq(LogEntry)
      BY <3>3
    <3>4. CASE status = 2 /\ log' = <<>> /\ UNCHANGED status
      BY <3>1, <3>4
    <3> QED
      BY <1>9, <3>2, <3>3, <3>4 DEF Crash
  <2>3. copied' \in 0..Len(log')
    BY <2>1, <2>2
  <2> QED
    BY <2>1, <2>2, <2>3
<1>10. CASE UNCHANGED logVars
  BY <1>10 DEF logVars, Reached
<1> QED
  BY <1>1, <1>2, <1>3, <1>4, <1>5, <1>6, <1>7, <1>8, <1>9, <1>10 DEF LogNext

-----------------------------------------------------------------------------
(* The memory as it will be found. *)

(* Copying an entry, once more or for the first time, leaves it as it is. *)
LEMMA CopyIsRedo ==
  ASSUME LogInv, CopyOne
  PROVE  Redone' = Redone
<1> DEFINE c == copied + 1
<1>1. /\ c \in 1..Len(log)
      /\ mem' = [mem EXCEPT ![log[c].addr] = log[c].val]
      /\ log' = log
  BY DEF LogInv, LogTypeOK, CopyOne
<1>2. \A a \in Addr : (~\E i \in 1..Len(log) : log[i].addr = a) => mem'[a] = mem[a]
  BY <1>1 DEF LogInv, LogTypeOK
<1> QED
  BY <1>1, <1>2 DEF Redone

(* Once all is copied there is nothing left to redo. *)
LEMMA NothingLeft ==
  ASSUME LogInv, copied = Len(log)
  PROVE  Redone = mem
<1>1. mem \in [Addr -> Value] /\ Len(log) \in Nat
  BY DEF LogInv, LogTypeOK
<1>2. ASSUME NEW a \in Addr, \E i \in 1..Len(log) : log[i].addr = a
      PROVE  Redone[a] = mem[a]
  <2> DEFINE S == {i \in 1..Len(log) : log[i].addr = a}
             L == CHOOSE i \in 1..Len(log) :
                    /\ log[i].addr = a
                    /\ \A j \in 1..Len(log) : log[j].addr = a => j <= i
  <2>1. \E i \in S : \A j \in S : j <= i
    BY <1>1, <1>2, LastExists
  <2>2. \E i \in 1..Len(log) : /\ log[i].addr = a
                               /\ \A j \in 1..Len(log) : log[j].addr = a => j <= i
    BY <2>1
  <2>3. /\ L \in 1..Len(log) /\ log[L].addr = a
        /\ \A j \in 1..Len(log) : log[j].addr = a => j <= L
    BY <2>2
  <2>4. mem[log[L].addr] = log[L].val
    BY <2>3 DEF LogInv, Reached
  <2>5. Redone[a] = log[L].val
    BY <1>2 DEF Redone
  <2> QED
    BY <2>3, <2>4, <2>5
<1>3. ASSUME NEW a \in Addr, ~\E i \in 1..Len(log) : log[i].addr = a
      PROVE  Redone[a] = mem[a]
  BY <1>3 DEF Redone
<1>4. Redone = [a \in Addr |-> Redone[a]]
  BY DEF Redone
<1> QED
  BY <1>1, <1>2, <1>3, <1>4

LEMMA RefineInit == LogInit => A!Init
BY DEF LogInit, A!Init, Recovered, Gathered

LEMMA RefineStep ==
  ASSUME LogInv, LogInv', [LogNext]_logVars
  PROVE  [A!Next]_(A!vars)
<1> USE DEF Recovered, Gathered
<1>0. mem \in [Addr -> Value] /\ mem' \in [Addr -> Value]
  BY DEF LogInv, LogTypeOK
<1>1. CASE Gather
  <2>1. Recovered' = Recovered
    BY <1>1 DEF Gather
  <2>2. Gathered = log /\ Gathered' = log'
    BY <1>1 DEF Gather, LogInv, LogTypeOK
  <2>3. A!Gather
    BY <1>1, <2>1, <2>2 DEF Gather, A!Gather, A!Entry, A!Extends, LogEntry
  <2> QED
    BY <2>3 DEF A!Next
<1>2. CASE Finish
  <2>1. Gathered = log /\ Recovered = mem
    BY <1>2 DEF Finish, LogInv, LogTypeOK
  <2>2. Gathered' = <<>> /\ Recovered' = Redone'
    BY <1>2 DEF Finish, finish
  <2>3. Redone' = A!Overlay(log, mem)
    BY <1>2 DEF Finish, finish, Redone, A!Overlay
  <2>4. A!Commit
    BY <2>1, <2>2, <2>3 DEF A!Commit
  <2> QED
    BY <2>4 DEF A!Next
<1>3. CASE CopyOne
  <2>1. Redone' = Redone
    BY <1>3, CopyIsRedo
  <2> QED
    BY <1>3, <2>1 DEF CopyOne, A!vars
<1>4. CASE CopyDone
  <2>1. Redone = mem
    BY <1>4, NothingLeft DEF CopyDone
  <2> QED
    BY <1>4, <2>1 DEF CopyDone, A!vars
<1>5. CASE Discard
  BY <1>5 DEF Discard, A!vars
<1>6. CASE Enter
  BY <1>6 DEF Enter, A!vars
<1>7. CASE Return
  <2>1. A!Drop
    BY <1>7 DEF Return, A!Drop
  <2> QED
    BY <2>1 DEF A!Next
<1>8. CASE DirectWrite
  <2>1. /\ entered = TRUE /\ entered' = TRUE /\ status # 2 /\ status' = status /\ log' = log
        /\ WrittenPast(log, mem, mem')
    BY <1>8 DEF DirectWrite, LogInv, LogTypeOK
  <2>2. Gathered = log /\ Gathered' = log
    BY <2>1 DEF LogInv, LogTypeOK
  <2>3. Recovered = mem /\ Recovered' = mem'
    BY <2>1
  <2>4. A!WrittenPast(log, mem, mem')
    BY <2>1 DEF WrittenPast, A!WrittenPast, Loose, A!Loose
  <2>5. A!Direct
    BY <2>2, <2>3, <2>4 DEF A!Direct
  <2> QED
    BY <2>5 DEF A!Next
<1>9. CASE Crash
  <2>1. Gathered' = <<>>
    BY <1>9 DEF Crash
  <2>2. Recovered' = Recovered
    <3>1. CASE UNCHANGED <<log, status>>
      BY <1>9, <3>1 DEF Crash, Redone
    <3>2. CASE status # 2 /\ status' = 1
      BY <1>9, <3>2 DEF Crash
    <3>3. CASE status = 2 /\ status' = 2 /\ copied = Len(log) /\ log' = <<>>
      <4>1. Redone = mem
        BY <3>3, NothingLeft
      <4>2. Redone' = mem'
        <5>1. ~\E i \in 1..Len(log') : TRUE
          BY <3>3
        <5> QED
          BY <5>1, <1>0 DEF Redone
      <4> QED
        BY <1>9, <3>3, <4>1, <4>2 DEF Crash
    <3> QED
      BY <1>9, <3>1, <3>2, <3>3 DEF Crash
  <2>3. A!Drop
    BY <2>1, <2>2 DEF A!Drop
  <2> QED
    BY <2>3 DEF A!Next
<1>10. CASE UNCHANGED logVars
  BY <1>10 DEF logVars, Redone, A!vars
<1> QED
  BY <1>1, <1>2, <1>3, <1>4, <1>5, <1>6, <1>7, <1>8, <1>9, <1>10 DEF LogNext

-----------------------------------------------------------------------------
(* The log keeps its invariant: what update() and doUpdate() leave in the  *)
(* shared memory is always something the next doUpdate() can go on from.   *)
THEOREM LogSafe == LogSpec => []LogInv
BY LogInvInit, LogInvStep, PTL DEF LogSpec

(***************************************************************************)
(* Every container that keeps the protocol of the log (doUpdate() first,   *)
(* then update() and doUpdate(true), no other store while the log is       *)
(* copied, past the log only words of Groups and of objects nothing leads  *)
(* to) writes atomically: TC_HashMap::update and doUpdate, for every       *)
(* memory and any number of crashes, those while copying included.         *)
(***************************************************************************)
THEOREM LogAtomic == LogSpec => AllOrNothing
<1>1. LogInit => A!Init
  BY RefineInit
<1>2. LogInv /\ LogInv' /\ [LogNext]_logVars => [A!Next]_(A!vars)
  BY RefineStep
<1> QED
  BY <1>1, <1>2, LogSafe, PTL DEF LogSpec, AllOrNothing, A!Spec
-----------------------------------------------------------------------------
(* The map of a memory m: sequences that its links spell in both directions *)

Nth(s, i) == IF i \in DOMAIN s THEN s[i] ELSE NULL
Elems(s) == {s[i] : i \in DOMAIN s}

Linear(m, nx, pv, s) ==
  /\ s \in Seq(Blocks)
  /\ \A i, j \in DOMAIN s : s[i] = s[j] => i = j
  /\ \A i \in DOMAIN s : m[<<nx, s[i]>>] = Nth(s, i + 1) /\ m[<<pv, s[i]>>] = Nth(s, i - 1)

ListOK(m, l, s) ==
  /\ Linear(m, l.next, l.prev, s)
  /\ m[<<l.head, NULL>>] = Nth(s, 1) /\ m[<<l.tail, NULL>>] = Nth(s, Len(s))

ChainOK(m, i, c) ==
  /\ Linear(m, "blockNext", "blockPrev", c)
  /\ m[<<"blockAddr", i>>] = Nth(c, 1)
  /\ m[<<"listCount", i>>] = Len(c)
  /\ \A n \in DOMAIN c : m[<<"index", c[n]>>] = i

(* The lists and the chains hold the same blocks. *)
SameBlocks(m, S, G, C) ==
  /\ Elems(G) = Elems(S)
  /\ \A i \in Buckets : Elems(C[i]) \subseteq Elems(S)
  /\ \A b \in Elems(S) : m[<<"index", b>>] \in Buckets /\ b \in Elems(C[m[<<"index", b>>]])

Tails == {"dirtyTail", "syncTail", "backupTail"}
TailsOK(m, D) == \A t \in Tails : m[<<t, NULL>>] \in D \union {NULL}

(* A record is in the bucket of its key, and the only one of it. *)
KeysOK(m, D) ==
  /\ \A b \in D : m[<<"key", b>>] # NULL => m[<<"index", b>>] = Hash[m[<<"key", b>>]]
  /\ \A b, c \in D : b # c /\ m[<<"key", b>>] # NULL => m[<<"key", b>>] # m[<<"key", c>>]

MapOK(m, S, G, C) ==
  /\ ListOK(m, SetL, S) /\ ListOK(m, GetL, G) /\ \A i \in Buckets : ChainOK(m, i, C[i])
  /\ SameBlocks(m, S, G, C)
  /\ m[<<"elementCount", NULL>>] = Len(S)
  /\ TailsOK(m, Elems(S)) /\ KeysOK(m, Elems(S))

SetSeq(m) == Follow(m, "setNext", m[<<"setHead", NULL>>])
GetSeq(m) == Follow(m, "getNext", m[<<"getHead", NULL>>])
Chains(m) == [i \in Buckets |-> Chain(m, i)]

Good(m) == MapOK(m, SetSeq(m), GetSeq(m), Chains(m))

(* What a word may hold. *)
Kind(f) ==
  IF f \in HeadLinks \union BlockLinks \union {"blockAddr"} THEN Blocks \union {NULL}
  ELSE IF f \in HeadCounts \union {"listCount"} THEN 0..MaxCount
  ELSE IF f = "index" THEN Buckets \union {NULL}
  ELSE IF f = "key" THEN Keys \union {NULL}
  ELSE {0, 1}

Typed(m) == m \in [HashAddr -> HashValue] /\ \A a \in HashAddr : m[a] \in Kind(a[1])
Entries == {e \in LogEntry : e.val \in Kind(e.addr[1])}

(* The counts that are no part of the map and are kept through the log. *)
Drifting == {"dirtyCount", "onlyKeyCount", "getCount", "hitCount"}
CountsOnly(es) == \A i \in DOMAIN es : es[i].addr \in Drifting \X {NULL}

-----------------------------------------------------------------------------
(* The steps that an operation has left to do *)

AllocFamily == {"alloc", "take", "pop", "init", "makeNew"}
WriteFamily == {"used", "flags", "dirty", "only", "copy", "length"}
EraseFamily == {"unlink", "commit", "apply", "wipe", "release", "count", "unused"}
BlockFamily == {"mark", "refreshSet", "refreshGet", "afterSync", "keepDirty", "toFront", "syncOne",
                "pastDirty"}
KeyOps == Ops \ {"erase", "sync", "syncNext", "backup", "backupNext"}
Keyed == KeyOps \union AllocFamily \union WriteFamily \union {"evict"}
Steps == Ops \union AllocFamily \union WriteFamily \union EraseFamily \union BlockFamily
         \union {"enter", "return", "evict", "handed"}

(* What may come behind a step. *)
Follows(x, y) ==
  \/ x = "enter" /\ y \in Ops
  \/ x \in Ops \union {"afterSync", "toFront", "syncOne", "pastDirty", "handed"} /\ y = "return"
  \/ x \in {"commit", "apply"}
     /\ y \in {"return", "commit", "wipe", "used", "mark", "refreshSet", "refreshGet",
               "afterSync", "pastDirty", "handed"}
  \/ x \in {"unlink", "makeNew", "length", "refreshSet"} /\ y = "commit"
  \/ x = "wipe" /\ y = "release"
  \/ x = "release" /\ y = "count"
  \/ x = "count" /\ y = "unused"
  \/ x = "unused" /\ y \in {"evict", "recover", "return"}
  \/ x \in {"alloc", "evict", "used"} /\ y = "flags"
  \/ x = "take" /\ y = "pop"
  \/ x = "pop" /\ y = "init"
  \/ x = "init" /\ y = "makeNew"
  \/ x = "flags" /\ y = "dirty"
  \/ x = "dirty" /\ y = "only"
  \/ x = "only" /\ y = "copy"
  \/ x = "copy" /\ y = "length"
  \/ x = "mark" /\ y \in {"refreshSet", "afterSync"}
  \/ x = "refreshGet" /\ y \in {"return", "commit"}
  \/ x = "keepDirty" /\ y = "toFront"

(* What a step prepares and the commit behind it makes true. *)
Commits(x, z) ==
  /\ x = "unlink" => z = "wipe"
  /\ x = "makeNew" => z = "used"
  /\ x = "length" => z \in {"mark", "refreshSet"}
  /\ x = "refreshSet" => z = "refreshGet"
  /\ x \in {"refreshGet", "commit", "apply"} => z = "return"

Shape(t, k) ==
  /\ t \in Seq(Steps)
  /\ t # <<>> => t[Len(t)] = "return"
  /\ \A i \in DOMAIN t : i < Len(t) => Follows(t[i], t[i + 1])
  /\ \A i \in DOMAIN t : i + 1 < Len(t) /\ t[i + 1] = "commit" => Commits(t[i], t[i + 2])
  /\ \A i \in DOMAIN t : t[i] = "evict" => \A j \in 1..(i - 1) : t[j] \in EraseFamily
  /\ \A i \in DOMAIN t : t[i] \in Keyed => k \in Keys

Upcoming(t) == IF t[1] \in {"commit", "apply"} THEN t[2] ELSE t[1]
Evicting(t) == \E i \in DOMAIN t : t[i] = "evict"

(* How long the log may be before a step. *)
Room(x) ==
  IF x \in Ops \union {"wipe", "release", "count", "unused", "used", "handed"} THEN 0
  ELSE IF x \in {"dirty", "only", "copy", "length"} THEN 4
  ELSE IF x \in {"enter", "commit", "apply"} THEN 17
  ELSE 2

Locals == [k : Keys \union {NULL}, b : Blocks \union {NULL}, only : {0, 1}, dirty : {0, 1}, left : Int]

ControlInv ==
  /\ mode \in Modes /\ Shape(todo, cur.k) /\ cur \in Locals
  /\ crashes \in 0..mode.crashes /\ missed \subseteq Blocks
  /\ todo = <<>> => ~entered
  /\ todo # <<>> => /\ entered <=> todo[1] # "enter"
                    /\ entered => (status = 2 <=> todo[1] = "apply")
                    /\ Len(log) <= Room(todo[1])
                    /\ entered /\ todo[1] \notin {"commit", "apply"} => CountsOnly(log)
  /\ Len(log) <= 17

AllocInv ==
  /\ free \in Seq(Blocks) /\ \A i, j \in DOMAIN free : free[i] = free[j] => i = j
  /\ avail \in 0..Len(free)
  /\ todo # <<>> => /\ todo[1] = "take" => avail > 0
                    /\ todo[1] \in {"pop", "count"} => avail < Len(free)

(* The memory as the running operation sees it: with the log that it will  *)
(* finish next.                                                            *)
Coming == IF todo # <<>> /\ entered /\ todo[1] = "commit" THEN Redone ELSE Recovered

(* What is so of the block and of the key of the operation before step x, *)
(* its local variables being c and the free blocks F.                      *)
Ready(x, m, c, F) ==
  /\ x \in {"unlink"} \union WriteFamily \union BlockFamily => c.b \in Linked(m)
  /\ x \in {"wipe", "release", "init", "makeNew"} => c.b \in Blocks \ (Linked(m) \union F)
  /\ x = "makeNew" => /\ m[<<"index", c.b>>] = Hash[c.k] /\ m[<<"key", c.b>>] = NULL
                      /\ \A f \in BlockLinks : m[<<f, c.b>>] = NULL
  /\ x \in WriteFamily => /\ m[<<"index", c.b>>] = Hash[c.k]
                          /\ \A d \in Linked(m) : m[<<"key", d>>] = c.k => d = c.b

NotThere(m, k) == \A d \in Linked(m) : m[<<"key", d>>] # k

(* What the steps t rely on. *)
Serves(t, m, c, F) ==
  /\ Ready(Upcoming(t), m, c, F)
  /\ Upcoming(t) \in AllocFamily \/ Evicting(t) => NotThere(m, c.k)

Sound(m, F) == Good(m) /\ Linked(m) \intersect F = {}

DataInv ==
  /\ Typed(mem) /\ log \in Seq(Entries)
  /\ Sound(Recovered, Elems(free)) /\ Sound(Coming, Elems(free))
  /\ todo # <<>> /\ entered => Serves(todo, Coming, cur, Elems(free))

MapInv == LogInv /\ ControlInv /\ AllocInv /\ DataInv

-----------------------------------------------------------------------------
(* Sequences and words *)

LEMMA SeqFacts ==
  ASSUME NEW S, NEW s \in Seq(S)
  PROVE  /\ DOMAIN s = 1..Len(s) /\ Len(s) \in Nat
         /\ s = <<>> <=> Len(s) = 0
         /\ \A i \in DOMAIN s : s[i] \in S
BY LenProperties, EmptySeq, ElementOfSeq

LEMMA CatFacts ==
  ASSUME NEW S, NEW s \in Seq(S), NEW t \in Seq(S)
  PROVE  /\ s \o t \in Seq(S) /\ Len(s \o t) = Len(s) + Len(t)
         /\ \A i \in 1..Len(s) : (s \o t)[i] = s[i]
         /\ \A i \in 1..Len(t) : (s \o t)[Len(s) + i] = t[i]
<1>1. Len(s) \in Nat /\ Len(t) \in Nat
  BY SeqFacts
<1>2. /\ s \o t \in Seq(S) /\ Len(s \o t) = Len(s) + Len(t)
      /\ \A i \in 1..(Len(s) + Len(t)) :
           (s \o t)[i] = IF i <= Len(s) THEN s[i] ELSE t[i - Len(s)]
  BY ConcatProperties
<1>3. ASSUME NEW i \in 1..Len(t) PROVE (s \o t)[Len(s) + i] = t[i]
  <2>1. Len(s) + i \in 1..(Len(s) + Len(t)) /\ ~(Len(s) + i <= Len(s)) /\ Len(s) + i - Len(s) = i
    BY <1>1
  <2> QED BY <1>2, <2>1
<1> QED BY <1>1, <1>2, <1>3

LEMMA HeadWord ==
  ASSUME NEW f \in HeadLinks \union HeadCounts
  PROVE  <<f, NULL>> \in HashAddr
BY DEF HashAddr, HeadWords

LEMMA BlockWord ==
  ASSUME NEW f \in BlockFields, NEW b \in Blocks
  PROVE  <<f, b>> \in HashAddr /\ <<f, b>> \in BlockWords(b)
<1>1. <<f, b>> \in BlockWords(b)
  BY DEF BlockWords
<1>2. <<f, b>> \in UNION {BlockWords(c) : c \in Blocks}
  BY <1>1
<1> QED BY <1>1, <1>2 DEF HashAddr

LEMMA BucketWord ==
  ASSUME NEW f \in {"blockAddr", "listCount"}, NEW i \in Buckets
  PROVE  <<f, i>> \in HashAddr
<1>1. <<f, i>> \in BucketWords
  BY DEF BucketWords
<1> QED BY <1>1 DEF HashAddr

LEMMA WordFields ==
  ASSUME NEW a \in HashAddr
  PROVE  \/ \E f \in HeadLinks \union HeadCounts : a = <<f, NULL>>
         \/ \E f \in BlockFields, b \in Blocks : a = <<f, b>>
         \/ \E f \in {"blockAddr", "listCount"}, i \in Buckets : a = <<f, i>>
<1>1. CASE a \in HeadWords
  BY <1>1 DEF HeadWords
<1>2. CASE a \in UNION {BlockWords(b) : b \in Blocks}
  BY <1>2 DEF BlockWords
<1>3. CASE a \in BucketWords
  BY <1>3 DEF BucketWords
<1> QED BY <1>1, <1>2, <1>3 DEF HashAddr

-----------------------------------------------------------------------------
(* What a list of entries makes of a memory *)

Over(m, es) ==
  [a \in HashAddr |->
     IF \E i \in DOMAIN es : es[i].addr = a
     THEN es[CHOOSE i \in DOMAIN es :
               es[i].addr = a /\ \A j \in DOMAIN es : es[j].addr = a => j <= i].val
     ELSE m[a]]

LEMMA OverSkips ==
  ASSUME NEW m, NEW es, NEW a \in HashAddr, \A i \in DOMAIN es : es[i].addr # a
  PROVE  Over(m, es)[a] = m[a]
BY DEF Over

LEMMA OverSets ==
  ASSUME NEW m, NEW S, NEW es \in Seq(S), NEW k \in DOMAIN es, es[k].addr \in HashAddr,
         \A j \in DOMAIN es : j > k => es[j].addr # es[k].addr
  PROVE  Over(m, es)[es[k].addr] = es[k].val
<1> DEFINE a == es[k].addr
           Is(i) == i \in DOMAIN es /\ es[i].addr = a
                    /\ \A j \in DOMAIN es : es[j].addr = a => j <= i
           c == CHOOSE i \in DOMAIN es :
                  es[i].addr = a /\ \A j \in DOMAIN es : es[j].addr = a => j <= i
<1>1. \A i \in DOMAIN es : i \in Nat
  BY SeqFacts
<1>2. Is(k)
  BY <1>1
<1>3. Is(c)
  BY <1>2
<1>4. c = k
  BY <1>1, <1>2, <1>3
<1>5. Over(m, es)[a] = es[c].val
  BY <1>2 DEF Over
<1> QED BY <1>4, <1>5

(* The last entry of a word. *)
LEMMA LastEntry ==
  ASSUME NEW S, NEW es \in Seq(S), NEW a, \E i \in DOMAIN es : es[i].addr = a
  PROVE  \E k \in DOMAIN es : es[k].addr = a /\ \A j \in DOMAIN es : j > k => es[j].addr # a
<1> DEFINE T == {i \in DOMAIN es : es[i].addr = a}
<1>1. DOMAIN es = 1..Len(es) /\ Len(es) \in Nat
  BY SeqFacts
<1>2. T \subseteq 1..Len(es) /\ T # {}
  BY <1>1
<1>3. PICK k \in T : \A j \in T : j <= k
  BY <1>1, <1>2, LastExists
<1>4. \A j \in DOMAIN es : j > k => j \notin T
  BY <1>1, <1>3
<1> QED BY <1>3, <1>4

LEMMA OverCat ==
  ASSUME NEW m, NEW S, NEW es \in Seq(S), NEW fs \in Seq(S)
  PROVE  Over(m, es \o fs) = Over(Over(m, es), fs)
<1> DEFINE c == es \o fs
<1>1. /\ DOMAIN es = 1..Len(es) /\ Len(es) \in Nat /\ DOMAIN fs = 1..Len(fs) /\ Len(fs) \in Nat
      /\ c \in Seq(S) /\ DOMAIN c = 1..(Len(es) + Len(fs))
      /\ \A i \in DOMAIN es : i \in DOMAIN c /\ c[i] = es[i]
      /\ \A i \in DOMAIN fs : Len(es) + i \in DOMAIN c /\ c[Len(es) + i] = fs[i]
  <2>1. /\ DOMAIN es = 1..Len(es) /\ Len(es) \in Nat /\ DOMAIN fs = 1..Len(fs) /\ Len(fs) \in Nat
    BY SeqFacts
  <2>2. /\ c \in Seq(S) /\ Len(c) = Len(es) + Len(fs)
        /\ \A i \in 1..Len(es) : c[i] = es[i]
        /\ \A i \in 1..Len(fs) : c[Len(es) + i] = fs[i]
    BY CatFacts
  <2>3. DOMAIN c = 1..(Len(es) + Len(fs))
    BY <2>2, SeqFacts
  <2> QED BY <2>1, <2>2, <2>3
<1>2. \A i \in DOMAIN c : i \in DOMAIN es \/ \E j \in DOMAIN fs : i = Len(es) + j
  <2>1. ASSUME NEW i \in DOMAIN c, i \notin DOMAIN es PROVE i - Len(es) \in DOMAIN fs /\ i = Len(es) + (i - Len(es))
    BY <1>1, <2>1
  <2> QED BY <2>1
<1> HIDE DEF c
<1>3. ASSUME NEW a \in HashAddr PROVE Over(m, c)[a] = Over(Over(m, es), fs)[a]
  <2>1. CASE \E i \in DOMAIN fs : fs[i].addr = a
    <3>1. PICK k \in DOMAIN fs : fs[k].addr = a /\ \A j \in DOMAIN fs : j > k => fs[j].addr # a
      BY <2>1, LastEntry
    <3>2. Over(Over(m, es), fs)[a] = fs[k].val
      BY <3>1, OverSets
    <3>3. \A j \in DOMAIN c : j > Len(es) + k => c[j].addr # a
      BY <1>1, <1>2, <3>1
    <3>4. PICK n \in DOMAIN c : n = Len(es) + k
      BY <1>1
    <3>5. c[n].addr = a /\ c[n].val = fs[k].val /\ \A j \in DOMAIN c : j > n => c[j].addr # c[n].addr
      BY <1>1, <3>1, <3>3, <3>4
    <3>7. c \in Seq(S)
      BY <1>1
    <3>6. Over(m, c)[c[n].addr] = c[n].val
      BY <3>5, <3>7, OverSets
    <3> QED BY <3>2, <3>5, <3>6
  <2>2. CASE (\A i \in DOMAIN fs : fs[i].addr # a) /\ \E i \in DOMAIN es : es[i].addr = a
    <3>1. PICK k \in DOMAIN es : es[k].addr = a /\ \A j \in DOMAIN es : j > k => es[j].addr # a
      BY <2>2, LastEntry
    <3>2. Over(Over(m, es), fs)[a] = Over(m, es)[a]
      BY <2>2, OverSkips
    <3>3. Over(m, es)[a] = es[k].val
      BY <3>1, OverSets
    <3>4. \A j \in DOMAIN c : j > k => c[j].addr # a
      BY <1>1, <1>2, <3>1, <2>2
    <3>5. /\ k \in DOMAIN c /\ c[k].addr = a /\ c[k].val = es[k].val
          /\ \A j \in DOMAIN c : j > k => c[j].addr # c[k].addr
      BY <1>1, <3>1, <3>4
    <3>6. Over(m, c)[c[k].addr] = c[k].val
      BY <1>1, <3>5, OverSets
    <3> QED BY <3>2, <3>3, <3>5, <3>6
  <2>3. CASE (\A i \in DOMAIN fs : fs[i].addr # a) /\ \A i \in DOMAIN es : es[i].addr # a
    <3>1. \A j \in DOMAIN c : c[j].addr # a
      BY <1>1, <1>2, <2>3
    <3> QED BY <2>3, <3>1, OverSkips
  <2> QED BY <2>1, <2>2, <2>3
<1>4. /\ Over(m, c) = [a \in HashAddr |-> Over(m, c)[a]]
      /\ Over(Over(m, es), fs) = [a \in HashAddr |-> Over(Over(m, es), fs)[a]]
  BY DEF Over
<1>5. Over(m, c) = Over(Over(m, es), fs)
  BY <1>3, <1>4
<1> QED BY <1>5 DEF c

LEMMA OverEmpty ==
  ASSUME NEW V, NEW m \in [HashAddr -> V]
  PROVE  Over(m, <<>>) = m
<1>1. \A i \in DOMAIN <<>> : FALSE
  BY EmptySeq, SeqFacts
<1>2. \A a \in HashAddr : Over(m, <<>>)[a] = m[a]
  BY <1>1, OverSkips
<1>3. Over(m, <<>>) = [a \in HashAddr |-> Over(m, <<>>)[a]]
  BY DEF Over
<1> QED BY <1>2, <1>3

-----------------------------------------------------------------------------
(* Entries of the right kind, about the words of some fields *)

Touches(es, F) == \A i \in DOMAIN es : es[i].addr[1] \in F
Fits(es, F, n) == es \in Seq(Entries) /\ Touches(es, F) /\ Len(es) <= n
Same(m, n, F) == \A a \in HashAddr : a[1] \in F => m[a] = n[a]

LEMMA KindValue ==
  ASSUME NEW a \in HashAddr
  PROVE  Kind(a[1]) \subseteq HashValue
<1>1. MaxCount \in Nat /\ MaxCount # 0
  BY MapAssumption
<1>2. {0, 1} \subseteq HashValue
  BY <1>1 DEF HashValue
<1>3. Blocks \union {NULL} \subseteq HashValue /\ 0..MaxCount \subseteq HashValue
      /\ Buckets \union {NULL} \subseteq HashValue /\ Keys \union {NULL} \subseteq HashValue
  BY DEF HashValue
<1> QED BY <1>2, <1>3 DEF Kind

LEMMA EntryFields ==
  ASSUME NEW e \in Entries
  PROVE  e.addr \in HashAddr /\ e.val \in HashValue /\ e.val \in Kind(e.addr[1]) /\ e \in LogEntry
BY MapWords DEF Entries, LogEntry

LEMMA FitsEmpty ==
  ASSUME NEW F, NEW n \in Nat
  PROVE  Fits(<<>>, F, n)
<1>1. <<>> \in Seq(Entries) /\ Len(<<>>) = 0 /\ DOMAIN <<>> = {}
  BY EmptySeq, SeqFacts
<1> QED BY <1>1 DEF Fits, Touches

LEMMA FitsUp ==
  ASSUME NEW f, NEW x, NEW v, <<f, x>> \in HashAddr, v \in Kind(f), NEW F, f \in F
  PROVE  Fits(Up(f, x, v), F, 1)
<1> DEFINE e == [addr |-> <<f, x>>, val |-> v]
<1>1. e.addr = <<f, x>> /\ e.val = v /\ e.addr[1] = f
  OBVIOUS
<1>2. v \in HashValue
  BY KindValue
<1>3. e \in LogEntry
  BY <1>2, MapWords DEF LogEntry
<1>4. e \in Entries
  BY <1>1, <1>3 DEF Entries
<1>5. Up(f, x, v) = <<e>>
  BY DEF Up
<1> HIDE DEF e
<1>6. <<e>> \in Seq(Entries) /\ Len(<<e>>) = 1 /\ DOMAIN <<e>> = {1} /\ <<e>>[1] = e
  BY <1>4
<1>7. Touches(<<e>>, F)
  BY <1>1, <1>6 DEF Touches
<1> QED BY <1>5, <1>6, <1>7 DEF Fits

LEMMA FitsWhen ==
  ASSUME NEW c, NEW es, NEW F, NEW n \in Nat, c => Fits(es, F, n)
  PROVE  Fits(When(c, es), F, n)
BY FitsEmpty DEF When

LEMMA FitsMore ==
  ASSUME NEW es, NEW F, NEW n \in Nat, Fits(es, F, n), NEW G, F \subseteq G, NEW k \in Nat, n <= k
  PROVE  Fits(es, G, k)
<1>1. es \in Seq(Entries) /\ Len(es) \in Nat
  BY SeqFacts DEF Fits
<1> QED BY <1>1 DEF Fits, Touches

LEMMA FitsCat ==
  ASSUME NEW es, NEW fs, NEW F, NEW n \in Nat, NEW k \in Nat, Fits(es, F, n), Fits(fs, F, k)
  PROVE  Fits(es \o fs, F, n + k)
<1>1. /\ es \in Seq(Entries) /\ fs \in Seq(Entries)
      /\ Len(es) \in Nat /\ Len(fs) \in Nat
      /\ DOMAIN es = 1..Len(es) /\ DOMAIN fs = 1..Len(fs)
      /\ Len(es) <= n /\ Len(fs) <= k
  BY SeqFacts DEF Fits
<1>2. /\ es \o fs \in Seq(Entries) /\ Len(es \o fs) = Len(es) + Len(fs)
      /\ \A i \in 1..Len(es) : (es \o fs)[i] = es[i]
      /\ \A i \in 1..Len(fs) : (es \o fs)[Len(es) + i] = fs[i]
  BY <1>1, CatFacts
<1>3. DOMAIN (es \o fs) = 1..(Len(es) + Len(fs))
  BY <1>2, SeqFacts
<1>4. ASSUME NEW i \in DOMAIN (es \o fs) PROVE (es \o fs)[i].addr[1] \in F
  <2>1. CASE i <= Len(es)
    <3>1. i \in 1..Len(es)
      BY <1>1, <1>3, <2>1
    <3>2. (es \o fs)[i] = es[i] /\ es[i].addr[1] \in F
      BY <1>1, <1>2, <3>1 DEF Fits, Touches
    <3> QED BY <3>2
  <2>2. CASE ~(i <= Len(es))
    <3>1. i - Len(es) \in 1..Len(fs) /\ i = Len(es) + (i - Len(es))
      BY <1>1, <1>3, <2>2
    <3>2. (es \o fs)[i] = fs[i - Len(es)] /\ fs[i - Len(es)].addr[1] \in F
      BY <1>1, <1>2, <3>1 DEF Fits, Touches
    <3> QED BY <3>2
  <2> QED BY <2>1, <2>2
<1> QED BY <1>1, <1>2, <1>4 DEF Fits, Touches

LEMMA OverFrame ==
  ASSUME NEW m, NEW es, NEW F, Touches(es, F), NEW a \in HashAddr, a[1] \notin F
  PROVE  Over(m, es)[a] = m[a]
BY OverSkips DEF Touches

LEMMA OverSame ==
  ASSUME NEW m, NEW es, NEW F, Touches(es, F), NEW G, F \intersect G = {}
  PROVE  Same(m, Over(m, es), G)
BY OverFrame DEF Same

LEMMA WordKinds ==
  ASSUME NEW m, Typed(m)
  PROVE  /\ \A f \in HeadLinks : m[<<f, NULL>>] \in Blocks \union {NULL}
         /\ \A f \in BlockLinks, b \in Blocks : m[<<f, b>>] \in Blocks \union {NULL}
         /\ \A i \in Buckets : /\ m[<<"blockAddr", i>>] \in Blocks \union {NULL}
                               /\ m[<<"listCount", i>>] \in 0..MaxCount
         /\ \A f \in HeadCounts : m[<<f, NULL>>] \in 0..MaxCount
         /\ \A b \in Blocks : /\ m[<<"index", b>>] \in Buckets \union {NULL}
                              /\ m[<<"key", b>>] \in Keys \union {NULL}
                              /\ m[<<"dirty", b>>] \in {0, 1} /\ m[<<"onlyKey", b>>] \in {0, 1}
                              /\ m[<<"val", b>>] \in {0, 1}
<1>0. \A a \in HashAddr : m[a] \in Kind(a[1])
  BY DEF Typed
<1>1. ASSUME NEW f \in HeadLinks PROVE m[<<f, NULL>>] \in Blocks \union {NULL}
  BY <1>0, HeadWord DEF Kind
<1>2. ASSUME NEW f \in BlockLinks, NEW b \in Blocks PROVE m[<<f, b>>] \in Blocks \union {NULL}
  BY <1>0, BlockWord DEF Kind, BlockFields
<1>3. ASSUME NEW i \in Buckets
      PROVE  m[<<"blockAddr", i>>] \in Blocks \union {NULL} /\ m[<<"listCount", i>>] \in 0..MaxCount
  BY <1>0, BucketWord DEF Kind, HeadLinks, BlockLinks, HeadCounts
<1>4. ASSUME NEW f \in HeadCounts PROVE m[<<f, NULL>>] \in 0..MaxCount
  <2>1. f \notin HeadLinks \union BlockLinks \union {"blockAddr"}
    BY DEF HeadLinks, BlockLinks, HeadCounts
  <2>2. Kind(f) = 0..MaxCount
    BY <2>1 DEF Kind
  <2>3. <<f, NULL>> \in HashAddr
    BY HeadWord
  <2>4. m[<<f, NULL>>] \in Kind(f)
    BY <1>0, <2>3
  <2> QED BY <2>2, <2>4
<1>5. ASSUME NEW b \in Blocks
      PROVE  /\ m[<<"index", b>>] \in Buckets \union {NULL}
             /\ m[<<"key", b>>] \in Keys \union {NULL}
             /\ m[<<"dirty", b>>] \in {0, 1} /\ m[<<"onlyKey", b>>] \in {0, 1}
             /\ m[<<"val", b>>] \in {0, 1}
  <2>1. \A f \in {"index", "key", "dirty", "onlyKey", "val"} : m[<<f, b>>] \in Kind(f)
    BY <1>0, BlockWord DEF BlockFields
  <2>2. /\ Kind("index") = Buckets \union {NULL} /\ Kind("key") = Keys \union {NULL}
        /\ Kind("dirty") = {0, 1} /\ Kind("onlyKey") = {0, 1} /\ Kind("val") = {0, 1}
    BY DEF Kind, HeadLinks, BlockLinks, HeadCounts
  <2> QED BY <2>1, <2>2
<1> QED BY <1>1, <1>2, <1>3, <1>4, <1>5

-----------------------------------------------------------------------------
(* Sequences of distinct blocks, and what the operations do to them *)

Distinct(s) == s \in Seq(Blocks) /\ \A i, j \in DOMAIN s : s[i] = s[j] => i = j
Without(s, j) == [i \in 1..(Len(s) - 1) |-> IF i < j THEN s[i] ELSE s[i + 1]]
Pushed(s, b) == [i \in 1..(Len(s) + 1) |-> IF i = 1 THEN b ELSE s[i - 1]]
Moved(s, j) == [i \in 1..Len(s) |-> IF i = 1 THEN s[j] ELSE IF i <= j THEN s[i - 1] ELSE s[i]]

LEMMA FunSeq ==
  ASSUME NEW n \in Nat, NEW S, NEW s, s = [i \in 1..n |-> s[i]], \A i \in 1..n : s[i] \in S
  PROVE  s \in Seq(S) /\ Len(s) = n /\ DOMAIN s = 1..n
<1>1. s \in [1..n -> S]
  OBVIOUS
<1>2. s \in Seq(S)
  BY <1>1, SeqDef
<1> QED BY <1>1, <1>2, SeqFacts, LenProperties

LEMMA DistinctFacts ==
  ASSUME NEW s, Distinct(s)
  PROVE  /\ DOMAIN s = 1..Len(s) /\ Len(s) \in Nat
         /\ \A i \in 1..Len(s) : s[i] \in Blocks /\ s[i] # NULL
         /\ \A i, j \in 1..Len(s) : s[i] = s[j] => i = j
         /\ Elems(s) \subseteq Blocks
<1>1. DOMAIN s = 1..Len(s) /\ Len(s) \in Nat /\ \A i \in DOMAIN s : s[i] \in Blocks
  BY SeqFacts DEF Distinct
<1>2. NULL \notin Blocks
  BY MapAssumption
<1> QED BY <1>1, <1>2 DEF Distinct, Elems

LEMMA WithoutFacts ==
  ASSUME NEW s, Distinct(s), NEW j \in DOMAIN s
  PROVE  /\ Distinct(Without(s, j)) /\ Len(Without(s, j)) = Len(s) - 1
         /\ DOMAIN Without(s, j) = 1..(Len(s) - 1)
         /\ \A i \in 1..(Len(s) - 1) : Without(s, j)[i] = IF i < j THEN s[i] ELSE s[i + 1]
         /\ Elems(Without(s, j)) = Elems(s) \ {s[j]}
<1> DEFINE t == Without(s, j)
<1>1. /\ DOMAIN s = 1..Len(s) /\ Len(s) \in Nat /\ \A i \in 1..Len(s) : s[i] \in Blocks
      /\ \A i, k \in 1..Len(s) : s[i] = s[k] => i = k
      /\ j \in 1..Len(s)
  BY DistinctFacts
<1>2. \A i \in 1..(Len(s) - 1) : t[i] = (IF i < j THEN s[i] ELSE s[i + 1]) /\ t[i] \in Blocks
  BY <1>1 DEF Without
<1>3. Len(s) - 1 \in Nat /\ t = [i \in 1..(Len(s) - 1) |-> t[i]]
  BY <1>1 DEF Without
<1>4. t \in Seq(Blocks) /\ Len(t) = Len(s) - 1 /\ DOMAIN t = 1..(Len(s) - 1)
  BY <1>2, <1>3, FunSeq
<1> HIDE DEF t
<1>5. Distinct(t)
  <2>1. ASSUME NEW i \in DOMAIN t, NEW k \in DOMAIN t, t[i] = t[k] PROVE i = k
    <3>1. i \in 1..(Len(s) - 1) /\ k \in 1..(Len(s) - 1)
      BY <1>4
    <3>2. PICK x \in 1..Len(s) : t[i] = s[x] /\ x = IF i < j THEN i ELSE i + 1
      BY <1>1, <1>2, <3>1
    <3>3. PICK y \in 1..Len(s) : t[k] = s[y] /\ y = IF k < j THEN k ELSE k + 1
      BY <1>1, <1>2, <3>1
    <3>4. x = y
      BY <1>1, <2>1, <3>2, <3>3
    <3> QED BY <1>1, <3>1, <3>2, <3>3, <3>4
  <2> QED BY <1>4, <2>1 DEF Distinct
<1>6. Elems(t) = Elems(s) \ {s[j]}
  <2>1. ASSUME NEW x \in Elems(t) PROVE x \in Elems(s) \ {s[j]}
    <3>1. PICK i \in 1..(Len(s) - 1) : x = t[i]
      BY <1>4 DEF Elems
    <3>2. PICK y \in 1..Len(s) : t[i] = s[y] /\ y # j
      BY <1>1, <1>2, <3>1
    <3> QED BY <1>1, <3>1, <3>2 DEF Elems
  <2>2. ASSUME NEW x \in Elems(s) \ {s[j]} PROVE x \in Elems(t)
    <3>1. PICK i \in 1..Len(s) : x = s[i]
      BY <1>1 DEF Elems
    <3>2. i # j
      BY <2>2, <3>1
    <3>3. CASE i < j
      <4>1. i \in 1..(Len(s) - 1) /\ t[i] = s[i]
        BY <1>1, <1>2, <3>3
      <4> QED BY <1>4, <3>1, <4>1 DEF Elems
    <3>4. CASE i > j
      <4>1. i - 1 \in 1..(Len(s) - 1) /\ ~(i - 1 < j) /\ (i - 1) + 1 = i
        BY <1>1, <3>4
      <4>2. t[i - 1] = s[i]
        BY <1>2, <4>1
      <4> QED BY <1>4, <3>1, <4>1, <4>2 DEF Elems
    <3> QED BY <1>1, <3>2, <3>3, <3>4
  <2> QED BY <2>1, <2>2
<1>7. \A i \in 1..(Len(s) - 1) : t[i] = IF i < j THEN s[i] ELSE s[i + 1]
  BY <1>2
<1> QED BY <1>4, <1>5, <1>6, <1>7 DEF t

LEMMA PushedFacts ==
  ASSUME NEW s, Distinct(s), NEW b \in Blocks, b \notin Elems(s)
  PROVE  /\ Distinct(Pushed(s, b)) /\ Len(Pushed(s, b)) = Len(s) + 1
         /\ DOMAIN Pushed(s, b) = 1..(Len(s) + 1)
         /\ \A i \in 1..(Len(s) + 1) : Pushed(s, b)[i] = IF i = 1 THEN b ELSE s[i - 1]
         /\ Elems(Pushed(s, b)) = Elems(s) \union {b}
<1> DEFINE t == Pushed(s, b)
<1>1. /\ DOMAIN s = 1..Len(s) /\ Len(s) \in Nat /\ \A i \in 1..Len(s) : s[i] \in Blocks /\ s[i] # b
      /\ \A i, k \in 1..Len(s) : s[i] = s[k] => i = k
  BY DistinctFacts DEF Elems
<1>2. \A i \in 1..(Len(s) + 1) : t[i] = (IF i = 1 THEN b ELSE s[i - 1]) /\ t[i] \in Blocks
  BY <1>1 DEF Pushed
<1>3. Len(s) + 1 \in Nat /\ t = [i \in 1..(Len(s) + 1) |-> t[i]]
  BY <1>1 DEF Pushed
<1>4. t \in Seq(Blocks) /\ Len(t) = Len(s) + 1 /\ DOMAIN t = 1..(Len(s) + 1)
  BY <1>2, <1>3, FunSeq
<1> HIDE DEF t
<1>5. Distinct(t)
  <2>1. ASSUME NEW i \in DOMAIN t, NEW k \in DOMAIN t, t[i] = t[k] PROVE i = k
    <3>1. i \in 1..(Len(s) + 1) /\ k \in 1..(Len(s) + 1)
      BY <1>4
    <3>2. CASE i = 1 \/ k = 1
      BY <1>1, <1>2, <2>1, <3>1, <3>2
    <3>3. CASE i # 1 /\ k # 1
      <4>1. i - 1 \in 1..Len(s) /\ k - 1 \in 1..Len(s) /\ s[i - 1] = s[k - 1]
        BY <1>1, <1>2, <2>1, <3>1, <3>3
      <4> QED BY <1>1, <3>1, <4>1
    <3> QED BY <3>2, <3>3
  <2> QED BY <1>4, <2>1 DEF Distinct
<1>6. Elems(t) = Elems(s) \union {b}
  <2>1. ASSUME NEW x \in Elems(t) PROVE x \in Elems(s) \union {b}
    <3>1. PICK i \in 1..(Len(s) + 1) : x = t[i]
      BY <1>4 DEF Elems
    <3> QED BY <1>1, <1>2, <3>1 DEF Elems
  <2>2. b \in Elems(t)
    BY <1>1, <1>2, <1>4 DEF Elems
  <2>3. ASSUME NEW x \in Elems(s) PROVE x \in Elems(t)
    <3>1. PICK i \in 1..Len(s) : x = s[i]
      BY <1>1 DEF Elems
    <3>2. i + 1 \in 1..(Len(s) + 1) /\ i + 1 # 1 /\ (i + 1) - 1 = i
      BY <1>1
    <3>3. t[i + 1] = s[i]
      BY <1>2, <3>2
    <3> QED BY <1>4, <3>1, <3>2, <3>3 DEF Elems
  <2> QED BY <2>1, <2>2, <2>3
<1>7. \A i \in 1..(Len(s) + 1) : t[i] = IF i = 1 THEN b ELSE s[i - 1]
  BY <1>2
<1> QED BY <1>4, <1>5, <1>6, <1>7 DEF t

LEMMA MovedFacts ==
  ASSUME NEW s, Distinct(s), NEW j \in DOMAIN s
  PROVE  /\ Distinct(Moved(s, j)) /\ Len(Moved(s, j)) = Len(s)
         /\ DOMAIN Moved(s, j) = 1..Len(s)
         /\ \A i \in 1..Len(s) :
              Moved(s, j)[i] = IF i = 1 THEN s[j] ELSE IF i <= j THEN s[i - 1] ELSE s[i]
         /\ Elems(Moved(s, j)) = Elems(s)
<1> DEFINE t == Moved(s, j)
<1>1. /\ DOMAIN s = 1..Len(s) /\ Len(s) \in Nat /\ \A i \in 1..Len(s) : s[i] \in Blocks
      /\ \A i, k \in 1..Len(s) : s[i] = s[k] => i = k
      /\ j \in 1..Len(s)
  BY DistinctFacts
<1>2. \A i \in 1..Len(s) :
        t[i] = (IF i = 1 THEN s[j] ELSE IF i <= j THEN s[i - 1] ELSE s[i]) /\ t[i] \in Blocks
  BY <1>1 DEF Moved
<1>3. t = [i \in 1..Len(s) |-> t[i]]
  BY <1>1 DEF Moved
<1>4. t \in Seq(Blocks) /\ Len(t) = Len(s) /\ DOMAIN t = 1..Len(s)
  BY <1>1, <1>2, <1>3, FunSeq
<1> HIDE DEF t
<1> DEFINE At1(i) == IF i = 1 THEN j ELSE IF i <= j THEN i - 1 ELSE i
<1>5. \A i \in 1..Len(s) : At1(i) \in 1..Len(s) /\ t[i] = s[At1(i)]
  BY <1>1, <1>2
<1>6. Distinct(t)
  <2>1. ASSUME NEW i \in DOMAIN t, NEW k \in DOMAIN t, t[i] = t[k] PROVE i = k
    <3>1. i \in 1..Len(s) /\ k \in 1..Len(s)
      BY <1>4
    <3>2. At1(i) = At1(k)
      BY <1>1, <1>5, <2>1, <3>1
    <3> QED BY <1>1, <3>1, <3>2
  <2> QED BY <1>4, <2>1 DEF Distinct
<1>7. Elems(t) = Elems(s)
  <2>1. ASSUME NEW x \in Elems(t) PROVE x \in Elems(s)
    BY <1>1, <1>4, <1>5 DEF Elems
  <2>2. ASSUME NEW x \in Elems(s) PROVE x \in Elems(t)
    <3>1. PICK i \in 1..Len(s) : x = s[i]
      BY <1>1 DEF Elems
    <3>2. PICK k \in 1..Len(s) : At1(k) = i
      <4>1. CASE i = j
        BY <1>1, <4>1
      <4>2. CASE i < j
        <5>1. i + 1 \in 1..Len(s) /\ At1(i + 1) = i
          BY <1>1, <4>2
        <5> QED BY <5>1
      <4>3. CASE i > j
        <5>1. At1(i) = i
          BY <1>1, <4>3
        <5> QED BY <5>1
      <4> QED BY <1>1, <4>1, <4>2, <4>3
    <3>3. t[k] = x
      BY <1>5, <3>1, <3>2
    <3> QED BY <1>4, <3>3 DEF Elems
  <2> QED BY <2>1, <2>2
<1>8. \A i \in 1..Len(s) :
        t[i] = IF i = 1 THEN s[j] ELSE IF i <= j THEN s[i - 1] ELSE s[i]
  BY <1>2
<1> QED BY <1>4, <1>6, <1>7, <1>8 DEF t

-----------------------------------------------------------------------------
(* The links of a sequence under these operations *)

LEMMA LinearDistinct ==
  ASSUME NEW m, NEW nx, NEW pv, NEW s, Linear(m, nx, pv, s)
  PROVE  Distinct(s)
BY DEF Linear, Distinct

LEMMA LinearSame ==
  ASSUME NEW m, NEW n, NEW nx, NEW pv, NEW s, Linear(m, nx, pv, s),
         \A x \in Elems(s) : n[<<nx, x>>] = m[<<nx, x>>] /\ n[<<pv, x>>] = m[<<pv, x>>]
  PROVE  Linear(n, nx, pv, s)
BY DEF Linear, Elems

LEMMA LinearWithout ==
  ASSUME NEW m, NEW n, NEW nx, NEW pv, NEW s, Linear(m, nx, pv, s), NEW j \in DOMAIN s,
         \A x \in Blocks \ {s[j]} :
           /\ n[<<nx, x>>] = IF x = Nth(s, j - 1) THEN Nth(s, j + 1) ELSE m[<<nx, x>>]
           /\ n[<<pv, x>>] = IF x = Nth(s, j + 1) THEN Nth(s, j - 1) ELSE m[<<pv, x>>]
  PROVE  Linear(n, nx, pv, Without(s, j))
<1>0. Distinct(s)
  BY LinearDistinct
<1>1. /\ DOMAIN s = 1..Len(s) /\ Len(s) \in Nat /\ j \in 1..Len(s)
      /\ \A i \in 1..Len(s) : s[i] \in Blocks /\ s[i] # NULL
      /\ \A i, k \in 1..Len(s) : s[i] = s[k] => i = k
  BY <1>0, DistinctFacts
<1>2. PICK t : t = Without(s, j)
  OBVIOUS
<1>3. /\ Distinct(t) /\ DOMAIN t = 1..(Len(s) - 1)
      /\ \A i \in 1..(Len(s) - 1) : t[i] = IF i < j THEN s[i] ELSE s[i + 1]
  BY <1>0, <1>2, WithoutFacts
<1>4. \A i \in 1..Len(s) : m[<<nx, s[i]>>] = Nth(s, i + 1) /\ m[<<pv, s[i]>>] = Nth(s, i - 1)
  BY <1>1 DEF Linear
<1>5. \A k \in Int : /\ k \in 1..Len(s) => Nth(s, k) = s[k]
                     /\ k \notin 1..Len(s) => Nth(s, k) = NULL
                     /\ k \in 1..(Len(s) - 1) => Nth(t, k) = IF k < j THEN s[k] ELSE s[k + 1]
                     /\ k \notin 1..(Len(s) - 1) => Nth(t, k) = NULL
  BY <1>1, <1>3 DEF Nth
<1>6. ASSUME NEW i \in 1..(Len(s) - 1)
      PROVE  n[<<nx, t[i]>>] = Nth(t, i + 1) /\ n[<<pv, t[i]>>] = Nth(t, i - 1)
  <2>1. CASE i < j
    <3>1. t[i] = s[i] /\ i \in 1..Len(s) /\ s[i] # s[j]
      BY <1>1, <1>3, <2>1
    <3>2. s[i] = Nth(s, j - 1) <=> i = j - 1
      BY <1>1, <1>5, <2>1, <3>1
    <3>3. s[i] # Nth(s, j + 1)
      BY <1>1, <1>5, <2>1, <3>1
    <3>4. n[<<pv, s[i]>>] = Nth(s, i - 1) /\ n[<<nx, s[i]>>] = IF i = j - 1 THEN Nth(s, j + 1) ELSE Nth(s, i + 1)
      BY <1>1, <1>4, <3>1, <3>2, <3>3
    <3>5. Nth(t, i - 1) = Nth(s, i - 1)
      BY <1>1, <1>5, <2>1
    <3>6. Nth(t, i + 1) = IF i = j - 1 THEN Nth(s, j + 1) ELSE Nth(s, i + 1)
      BY <1>1, <1>5, <2>1
    <3> QED BY <3>1, <3>4, <3>5, <3>6
  <2>2. CASE i >= j
    <3>1. t[i] = s[i + 1] /\ i + 1 \in 1..Len(s) /\ s[i + 1] # s[j]
      BY <1>1, <1>3, <2>2
    <3>2. s[i + 1] = Nth(s, j + 1) <=> i = j
      BY <1>1, <1>5, <2>2, <3>1
    <3>3. s[i + 1] # Nth(s, j - 1)
      BY <1>1, <1>5, <2>2, <3>1
    <3>4. n[<<nx, s[i + 1]>>] = Nth(s, i + 2) /\ n[<<pv, s[i + 1]>>] = IF i = j THEN Nth(s, j - 1) ELSE Nth(s, i)
      <4>1. m[<<nx, s[i + 1]>>] = Nth(s, (i + 1) + 1) /\ m[<<pv, s[i + 1]>>] = Nth(s, (i + 1) - 1)
        BY <1>4, <3>1
      <4>2. (i + 1) + 1 = i + 2 /\ (i + 1) - 1 = i
        BY <1>1
      <4> QED BY <1>1, <3>1, <3>2, <3>3, <4>1, <4>2
    <3>5. Nth(t, i + 1) = Nth(s, i + 2)
      BY <1>1, <1>5, <2>2
    <3>6. Nth(t, i - 1) = IF i = j THEN Nth(s, j - 1) ELSE Nth(s, i)
      BY <1>1, <1>5, <2>2
    <3> QED BY <3>1, <3>4, <3>5, <3>6
  <2> QED BY <1>1, <2>1, <2>2
<1>7. Linear(n, nx, pv, t)
  BY <1>3, <1>6 DEF Linear, Distinct
<1> QED BY <1>2, <1>7

PushSet(n, m, nx, pv, s, b) ==
  /\ n[<<nx, b>>] = Nth(s, 1) /\ n[<<pv, b>>] = NULL
  /\ \A x \in Blocks \ {b} : /\ n[<<nx, x>>] = m[<<nx, x>>]
                           /\ n[<<pv, x>>] = IF x = Nth(s, 1) THEN b ELSE m[<<pv, x>>]

LEMMA LinearPushed ==
  ASSUME NEW m, NEW n, NEW nx, NEW pv, NEW s, Linear(m, nx, pv, s),
         NEW b \in Blocks, b \notin Elems(s), PushSet(n, m, nx, pv, s, b)
  PROVE  Linear(n, nx, pv, Pushed(s, b))
<1>0. Distinct(s)
  BY LinearDistinct
<1> USE DEF PushSet
<1>1. /\ DOMAIN s = 1..Len(s) /\ Len(s) \in Nat
      /\ \A i \in 1..Len(s) : s[i] \in Blocks /\ s[i] # NULL /\ s[i] # b
      /\ \A i, k \in 1..Len(s) : s[i] = s[k] => i = k
  BY <1>0, DistinctFacts DEF Elems
<1>2. PICK t : t = Pushed(s, b)
  OBVIOUS
<1>3. /\ Distinct(t) /\ DOMAIN t = 1..(Len(s) + 1)
      /\ \A i \in 1..(Len(s) + 1) : t[i] = IF i = 1 THEN b ELSE s[i - 1]
  BY <1>0, <1>2, PushedFacts
<1>4. \A i \in 1..Len(s) : m[<<nx, s[i]>>] = Nth(s, i + 1) /\ m[<<pv, s[i]>>] = Nth(s, i - 1)
  BY <1>1 DEF Linear
<1>5. \A k \in Int : /\ k \in 1..Len(s) => Nth(s, k) = s[k]
                     /\ k \notin 1..Len(s) => Nth(s, k) = NULL
                     /\ k \in 1..(Len(s) + 1) => Nth(t, k) = IF k = 1 THEN b ELSE s[k - 1]
                     /\ k \notin 1..(Len(s) + 1) => Nth(t, k) = NULL
  BY <1>1, <1>3 DEF Nth
<1>6. ASSUME NEW i \in 1..(Len(s) + 1)
      PROVE  n[<<nx, t[i]>>] = Nth(t, i + 1) /\ n[<<pv, t[i]>>] = Nth(t, i - 1)
  <2>1. CASE i = 1
    <3>1. t[i] = b /\ Nth(t, i - 1) = NULL /\ Nth(t, i + 1) = Nth(s, 1)
      BY <1>1, <1>3, <1>5, <2>1
    <3> QED BY <3>1
  <2>2. CASE i # 1
    <3>1. t[i] = s[i - 1] /\ i - 1 \in 1..Len(s)
      BY <1>1, <1>3, <2>2
    <3>2. s[i - 1] = Nth(s, 1) <=> i = 2
      BY <1>1, <1>5, <3>1
    <3>3. m[<<nx, s[i - 1]>>] = Nth(s, (i - 1) + 1) /\ m[<<pv, s[i - 1]>>] = Nth(s, (i - 1) - 1)
      BY <1>4, <3>1
    <3>4. (i - 1) + 1 = i /\ (i - 1) - 1 = i - 2
      BY <1>1
    <3>5. n[<<nx, s[i - 1]>>] = Nth(s, i) /\ n[<<pv, s[i - 1]>>] = IF i = 2 THEN b ELSE Nth(s, i - 2)
      BY <1>1, <3>1, <3>2, <3>3, <3>4
    <3>6. Nth(t, i + 1) = Nth(s, i)
      BY <1>1, <1>5, <2>2
    <3>7. Nth(t, i - 1) = IF i = 2 THEN b ELSE Nth(s, i - 2)
      BY <1>1, <1>5, <2>2
    <3> QED BY <3>1, <3>5, <3>6, <3>7
  <2> QED BY <2>1, <2>2
<1>7. Linear(n, nx, pv, t)
  BY <1>3, <1>6 DEF Linear, Distinct
<1> QED BY <1>2, <1>7

LEMMA LinearMoved ==
  ASSUME NEW m, NEW n, NEW nx, NEW pv, NEW s, Linear(m, nx, pv, s), NEW j \in DOMAIN s, j # 1,
         n[<<nx, s[j]>>] = s[1] /\ n[<<pv, s[j]>>] = NULL,
         \A x \in Blocks \ {s[j]} :
           /\ n[<<nx, x>>] = IF x = s[j - 1] THEN Nth(s, j + 1) ELSE m[<<nx, x>>]
           /\ n[<<pv, x>>] = IF x = s[1] THEN s[j]
                             ELSE IF x = Nth(s, j + 1) THEN s[j - 1] ELSE m[<<pv, x>>]
  PROVE  Linear(n, nx, pv, Moved(s, j))
<1>0. Distinct(s)
  BY LinearDistinct
<1>1. /\ DOMAIN s = 1..Len(s) /\ Len(s) \in Nat /\ j \in 2..Len(s)
      /\ \A i \in 1..Len(s) : s[i] \in Blocks /\ s[i] # NULL
      /\ \A i, k \in 1..Len(s) : s[i] = s[k] => i = k
  BY <1>0, DistinctFacts
<1>2. PICK t : t = Moved(s, j)
  OBVIOUS
<1>3. /\ Distinct(t) /\ DOMAIN t = 1..Len(s)
      /\ \A i \in 1..Len(s) : t[i] = IF i = 1 THEN s[j] ELSE IF i <= j THEN s[i - 1] ELSE s[i]
  BY <1>0, <1>2, MovedFacts
<1>4. \A i \in 1..Len(s) : m[<<nx, s[i]>>] = Nth(s, i + 1) /\ m[<<pv, s[i]>>] = Nth(s, i - 1)
  BY <1>1 DEF Linear
<1>5. \A k \in Int : /\ k \in 1..Len(s) => Nth(s, k) = s[k]
                     /\ k \notin 1..Len(s) => Nth(s, k) = NULL
                     /\ k \in 1..Len(s) => Nth(t, k) = IF k = 1 THEN s[j] ELSE IF k <= j THEN s[k - 1] ELSE s[k]
                     /\ k \notin 1..Len(s) => Nth(t, k) = NULL
  BY <1>1, <1>3 DEF Nth
<1>6. ASSUME NEW i \in 1..Len(s)
      PROVE  n[<<nx, t[i]>>] = Nth(t, i + 1) /\ n[<<pv, t[i]>>] = Nth(t, i - 1)
  <2>1. CASE i = 1
    <3>1. t[i] = s[j] /\ Nth(t, i - 1) = NULL /\ Nth(t, i + 1) = s[1]
      BY <1>1, <1>3, <1>5, <2>1
    <3> QED BY <3>1
  <2>2. CASE i # 1 /\ i <= j
    <3>1. t[i] = s[i - 1] /\ i - 1 \in 1..Len(s) /\ s[i - 1] # s[j]
      BY <1>1, <1>3, <2>2
    <3>2. (s[i - 1] = s[1] <=> i = 2) /\ (s[i - 1] = s[j - 1] <=> i = j) /\ s[i - 1] # Nth(s, j + 1)
      BY <1>1, <1>5, <2>2, <3>1
    <3>3. m[<<nx, s[i - 1]>>] = Nth(s, (i - 1) + 1) /\ m[<<pv, s[i - 1]>>] = Nth(s, (i - 1) - 1)
      BY <1>4, <3>1
    <3>4. (i - 1) + 1 = i /\ (i - 1) - 1 = i - 2
      BY <1>1
    <3>5. /\ n[<<nx, s[i - 1]>>] = IF i = j THEN Nth(s, j + 1) ELSE Nth(s, i)
          /\ n[<<pv, s[i - 1]>>] = IF i = 2 THEN s[j] ELSE Nth(s, i - 2)
      BY <1>1, <3>1, <3>2, <3>3, <3>4
    <3>6. Nth(t, i + 1) = IF i = j THEN Nth(s, j + 1) ELSE Nth(s, i)
      BY <1>1, <1>5, <2>2
    <3>7. Nth(t, i - 1) = IF i = 2 THEN s[j] ELSE Nth(s, i - 2)
      BY <1>1, <1>5, <2>2
    <3> QED BY <3>1, <3>5, <3>6, <3>7
  <2>3. CASE i > j
    <3>1. t[i] = s[i] /\ i # 1 /\ s[i] # s[j]
      BY <1>1, <1>3, <2>3
    <3>2. s[i] # s[1] /\ s[i] # s[j - 1] /\ (s[i] = Nth(s, j + 1) <=> i = j + 1)
      BY <1>1, <1>5, <2>3, <3>1
    <3>3. m[<<nx, s[i]>>] = Nth(s, i + 1) /\ m[<<pv, s[i]>>] = Nth(s, i - 1)
      BY <1>4
    <3>4. /\ n[<<nx, s[i]>>] = Nth(s, i + 1)
          /\ n[<<pv, s[i]>>] = IF i = j + 1 THEN s[j - 1] ELSE Nth(s, i - 1)
      BY <1>1, <3>1, <3>2, <3>3
    <3>5. Nth(t, i + 1) = Nth(s, i + 1)
      BY <1>1, <1>5, <2>3
    <3>6. Nth(t, i - 1) = IF i = j + 1 THEN s[j - 1] ELSE Nth(s, i - 1)
      BY <1>1, <1>5, <2>3
    <3> QED BY <3>1, <3>4, <3>5, <3>6
  <2> QED BY <1>1, <2>1, <2>2, <2>3
<1>7. Linear(n, nx, pv, t)
  BY <1>3, <1>6 DEF Linear, Distinct
<1> QED BY <1>2, <1>7

-----------------------------------------------------------------------------
(* Following the links of a sequence gives the sequence *)

LEMMA DistinctLen ==
  ASSUME NEW s, Distinct(s)
  PROVE  /\ IsFiniteSet(Elems(s)) /\ Cardinality(Elems(s)) = Len(s)
         /\ Len(s) <= Cardinality(Blocks) /\ Cardinality(Blocks) \in Nat
<1>1. DOMAIN s = 1..Len(s) /\ Len(s) \in Nat /\ Elems(s) \subseteq Blocks
      /\ \A i, j \in 1..Len(s) : s[i] = s[j] => i = j
  BY DistinctFacts
<1>2. IsFiniteSet(Blocks) /\ Cardinality(Blocks) \in Nat
  BY MapAssumption, FS_CardinalityType
<1>3. s \in Bijection(1..Len(s), Elems(s))
  <2>0. s \in Seq(Blocks)
    BY DEF Distinct
  <2>1. s \in [1..Len(s) -> Elems(s)]
    BY <1>1, <2>0 DEF Elems
  <2>2. \A a, b \in 1..Len(s) : s[a] = s[b] => a = b
    BY <1>1
  <2>3. \A y \in Elems(s) : \E x \in 1..Len(s) : s[x] = y
    BY <1>1 DEF Elems
  <2>4. s \in Injection(1..Len(s), Elems(s))
    BY <1>1, <2>1, <2>2 DEF Injection, IsInjective
  <2>5. s \in Surjection(1..Len(s), Elems(s))
    BY <2>1, <2>3 DEF Surjection
  <2> QED BY <2>4, <2>5 DEF Bijection
<1>4. Cardinality(Elems(s)) = Len(s)
  BY <1>1, <1>3, FS_CountingElements DEF ExistsBijection
<1>5. IsFiniteSet(Elems(s)) /\ Cardinality(Elems(s)) <= Cardinality(Blocks)
  BY <1>1, <1>2, FS_Subset
<1> QED BY <1>2, <1>4, <1>5

(* The least element of a set of numbers. *)
LEMMA FirstExists ==
  ASSUME NEW S, S \subseteq Nat, S # {}
  PROVE  \E i \in S : \A j \in S : i <= j
<1> DEFINE R == OpToRel(<, Nat)
<1>1. PICK x \in S : \A y \in S : ~(<<y, x>> \in R)
  BY NatLessThanWellFounded, WFMin
<1>2. \A y, z \in Nat : y < z => <<y, z>> \in R
  BY DEF OpToRel
<1>3. ASSUME NEW j \in S PROVE x <= j
  <2>1. x \in Nat /\ j \in Nat /\ ~(<<j, x>> \in R)
    BY <1>1
  <2>2. ~(j < x)
    BY <1>2, <2>1
  <2>3. x \in Nat /\ j \in Nat
    OBVIOUS
  <2> QED BY <2>2, <2>3
<1> QED BY <1>3

LEMMA MinIn ==
  ASSUME NEW S, S \subseteq Nat, S # {}
  PROVE  Min(S) \in S
<1>1. \E i \in S : \A j \in S : i <= j
  BY FirstExists
<1> QED BY <1>1 DEF Min

(* A walk is the only function that steps along the links. *)
LEMMA WalkUnique ==
  ASSUME NEW m, NEW f, NEW b, NEW g,
         g = [n \in 0..Cardinality(Blocks) |-> IF n = 0 THEN b ELSE Link(m, f, g[n - 1])],
         Cardinality(Blocks) \in Nat
  PROVE  Walk(m, f, b) = g
<1> DEFINE N == Cardinality(Blocks)
           w == Walk(m, f, b)
           D == {n \in 0..N : w[n] # g[n]}
<1>1. w = [n \in 0..N |-> IF n = 0 THEN b ELSE Link(m, f, w[n - 1])]
  BY DEF Walk
<1> HIDE DEF w
<1>2. D = {}
  <2>1. SUFFICES ASSUME D # {} PROVE FALSE
    OBVIOUS
  <2>6. D \subseteq Nat
    OBVIOUS
  <2>2. PICK n \in D : \A k \in D : n <= k
    BY <2>1, <2>6, FirstExists
  <2>3. n \in 0..N /\ w[n] # g[n]
    OBVIOUS
  <2>4. CASE n = 0
    <3>1. w[0] = b /\ g[0] = b
      BY <1>1, <2>3, <2>4
    <3> QED BY <2>3, <2>4, <3>1
  <2>5. CASE n # 0
    <3>1. n - 1 \in 0..N /\ ~(n <= n - 1)
      BY <2>3, <2>5
    <3>2. w[n - 1] = g[n - 1]
      BY <2>2, <3>1
    <3>3. w[n] = Link(m, f, w[n - 1]) /\ g[n] = Link(m, f, g[n - 1])
      BY <1>1, <2>3, <2>5
    <3> QED BY <2>3, <3>2, <3>3
  <2> QED BY <2>4, <2>5
<1>3. \A n \in 0..N : w[n] = g[n]
  BY <1>2
<1>4. w = g
  BY <1>1, <1>3
<1> QED BY <1>4 DEF w

LEMMA LinearFollow ==
  ASSUME NEW m, NEW nx, NEW pv, NEW s, Linear(m, nx, pv, s), NEW b, b = Nth(s, 1)
  PROVE  Follow(m, nx, b) = s
<1> DEFINE N == Cardinality(Blocks)
<1>0. Distinct(s)
  BY LinearDistinct
<1>1. /\ DOMAIN s = 1..Len(s) /\ Len(s) \in Nat
      /\ \A i \in 1..Len(s) : s[i] \in Blocks /\ s[i] # NULL
  BY <1>0, DistinctFacts
<1>2. Len(s) <= N /\ N \in Nat
  BY <1>0, DistinctLen
<1>3. PICK g : g = [n \in 0..N |-> Nth(s, n + 1)]
  OBVIOUS
<1>4. ASSUME NEW n \in 0..N PROVE g[n] = IF n = 0 THEN b ELSE Link(m, nx, g[n - 1])
  <2>1. CASE n = 0
    BY <1>3, <2>1
  <2>2. CASE n # 0
    <3>1. n - 1 \in 0..N /\ (n - 1) + 1 = n
      BY <1>2, <2>2
    <3>2. g[n - 1] = Nth(s, n) /\ g[n] = Nth(s, n + 1)
      BY <1>3, <3>1
    <3>3. CASE n \in 1..Len(s)
      <4>1. g[n - 1] = s[n] /\ g[n - 1] # NULL /\ m[<<nx, s[n]>>] = Nth(s, n + 1)
        BY <1>1, <3>2, <3>3 DEF Nth, Linear
      <4> QED BY <2>2, <3>2, <4>1 DEF Link
    <3>4. CASE n \notin 1..Len(s)
      <4>1. n + 1 \notin 1..Len(s)
        BY <1>1, <2>2, <3>4
      <4>2. g[n - 1] = NULL /\ g[n] = NULL
        BY <1>1, <3>2, <3>4, <4>1 DEF Nth
      <4> QED BY <2>2, <4>2 DEF Link
    <3> QED BY <3>3, <3>4
  <2> QED BY <2>1, <2>2
<1>5. g = [n \in 0..N |-> IF n = 0 THEN b ELSE Link(m, nx, g[n - 1])]
  BY <1>3, <1>4
<1>6. Walk(m, nx, b) = g
  BY <1>2, <1>5, WalkUnique
<1>7. {i \in DOMAIN g : g[i] # NULL} = 0..(Len(s) - 1)
  <2>1. DOMAIN g = 0..N
    BY <1>3
  <2>2. ASSUME NEW i \in 0..N PROVE g[i] # NULL <=> i \in 0..(Len(s) - 1)
    <3>1. g[i] = Nth(s, i + 1) /\ (i + 1 \in 1..Len(s) <=> i \in 0..(Len(s) - 1))
      BY <1>1, <1>3
    <3> QED BY <1>1, <3>1 DEF Nth
  <2>3. 0..(Len(s) - 1) \subseteq 0..N
    BY <1>1, <1>2
  <2> QED BY <2>1, <2>2, <2>3
<1>8. Cardinality(0..(Len(s) - 1)) = Len(s)
  <2>1. 0 \in Int /\ Len(s) - 1 \in Int
    BY <1>1
  <2>2. Cardinality(0..(Len(s) - 1)) = IF 0 > Len(s) - 1 THEN 0 ELSE (Len(s) - 1) - 0 + 1
    BY <2>1, FS_Interval
  <2> QED BY <1>1, <2>2
<1>9. Follow(m, nx, b) = [n \in 1..Len(s) |-> g[n - 1]]
  BY <1>6, <1>7, <1>8 DEF Follow
<1>10. \A n \in 1..Len(s) : g[n - 1] = s[n]
  <2>1. ASSUME NEW n \in 1..Len(s) PROVE g[n - 1] = s[n]
    <3>1. n - 1 \in 0..N /\ (n - 1) + 1 = n
      BY <1>1, <1>2
    <3> QED BY <1>1, <1>3, <3>1 DEF Nth
  <2> QED BY <2>1
<1>11. s = [n \in 1..Len(s) |-> s[n]]
  BY <1>0, <1>1 DEF Distinct
<1> QED BY <1>9, <1>10, <1>11

(* The sequences of a map are those of its links. *)
LEMMA MapOKGood ==
  ASSUME NEW m, NEW S, NEW G, NEW C, MapOK(m, S, G, C), C = [i \in Buckets |-> C[i]]
  PROVE  Good(m) /\ SetSeq(m) = S /\ GetSeq(m) = G /\ Chains(m) = C /\ Linked(m) = Elems(S)
<1>1. SetSeq(m) = S
  BY LinearFollow DEF MapOK, ListOK, SetL, SetSeq
<1>2. GetSeq(m) = G
  BY LinearFollow DEF MapOK, ListOK, GetL, GetSeq
<1>3. ASSUME NEW i \in Buckets PROVE Chain(m, i) = C[i]
  <2>1. Linear(m, "blockNext", "blockPrev", C[i]) /\ m[<<"blockAddr", i>>] = Nth(C[i], 1)
    BY DEF MapOK, ChainOK
  <2> QED BY <2>1, LinearFollow DEF Chain
<1>4. Chains(m) = C
  BY <1>3 DEF Chains
<1>5. Linked(m) = Elems(S)
  BY <1>1 DEF Linked, SetSeq, ToSet, Elems
<1> QED BY <1>1, <1>2, <1>4, <1>5 DEF Good

-----------------------------------------------------------------------------
(* What of a memory the map depends on *)

Fields(l) == {l.head, l.tail, l.next, l.prev}
ChainFields == {"blockNext", "blockPrev", "blockAddr", "listCount", "index"}
MapFields == HeadLinks \union BlockLinks
             \union {"blockAddr", "listCount", "index", "key", "elementCount"}

LEMMA ListNames ==
  ASSUME NEW l \in {SetL, GetL}
  PROVE  /\ l.head \in HeadLinks /\ l.tail \in HeadLinks /\ l.next \in BlockLinks /\ l.prev \in BlockLinks
         /\ l.head # l.tail /\ l.next # l.prev /\ l.head \notin BlockLinks /\ l.tail \notin BlockLinks
         /\ Fields(l) \subseteq MapFields
BY DEF SetL, GetL, HeadLinks, BlockLinks, Fields, MapFields

LEMMA FieldNames ==
  /\ Drifting \intersect MapFields = {} /\ Tails \intersect Fields(SetL) = {}
  /\ Tails \intersect Fields(GetL) = {} /\ Fields(SetL) \intersect Fields(GetL) = {}
  /\ ChainFields \intersect Fields(SetL) = {} /\ ChainFields \intersect Fields(GetL) = {}
  /\ ChainFields \intersect Tails = {} /\ ChainFields \subseteq MapFields /\ Tails \subseteq MapFields
  /\ Tails \subseteq HeadLinks /\ BlockLinks \subseteq BlockFields /\ "key" \in BlockFields
  /\ "index" \in BlockFields /\ "elementCount" \in HeadCounts
  /\ "blockNext" \in BlockLinks /\ "blockPrev" \in BlockLinks
BY DEF Drifting, MapFields, HeadLinks, BlockLinks, BlockFields, Tails, Fields, SetL, GetL, ChainFields,
       HeadCounts

LEMMA SameWords ==
  ASSUME NEW m, NEW n, NEW F, Same(m, n, F)
  PROVE  /\ \A f \in F, b \in Blocks : f \in BlockFields => n[<<f, b>>] = m[<<f, b>>]
         /\ \A f \in F : f \in HeadLinks \union HeadCounts => n[<<f, NULL>>] = m[<<f, NULL>>]
         /\ \A f \in F, i \in Buckets : f \in {"blockAddr", "listCount"} => n[<<f, i>>] = m[<<f, i>>]
<1>0. \A f, x : <<f, x>> \in HashAddr /\ f \in F => n[<<f, x>>] = m[<<f, x>>]
  <2>1. ASSUME NEW f, NEW x, <<f, x>> \in HashAddr, f \in F PROVE n[<<f, x>>] = m[<<f, x>>]
    <3>1. <<f, x>>[1] = f
      OBVIOUS
    <3> QED BY <2>1, <3>1 DEF Same
  <2> QED BY <2>1
<1>1. ASSUME NEW f \in F, NEW b \in Blocks, f \in BlockFields PROVE n[<<f, b>>] = m[<<f, b>>]
  BY <1>0, <1>1, BlockWord
<1>2. ASSUME NEW f \in F, f \in HeadLinks \union HeadCounts PROVE n[<<f, NULL>>] = m[<<f, NULL>>]
  BY <1>0, <1>2, HeadWord
<1>3. ASSUME NEW f \in F, NEW i \in Buckets, f \in {"blockAddr", "listCount"}
      PROVE  n[<<f, i>>] = m[<<f, i>>]
  BY <1>0, <1>3, BucketWord
<1> QED BY <1>1, <1>2, <1>3

LEMMA SameSub ==
  ASSUME NEW m, NEW n, NEW F, NEW G, Same(m, n, F), G \subseteq F
  PROVE  Same(m, n, G)
BY DEF Same

LEMMA SameTrans ==
  ASSUME NEW m, NEW n, NEW k, NEW F, Same(m, n, F), Same(n, k, F)
  PROVE  Same(m, k, F)
BY DEF Same

LEMMA LinearSameWords ==
  ASSUME NEW m, NEW n, NEW nx, NEW pv, NEW s, nx \in BlockFields, pv \in BlockFields,
         NEW F, nx \in F, pv \in F, Same(m, n, F), Linear(m, nx, pv, s)
  PROVE  Linear(n, nx, pv, s)
<1>1. Elems(s) \subseteq Blocks
  BY LinearDistinct, DistinctFacts
<1>2. \A x \in Blocks : n[<<nx, x>>] = m[<<nx, x>>] /\ n[<<pv, x>>] = m[<<pv, x>>]
  BY SameWords
<1> QED BY <1>1, <1>2, LinearSame

LEMMA ListSame ==
  ASSUME NEW l \in {SetL, GetL}, NEW m, NEW n, NEW s, ListOK(m, l, s), Same(m, n, Fields(l))
  PROVE  ListOK(n, l, s)
<1>1. /\ l.head \in HeadLinks /\ l.tail \in HeadLinks /\ l.next \in BlockFields /\ l.prev \in BlockFields
      /\ l.head \in Fields(l) /\ l.tail \in Fields(l) /\ l.next \in Fields(l) /\ l.prev \in Fields(l)
  BY ListNames, FieldNames DEF Fields
<1>2. Linear(n, l.next, l.prev, s)
  BY <1>1, LinearSameWords DEF ListOK
<1>3. n[<<l.head, NULL>>] = m[<<l.head, NULL>>] /\ n[<<l.tail, NULL>>] = m[<<l.tail, NULL>>]
  BY <1>1, SameWords
<1> QED BY <1>2, <1>3 DEF ListOK

LEMMA ChainSame ==
  ASSUME NEW m, NEW n, NEW i \in Buckets, NEW c, ChainOK(m, i, c), Same(m, n, ChainFields)
  PROVE  ChainOK(n, i, c)
<1>1. /\ "blockNext" \in BlockFields /\ "blockPrev" \in BlockFields /\ "index" \in BlockFields
      /\ "blockNext" \in ChainFields /\ "blockPrev" \in ChainFields /\ "index" \in ChainFields
      /\ "blockAddr" \in ChainFields /\ "listCount" \in ChainFields
  BY DEF BlockFields, BlockLinks, ChainFields
<1>2. Linear(n, "blockNext", "blockPrev", c)
  BY <1>1, LinearSameWords DEF ChainOK
<1>3. n[<<"blockAddr", i>>] = m[<<"blockAddr", i>>] /\ n[<<"listCount", i>>] = m[<<"listCount", i>>]
  BY <1>1, SameWords
<1>4. \A x \in DOMAIN c : c[x] \in Blocks
  BY DistinctFacts, LinearDistinct DEF ChainOK
<1>5. \A x \in DOMAIN c : n[<<"index", c[x]>>] = m[<<"index", c[x]>>]
  BY <1>1, <1>4, SameWords
<1> QED BY <1>2, <1>3, <1>5 DEF ChainOK

LEMMA RestSame ==
  ASSUME NEW m, NEW n, NEW S, NEW G, NEW C, Elems(S) \subseteq Blocks,
         Same(m, n, {"index", "key"} \union Tails)
  PROVE  /\ SameBlocks(m, S, G, C) => SameBlocks(n, S, G, C)
         /\ TailsOK(m, Elems(S)) => TailsOK(n, Elems(S))
         /\ KeysOK(m, Elems(S)) => KeysOK(n, Elems(S))
<1>1. \A b \in Elems(S) : n[<<"index", b>>] = m[<<"index", b>>] /\ n[<<"key", b>>] = m[<<"key", b>>]
  BY SameWords, FieldNames
<1>2. \A t \in Tails : n[<<t, NULL>>] = m[<<t, NULL>>]
  BY SameWords, FieldNames
<1>3. SameBlocks(m, S, G, C) => SameBlocks(n, S, G, C)
  BY <1>1 DEF SameBlocks
<1>4. TailsOK(m, Elems(S)) => TailsOK(n, Elems(S))
  BY <1>2 DEF TailsOK
<1>5. KeysOK(m, Elems(S)) => KeysOK(n, Elems(S))
  BY <1>1 DEF KeysOK
<1> QED BY <1>3, <1>4, <1>5

LEMMA MapSame ==
  ASSUME NEW m, NEW n, NEW S, NEW G, NEW C, MapOK(m, S, G, C), Same(m, n, MapFields)
  PROVE  MapOK(n, S, G, C)
<1>1. Same(m, n, Fields(SetL)) /\ Same(m, n, Fields(GetL)) /\ Same(m, n, ChainFields)
      /\ Same(m, n, {"index", "key"} \union Tails)
  <2>1. Fields(SetL) \subseteq MapFields /\ Fields(GetL) \subseteq MapFields
    BY ListNames
  <2>2. {"index", "key"} \union Tails \subseteq MapFields
    BY FieldNames DEF MapFields
  <2> QED BY <2>1, <2>2, FieldNames, SameSub
<1>2. ListOK(n, SetL, S) /\ ListOK(n, GetL, G)
  BY <1>1, ListSame DEF MapOK
<1>3. \A i \in Buckets : ChainOK(n, i, C[i])
  BY <1>1, ChainSame DEF MapOK
<1>4. Elems(S) \subseteq Blocks
  BY DistinctFacts, LinearDistinct DEF MapOK, ListOK
<1>5. SameBlocks(n, S, G, C) /\ TailsOK(n, Elems(S)) /\ KeysOK(n, Elems(S))
  BY <1>1, <1>4, RestSame DEF MapOK
<1>6. n[<<"elementCount", NULL>>] = m[<<"elementCount", NULL>>]
  BY SameWords, FieldNames DEF MapFields
<1> QED BY <1>2, <1>3, <1>5, <1>6 DEF MapOK

LEMMA GoodSame ==
  ASSUME NEW m, NEW n, Good(m), Same(m, n, MapFields)
  PROVE  /\ Good(n) /\ Linked(n) = Linked(m)
         /\ SetSeq(n) = SetSeq(m) /\ GetSeq(n) = GetSeq(m) /\ Chains(n) = Chains(m)
<1>1. MapOK(n, SetSeq(m), GetSeq(m), Chains(m))
  BY MapSame DEF Good
<1>2. Chains(m) = [i \in Buckets |-> Chains(m)[i]]
  BY DEF Chains
<1>3. /\ Good(n) /\ SetSeq(n) = SetSeq(m) /\ GetSeq(n) = GetSeq(m) /\ Chains(n) = Chains(m)
      /\ Linked(n) = Elems(SetSeq(m))
  BY <1>1, <1>2, MapOKGood
<1>4. Linked(m) = Elems(SetSeq(m))
  BY DEF Linked, SetSeq, ToSet, Elems
<1> QED BY <1>3, <1>4

-----------------------------------------------------------------------------
(* What a sound map says of its blocks *)

LEMMA GoodFacts ==
  ASSUME NEW m, Good(m)
  PROVE  /\ MapOK(m, SetSeq(m), GetSeq(m), Chains(m)) /\ Linked(m) = Elems(SetSeq(m))
         /\ Linked(m) = Elems(GetSeq(m)) /\ Linked(m) \subseteq Blocks
         /\ Distinct(SetSeq(m)) /\ Distinct(GetSeq(m))
         /\ Chains(m) = [i \in Buckets |-> Chains(m)[i]] /\ \A i \in Buckets : Chains(m)[i] = Chain(m, i)
<1>1. MapOK(m, SetSeq(m), GetSeq(m), Chains(m))
  BY DEF Good
<1>2. Linked(m) = Elems(SetSeq(m))
  BY DEF Linked, SetSeq, ToSet, Elems
<1>3. Distinct(SetSeq(m)) /\ Distinct(GetSeq(m))
  BY <1>1, LinearDistinct DEF MapOK, ListOK
<1>4. Chains(m) = [i \in Buckets |-> Chains(m)[i]] /\ \A i \in Buckets : Chains(m)[i] = Chain(m, i)
  BY DEF Chains
<1>5. Elems(GetSeq(m)) = Elems(SetSeq(m))
  BY <1>1 DEF MapOK, SameBlocks
<1> QED BY <1>1, <1>2, <1>3, <1>4, <1>5, DistinctFacts

LEMMA ListFacts ==
  ASSUME NEW l \in {SetL, GetL}, NEW m, NEW s, ListOK(m, l, s)
  PROVE  /\ m[<<l.head, NULL>>] \in Elems(s) \union {NULL} /\ m[<<l.tail, NULL>>] \in Elems(s) \union {NULL}
         /\ \A b \in Elems(s) : /\ m[<<l.prev, b>>] \in Elems(s) \union {NULL}
                                /\ m[<<l.next, b>>] \in Elems(s) \union {NULL}
         /\ Elems(s) # {} => m[<<l.head, NULL>>] \in Elems(s) /\ m[<<l.tail, NULL>>] \in Elems(s)
<1>1. Distinct(s)
  BY LinearDistinct DEF ListOK
<1>2. DOMAIN s = 1..Len(s) /\ Len(s) \in Nat
  BY <1>1, DistinctFacts
<1>3. \A i : Nth(s, i) \in Elems(s) \union {NULL}
  BY DEF Nth, Elems
<1>4. \A b \in Elems(s) : m[<<l.prev, b>>] \in Elems(s) \union {NULL}
                          /\ m[<<l.next, b>>] \in Elems(s) \union {NULL}
  <2>1. ASSUME NEW b \in Elems(s)
        PROVE  m[<<l.prev, b>>] \in Elems(s) \union {NULL} /\ m[<<l.next, b>>] \in Elems(s) \union {NULL}
    <3>1. PICK i \in DOMAIN s : b = s[i]
      BY DEF Elems
    <3>2. m[<<l.next, s[i]>>] = Nth(s, i + 1) /\ m[<<l.prev, s[i]>>] = Nth(s, i - 1)
      BY DEF ListOK, Linear
    <3> QED BY <1>3, <3>1, <3>2
  <2> QED BY <2>1
<1>5. Elems(s) # {} => 1 \in DOMAIN s /\ Len(s) \in DOMAIN s
  BY <1>2 DEF Elems
<1>6. Elems(s) # {} => Nth(s, 1) \in Elems(s) /\ Nth(s, Len(s)) \in Elems(s)
  BY <1>5 DEF Nth, Elems
<1> QED BY <1>3, <1>4, <1>6 DEF ListOK

LEMMA LinkedFacts ==
  ASSUME NEW m, Good(m)
  PROVE  /\ \A f \in {"setHead", "setTail", "getHead", "getTail"} \union Tails :
              m[<<f, NULL>>] \in Linked(m) \union {NULL}
         /\ \A b \in Linked(m) : /\ m[<<"setPrev", b>>] \in Linked(m) \union {NULL}
                                 /\ m[<<"getPrev", b>>] \in Linked(m) \union {NULL}
         /\ Linked(m) # {} => /\ m[<<"getTail", NULL>>] \in Linked(m)
                              /\ m[<<"getHead", NULL>>] \in Linked(m)
<1>1. /\ MapOK(m, SetSeq(m), GetSeq(m), Chains(m))
      /\ Linked(m) = Elems(SetSeq(m)) /\ Linked(m) = Elems(GetSeq(m))
  BY GoodFacts
<1>2. ListOK(m, SetL, SetSeq(m)) /\ ListOK(m, GetL, GetSeq(m)) /\ TailsOK(m, Elems(SetSeq(m)))
  BY <1>1 DEF MapOK
<1>3. /\ m[<<"setHead", NULL>>] \in Linked(m) \union {NULL} /\ m[<<"setTail", NULL>>] \in Linked(m) \union {NULL}
      /\ \A b \in Linked(m) : m[<<"setPrev", b>>] \in Linked(m) \union {NULL}
  BY <1>1, <1>2, ListFacts DEF SetL
<1>4. /\ m[<<"getHead", NULL>>] \in Linked(m) \union {NULL} /\ m[<<"getTail", NULL>>] \in Linked(m) \union {NULL}
      /\ \A b \in Linked(m) : m[<<"getPrev", b>>] \in Linked(m) \union {NULL}
      /\ Linked(m) # {} => m[<<"getTail", NULL>>] \in Linked(m) /\ m[<<"getHead", NULL>>] \in Linked(m)
  <2>1. /\ m[<<GetL.head, NULL>>] \in Elems(GetSeq(m)) \union {NULL}
        /\ m[<<GetL.tail, NULL>>] \in Elems(GetSeq(m)) \union {NULL}
        /\ \A b \in Elems(GetSeq(m)) : m[<<GetL.prev, b>>] \in Elems(GetSeq(m)) \union {NULL}
        /\ Elems(GetSeq(m)) # {} => /\ m[<<GetL.head, NULL>>] \in Elems(GetSeq(m))
                                   /\ m[<<GetL.tail, NULL>>] \in Elems(GetSeq(m))
    BY <1>2, ListFacts
  <2>2. GetL.head = "getHead" /\ GetL.tail = "getTail" /\ GetL.prev = "getPrev"
    BY DEF GetL
  <2> QED BY <1>1, <2>1, <2>2
<1> QED BY <1>1, <1>2, <1>3, <1>4 DEF TailsOK

-----------------------------------------------------------------------------
(* The memory after one entry more *)

LEMMA OverOneAt ==
  ASSUME NEW m, NEW f, NEW x, NEW v, <<f, x>> \in HashAddr
  PROVE  Over(m, Up(f, x, v))[<<f, x>>] = v
<1>0. PICK es : es = Up(f, x, v)
  OBVIOUS
<1>1. DOMAIN es = {1} /\ es[1].addr = <<f, x>> /\ es[1].val = v /\ es \in Seq({es[1]})
  BY <1>0 DEF Up
<1>2. /\ 1 \in DOMAIN es /\ es[1].addr \in HashAddr
      /\ \A j \in DOMAIN es : j > 1 => es[j].addr # es[1].addr
  BY <1>1
<1>3. Over(m, es)[es[1].addr] = es[1].val
  BY <1>1, <1>2, OverSets
<1> QED BY <1>0, <1>1, <1>3

LEMMA OverOneElse ==
  ASSUME NEW m, NEW f, NEW x, NEW v
  PROVE  \A a \in HashAddr : a # <<f, x>> => Over(m, Up(f, x, v))[a] = m[a]
<1>0. PICK es : es = Up(f, x, v)
  OBVIOUS
<1>1. DOMAIN es = {1} /\ es[1].addr = <<f, x>>
  BY <1>0 DEF Up
<1>2. ASSUME NEW a \in HashAddr, a # <<f, x>> PROVE Over(m, es)[a] = m[a]
  <2>1. \A i \in DOMAIN es : es[i].addr # a
    BY <1>1, <1>2
  <2> QED BY <2>1, OverSkips
<1> QED BY <1>0, <1>2

LEMMA OverNone ==
  ASSUME NEW m
  PROVE  \A a \in HashAddr : Over(m, <<>>)[a] = m[a]
<1>1. \A i \in DOMAIN <<>> : FALSE
  BY EmptySeq, SeqFacts
<1> QED BY <1>1, OverSkips

LEMMA OverCat3 ==
  ASSUME NEW m, NEW u, NEW v, NEW w, u \in Seq(Entries), v \in Seq(Entries), w \in Seq(Entries)
  PROVE  Over(m, u \o v \o w) = Over(Over(Over(m, u), v), w)
<1>1. u \o v \in Seq(Entries)
  BY CatFacts
<1>2. Over(m, u \o v) = Over(Over(m, u), v)
  BY OverCat
<1>3. PICK p : p = u \o v
  OBVIOUS
<1>4. p \in Seq(Entries)
  BY <1>1, <1>3
<1>5. Over(m, p \o w) = Over(Over(m, p), w)
  BY <1>4, OverCat
<1> QED BY <1>2, <1>3, <1>5

-----------------------------------------------------------------------------
(* What the entries of a list do to it *)

(* The words of a list. *)
LEMMA ListWords ==
  ASSUME NEW l \in {SetL, GetL}
  PROVE  /\ <<l.head, NULL>> \in HashAddr /\ <<l.tail, NULL>> \in HashAddr
         /\ \A b \in Blocks : <<l.next, b>> \in HashAddr /\ <<l.prev, b>> \in HashAddr
         /\ Kind(l.head) = Blocks \union {NULL} /\ Kind(l.tail) = Blocks \union {NULL}
         /\ Kind(l.next) = Blocks \union {NULL} /\ Kind(l.prev) = Blocks \union {NULL}
<1>1. /\ l.head \in HeadLinks /\ l.tail \in HeadLinks /\ l.next \in BlockLinks /\ l.prev \in BlockLinks
      /\ l.next \in BlockFields /\ l.prev \in BlockFields
  BY ListNames, FieldNames
<1> QED BY <1>1, HeadWord, BlockWord DEF Kind

(* An entry for a link of a list. *)
LEMMA HeadFits ==
  ASSUME NEW l \in {SetL, GetL}, NEW f \in {l.head, l.tail}, NEW v \in Blocks \union {NULL}
  PROVE  Fits(Up(f, NULL, v), Fields(l), 1)
<1>1. <<f, NULL>> \in HashAddr /\ v \in Kind(f) /\ f \in Fields(l)
  BY ListWords DEF Fields
<1> QED BY <1>1, FitsUp

LEMMA LinkFits ==
  ASSUME NEW l \in {SetL, GetL}, NEW f \in {l.next, l.prev}, NEW b \in Blocks, NEW v \in Blocks \union {NULL}
  PROVE  Fits(Up(f, b, v), Fields(l), 1)
<1>1. <<f, b>> \in HashAddr /\ v \in Kind(f) /\ f \in Fields(l)
  BY ListWords DEF Fields
<1> QED BY <1>1, FitsUp

LEMMA FitsSeq ==
  ASSUME NEW es, NEW F, NEW n, Fits(es, F, n)
  PROVE  es \in Seq(Entries) /\ Touches(es, F)
BY DEF Fits

(* One entry of a list changes one of its links. *)
HeadSet(o, m, l, v) ==
  /\ o[<<l.head, NULL>>] = v /\ o[<<l.tail, NULL>>] = m[<<l.tail, NULL>>]
  /\ \A x \in Blocks : o[<<l.next, x>>] = m[<<l.next, x>>] /\ o[<<l.prev, x>>] = m[<<l.prev, x>>]
TailSet(o, m, l, v) ==
  /\ o[<<l.head, NULL>>] = m[<<l.head, NULL>>] /\ o[<<l.tail, NULL>>] = v
  /\ \A x \in Blocks : o[<<l.next, x>>] = m[<<l.next, x>>] /\ o[<<l.prev, x>>] = m[<<l.prev, x>>]
NextSet(o, m, l, b, v) ==
  /\ o[<<l.head, NULL>>] = m[<<l.head, NULL>>] /\ o[<<l.tail, NULL>>] = m[<<l.tail, NULL>>]
  /\ o[<<l.next, b>>] = v /\ \A x \in Blocks : x # b => o[<<l.next, x>>] = m[<<l.next, x>>]
  /\ \A x \in Blocks : o[<<l.prev, x>>] = m[<<l.prev, x>>]
PrevSet(o, m, l, b, v) ==
  /\ o[<<l.head, NULL>>] = m[<<l.head, NULL>>] /\ o[<<l.tail, NULL>>] = m[<<l.tail, NULL>>]
  /\ o[<<l.prev, b>>] = v /\ \A x \in Blocks : x # b => o[<<l.prev, x>>] = m[<<l.prev, x>>]
  /\ \A x \in Blocks : o[<<l.next, x>>] = m[<<l.next, x>>]

LEMMA HeadStep ==
  ASSUME NEW l \in {SetL, GetL}, NEW m, NEW v
  PROVE  HeadSet(Over(m, Up(l.head, NULL, v)), m, l, v)
<1>1. /\ l.head # l.tail /\ l.head # l.next /\ l.head # l.prev
      /\ <<l.head, NULL>> \in HashAddr /\ <<l.tail, NULL>> \in HashAddr
      /\ \A x \in Blocks : <<l.next, x>> \in HashAddr /\ <<l.prev, x>> \in HashAddr
  BY ListWords, ListNames
<1>2. PICK o : o = Over(m, Up(l.head, NULL, v))
  OBVIOUS
<1>3. o[<<l.head, NULL>>] = v
  BY <1>1, <1>2, OverOneAt
<1>4. \A a \in HashAddr : a # <<l.head, NULL>> => o[a] = m[a]
  BY <1>2, OverOneElse
<1>5. o[<<l.tail, NULL>>] = m[<<l.tail, NULL>>]
  BY <1>1, <1>4
<1>6. \A x \in Blocks : o[<<l.next, x>>] = m[<<l.next, x>>] /\ o[<<l.prev, x>>] = m[<<l.prev, x>>]
  BY <1>1, <1>4
<1> QED BY <1>2, <1>3, <1>5, <1>6 DEF HeadSet

LEMMA TailStep ==
  ASSUME NEW l \in {SetL, GetL}, NEW m, NEW v
  PROVE  TailSet(Over(m, Up(l.tail, NULL, v)), m, l, v)
<1>1. /\ l.head # l.tail /\ l.tail # l.next /\ l.tail # l.prev
      /\ <<l.head, NULL>> \in HashAddr /\ <<l.tail, NULL>> \in HashAddr
      /\ \A x \in Blocks : <<l.next, x>> \in HashAddr /\ <<l.prev, x>> \in HashAddr
  BY ListWords, ListNames
<1>2. PICK o : o = Over(m, Up(l.tail, NULL, v))
  OBVIOUS
<1>3. o[<<l.tail, NULL>>] = v
  BY <1>1, <1>2, OverOneAt
<1>4. \A a \in HashAddr : a # <<l.tail, NULL>> => o[a] = m[a]
  BY <1>2, OverOneElse
<1>5. o[<<l.head, NULL>>] = m[<<l.head, NULL>>]
  BY <1>1, <1>4
<1>6. \A x \in Blocks : o[<<l.next, x>>] = m[<<l.next, x>>] /\ o[<<l.prev, x>>] = m[<<l.prev, x>>]
  BY <1>1, <1>4
<1> QED BY <1>2, <1>3, <1>5, <1>6 DEF TailSet

LEMMA NextStep ==
  ASSUME NEW l \in {SetL, GetL}, NEW m, NEW b \in Blocks, NEW v
  PROVE  NextSet(Over(m, Up(l.next, b, v)), m, l, b, v)
<1>1. /\ l.next # l.prev /\ l.next # l.head /\ l.next # l.tail
      /\ <<l.head, NULL>> \in HashAddr /\ <<l.tail, NULL>> \in HashAddr
      /\ \A x \in Blocks : <<l.next, x>> \in HashAddr /\ <<l.prev, x>> \in HashAddr
  BY ListWords, ListNames
<1>2. PICK o : o = Over(m, Up(l.next, b, v))
  OBVIOUS
<1>0. <<l.next, b>> \in HashAddr
  BY <1>1
<1>3. o[<<l.next, b>>] = v
  BY <1>0, <1>2, OverOneAt
<1>4. \A a \in HashAddr : a # <<l.next, b>> => o[a] = m[a]
  BY <1>2, OverOneElse
<1>5. o[<<l.head, NULL>>] = m[<<l.head, NULL>>] /\ o[<<l.tail, NULL>>] = m[<<l.tail, NULL>>]
  BY <1>1, <1>4
<1>6. \A x \in Blocks : o[<<l.prev, x>>] = m[<<l.prev, x>>]
  BY <1>1, <1>4
<1>7. \A x \in Blocks : x # b => o[<<l.next, x>>] = m[<<l.next, x>>]
  BY <1>1, <1>4
<1> QED BY <1>2, <1>3, <1>5, <1>6, <1>7 DEF NextSet

LEMMA PrevStep ==
  ASSUME NEW l \in {SetL, GetL}, NEW m, NEW b \in Blocks, NEW v
  PROVE  PrevSet(Over(m, Up(l.prev, b, v)), m, l, b, v)
<1>1. /\ l.next # l.prev /\ l.prev # l.head /\ l.prev # l.tail
      /\ <<l.head, NULL>> \in HashAddr /\ <<l.tail, NULL>> \in HashAddr
      /\ \A x \in Blocks : <<l.next, x>> \in HashAddr /\ <<l.prev, x>> \in HashAddr
  BY ListWords, ListNames
<1>2. PICK o : o = Over(m, Up(l.prev, b, v))
  OBVIOUS
<1>0. <<l.prev, b>> \in HashAddr
  BY <1>1
<1>3. o[<<l.prev, b>>] = v
  BY <1>0, <1>2, OverOneAt
<1>4. \A a \in HashAddr : a # <<l.prev, b>> => o[a] = m[a]
  BY <1>2, OverOneElse
<1>5. o[<<l.head, NULL>>] = m[<<l.head, NULL>>] /\ o[<<l.tail, NULL>>] = m[<<l.tail, NULL>>]
  BY <1>1, <1>4
<1>6. \A x \in Blocks : o[<<l.next, x>>] = m[<<l.next, x>>]
  BY <1>1, <1>4
<1>7. \A x \in Blocks : x # b => o[<<l.prev, x>>] = m[<<l.prev, x>>]
  BY <1>1, <1>4
<1> QED BY <1>2, <1>3, <1>5, <1>6, <1>7 DEF PrevSet

LEMMA SameList ==
  ASSUME NEW l \in {SetL, GetL}, NEW m, NEW n, Same(m, n, Fields(l))
  PROVE  /\ n[<<l.head, NULL>>] = m[<<l.head, NULL>>] /\ n[<<l.tail, NULL>>] = m[<<l.tail, NULL>>]
         /\ \A x \in Blocks : n[<<l.next, x>>] = m[<<l.next, x>>] /\ n[<<l.prev, x>>] = m[<<l.prev, x>>]
<1>1. /\ l.head \in Fields(l) /\ l.tail \in Fields(l) /\ l.next \in Fields(l) /\ l.prev \in Fields(l)
      /\ l.head \in HeadLinks /\ l.tail \in HeadLinks /\ l.next \in BlockFields /\ l.prev \in BlockFields
  BY ListNames, FieldNames DEF Fields
<1> QED BY <1>1, SameWords

LEMMA ListWithout ==
  ASSUME NEW l \in {SetL, GetL}, NEW m, NEW s, ListOK(m, l, s), NEW j \in DOMAIN s, NEW r,
         r[<<l.head, NULL>>] = (IF j = 1 THEN Nth(s, j + 1) ELSE m[<<l.head, NULL>>]),
         r[<<l.tail, NULL>>] = (IF j = Len(s) THEN Nth(s, j - 1) ELSE m[<<l.tail, NULL>>]),
         \A x \in Blocks :
           /\ r[<<l.next, x>>] = IF x = Nth(s, j - 1) THEN Nth(s, j + 1) ELSE m[<<l.next, x>>]
           /\ r[<<l.prev, x>>] = IF x = Nth(s, j + 1) THEN Nth(s, j - 1) ELSE m[<<l.prev, x>>]
  PROVE  ListOK(r, l, Without(s, j))
<1>1. Linear(m, l.next, l.prev, s) /\ m[<<l.head, NULL>>] = Nth(s, 1) /\ m[<<l.tail, NULL>>] = Nth(s, Len(s))
  BY DEF ListOK
<1>2. Linear(r, l.next, l.prev, Without(s, j))
  BY <1>1, LinearWithout
<1>3. Distinct(s)
  BY <1>1, LinearDistinct
<1>4. DOMAIN s = 1..Len(s) /\ Len(s) \in Nat /\ j \in 1..Len(s)
  BY <1>3, DistinctFacts
<1>5. PICK t : t = Without(s, j)
  OBVIOUS
<1>6. /\ Len(t) = Len(s) - 1 /\ DOMAIN t = 1..(Len(s) - 1)
      /\ \A i \in 1..(Len(s) - 1) : t[i] = IF i < j THEN s[i] ELSE s[i + 1]
  BY <1>3, <1>5, WithoutFacts
<1>7. Nth(t, 1) = IF j = 1 THEN Nth(s, j + 1) ELSE Nth(s, 1)
  BY <1>4, <1>6 DEF Nth
<1>8. Nth(t, Len(t)) = IF j = Len(s) THEN Nth(s, j - 1) ELSE Nth(s, Len(s))
  BY <1>4, <1>6 DEF Nth
<1> QED BY <1>1, <1>2, <1>5, <1>7, <1>8 DEF ListOK

LEMMA ListPlaces ==
  ASSUME NEW l \in {SetL, GetL}, NEW m, NEW s, ListOK(m, l, s), NEW j \in DOMAIN s
  PROVE  /\ s[j] \in Blocks /\ j \in 1..Len(s) /\ Len(s) \in Nat
         /\ m[<<l.prev, s[j]>>] = Nth(s, j - 1) /\ m[<<l.next, s[j]>>] = Nth(s, j + 1)
         /\ Nth(s, j - 1) \in Blocks \union {NULL} /\ Nth(s, j + 1) \in Blocks \union {NULL}
         /\ Nth(s, j - 1) = NULL <=> j = 1
         /\ Nth(s, j + 1) = NULL <=> j = Len(s)
         /\ m[<<l.head, NULL>>] = s[j] <=> j = 1
         /\ m[<<l.tail, NULL>>] = s[j] <=> j = Len(s)
         /\ Nth(s, j - 1) # s[j] /\ Nth(s, j + 1) # s[j]
         /\ Nth(s, j - 1) # NULL => Nth(s, j - 1) # Nth(s, j + 1)
         /\ s[1] \in Blocks /\ m[<<l.head, NULL>>] = s[1] /\ Nth(s, j + 1) # s[1]
<1>0. Distinct(s)
  BY LinearDistinct DEF ListOK
<1>1. /\ DOMAIN s = 1..Len(s) /\ Len(s) \in Nat
      /\ \A i \in 1..Len(s) : s[i] \in Blocks /\ s[i] # NULL
      /\ \A i, k \in 1..Len(s) : s[i] = s[k] => i = k
  BY <1>0, DistinctFacts
<1>2. m[<<l.prev, s[j]>>] = Nth(s, j - 1) /\ m[<<l.next, s[j]>>] = Nth(s, j + 1)
  BY DEF ListOK, Linear
<1>3. m[<<l.head, NULL>>] = s[1] /\ m[<<l.tail, NULL>>] = s[Len(s)]
  BY <1>1 DEF ListOK, Nth
<1>4. Nth(s, j - 1) = (IF j = 1 THEN NULL ELSE s[j - 1]) /\ Nth(s, j + 1) = IF j = Len(s) THEN NULL ELSE s[j + 1]
  BY <1>1 DEF Nth
<1>5. NULL \notin Blocks
  BY MapAssumption
<1> QED BY <1>1, <1>2, <1>3, <1>4, <1>5

LEMMA ListFits ==
  ASSUME NEW l \in {SetL, GetL}
  PROVE  /\ \A v \in Blocks \union {NULL} : /\ Fits(Up(l.head, NULL, v), Fields(l), 1)
                                            /\ Fits(Up(l.tail, NULL, v), Fields(l), 1)
         /\ \A x \in Blocks, v \in Blocks \union {NULL} : /\ Fits(Up(l.next, x, v), Fields(l), 1)
                                                          /\ Fits(Up(l.prev, x, v), Fields(l), 1)
BY HeadFits, LinkFits

LEMMA FitsTwo ==
  ASSUME NEW F, NEW u, NEW v, Fits(u, F, 1), Fits(v, F, 1)
  PROVE  Fits(u \o v, F, 2)
<1>1. Fits(u \o v, F, 1 + 1)
  BY FitsCat
<1> QED BY <1>1

LEMMA UnlinkEffect ==
  ASSUME NEW l \in {SetL, GetL}, NEW s, ListOK(mem, l, s), NEW j \in DOMAIN s,
         NEW n, Same(mem, n, Fields(l))
  PROVE  /\ Fits(Unlink(l, s[j]), Fields(l), 2)
         /\ ListOK(Over(n, Unlink(l, s[j])), l, Without(s, j))
<1>0. PICK b, p, q : b = s[j] /\ p = Nth(s, j - 1) /\ q = Nth(s, j + 1)
  OBVIOUS
<1>1. /\ b \in Blocks /\ j \in 1..Len(s) /\ Len(s) \in Nat
      /\ mem[<<l.prev, b>>] = p /\ mem[<<l.next, b>>] = q
      /\ p \in Blocks \union {NULL} /\ q \in Blocks \union {NULL}
      /\ p = NULL <=> j = 1
      /\ q = NULL <=> j = Len(s)
      /\ mem[<<l.head, NULL>>] = b <=> j = 1
      /\ mem[<<l.tail, NULL>>] = b <=> j = Len(s)
  BY <1>0, ListPlaces
<1>3. /\ n[<<l.head, NULL>>] = mem[<<l.head, NULL>>] /\ n[<<l.tail, NULL>>] = mem[<<l.tail, NULL>>]
      /\ \A x \in Blocks : n[<<l.next, x>>] = mem[<<l.next, x>>] /\ n[<<l.prev, x>>] = mem[<<l.prev, x>>]
  BY SameList
<1>9. NULL \notin Blocks
  BY MapAssumption
<1> DEFINE Does(r) ==
             /\ r[<<l.head, NULL>>] = (IF j = 1 THEN q ELSE mem[<<l.head, NULL>>])
             /\ r[<<l.tail, NULL>>] = (IF j = Len(s) THEN p ELSE mem[<<l.tail, NULL>>])
             /\ \A x \in Blocks :
                  /\ r[<<l.next, x>>] = IF x = p THEN q ELSE mem[<<l.next, x>>]
                  /\ r[<<l.prev, x>>] = IF x = q THEN p ELSE mem[<<l.prev, x>>]
<1>6. Fits(Unlink(l, b), Fields(l), 2) /\ Does(Over(n, Unlink(l, b)))
  <2>1. CASE j = 1 /\ j = Len(s)
    <3>0. PICK u, v : u = Up(l.head, NULL, NULL) /\ v = Up(l.tail, NULL, NULL)
      OBVIOUS
    <3>1. Unlink(l, b) = u \o v
      BY <1>1, <2>1, <3>0 DEF Unlink, H, B
    <3>2. Fits(u, Fields(l), 1) /\ Fits(v, Fields(l), 1)
      BY <3>0, ListFits
    <3>3. PICK o : o = Over(n, u)
      OBVIOUS
    <3>4. PICK r : r = Over(o, v)
      OBVIOUS
    <3>5. Over(n, u \o v) = r
      BY <3>2, <3>3, <3>4, OverCat, FitsSeq
    <3>6. HeadSet(o, n, l, NULL) /\ TailSet(r, o, l, NULL)
      BY <3>0, <3>3, <3>4, HeadStep, TailStep
    <3>7. Does(r)
      BY <1>1, <1>3, <1>9, <2>1, <3>6 DEF HeadSet, TailSet
    <3> QED BY <3>1, <3>2, <3>5, <3>7, FitsTwo
  <2>2. CASE j = 1 /\ j # Len(s)
    <3>0. PICK u, v : u = Up(l.head, NULL, q) /\ v = Up(l.prev, q, NULL)
      OBVIOUS
    <3>1. Unlink(l, b) = u \o v
      BY <1>1, <2>2, <3>0 DEF Unlink, H, B
    <3>a. q \in Blocks
      BY <1>1, <2>2
    <3>2. Fits(u, Fields(l), 1) /\ Fits(v, Fields(l), 1)
      BY <3>0, <3>a, ListFits
    <3>3. PICK o : o = Over(n, u)
      OBVIOUS
    <3>4. PICK r : r = Over(o, v)
      OBVIOUS
    <3>5. Over(n, u \o v) = r
      BY <3>2, <3>3, <3>4, OverCat, FitsSeq
    <3>6. HeadSet(o, n, l, q) /\ PrevSet(r, o, l, q, NULL)
      BY <3>0, <3>a, <3>3, <3>4, HeadStep, PrevStep
    <3>7. Does(r)
      BY <1>1, <1>3, <1>9, <2>2, <3>6 DEF HeadSet, PrevSet
    <3> QED BY <3>1, <3>2, <3>5, <3>7, FitsTwo
  <2>3. CASE j # 1 /\ j = Len(s)
    <3>0. PICK u, v : u = Up(l.tail, NULL, p) /\ v = Up(l.next, p, NULL)
      OBVIOUS
    <3>1. Unlink(l, b) = u \o v
      BY <1>1, <2>3, <3>0 DEF Unlink, H, B
    <3>a. p \in Blocks
      BY <1>1, <2>3
    <3>2. Fits(u, Fields(l), 1) /\ Fits(v, Fields(l), 1)
      BY <3>0, <3>a, ListFits
    <3>3. PICK o : o = Over(n, u)
      OBVIOUS
    <3>4. PICK r : r = Over(o, v)
      OBVIOUS
    <3>5. Over(n, u \o v) = r
      BY <3>2, <3>3, <3>4, OverCat, FitsSeq
    <3>6. TailSet(o, n, l, p) /\ NextSet(r, o, l, p, NULL)
      BY <3>0, <3>a, <3>3, <3>4, TailStep, NextStep
    <3>7. Does(r)
      BY <1>1, <1>3, <1>9, <2>3, <3>6 DEF TailSet, NextSet
    <3> QED BY <3>1, <3>2, <3>5, <3>7, FitsTwo
  <2>4. CASE j # 1 /\ j # Len(s)
    <3>0. PICK u, v : u = Up(l.next, p, q) /\ v = Up(l.prev, q, p)
      OBVIOUS
    <3>1. Unlink(l, b) = u \o v
      BY <1>1, <2>4, <3>0 DEF Unlink, H, B
    <3>a. p \in Blocks /\ q \in Blocks
      BY <1>1, <2>4
    <3>2. Fits(u, Fields(l), 1) /\ Fits(v, Fields(l), 1)
      BY <3>0, <3>a, ListFits
    <3>3. PICK o : o = Over(n, u)
      OBVIOUS
    <3>4. PICK r : r = Over(o, v)
      OBVIOUS
    <3>5. Over(n, u \o v) = r
      BY <3>2, <3>3, <3>4, OverCat, FitsSeq
    <3>6. NextSet(o, n, l, p, q) /\ PrevSet(r, o, l, q, p)
      BY <3>0, <3>a, <3>3, <3>4, NextStep, PrevStep
    <3>7. Does(r)
      BY <1>1, <1>3, <1>9, <2>4, <3>6 DEF PrevSet, NextSet
    <3> QED BY <3>1, <3>2, <3>5, <3>7, FitsTwo
  <2> QED BY <2>1, <2>2, <2>3, <2>4
<1>7. PICK r : r = Over(n, Unlink(l, b))
  OBVIOUS
<1>8. ListOK(r, l, Without(s, j))
  <2>1. /\ r[<<l.head, NULL>>] = (IF j = 1 THEN q ELSE mem[<<l.head, NULL>>])
        /\ r[<<l.tail, NULL>>] = (IF j = Len(s) THEN p ELSE mem[<<l.tail, NULL>>])
        /\ \A x \in Blocks :
             /\ r[<<l.next, x>>] = IF x = p THEN q ELSE mem[<<l.next, x>>]
             /\ r[<<l.prev, x>>] = IF x = q THEN p ELSE mem[<<l.prev, x>>]
    BY <1>6, <1>7
  <2> QED BY <2>1, <1>0, ListWithout
<1> QED BY <1>0, <1>6, <1>7, <1>8

LEMMA FitsCat5 ==
  ASSUME NEW u1, NEW u2, NEW u3, NEW u4, NEW u5, NEW F,
         Fits(u1, F, 1), Fits(u2, F, 1), Fits(u3, F, 1), Fits(u4, F, 1), Fits(u5, F, 1)
  PROVE  /\ Fits(u1 \o u2, F, 2) /\ Fits(u1 \o u2 \o u3, F, 3) /\ Fits(u1 \o u2 \o u3 \o u4, F, 4)
         /\ Fits(u1 \o u2 \o u3 \o u4 \o u5, F, 5)
<1>1. PICK w2 : w2 = u1 \o u2
  OBVIOUS
<1>2. PICK w3 : w3 = w2 \o u3
  OBVIOUS
<1>3. PICK w4 : w4 = w3 \o u4
  OBVIOUS
<1>4. Fits(w2, F, 2)
  BY <1>1, FitsTwo
<1>5. Fits(w3, F, 3)
  <2>1. Fits(w2 \o u3, F, 2 + 1)
    BY <1>4, FitsCat
  <2> QED BY <1>2, <2>1
<1>6. Fits(w4, F, 4)
  <2>1. Fits(w3 \o u4, F, 3 + 1)
    BY <1>5, FitsCat
  <2> QED BY <1>3, <2>1
<1>7. Fits(w4 \o u5, F, 5)
  <2>1. Fits(w4 \o u5, F, 4 + 1)
    BY <1>6, FitsCat
  <2> QED BY <2>1
<1> QED BY <1>1, <1>2, <1>3, <1>4, <1>5, <1>6, <1>7

LEMMA FitsCat6 ==
  ASSUME NEW u1, NEW u2, NEW u3, NEW u4, NEW u5, NEW u6, NEW F,
         Fits(u1, F, 1), Fits(u2, F, 1), Fits(u3, F, 1), Fits(u4, F, 1), Fits(u5, F, 1), Fits(u6, F, 1)
  PROVE  Fits(u1 \o u2 \o u3 \o u4 \o u5 \o u6, F, 6)
<1>1. PICK w5 : w5 = u1 \o u2 \o u3 \o u4 \o u5
  OBVIOUS
<1>2. Fits(w5, F, 5)
  BY <1>1, FitsCat5
<1>3. Fits(w5 \o u6, F, 5 + 1)
  BY <1>2, FitsCat
<1> QED BY <1>1, <1>3

LEMMA OverAll6 ==
  ASSUME NEW m, NEW u1, NEW u2, NEW u3, NEW u4, NEW u5, NEW u6, NEW F,
         Fits(u1, F, 1), Fits(u2, F, 1), Fits(u3, F, 1), Fits(u4, F, 1), Fits(u5, F, 1), Fits(u6, F, 1)
  PROVE  Over(m, u1 \o u2 \o u3 \o u4 \o u5 \o u6)
           = Over(Over(Over(Over(Over(Over(m, u1), u2), u3), u4), u5), u6)
<1>1. PICK w2, w3, w4, w5 :
        w2 = u1 \o u2 /\ w3 = w2 \o u3 /\ w4 = w3 \o u4 /\ w5 = w4 \o u5
  OBVIOUS
<1>2. Fits(w2, F, 2) /\ Fits(w3, F, 3) /\ Fits(w4, F, 4) /\ Fits(w5, F, 5)
  BY <1>1, FitsCat5
<1>3. Over(m, w2) = Over(Over(m, u1), u2)
  BY <1>1, OverCat, FitsSeq
<1>4. Over(m, w3) = Over(Over(m, w2), u3)
  BY <1>1, <1>2, OverCat, FitsSeq
<1>5. Over(m, w4) = Over(Over(m, w3), u4)
  BY <1>1, <1>2, OverCat, FitsSeq
<1>6. Over(m, w5) = Over(Over(m, w4), u5)
  BY <1>1, <1>2, OverCat, FitsSeq
<1>7. Over(m, w5 \o u6) = Over(Over(m, w5), u6)
  BY <1>2, OverCat, FitsSeq
<1> QED BY <1>1, <1>3, <1>4, <1>5, <1>6, <1>7

LEMMA ListMoved ==
  ASSUME NEW l \in {SetL, GetL}, NEW m, NEW s, ListOK(m, l, s), NEW j \in DOMAIN s, j # 1, NEW r,
         r[<<l.head, NULL>>] = s[j],
         r[<<l.tail, NULL>>] = (IF j = Len(s) THEN Nth(s, j - 1) ELSE m[<<l.tail, NULL>>]),
         r[<<l.next, s[j]>>] = s[1], r[<<l.prev, s[j]>>] = NULL,
         \A x \in Blocks \ {s[j]} :
           /\ r[<<l.next, x>>] = IF x = Nth(s, j - 1) THEN Nth(s, j + 1) ELSE m[<<l.next, x>>]
           /\ r[<<l.prev, x>>] = IF x = s[1] THEN s[j]
                                 ELSE IF x = Nth(s, j + 1) THEN Nth(s, j - 1) ELSE m[<<l.prev, x>>]
  PROVE  ListOK(r, l, Moved(s, j))
<1>1. Linear(m, l.next, l.prev, s) /\ m[<<l.head, NULL>>] = Nth(s, 1) /\ m[<<l.tail, NULL>>] = Nth(s, Len(s))
  BY DEF ListOK
<1>2. Distinct(s)
  BY <1>1, LinearDistinct
<1>3. DOMAIN s = 1..Len(s) /\ Len(s) \in Nat /\ j \in 2..Len(s)
  BY <1>2, DistinctFacts
<1>4. Nth(s, j - 1) = s[j - 1]
  BY <1>3 DEF Nth
<1>5. Linear(r, l.next, l.prev, Moved(s, j))
  BY <1>1, <1>4, LinearMoved
<1>6. PICK t : t = Moved(s, j)
  OBVIOUS
<1>7. /\ Len(t) = Len(s) /\ DOMAIN t = 1..Len(s)
      /\ \A i \in 1..Len(s) : t[i] = IF i = 1 THEN s[j] ELSE IF i <= j THEN s[i - 1] ELSE s[i]
  BY <1>2, <1>6, MovedFacts
<1>8. Nth(t, 1) = s[j] /\ Nth(t, Len(t)) = IF j = Len(s) THEN Nth(s, j - 1) ELSE Nth(s, Len(s))
  BY <1>3, <1>7 DEF Nth
<1> QED BY <1>1, <1>5, <1>6, <1>8 DEF ListOK

LEMMA MoveToHeadEffect ==
  ASSUME NEW l \in {SetL, GetL}, NEW s, ListOK(mem, l, s), NEW j \in DOMAIN s, j # 1,
         NEW n, Same(mem, n, Fields(l))
  PROVE  /\ Fits(MoveToHead(l, s[j]), Fields(l), 6)
         /\ ListOK(Over(n, MoveToHead(l, s[j])), l, Moved(s, j))
<1>0. PICK b, p, q, h : b = s[j] /\ p = Nth(s, j - 1) /\ q = Nth(s, j + 1) /\ h = s[1]
  OBVIOUS
<1>1. /\ b \in Blocks /\ j \in 1..Len(s) /\ Len(s) \in Nat /\ h \in Blocks /\ h # b
      /\ mem[<<l.prev, b>>] = p /\ mem[<<l.next, b>>] = q /\ mem[<<l.head, NULL>>] = h
      /\ p \in Blocks /\ q \in Blocks \union {NULL} /\ p # b /\ q # b /\ q # h /\ p # q
      /\ q = NULL <=> j = Len(s)
  BY <1>0, ListPlaces
<1>2. /\ n[<<l.head, NULL>>] = mem[<<l.head, NULL>>] /\ n[<<l.tail, NULL>>] = mem[<<l.tail, NULL>>]
      /\ \A x \in Blocks : n[<<l.next, x>>] = mem[<<l.next, x>>] /\ n[<<l.prev, x>>] = mem[<<l.prev, x>>]
  BY SameList
<1>3. NULL \notin Blocks
  BY MapAssumption
<1>4. PICK u1, u2, u3, u4, u5, u6 :
        /\ u1 = Up(l.next, b, h) /\ u2 = Up(l.prev, h, b) /\ u3 = Up(l.head, NULL, b)
        /\ u4 = Up(l.prev, b, NULL) /\ u5 = Up(l.next, p, q)
        /\ u6 = IF q # NULL THEN Up(l.prev, q, p) ELSE Up(l.tail, NULL, p)
  OBVIOUS
<1>5. MoveToHead(l, b) = u1 \o u2 \o u3 \o u4 \o u5 \o u6
  BY <1>1, <1>4 DEF MoveToHead, H, B
<1>6. /\ Fits(u1, Fields(l), 1) /\ Fits(u2, Fields(l), 1) /\ Fits(u3, Fields(l), 1)
      /\ Fits(u4, Fields(l), 1) /\ Fits(u5, Fields(l), 1) /\ Fits(u6, Fields(l), 1)
  <2>1. /\ Fits(u1, Fields(l), 1) /\ Fits(u2, Fields(l), 1) /\ Fits(u3, Fields(l), 1)
        /\ Fits(u4, Fields(l), 1) /\ Fits(u5, Fields(l), 1)
    BY <1>1, <1>4, ListFits
  <2>2. Fits(u6, Fields(l), 1)
    <3>1. CASE q # NULL
      BY <1>1, <1>4, <3>1, ListFits
    <3>2. CASE q = NULL
      BY <1>1, <1>4, <3>2, ListFits
    <3> QED BY <3>1, <3>2
  <2> QED BY <2>1, <2>2
<1>7. PICK o1 : o1 = Over(n, u1)
  OBVIOUS
<1>8. PICK o2 : o2 = Over(o1, u2)
  OBVIOUS
<1>9. PICK o3 : o3 = Over(o2, u3)
  OBVIOUS
<1>10. PICK o4 : o4 = Over(o3, u4)
  OBVIOUS
<1>11. PICK o5 : o5 = Over(o4, u5)
  OBVIOUS
<1>12. PICK r : r = Over(o5, u6)
  OBVIOUS
<1>13. /\ Fits(MoveToHead(l, b), Fields(l), 6)
       /\ Over(n, MoveToHead(l, b)) = r
  <2>1. Fits(u1 \o u2 \o u3 \o u4 \o u5 \o u6, Fields(l), 6)
    BY <1>6, FitsCat6
  <2>2. Over(n, u1 \o u2 \o u3 \o u4 \o u5 \o u6)
          = Over(Over(Over(Over(Over(Over(n, u1), u2), u3), u4), u5), u6)
    BY <1>6, OverAll6
  <2> QED BY <2>1, <2>2, <1>5, <1>7, <1>8, <1>9, <1>10, <1>11, <1>12
<1>14. /\ NextSet(o1, n, l, b, h) /\ PrevSet(o2, o1, l, h, b) /\ HeadSet(o3, o2, l, b)
       /\ PrevSet(o4, o3, l, b, NULL) /\ NextSet(o5, o4, l, p, q)
  BY <1>1, <1>4, <1>7, <1>8, <1>9, <1>10, <1>11, NextStep, PrevStep, HeadStep
<1>15. /\ o5[<<l.head, NULL>>] = b /\ o5[<<l.tail, NULL>>] = mem[<<l.tail, NULL>>]
       /\ o5[<<l.next, b>>] = h /\ o5[<<l.prev, b>>] = NULL
       /\ \A x \in Blocks \ {b} :
            /\ o5[<<l.next, x>>] = IF x = p THEN q ELSE mem[<<l.next, x>>]
            /\ o5[<<l.prev, x>>] = IF x = h THEN b ELSE mem[<<l.prev, x>>]
  BY <1>1, <1>2, <1>14 DEF NextSet, PrevSet, HeadSet
<1>16. /\ r[<<l.head, NULL>>] = b
       /\ r[<<l.tail, NULL>>] = (IF j = Len(s) THEN p ELSE mem[<<l.tail, NULL>>])
       /\ r[<<l.next, b>>] = h /\ r[<<l.prev, b>>] = NULL
       /\ \A x \in Blocks \ {b} :
            /\ r[<<l.next, x>>] = IF x = p THEN q ELSE mem[<<l.next, x>>]
            /\ r[<<l.prev, x>>] = IF x = h THEN b ELSE IF x = q THEN p ELSE mem[<<l.prev, x>>]
  <2>1. CASE q # NULL
    <3>1. PrevSet(r, o5, l, q, p)
      BY <1>1, <1>4, <1>12, <2>1, PrevStep
    <3> QED BY <1>1, <1>15, <2>1, <3>1 DEF PrevSet
  <2>2. CASE q = NULL
    <3>1. TailSet(r, o5, l, p)
      BY <1>4, <1>12, <2>2, TailStep
    <3> QED BY <1>1, <1>3, <1>15, <2>2, <3>1 DEF TailSet
  <2> QED BY <2>1, <2>2
<1>17. ListOK(r, l, Moved(s, j))
  BY <1>0, <1>16, ListMoved
<1> QED BY <1>0, <1>13, <1>17

LEMMA TailToHeadEffect ==
  ASSUME NEW l \in {SetL, GetL}, NEW s, ListOK(mem, l, s), NEW j \in DOMAIN s, j # 1, Nth(s, j + 1) = NULL,
         NEW n, Same(mem, n, Fields(l))
  PROVE  /\ Fits(TailToHead(l, s[j]), Fields(l), 6)
         /\ ListOK(Over(n, TailToHead(l, s[j])), l, Moved(s, j))
<1>0. PICK b, p, q, h : b = s[j] /\ p = Nth(s, j - 1) /\ q = Nth(s, j + 1) /\ h = s[1]
  OBVIOUS
<1>a. /\ b \in Blocks /\ j \in 1..Len(s) /\ Len(s) \in Nat /\ h \in Blocks /\ h # b
      /\ mem[<<l.prev, b>>] = p /\ mem[<<l.next, b>>] = q /\ mem[<<l.head, NULL>>] = h
      /\ p \in Blocks /\ q \in Blocks \union {NULL} /\ p # b /\ q # b /\ q # h /\ p # q
      /\ q = NULL <=> j = Len(s)
  BY <1>0, ListPlaces
<1>1. /\ b \in Blocks /\ h \in Blocks /\ h # b
      /\ mem[<<l.prev, b>>] = p /\ mem[<<l.head, NULL>>] = h
      /\ p \in Blocks /\ p # b /\ Nth(s, j + 1) = NULL /\ j = Len(s)
  BY <1>0, <1>a
<1>2. /\ n[<<l.head, NULL>>] = mem[<<l.head, NULL>>] /\ n[<<l.tail, NULL>>] = mem[<<l.tail, NULL>>]
      /\ \A x \in Blocks : n[<<l.next, x>>] = mem[<<l.next, x>>] /\ n[<<l.prev, x>>] = mem[<<l.prev, x>>]
  BY SameList
<1>3. NULL \notin Blocks
  BY MapAssumption
<1>4. PICK u1, u2, u3, u4, u5, u6 :
        /\ u1 = Up(l.tail, NULL, p) /\ u2 = Up(l.next, p, NULL) /\ u3 = Up(l.prev, b, NULL)
        /\ u4 = Up(l.next, b, h) /\ u5 = Up(l.prev, h, b) /\ u6 = Up(l.head, NULL, b)
  OBVIOUS
<1>5. TailToHead(l, b) = u1 \o u2 \o u3 \o u4 \o u5 \o u6
  BY <1>1, <1>4 DEF TailToHead, H, B
<1>6. /\ Fits(u1, Fields(l), 1) /\ Fits(u2, Fields(l), 1) /\ Fits(u3, Fields(l), 1)
      /\ Fits(u4, Fields(l), 1) /\ Fits(u5, Fields(l), 1) /\ Fits(u6, Fields(l), 1)
  BY <1>1, <1>4, ListFits
<1>7. PICK o1 : o1 = Over(n, u1)
  OBVIOUS
<1>8. PICK o2 : o2 = Over(o1, u2)
  OBVIOUS
<1>9. PICK o3 : o3 = Over(o2, u3)
  OBVIOUS
<1>10. PICK o4 : o4 = Over(o3, u4)
  OBVIOUS
<1>11. PICK o5 : o5 = Over(o4, u5)
  OBVIOUS
<1>12. PICK r : r = Over(o5, u6)
  OBVIOUS
<1>13. /\ Fits(TailToHead(l, b), Fields(l), 6)
       /\ Over(n, TailToHead(l, b)) = r
  <2>1. Fits(u1 \o u2 \o u3 \o u4 \o u5 \o u6, Fields(l), 6)
    BY <1>6, FitsCat6
  <2>2. Over(n, u1 \o u2 \o u3 \o u4 \o u5 \o u6)
          = Over(Over(Over(Over(Over(Over(n, u1), u2), u3), u4), u5), u6)
    BY <1>6, OverAll6
  <2> QED BY <2>1, <2>2, <1>5, <1>7, <1>8, <1>9, <1>10, <1>11, <1>12
<1>14. /\ TailSet(o1, n, l, p) /\ NextSet(o2, o1, l, p, NULL) /\ PrevSet(o3, o2, l, b, NULL)
       /\ NextSet(o4, o3, l, b, h) /\ PrevSet(o5, o4, l, h, b) /\ HeadSet(r, o5, l, b)
  BY <1>1, <1>4, <1>7, <1>8, <1>9, <1>10, <1>11, <1>12, NextStep, PrevStep, HeadStep, TailStep
<1>16. /\ r[<<l.head, NULL>>] = b /\ r[<<l.tail, NULL>>] = p
       /\ r[<<l.next, b>>] = h /\ r[<<l.prev, b>>] = NULL
       /\ \A x \in Blocks \ {b} :
            /\ r[<<l.next, x>>] = IF x = p THEN NULL ELSE mem[<<l.next, x>>]
            /\ r[<<l.prev, x>>] = IF x = h THEN b ELSE mem[<<l.prev, x>>]
  BY <1>1, <1>2, <1>14 DEF NextSet, PrevSet, HeadSet, TailSet
<1>17. ListOK(r, l, Moved(s, j))
  <2>1. /\ r[<<l.head, NULL>>] = s[j]
        /\ r[<<l.tail, NULL>>] = (IF j = Len(s) THEN Nth(s, j - 1) ELSE mem[<<l.tail, NULL>>])
        /\ r[<<l.next, s[j]>>] = s[1] /\ r[<<l.prev, s[j]>>] = NULL
        /\ \A x \in Blocks \ {s[j]} :
             /\ r[<<l.next, x>>] = IF x = Nth(s, j - 1) THEN Nth(s, j + 1) ELSE mem[<<l.next, x>>]
             /\ r[<<l.prev, x>>] = IF x = s[1] THEN s[j]
                                   ELSE IF x = Nth(s, j + 1) THEN Nth(s, j - 1) ELSE mem[<<l.prev, x>>]
    BY <1>0, <1>1, <1>3, <1>16
  <2> QED BY <2>1, ListMoved
<1> QED BY <1>0, <1>13, <1>17

LEMMA ListPushed ==
  ASSUME NEW l \in {SetL, GetL}, NEW m, NEW s, ListOK(m, l, s), NEW b \in Blocks, b \notin Elems(s), NEW r,
         r[<<l.head, NULL>>] = b,
         r[<<l.tail, NULL>>] = (IF Nth(s, 1) = NULL THEN b ELSE m[<<l.tail, NULL>>]),
         r[<<l.next, b>>] = Nth(s, 1) /\ r[<<l.prev, b>>] = NULL,
         \A x \in Blocks \ {b} :
           /\ r[<<l.next, x>>] = m[<<l.next, x>>]
           /\ r[<<l.prev, x>>] = IF x = Nth(s, 1) THEN b ELSE m[<<l.prev, x>>]
  PROVE  ListOK(r, l, Pushed(s, b))
<1>1. Linear(m, l.next, l.prev, s) /\ m[<<l.tail, NULL>>] = Nth(s, Len(s))
  BY DEF ListOK
<1>2. Distinct(s)
  BY <1>1, LinearDistinct
<1>3. DOMAIN s = 1..Len(s) /\ Len(s) \in Nat /\ \A i \in 1..Len(s) : s[i] # NULL
  BY <1>2, DistinctFacts
<1>5. Linear(r, l.next, l.prev, Pushed(s, b))
  <2>1. PushSet(r, m, l.next, l.prev, s, b)
    BY DEF PushSet
  <2> QED BY <1>1, <2>1, LinearPushed
<1>6. PICK t : t = Pushed(s, b)
  OBVIOUS
<1>7. /\ Len(t) = Len(s) + 1 /\ DOMAIN t = 1..(Len(s) + 1)
      /\ \A i \in 1..(Len(s) + 1) : t[i] = IF i = 1 THEN b ELSE s[i - 1]
  BY <1>2, <1>6, PushedFacts
<1>8. Nth(t, 1) = b /\ Nth(t, Len(t)) = IF Nth(s, 1) = NULL THEN b ELSE Nth(s, Len(s))
  BY <1>3, <1>7 DEF Nth
<1> QED BY <1>1, <1>5, <1>6, <1>8 DEF ListOK

LEMMA PutFirstEffect ==
  ASSUME NEW l \in {SetL, GetL}, NEW s, ListOK(mem, l, s), NEW b \in Blocks, b \notin Elems(s),
         mem[<<l.next, b>>] = NULL, mem[<<l.prev, b>>] = NULL,
         NEW n, Same(mem, n, Fields(l))
  PROVE  /\ Fits(PutFirst(l, b), Fields(l), 3)
         /\ ListOK(Over(n, PutFirst(l, b)), l, Pushed(s, b))
<1>0. PICK h : h = Nth(s, 1)
  OBVIOUS
<1>1. mem[<<l.head, NULL>>] = h /\ h \in Blocks \union {NULL} /\ h # b
  <2>1. Distinct(s) /\ mem[<<l.head, NULL>>] = h
    BY <1>0, LinearDistinct DEF ListOK
  <2>2. h \in Elems(s) \union {NULL} /\ Elems(s) \subseteq Blocks
    BY <1>0, <2>1, DistinctFacts DEF Nth, Elems
  <2>3. NULL \notin Blocks
    BY MapAssumption
  <2> QED BY <2>1, <2>2, <2>3
<1>2. /\ n[<<l.head, NULL>>] = mem[<<l.head, NULL>>] /\ n[<<l.tail, NULL>>] = mem[<<l.tail, NULL>>]
      /\ \A x \in Blocks : n[<<l.next, x>>] = mem[<<l.next, x>>] /\ n[<<l.prev, x>>] = mem[<<l.prev, x>>]
  BY SameList
<1>3. NULL \notin Blocks
  BY MapAssumption
<1> DEFINE Does(r) ==
             /\ r[<<l.head, NULL>>] = b
             /\ r[<<l.tail, NULL>>] = (IF h = NULL THEN b ELSE mem[<<l.tail, NULL>>])
             /\ r[<<l.next, b>>] = h /\ r[<<l.prev, b>>] = NULL
             /\ \A x \in Blocks \ {b} :
                  /\ r[<<l.next, x>>] = mem[<<l.next, x>>]
                  /\ r[<<l.prev, x>>] = IF x = h THEN b ELSE mem[<<l.prev, x>>]
<1>4. Fits(PutFirst(l, b), Fields(l), 3) /\ Does(Over(n, PutFirst(l, b)))
  <2>1. CASE h = NULL
    <3>0. PICK u, v : u = Up(l.head, NULL, b) /\ v = Up(l.tail, NULL, b)
      OBVIOUS
    <3>1. PutFirst(l, b) = u \o v
      BY <1>1, <2>1, <3>0 DEF PutFirst, H
    <3>2. Fits(u, Fields(l), 1) /\ Fits(v, Fields(l), 1)
      BY <3>0, ListFits
    <3>3. PICK o : o = Over(n, u)
      OBVIOUS
    <3>4. PICK r : r = Over(o, v)
      OBVIOUS
    <3>5. Over(n, u \o v) = r
      BY <3>2, <3>3, <3>4, OverCat, FitsSeq
    <3>6. HeadSet(o, n, l, b) /\ TailSet(r, o, l, b)
      BY <3>0, <3>3, <3>4, HeadStep, TailStep
    <3>7. Does(r)
      BY <1>1, <1>2, <1>3, <2>1, <3>6 DEF HeadSet, TailSet
    <3>8. Fits(u \o v, Fields(l), 2)
      BY <3>2, FitsTwo
    <3>9. Fits(u \o v, Fields(l), 3)
      BY <3>8, FitsMore
    <3> QED BY <3>1, <3>5, <3>7, <3>9
  <2>2. CASE h # NULL
    <3>0. PICK u, v, w : u = Up(l.next, b, h) /\ v = Up(l.prev, h, b) /\ w = Up(l.head, NULL, b)
      OBVIOUS
    <3>1. PutFirst(l, b) = u \o v \o w
      BY <1>1, <2>2, <3>0 DEF PutFirst, H
    <3>2. Fits(u, Fields(l), 1) /\ Fits(v, Fields(l), 1) /\ Fits(w, Fields(l), 1) /\ h \in Blocks
      BY <1>1, <2>2, <3>0, ListFits
    <3>3. PICK o1 : o1 = Over(n, u)
      OBVIOUS
    <3>a. PICK o : o = Over(o1, v)
      OBVIOUS
    <3>4. PICK r : r = Over(o, w)
      OBVIOUS
    <3>5. Over(n, u \o v \o w) = r
      BY <3>2, <3>3, <3>4, <3>a, OverCat3, FitsSeq
    <3>6. NextSet(o1, n, l, b, h) /\ PrevSet(o, o1, l, h, b) /\ HeadSet(r, o, l, b)
      BY <3>0, <3>2, <3>3, <3>4, <3>a, HeadStep, NextStep, PrevStep
    <3>7. Does(r)
      BY <1>1, <1>2, <1>3, <2>2, <3>6 DEF HeadSet, NextSet, PrevSet
    <3>8. Fits(u \o v, Fields(l), 2)
      BY <3>2, FitsTwo
    <3>9. PICK uv : uv = u \o v
      OBVIOUS
    <3>10. Fits(uv \o w, Fields(l), 2 + 1)
      BY <3>2, <3>8, <3>9, FitsCat
    <3>11. Fits(u \o v \o w, Fields(l), 3)
      BY <3>9, <3>10
    <3> QED BY <3>1, <3>5, <3>7, <3>11
  <2> QED BY <2>1, <2>2
<1>5. PICK r : r = Over(n, PutFirst(l, b))
  OBVIOUS
<1>6. Does(r)
  BY <1>4, <1>5
<1>7. ListOK(r, l, Pushed(s, b))
  BY <1>0, <1>6, ListPushed
<1> QED BY <1>4, <1>5, <1>7

-----------------------------------------------------------------------------
(* What the entries of a chain do to it *)

WordSet(o, m, f, x, v) == o[<<f, x>>] = v /\ \A a \in HashAddr : a # <<f, x>> => o[a] = m[a]
WordSetIf(o, m, c, f, x, v) ==
  (c => o[<<f, x>>] = v) /\ \A a \in HashAddr : ~(c /\ a = <<f, x>>) => o[a] = m[a]

LEMMA OneWord ==
  ASSUME NEW m, NEW f, NEW x, NEW v, <<f, x>> \in HashAddr
  PROVE  WordSet(Over(m, Up(f, x, v)), m, f, x, v)
<1>1. Over(m, Up(f, x, v))[<<f, x>>] = v
  BY OverOneAt
<1>2. \A a \in HashAddr : a # <<f, x>> => Over(m, Up(f, x, v))[a] = m[a]
  BY OverOneElse
<1> QED BY <1>1, <1>2 DEF WordSet

LEMMA WhenWord ==
  ASSUME NEW m, NEW c \in BOOLEAN, NEW f, NEW x, NEW v, c => <<f, x>> \in HashAddr
  PROVE  WordSetIf(Over(m, When(c, Up(f, x, v))), m, c, f, x, v)
<1>1. CASE c
  <2>1. WordSet(Over(m, Up(f, x, v)), m, f, x, v)
    BY <1>1, OneWord
  <2>2. When(c, Up(f, x, v)) = Up(f, x, v)
    BY <1>1 DEF When
  <2> QED BY <1>1, <2>1, <2>2 DEF WordSet, WordSetIf
<1>2. CASE ~c
  <2>1. When(c, Up(f, x, v)) = <<>>
    BY <1>2 DEF When
  <2>2. \A a \in HashAddr : Over(m, <<>>)[a] = m[a]
    BY OverNone
  <2> QED BY <1>2, <2>1, <2>2 DEF WordSetIf
<1> QED BY <1>1, <1>2

LEMMA ChainWords ==
  /\ \A x \in Blocks : <<"blockNext", x>> \in HashAddr /\ <<"blockPrev", x>> \in HashAddr
                       /\ <<"index", x>> \in HashAddr
  /\ \A i \in Buckets : <<"blockAddr", i>> \in HashAddr /\ <<"listCount", i>> \in HashAddr
  /\ Kind("blockNext") = Blocks \union {NULL} /\ Kind("blockPrev") = Blocks \union {NULL}
  /\ Kind("blockAddr") = Blocks \union {NULL} /\ Kind("listCount") = 0..MaxCount
<1>1. \A x \in Blocks : <<"blockNext", x>> \in HashAddr /\ <<"blockPrev", x>> \in HashAddr
                       /\ <<"index", x>> \in HashAddr
  BY BlockWord DEF BlockFields, BlockLinks
<1>2. \A i \in Buckets : <<"blockAddr", i>> \in HashAddr /\ <<"listCount", i>> \in HashAddr
  BY BucketWord
<1>3. /\ Kind("blockNext") = Blocks \union {NULL} /\ Kind("blockPrev") = Blocks \union {NULL}
      /\ Kind("blockAddr") = Blocks \union {NULL} /\ Kind("listCount") = 0..MaxCount
  BY DEF Kind, HeadLinks, BlockLinks, HeadCounts
<1> QED BY <1>1, <1>2, <1>3

LEMMA ChainFits ==
  /\ \A x \in Blocks, v \in Blocks \union {NULL} :
       Fits(Up("blockNext", x, v), ChainFields, 1) /\ Fits(Up("blockPrev", x, v), ChainFields, 1)
  /\ \A i \in Buckets, v \in Blocks \union {NULL} : Fits(Up("blockAddr", i, v), ChainFields, 1)
  /\ \A i \in Buckets, v \in 0..MaxCount : Fits(Up("listCount", i, v), ChainFields, 1)
<1>1. {"blockNext", "blockPrev", "blockAddr", "listCount"} \subseteq ChainFields
  BY DEF ChainFields
<1>2. ASSUME NEW x \in Blocks, NEW v \in Blocks \union {NULL}, NEW f \in {"blockNext", "blockPrev"}
      PROVE  Fits(Up(f, x, v), ChainFields, 1)
  <2>1. <<f, x>> \in HashAddr /\ v \in Kind(f) /\ f \in ChainFields
    BY <1>1, ChainWords
  <2> QED BY <2>1, FitsUp
<1>3. ASSUME NEW i \in Buckets, NEW v \in Blocks \union {NULL}
      PROVE  Fits(Up("blockAddr", i, v), ChainFields, 1)
  <2>1. <<"blockAddr", i>> \in HashAddr /\ v \in Kind("blockAddr") /\ "blockAddr" \in ChainFields
    BY <1>1, ChainWords
  <2> QED BY <2>1, FitsUp
<1>4. ASSUME NEW i \in Buckets, NEW v \in 0..MaxCount
      PROVE  Fits(Up("listCount", i, v), ChainFields, 1)
  <2>1. <<"listCount", i>> \in HashAddr /\ v \in Kind("listCount") /\ "listCount" \in ChainFields
    BY <1>1, ChainWords
  <2> QED BY <2>1, FitsUp
<1> QED BY <1>2, <1>3, <1>4

LEMMA ChainPlaces ==
  ASSUME NEW m, NEW i, NEW c, ChainOK(m, i, c), NEW j \in DOMAIN c
  PROVE  /\ c[j] \in Blocks /\ j \in 1..Len(c) /\ Len(c) \in Nat
         /\ m[<<"blockPrev", c[j]>>] = Nth(c, j - 1) /\ m[<<"blockNext", c[j]>>] = Nth(c, j + 1)
         /\ Nth(c, j - 1) \in Elems(c) \union {NULL} /\ Nth(c, j + 1) \in Elems(c) \union {NULL}
         /\ Nth(c, j - 1) = NULL <=> j = 1
         /\ m[<<"listCount", i>>] = Len(c) /\ m[<<"blockAddr", i>>] = Nth(c, 1)
         /\ \A x \in Elems(c) : m[<<"index", x>>] = i
<1>0. Linear(m, "blockNext", "blockPrev", c) /\ Distinct(c)
  BY LinearDistinct DEF ChainOK
<1>1. /\ DOMAIN c = 1..Len(c) /\ Len(c) \in Nat
      /\ \A k \in 1..Len(c) : c[k] \in Blocks /\ c[k] # NULL
  BY <1>0, DistinctFacts
<1>2. m[<<"blockPrev", c[j]>>] = Nth(c, j - 1) /\ m[<<"blockNext", c[j]>>] = Nth(c, j + 1)
  BY <1>0 DEF Linear
<1>3. Nth(c, j - 1) \in Elems(c) \union {NULL} /\ Nth(c, j + 1) \in Elems(c) \union {NULL}
  BY DEF Nth, Elems
<1>4. Nth(c, j - 1) = NULL <=> j = 1
  BY <1>1 DEF Nth
<1>5. \A x \in Elems(c) : m[<<"index", x>>] = i
  BY DEF ChainOK, Elems
<1> QED BY <1>1, <1>2, <1>3, <1>4, <1>5 DEF ChainOK

(* A chain whose blocks and whose words of the bucket are as they were. *)
LEMMA ChainStays ==
  ASSUME NEW m, NEW r, NEW k, NEW c, ChainOK(m, k, c),
         r[<<"blockAddr", k>>] = m[<<"blockAddr", k>>], r[<<"listCount", k>>] = m[<<"listCount", k>>],
         \A x \in Elems(c) : r[<<"blockNext", x>>] = m[<<"blockNext", x>>],
         \A x \in Elems(c) : r[<<"blockPrev", x>>] = m[<<"blockPrev", x>>],
         \A x \in Elems(c) : r[<<"index", x>>] = m[<<"index", x>>]
  PROVE  ChainOK(r, k, c)
<1>1. Linear(r, "blockNext", "blockPrev", c)
  BY LinearSame DEF ChainOK
<1>2. \A n \in DOMAIN c : r[<<"index", c[n]>>] = k
  BY DEF ChainOK, Elems
<1> QED BY <1>1, <1>2 DEF ChainOK

LEMMA SameChain ==
  ASSUME NEW m, NEW n, Same(m, n, ChainFields)
  PROVE  /\ \A x \in Blocks : n[<<"blockNext", x>>] = m[<<"blockNext", x>>]
         /\ \A x \in Blocks : n[<<"blockPrev", x>>] = m[<<"blockPrev", x>>]
         /\ \A x \in Blocks : n[<<"index", x>>] = m[<<"index", x>>]
         /\ \A i \in Buckets : n[<<"blockAddr", i>>] = m[<<"blockAddr", i>>]
         /\ \A i \in Buckets : n[<<"listCount", i>>] = m[<<"listCount", i>>]
<1>1. {"blockNext", "blockPrev", "index", "blockAddr", "listCount"} \subseteq ChainFields
      /\ {"blockNext", "blockPrev", "index"} \subseteq BlockFields
  BY DEF ChainFields, BlockFields, BlockLinks
<1> QED BY <1>1, SameWords

LEMMA Cat4 ==
  ASSUME NEW m, NEW u1, NEW u2, NEW u3, NEW u4, NEW F,
         Fits(u1, F, 1), Fits(u2, F, 1), Fits(u3, F, 1), Fits(u4, F, 1)
  PROVE  /\ Fits(u1 \o u2 \o u3 \o u4, F, 4)
         /\ Over(m, u1 \o u2 \o u3 \o u4) = Over(Over(Over(Over(m, u1), u2), u3), u4)
<1>1. PICK w2, w3 : w2 = u1 \o u2 /\ w3 = w2 \o u3
  OBVIOUS
<1>2. Fits(w2, F, 2)
  BY <1>1, FitsTwo
<1>3. Fits(w2 \o u3, F, 2 + 1)
  BY <1>2, FitsCat
<1>4. Fits(w3, F, 3)
  BY <1>1, <1>3
<1>5. Fits(w3 \o u4, F, 3 + 1)
  BY <1>4, FitsCat
<1>6. Over(m, w2) = Over(Over(m, u1), u2)
  BY <1>1, OverCat, FitsSeq
<1>7. Over(m, w3) = Over(Over(m, w2), u3)
  BY <1>1, <1>2, OverCat, FitsSeq
<1>8. Over(m, w3 \o u4) = Over(Over(m, w3), u4)
  BY <1>4, OverCat, FitsSeq
<1> QED BY <1>1, <1>5, <1>6, <1>7, <1>8

LEMMA UnchainEffect ==
  ASSUME Typed(mem), NEW C, \A k \in Buckets : ChainOK(mem, k, C[k]),
         NEW i \in Buckets, NEW j \in DOMAIN C[i], NEW n, Same(mem, n, ChainFields)
  PROVE  /\ Fits(Unchain(C[i][j]), ChainFields, 4)
         /\ ChainOK(Over(n, Unchain(C[i][j])), i, Without(C[i], j))
         /\ \A k \in Buckets \ {i} : ChainOK(Over(n, Unchain(C[i][j])), k, C[k])
<1>0. PICK c : c = C[i]
  OBVIOUS
<1>1. PICK b, p, q : b = c[j] /\ p = Nth(c, j - 1) /\ q = Nth(c, j + 1)
  OBVIOUS
<1>2. ChainOK(mem, i, c) /\ j \in DOMAIN c
  BY <1>0
<1>3. /\ b \in Blocks /\ j \in 1..Len(c) /\ Len(c) \in Nat
      /\ mem[<<"blockPrev", b>>] = p /\ mem[<<"blockNext", b>>] = q
      /\ p \in Elems(c) \union {NULL} /\ q \in Elems(c) \union {NULL}
      /\ p = NULL <=> j = 1
      /\ mem[<<"listCount", i>>] = Len(c) /\ mem[<<"blockAddr", i>>] = Nth(c, 1)
      /\ \A x \in Elems(c) : mem[<<"index", x>>] = i
  <2>1. /\ c[j] \in Blocks /\ j \in 1..Len(c) /\ Len(c) \in Nat
        /\ mem[<<"blockPrev", c[j]>>] = Nth(c, j - 1) /\ mem[<<"blockNext", c[j]>>] = Nth(c, j + 1)
        /\ Nth(c, j - 1) \in Elems(c) \union {NULL} /\ Nth(c, j + 1) \in Elems(c) \union {NULL}
        /\ Nth(c, j - 1) = NULL <=> j = 1
        /\ mem[<<"listCount", i>>] = Len(c) /\ mem[<<"blockAddr", i>>] = Nth(c, 1)
        /\ \A x \in Elems(c) : mem[<<"index", x>>] = i
    BY <1>2, ChainPlaces
  <2> QED BY <1>1, <2>1
<1>4. Distinct(c) /\ Linear(mem, "blockNext", "blockPrev", c)
  BY <1>2, LinearDistinct DEF ChainOK
<1>5. Elems(c) \subseteq Blocks /\ b \in Elems(c)
  BY <1>1, <1>2, <1>4, DistinctFacts DEF Elems
<1>6. mem[<<"index", b>>] = i
  BY <1>3, <1>5
<1>7. NULL \notin Blocks /\ NULL \notin Buckets
  BY MapAssumption
<1>8. Len(c) \in 1..MaxCount /\ Len(c) - 1 \in 0..MaxCount
  <2>1. mem[<<"listCount", i>>] \in 0..MaxCount
    BY WordKinds
  <2>2. MaxCount \in Nat
    BY MapAssumption
  <2> QED BY <1>3, <2>1, <2>2
<1>9. PICK u1, u2, u3, u4 :
        /\ u1 = When(p # NULL, Up("blockNext", p, q)) /\ u2 = When(q # NULL, Up("blockPrev", q, p))
        /\ u3 = Up("listCount", i, Len(c) - 1) /\ u4 = When(p = NULL, Up("blockAddr", i, q))
  OBVIOUS
<1>10. Dec("listCount", i) = u3
  <2>1. Len(c) # 0
    BY <1>8
  <2> QED BY <1>3, <1>9, <2>1 DEF Dec
<1>11. Unchain(b) = u1 \o u2 \o u3 \o u4
  BY <1>3, <1>6, <1>9, <1>10 DEF Unchain, B
<1>12. Fits(u1, ChainFields, 1) /\ Fits(u2, ChainFields, 1) /\ Fits(u3, ChainFields, 1) /\ Fits(u4, ChainFields, 1)
  <2>1. p \in Blocks \union {NULL} /\ q \in Blocks \union {NULL}
    BY <1>3, <1>5
  <2>2. p # NULL => Fits(Up("blockNext", p, q), ChainFields, 1)
    BY <2>1, ChainFits
  <2>3. q # NULL => Fits(Up("blockPrev", q, p), ChainFields, 1)
    BY <2>1, ChainFits
  <2>4. Fits(Up("blockAddr", i, q), ChainFields, 1)
    BY <2>1, ChainFits
  <2>5. Fits(u3, ChainFields, 1)
    BY <1>8, <1>9, ChainFits
  <2>6. Fits(u1, ChainFields, 1)
    BY <1>9, <2>2, FitsWhen
  <2>7. Fits(u2, ChainFields, 1)
    BY <1>9, <2>3, FitsWhen
  <2>8. Fits(u4, ChainFields, 1)
    BY <1>9, <2>4, FitsWhen
  <2> QED BY <2>5, <2>6, <2>7, <2>8
<1>13. PICK o1 : o1 = Over(n, u1)
  OBVIOUS
<1>14. PICK o2 : o2 = Over(o1, u2)
  OBVIOUS
<1>15. PICK o3 : o3 = Over(o2, u3)
  OBVIOUS
<1>16. PICK r : r = Over(o3, u4)
  OBVIOUS
<1>17. Fits(Unchain(b), ChainFields, 4) /\ Over(n, Unchain(b)) = r
  <2>1. /\ Fits(u1 \o u2 \o u3 \o u4, ChainFields, 4)
        /\ Over(n, u1 \o u2 \o u3 \o u4) = Over(Over(Over(Over(n, u1), u2), u3), u4)
    BY <1>12, Cat4
  <2> QED BY <2>1, <1>11, <1>13, <1>14, <1>15, <1>16
<1>18. p # NULL => <<"blockNext", p>> \in HashAddr
  BY <1>3, <1>5, ChainWords
<1>19. q # NULL => <<"blockPrev", q>> \in HashAddr
  BY <1>3, <1>5, ChainWords
<1>20. WordSetIf(o1, n, p # NULL, "blockNext", p, q)
  BY <1>9, <1>13, <1>18, WhenWord
<1>21. WordSetIf(o2, o1, q # NULL, "blockPrev", q, p)
  BY <1>9, <1>14, <1>19, WhenWord
<1>22. WordSet(o3, o2, "listCount", i, Len(c) - 1)
  BY <1>9, <1>15, OneWord, ChainWords
<1>23. WordSetIf(r, o3, p = NULL, "blockAddr", i, q)
  BY <1>9, <1>16, WhenWord, ChainWords
<1>24. \A x \in Blocks : n[<<"blockNext", x>>] = mem[<<"blockNext", x>>]
  BY SameChain
<1>25. \A x \in Blocks : n[<<"blockPrev", x>>] = mem[<<"blockPrev", x>>]
  BY SameChain
<1>26. \A x \in Blocks : n[<<"index", x>>] = mem[<<"index", x>>]
  BY SameChain
<1>27. \A k \in Buckets : n[<<"blockAddr", k>>] = mem[<<"blockAddr", k>>]
  BY SameChain
<1>28. \A k \in Buckets : n[<<"listCount", k>>] = mem[<<"listCount", k>>]
  BY SameChain
<1>29. \A x \in Blocks : r[<<"blockNext", x>>] = IF x = p THEN q ELSE mem[<<"blockNext", x>>]
  <2>1. \A x \in Blocks : <<"blockNext", x>> \in HashAddr
    BY ChainWords
  <2>2. \A x \in Blocks : o1[<<"blockNext", x>>] = IF x = p THEN q ELSE mem[<<"blockNext", x>>]
    BY <1>7, <1>20, <1>24, <2>1 DEF WordSetIf
  <2>3. \A x \in Blocks : r[<<"blockNext", x>>] = o1[<<"blockNext", x>>]
    BY <1>21, <1>22, <1>23, <2>1 DEF WordSet, WordSetIf
  <2> QED BY <2>2, <2>3
<1>30. \A x \in Blocks : r[<<"blockPrev", x>>] = IF x = q THEN p ELSE mem[<<"blockPrev", x>>]
  BY <1>7, <1>20, <1>21, <1>22, <1>23, <1>25, ChainWords DEF WordSet, WordSetIf
<1>31. \A x \in Blocks : r[<<"index", x>>] = mem[<<"index", x>>]
  BY <1>20, <1>21, <1>22, <1>23, <1>26, ChainWords DEF WordSet, WordSetIf
<1>32. /\ r[<<"blockAddr", i>>] = (IF p = NULL THEN q ELSE mem[<<"blockAddr", i>>])
       /\ \A k \in Buckets \ {i} : r[<<"blockAddr", k>>] = mem[<<"blockAddr", k>>]
  BY <1>20, <1>21, <1>22, <1>23, <1>27, ChainWords DEF WordSet, WordSetIf
<1>33. /\ r[<<"listCount", i>>] = Len(c) - 1
       /\ \A k \in Buckets \ {i} : r[<<"listCount", k>>] = mem[<<"listCount", k>>]
  BY <1>20, <1>21, <1>22, <1>23, <1>28, ChainWords DEF WordSet, WordSetIf
<1>34. ChainOK(r, i, Without(c, j))
  <2>0. \A x \in Blocks \ {c[j]} :
           /\ r[<<"blockNext", x>>] = IF x = Nth(c, j - 1) THEN Nth(c, j + 1) ELSE mem[<<"blockNext", x>>]
           /\ r[<<"blockPrev", x>>] = IF x = Nth(c, j + 1) THEN Nth(c, j - 1) ELSE mem[<<"blockPrev", x>>]
    BY <1>1, <1>29, <1>30
  <2>1. Linear(r, "blockNext", "blockPrev", Without(c, j))
    BY <1>2, <1>4, <2>0, LinearWithout
  <2>2. PICK t : t = Without(c, j)
    OBVIOUS
  <2>3. /\ Len(t) = Len(c) - 1 /\ DOMAIN t = 1..(Len(c) - 1)
        /\ \A k \in 1..(Len(c) - 1) : t[k] = IF k < j THEN c[k] ELSE c[k + 1]
        /\ Elems(t) = Elems(c) \ {c[j]}
    BY <1>2, <1>4, <2>2, WithoutFacts
  <2>4. DOMAIN c = 1..Len(c)
    BY <1>4, DistinctFacts
  <2>5. Nth(t, 1) = IF j = 1 THEN Nth(c, j + 1) ELSE Nth(c, 1)
    BY <1>3, <2>3, <2>4 DEF Nth
  <2>6. r[<<"blockAddr", i>>] = Nth(t, 1)
    BY <1>1, <1>3, <1>32, <2>5
  <2>7. \A k \in DOMAIN t : t[k] \in Elems(c)
    BY <2>3 DEF Elems
  <2>8. \A k \in DOMAIN t : r[<<"index", t[k]>>] = i
    BY <1>3, <1>5, <1>31, <2>7
  <2> QED BY <1>33, <2>1, <2>2, <2>3, <2>6, <2>8 DEF ChainOK
<1>35. ASSUME NEW k \in Buckets \ {i} PROVE ChainOK(r, k, C[k])
  <2>0. PICK d : d = C[k]
    OBVIOUS
  <2>1. ChainOK(mem, k, d)
    BY <2>0
  <2>2. Elems(d) \subseteq Blocks /\ \A x \in Elems(d) : mem[<<"index", x>>] = k
    <3>1. Distinct(d)
      BY <2>1, LinearDistinct DEF ChainOK
    <3> QED BY <2>1, <3>1, DistinctFacts DEF ChainOK, Elems
  <2>3. p \notin Elems(d) /\ q \notin Elems(d)
    <3>1. \A x \in Elems(c) : mem[<<"index", x>>] = i
      BY <1>3
    <3>2. ASSUME NEW x \in Elems(d) PROVE x \notin Elems(c) /\ x # NULL
      <4>1. mem[<<"index", x>>] = k /\ x \in Blocks /\ k # i
        BY <2>2
      <4>2. x \in Elems(c) => mem[<<"index", x>>] = i
        BY <3>1
      <4> QED BY <1>7, <4>1, <4>2
    <3> QED BY <1>3, <3>2
  <2>4. \A x \in Elems(d) : r[<<"blockNext", x>>] = mem[<<"blockNext", x>>]
    BY <1>29, <2>2, <2>3
  <2>5. \A x \in Elems(d) : r[<<"blockPrev", x>>] = mem[<<"blockPrev", x>>]
    BY <1>30, <2>2, <2>3
  <2>6. \A x \in Elems(d) : r[<<"index", x>>] = mem[<<"index", x>>]
    BY <1>31, <2>2
  <2>7. r[<<"blockAddr", k>>] = mem[<<"blockAddr", k>>] /\ r[<<"listCount", k>>] = mem[<<"listCount", k>>]
    BY <1>32, <1>33
  <2>8. ChainOK(r, k, d)
    BY <2>1, <2>4, <2>5, <2>6, <2>7, ChainStays
  <2> QED BY <2>0, <2>8
<1> QED BY <1>0, <1>1, <1>17, <1>34, <1>35

LEMMA PutInChainEffect ==
  ASSUME Typed(mem), NEW C, \A k \in Buckets : ChainOK(mem, k, C[k]),
         NEW i \in Buckets, NEW b \in Blocks, \A k \in Buckets : b \notin Elems(C[k]),
         mem[<<"index", b>>] = i, NEW n, Same(mem, n, ChainFields)
  PROVE  /\ Fits(PutInChain(b, i), ChainFields, 5)
         /\ ChainOK(Over(n, PutInChain(b, i)), i, Pushed(C[i], b))
         /\ \A k \in Buckets \ {i} : ChainOK(Over(n, PutInChain(b, i)), k, C[k])
<1>0. PICK c : c = C[i]
  OBVIOUS
<1>1. PICK h : h = Nth(c, 1)
  OBVIOUS
<1>2. ChainOK(mem, i, c) /\ b \notin Elems(c)
  BY <1>0
<1>3. Distinct(c) /\ Linear(mem, "blockNext", "blockPrev", c)
  BY <1>2, LinearDistinct DEF ChainOK
<1>4. mem[<<"listCount", i>>] = Len(c) /\ mem[<<"blockAddr", i>>] = h /\ \A x \in Elems(c) : mem[<<"index", x>>] = i
  BY <1>1, <1>2 DEF ChainOK, Elems
<1>5. /\ Elems(c) \subseteq Blocks /\ h \in Elems(c) \union {NULL}
      /\ DOMAIN c = 1..Len(c) /\ Len(c) \in Nat
  BY <1>1, <1>3, DistinctFacts DEF Elems, Nth
<1>6. NULL \notin Blocks /\ NULL \notin Buckets
  BY MapAssumption
<1>7. Len(c) # MaxCount /\ Len(c) + 1 \in 0..MaxCount
  <2>1. Distinct(Pushed(c, b)) /\ Len(Pushed(c, b)) = Len(c) + 1
    BY <1>2, <1>3, PushedFacts
  <2>2. Len(Pushed(c, b)) <= Cardinality(Blocks) /\ Cardinality(Blocks) \in Nat
    BY <2>1, DistinctLen
  <2>3. MaxCount \in Nat /\ Cardinality(Blocks) <= MaxCount
    BY MapAssumption
  <2>4. Len(c) + 1 <= Cardinality(Blocks) /\ Cardinality(Blocks) \in Nat /\ Len(c) \in Nat
    BY <1>5, <2>1, <2>2
  <2>5. \A x, y, z \in Nat : x + 1 <= y /\ y <= z => x # z /\ x + 1 \in 0..z
    OBVIOUS
  <2> QED BY <2>3, <2>4, <2>5
<1>8. PICK u1, u2, u3, u4, u5 :
        /\ u1 = Up("listCount", i, Len(c) + 1) /\ u2 = When(h # NULL, Up("blockPrev", h, b))
        /\ u3 = Up("blockNext", b, h) /\ u4 = Up("blockAddr", i, b) /\ u5 = Up("blockPrev", b, NULL)
  OBVIOUS
<1>9. Inc("listCount", i) = u1
  BY <1>4, <1>7, <1>8 DEF Inc
<1>10. PutInChain(b, i) = u1 \o u2 \o u3 \o u4 \o u5
  BY <1>4, <1>8, <1>9 DEF PutInChain
<1>11. /\ Fits(u1, ChainFields, 1) /\ Fits(u2, ChainFields, 1) /\ Fits(u3, ChainFields, 1)
       /\ Fits(u4, ChainFields, 1) /\ Fits(u5, ChainFields, 1)
  <2>1. h \in Blocks \union {NULL} /\ b \in Blocks \union {NULL} /\ NULL \in Blocks \union {NULL}
    BY <1>5
  <2>2. h # NULL => Fits(Up("blockPrev", h, b), ChainFields, 1)
    BY <2>1, ChainFits
  <2>3. Fits(u2, ChainFields, 1)
    BY <1>8, <2>2, FitsWhen
  <2>4. Fits(u1, ChainFields, 1)
    BY <1>7, <1>8, ChainFits
  <2>5. Fits(u3, ChainFields, 1) /\ Fits(u4, ChainFields, 1) /\ Fits(u5, ChainFields, 1)
    BY <1>8, <2>1, ChainFits
  <2> QED BY <2>3, <2>4, <2>5
<1>12. PICK o1 : o1 = Over(n, u1)
  OBVIOUS
<1>13. PICK o2 : o2 = Over(o1, u2)
  OBVIOUS
<1>14. PICK o3 : o3 = Over(o2, u3)
  OBVIOUS
<1>15. PICK o4 : o4 = Over(o3, u4)
  OBVIOUS
<1>16. PICK r : r = Over(o4, u5)
  OBVIOUS
<1>17. Fits(PutInChain(b, i), ChainFields, 5) /\ Over(n, PutInChain(b, i)) = r
  <2>1. PICK w : w = u1 \o u2 \o u3 \o u4
    OBVIOUS
  <2>a. /\ Fits(u1 \o u2 \o u3 \o u4, ChainFields, 4)
        /\ Over(n, u1 \o u2 \o u3 \o u4) = Over(Over(Over(Over(n, u1), u2), u3), u4)
    <3>1. PICK F : F = ChainFields
      OBVIOUS
    <3>2. Fits(u1, F, 1) /\ Fits(u2, F, 1) /\ Fits(u3, F, 1) /\ Fits(u4, F, 1)
      BY <1>11, <3>1
    <3>3. Fits(u1 \o u2 \o u3 \o u4, F, 4)
      BY <3>2, Cat4
    <3>4. Over(n, u1 \o u2 \o u3 \o u4) = Over(Over(Over(Over(n, u1), u2), u3), u4)
      BY <3>2, Cat4
    <3> QED BY <3>1, <3>3, <3>4
  <2>2. Fits(w, ChainFields, 4) /\ Over(n, w) = Over(Over(Over(Over(n, u1), u2), u3), u4)
    BY <2>1, <2>a
  <2>3. Over(n, w) = o4
    BY <1>12, <1>13, <1>14, <1>15, <2>2
  <2>4. Fits(w \o u5, ChainFields, 4 + 1)
    BY <1>11, <2>2, FitsCat
  <2>5. Over(n, w \o u5) = Over(Over(n, w), u5)
    BY <1>11, <2>2, OverCat, FitsSeq
  <2> QED BY <1>10, <1>16, <2>1, <2>3, <2>4, <2>5
<1>18. h # NULL => <<"blockPrev", h>> \in HashAddr
  BY <1>5, ChainWords
<1>20. WordSet(o1, n, "listCount", i, Len(c) + 1)
  BY <1>8, <1>12, OneWord, ChainWords
<1>21. WordSetIf(o2, o1, h # NULL, "blockPrev", h, b)
  BY <1>8, <1>13, <1>18, WhenWord
<1>22. WordSet(o3, o2, "blockNext", b, h)
  BY <1>8, <1>14, OneWord, ChainWords
<1>23. WordSet(o4, o3, "blockAddr", i, b)
  BY <1>8, <1>15, OneWord, ChainWords
<1>24. WordSet(r, o4, "blockPrev", b, NULL)
  BY <1>8, <1>16, OneWord, ChainWords
<1>25. \A x \in Blocks : n[<<"blockNext", x>>] = mem[<<"blockNext", x>>]
  BY SameChain
<1>26. \A x \in Blocks : n[<<"blockPrev", x>>] = mem[<<"blockPrev", x>>]
  BY SameChain
<1>27. \A x \in Blocks : n[<<"index", x>>] = mem[<<"index", x>>]
  BY SameChain
<1>28. \A k \in Buckets : n[<<"blockAddr", k>>] = mem[<<"blockAddr", k>>]
  BY SameChain
<1>29. \A k \in Buckets : n[<<"listCount", k>>] = mem[<<"listCount", k>>]
  BY SameChain
<1>30. r[<<"blockNext", b>>] = h /\ \A x \in Blocks \ {b} : r[<<"blockNext", x>>] = mem[<<"blockNext", x>>]
  <2>1. \A x \in Blocks : <<"blockNext", x>> \in HashAddr
    BY ChainWords
  <2>2. \A x \in Blocks : o2[<<"blockNext", x>>] = mem[<<"blockNext", x>>]
    BY <1>20, <1>21, <1>25, <2>1 DEF WordSet, WordSetIf
  <2>3. \A x \in Blocks : r[<<"blockNext", x>>] = o3[<<"blockNext", x>>]
    BY <1>23, <1>24, <2>1 DEF WordSet
  <2> QED BY <1>22, <2>1, <2>2, <2>3 DEF WordSet
<1>31. /\ r[<<"blockPrev", b>>] = NULL
       /\ \A x \in Blocks \ {b} : r[<<"blockPrev", x>>] = IF x = h THEN b ELSE mem[<<"blockPrev", x>>]
  <2>1. \A x \in Blocks : <<"blockPrev", x>> \in HashAddr
    BY ChainWords
  <2>2. \A x \in Blocks : o1[<<"blockPrev", x>>] = mem[<<"blockPrev", x>>]
    BY <1>20, <1>26, <2>1 DEF WordSet
  <2>3. \A x \in Blocks : o2[<<"blockPrev", x>>] = IF x = h THEN b ELSE mem[<<"blockPrev", x>>]
    BY <1>6, <1>21, <2>1, <2>2 DEF WordSetIf
  <2>4. \A x \in Blocks : o4[<<"blockPrev", x>>] = o2[<<"blockPrev", x>>]
    BY <1>22, <1>23, <2>1 DEF WordSet
  <2> QED BY <1>24, <2>1, <2>3, <2>4 DEF WordSet
<1>32. \A x \in Blocks : r[<<"index", x>>] = mem[<<"index", x>>]
  BY <1>20, <1>21, <1>22, <1>23, <1>24, <1>27, ChainWords DEF WordSet, WordSetIf
<1>33. r[<<"blockAddr", i>>] = b /\ \A k \in Buckets \ {i} : r[<<"blockAddr", k>>] = mem[<<"blockAddr", k>>]
  <2>1. \A k \in Buckets : <<"blockAddr", k>> \in HashAddr
    BY ChainWords
  <2>2. \A k \in Buckets : o3[<<"blockAddr", k>>] = mem[<<"blockAddr", k>>]
    BY <1>20, <1>21, <1>22, <1>28, <2>1 DEF WordSet, WordSetIf
  <2>3. \A k \in Buckets : r[<<"blockAddr", k>>] = o4[<<"blockAddr", k>>]
    BY <1>24, <2>1 DEF WordSet
  <2> QED BY <1>23, <2>1, <2>2, <2>3 DEF WordSet
<1>34. /\ r[<<"listCount", i>>] = Len(c) + 1
       /\ \A k \in Buckets \ {i} : r[<<"listCount", k>>] = mem[<<"listCount", k>>]
  <2>1. \A k \in Buckets : <<"listCount", k>> \in HashAddr
    BY ChainWords
  <2>2. \A k \in Buckets : r[<<"listCount", k>>] = o1[<<"listCount", k>>]
    BY <1>21, <1>22, <1>23, <1>24, <2>1 DEF WordSet, WordSetIf
  <2> QED BY <1>20, <1>29, <2>1, <2>2 DEF WordSet
<1>35. ChainOK(r, i, Pushed(c, b))
  <2>0. PushSet(r, mem, "blockNext", "blockPrev", c, b)
    BY <1>1, <1>30, <1>31 DEF PushSet
  <2>1. Linear(r, "blockNext", "blockPrev", Pushed(c, b))
    BY <1>2, <1>3, <2>0, LinearPushed
  <2>2. PICK t : t = Pushed(c, b)
    OBVIOUS
  <2>3. /\ Len(t) = Len(c) + 1 /\ DOMAIN t = 1..(Len(c) + 1)
        /\ \A k \in 1..(Len(c) + 1) : t[k] = IF k = 1 THEN b ELSE c[k - 1]
        /\ Elems(t) = Elems(c) \union {b}
    BY <1>2, <1>3, <2>2, PushedFacts
  <2>4. Nth(t, 1) = b
    BY <1>5, <2>3 DEF Nth
  <2>5. \A k \in DOMAIN t : t[k] \in Elems(c) \union {b}
    BY <2>3 DEF Elems
  <2>6. \A k \in DOMAIN t : r[<<"index", t[k]>>] = i
    BY <1>4, <1>5, <1>32, <2>5
  <2> QED BY <1>33, <1>34, <2>1, <2>2, <2>3, <2>4, <2>6 DEF ChainOK
<1>36. ASSUME NEW k \in Buckets \ {i} PROVE ChainOK(r, k, C[k])
  <2>0. PICK d : d = C[k]
    OBVIOUS
  <2>1. ChainOK(mem, k, d) /\ b \notin Elems(d)
    BY <2>0
  <2>2. Elems(d) \subseteq Blocks /\ \A x \in Elems(d) : mem[<<"index", x>>] = k
    <3>1. Distinct(d)
      BY <2>1, LinearDistinct DEF ChainOK
    <3> QED BY <2>1, <3>1, DistinctFacts DEF ChainOK, Elems
  <2>3. h \notin Elems(d)
    <3>1. \A x \in Elems(c) : mem[<<"index", x>>] = i
      BY <1>4
    <3>2. ASSUME NEW x \in Elems(d) PROVE x \notin Elems(c) /\ x # NULL
      <4>1. mem[<<"index", x>>] = k /\ x \in Blocks /\ k # i
        BY <2>2
      <4>2. x \in Elems(c) => mem[<<"index", x>>] = i
        BY <3>1
      <4> QED BY <1>6, <4>1, <4>2
    <3> QED BY <1>5, <3>2
  <2>4. \A x \in Elems(d) : r[<<"blockNext", x>>] = mem[<<"blockNext", x>>]
    BY <1>30, <2>1, <2>2
  <2>5. \A x \in Elems(d) : r[<<"blockPrev", x>>] = mem[<<"blockPrev", x>>]
    BY <1>31, <2>1, <2>2, <2>3
  <2>6. \A x \in Elems(d) : r[<<"index", x>>] = mem[<<"index", x>>]
    BY <1>32, <2>2
  <2>7. r[<<"blockAddr", k>>] = mem[<<"blockAddr", k>>] /\ r[<<"listCount", k>>] = mem[<<"listCount", k>>]
    BY <1>33, <1>34
  <2>8. ChainOK(r, k, d)
    BY <2>1, <2>4, <2>5, <2>6, <2>7, ChainStays
  <2> QED BY <2>0, <2>8
<1> QED BY <1>0, <1>17, <1>35, <1>36

-----------------------------------------------------------------------------
(* What a whole log does to the map *)

LogFields == MapFields \union Drifting

LEMMA Cat2 ==
  ASSUME NEW m, NEW u, NEW v, NEW F, NEW n \in Nat, NEW k \in Nat, Fits(u, F, n), Fits(v, F, k)
  PROVE  Fits(u \o v, F, n + k) /\ Over(m, u \o v) = Over(Over(m, u), v)
<1>1. Fits(u \o v, F, n + k)
  BY FitsCat
<1>2. Over(m, u \o v) = Over(Over(m, u), v)
  BY OverCat, FitsSeq
<1> QED BY <1>1, <1>2

LEMMA Cat5 ==
  ASSUME NEW m, NEW u1, NEW u2, NEW u3, NEW u4, NEW u5, NEW F,
         NEW n1 \in Nat, NEW n2 \in Nat, NEW n3 \in Nat, NEW n4 \in Nat, NEW n5 \in Nat,
         Fits(u1, F, n1), Fits(u2, F, n2), Fits(u3, F, n3), Fits(u4, F, n4), Fits(u5, F, n5)
  PROVE  /\ Fits(u1 \o u2 \o u3 \o u4 \o u5, F, n1 + n2 + n3 + n4 + n5)
         /\ Over(m, u1 \o u2 \o u3 \o u4 \o u5) = Over(Over(Over(Over(Over(m, u1), u2), u3), u4), u5)
<1>1. PICK w2, w3, w4 : w2 = u1 \o u2 /\ w3 = w2 \o u3 /\ w4 = w3 \o u4
  OBVIOUS
<1>2. PICK k2 \in Nat : k2 = n1 + n2
  OBVIOUS
<1>3. PICK k3 \in Nat : k3 = k2 + n3
  OBVIOUS
<1>4. PICK k4 \in Nat : k4 = k3 + n4
  OBVIOUS
<1>5. Fits(w2, F, k2) /\ Over(m, w2) = Over(Over(m, u1), u2)
  BY <1>1, <1>2, Cat2
<1>6. Fits(w3, F, k3) /\ Over(m, w3) = Over(Over(m, w2), u3)
  BY <1>1, <1>3, <1>5, Cat2
<1>7. Fits(w4, F, k4) /\ Over(m, w4) = Over(Over(m, w3), u4)
  BY <1>1, <1>4, <1>6, Cat2
<1>8. Fits(w4 \o u5, F, k4 + n5) /\ Over(m, w4 \o u5) = Over(Over(m, w4), u5)
  BY <1>7, Cat2
<1> QED BY <1>1, <1>2, <1>3, <1>4, <1>5, <1>6, <1>7, <1>8

LEMMA CountFits ==
  ASSUME Typed(mem), NEW f \in HeadCounts, NEW F, f \in F
  PROVE  Fits(Inc(f, NULL), F, 1) /\ Fits(Dec(f, NULL), F, 1)
<1>1. mem[<<f, NULL>>] \in 0..MaxCount /\ MaxCount \in Nat \ {0}
  BY WordKinds, MapAssumption
<1>2. <<f, NULL>> \in HashAddr
  BY HeadWord
<1>3. Kind(f) = 0..MaxCount
  <2>1. f \notin HeadLinks \union BlockLinks \union {"blockAddr"}
    BY DEF HeadLinks, BlockLinks, HeadCounts
  <2> QED BY <2>1 DEF Kind
<1>4. PICK v : v = IF mem[<<f, NULL>>] = MaxCount THEN 0 ELSE mem[<<f, NULL>>] + 1
  OBVIOUS
<1>5. PICK w : w = IF mem[<<f, NULL>>] = 0 THEN MaxCount ELSE mem[<<f, NULL>>] - 1
  OBVIOUS
<1>6. v \in 0..MaxCount /\ w \in 0..MaxCount
  BY <1>1, <1>4, <1>5
<1>7. Fits(Up(f, NULL, v), F, 1)
  BY <1>2, <1>3, <1>6, FitsUp
<1>8. Fits(Up(f, NULL, w), F, 1)
  BY <1>2, <1>3, <1>6, FitsUp
<1> QED BY <1>4, <1>5, <1>7, <1>8 DEF Inc, Dec

LEMMA TailFits ==
  ASSUME NEW t \in Tails, NEW v \in Blocks \union {NULL}
  PROVE  Fits(Up(t, NULL, v), Tails, 1) /\ <<t, NULL>> \in HashAddr
<1>1. <<t, NULL>> \in HashAddr
  BY FieldNames, HeadWord
<1>2. v \in Kind(t)
  BY FieldNames DEF Kind
<1> QED BY <1>1, <1>2, FitsUp

(* The block before one of a list is another one of it. *)
LEMMA PrevIn ==
  ASSUME NEW l \in {SetL, GetL}, NEW m, NEW s, ListOK(m, l, s), NEW b \in Elems(s)
  PROVE  m[<<l.prev, b>>] \in (Elems(s) \ {b}) \union {NULL}
<1>1. PICK j \in DOMAIN s : b = s[j]
  BY DEF Elems
<1>2. m[<<l.prev, s[j]>>] = Nth(s, j - 1) /\ Nth(s, j - 1) # s[j]
  <2>1. m[<<l.prev, s[j]>>] = Nth(s, j - 1)
    BY DEF ListOK, Linear
  <2>a. Distinct(s)
    BY LinearDistinct DEF ListOK
  <2>2. /\ DOMAIN s = 1..Len(s) /\ Len(s) \in Nat
        /\ \A i \in 1..Len(s) : s[i] # NULL
        /\ \A i, k \in 1..Len(s) : s[i] = s[k] => i = k
    BY <2>a, DistinctFacts
  <2>3. Nth(s, j - 1) # s[j]
    BY <2>2 DEF Nth
  <2> QED BY <2>1, <2>3
<1>3. Nth(s, j - 1) \in Elems(s) \union {NULL}
  BY DEF Nth, Elems
<1> QED BY <1>1, <1>2, <1>3

LEMMA TailsPastEffect ==
  ASSUME NEW S, NEW G, ListOK(mem, SetL, S), ListOK(mem, GetL, G), Elems(G) = Elems(S),
         TailsOK(mem, Elems(S)), NEW b \in Elems(S), NEW n, Same(mem, n, Tails)
  PROVE  /\ Fits(TailsPast(b), Tails, 3)
         /\ TailsOK(Over(n, TailsPast(b)), Elems(S) \ {b})
<1>0. PICK D : D = Elems(S)
  OBVIOUS
<1>1. PICK p, q : p = mem[<<"setPrev", b>>] /\ q = mem[<<"getPrev", b>>]
  OBVIOUS
<1>2. p \in (D \ {b}) \union {NULL}
  <2>1. mem[<<SetL.prev, b>>] \in (Elems(S) \ {b}) \union {NULL}
    BY PrevIn
  <2>2. SetL.prev = "setPrev"
    BY DEF SetL
  <2> QED BY <1>0, <1>1, <2>1, <2>2
<1>3. q \in (D \ {b}) \union {NULL}
  <2>1. mem[<<GetL.prev, b>>] \in (Elems(G) \ {b}) \union {NULL}
    BY PrevIn
  <2>2. GetL.prev = "getPrev"
    BY DEF GetL
  <2> QED BY <1>0, <1>1, <2>1, <2>2
<1>4. D \subseteq Blocks
  BY <1>0, LinearDistinct, DistinctFacts DEF ListOK
<1>5. \A t \in Tails : n[<<t, NULL>>] = mem[<<t, NULL>>] /\ <<t, NULL>> \in HashAddr
  BY SameWords, FieldNames, HeadWord
<1>6. \A t \in Tails : mem[<<t, NULL>>] \in D \union {NULL}
  BY <1>0 DEF TailsOK
<1>7. PICK u1, u2, u3 :
        /\ u1 = When(mem[<<"dirtyTail", NULL>>] = b, Up("dirtyTail", NULL, p))
        /\ u2 = When(mem[<<"syncTail", NULL>>] = b, Up("syncTail", NULL, p))
        /\ u3 = When(mem[<<"backupTail", NULL>>] = b, Up("backupTail", NULL, q))
  OBVIOUS
<1>8. TailsPast(b) = u1 \o u2 \o u3
  BY <1>1, <1>7 DEF TailsPast, H, B
<1>9. "dirtyTail" \in Tails /\ "syncTail" \in Tails /\ "backupTail" \in Tails
  BY DEF Tails
<1>10. Fits(u1, Tails, 1) /\ Fits(u2, Tails, 1) /\ Fits(u3, Tails, 1)
  <2>1. p \in Blocks \union {NULL} /\ q \in Blocks \union {NULL}
    BY <1>2, <1>3, <1>4
  <2>2. Fits(Up("dirtyTail", NULL, p), Tails, 1) /\ Fits(Up("syncTail", NULL, p), Tails, 1)
        /\ Fits(Up("backupTail", NULL, q), Tails, 1)
    BY <1>9, <2>1, TailFits
  <2>3. Fits(u1, Tails, 1)
    BY <1>7, <2>2, FitsWhen
  <2>4. Fits(u2, Tails, 1)
    BY <1>7, <2>2, FitsWhen
  <2>5. Fits(u3, Tails, 1)
    BY <1>7, <2>2, FitsWhen
  <2> QED BY <2>3, <2>4, <2>5
<1>11. PICK o1 : o1 = Over(n, u1)
  OBVIOUS
<1>12. PICK o2 : o2 = Over(o1, u2)
  OBVIOUS
<1>13. PICK r : r = Over(o2, u3)
  OBVIOUS
<1>14. Over(n, TailsPast(b)) = r
  <2>1. Over(n, u1 \o u2 \o u3) = Over(Over(Over(n, u1), u2), u3)
    BY <1>10, OverCat3, FitsSeq
  <2> QED BY <2>1, <1>8, <1>11, <1>12, <1>13
<1>15. Fits(TailsPast(b), Tails, 3)
  <2>1. PICK w : w = u1 \o u2
    OBVIOUS
  <2>2. Fits(w, Tails, 2)
    BY <1>10, <2>1, FitsTwo
  <2>3. Fits(w \o u3, Tails, 2 + 1)
    BY <1>10, <2>2, FitsCat
  <2> QED BY <1>8, <2>1, <2>3
<1>16. WordSetIf(o1, n, mem[<<"dirtyTail", NULL>>] = b, "dirtyTail", NULL, p)
  BY <1>5, <1>7, <1>9, <1>11, WhenWord
<1>17. WordSetIf(o2, o1, mem[<<"syncTail", NULL>>] = b, "syncTail", NULL, p)
  BY <1>5, <1>7, <1>9, <1>12, WhenWord
<1>18. WordSetIf(r, o2, mem[<<"backupTail", NULL>>] = b, "backupTail", NULL, q)
  BY <1>5, <1>7, <1>9, <1>13, WhenWord
<1>19. r[<<"dirtyTail", NULL>>] \in (D \ {b}) \union {NULL}
  <2>1. r[<<"dirtyTail", NULL>>] = o1[<<"dirtyTail", NULL>>]
    BY <1>5, <1>9, <1>17, <1>18 DEF WordSetIf
  <2> QED BY <1>2, <1>5, <1>6, <1>9, <1>16, <2>1 DEF WordSetIf
<1>20. r[<<"syncTail", NULL>>] \in (D \ {b}) \union {NULL}
  <2>1. r[<<"syncTail", NULL>>] = o2[<<"syncTail", NULL>>] /\ o1[<<"syncTail", NULL>>] = n[<<"syncTail", NULL>>]
    BY <1>5, <1>9, <1>16, <1>18 DEF WordSetIf
  <2> QED BY <1>2, <1>5, <1>6, <1>9, <1>17, <2>1 DEF WordSetIf
<1>21. r[<<"backupTail", NULL>>] \in (D \ {b}) \union {NULL}
  <2>1. o2[<<"backupTail", NULL>>] = n[<<"backupTail", NULL>>]
    BY <1>5, <1>9, <1>16, <1>17 DEF WordSetIf
  <2> QED BY <1>3, <1>5, <1>6, <1>9, <1>18, <2>1 DEF WordSetIf
<1>22. TailsOK(r, D \ {b})
  BY <1>19, <1>20, <1>21 DEF TailsOK, Tails
<1> QED BY <1>0, <1>14, <1>15, <1>22

LEMMA UncountEffect ==
  ASSUME Typed(mem), NEW b, NEW n, Same(mem, n, {"elementCount"}),
         mem[<<"elementCount", NULL>>] # 0
  PROVE  /\ Fits(Uncount(b), Drifting \union {"elementCount"}, 3)
         /\ Over(n, Uncount(b))[<<"elementCount", NULL>>] = mem[<<"elementCount", NULL>>] - 1
<1>1. PICK F : F = Drifting \union {"elementCount"}
  OBVIOUS
<1>2. PICK u1, u2, u3 :
        /\ u1 = When(mem[<<"dirty", b>>] = 1, Dec("dirtyCount", NULL))
        /\ u2 = When(mem[<<"onlyKey", b>>] = 1, Dec("onlyKeyCount", NULL))
        /\ u3 = Dec("elementCount", NULL)
  OBVIOUS
<1>3. Uncount(b) = u1 \o u2 \o u3
  BY <1>2 DEF Uncount, B
<1>4. Fits(u1, F, 1) /\ Fits(u2, F, 1) /\ Fits(u3, F, 1)
  <2>1. "dirtyCount" \in HeadCounts /\ "onlyKeyCount" \in HeadCounts /\ "elementCount" \in HeadCounts
        /\ "dirtyCount" \in F /\ "onlyKeyCount" \in F /\ "elementCount" \in F
    BY <1>1 DEF HeadCounts, Drifting
  <2>2. Fits(Dec("dirtyCount", NULL), F, 1) /\ Fits(Dec("onlyKeyCount", NULL), F, 1) /\ Fits(u3, F, 1)
    BY <1>2, <2>1, CountFits
  <2>3. Fits(u1, F, 1)
    BY <1>2, <2>2, FitsWhen
  <2>4. Fits(u2, F, 1)
    BY <1>2, <2>2, FitsWhen
  <2> QED BY <2>2, <2>3, <2>4
<1>5. PICK w : w = u1 \o u2
  OBVIOUS
<1>6. Fits(w, F, 2)
  BY <1>4, <1>5, FitsTwo
<1>7. Fits(w \o u3, F, 2 + 1)
  BY <1>4, <1>6, FitsCat
<1>8. Over(n, w \o u3) = Over(Over(n, w), u3)
  BY <1>4, <1>6, OverCat, FitsSeq
<1>9. u3 = Up("elementCount", NULL, mem[<<"elementCount", NULL>>] - 1)
  BY <1>2 DEF Dec
<1>10. <<"elementCount", NULL>> \in HashAddr
  BY HeadWord, FieldNames
<1>11. Over(Over(n, w), u3)[<<"elementCount", NULL>>] = mem[<<"elementCount", NULL>>] - 1
  BY <1>9, <1>10, OverOneAt
<1> QED BY <1>1, <1>3, <1>5, <1>7, <1>8, <1>11

(* The parts that make a map. *)
MapParts(r, S, G, C) ==
  /\ ListOK(r, SetL, S) /\ ListOK(r, GetL, G)
  /\ \A i \in Buckets : ChainOK(r, i, C[i])
  /\ C = [i \in Buckets |-> C[i]]
  /\ Elems(G) = Elems(S)
  /\ \A i \in Buckets : Elems(C[i]) \subseteq Elems(S)
  /\ \A x \in Elems(S) : \E i \in Buckets : x \in Elems(C[i])
  /\ r[<<"elementCount", NULL>>] = Len(S) /\ TailsOK(r, Elems(S))
  /\ \A i \in Buckets : \A x \in Elems(C[i]) : r[<<"key", x>>] # NULL => i = Hash[r[<<"key", x>>]]
  /\ \A x, y \in Elems(S) : x # y /\ r[<<"key", x>>] # NULL => r[<<"key", x>>] # r[<<"key", y>>]

LEMMA Assemble ==
  ASSUME NEW r, NEW S, NEW G, NEW C, MapParts(r, S, G, C)
  PROVE  MapOK(r, S, G, C) /\ Good(r) /\ Linked(r) = Elems(S)
<1> USE DEF MapParts
<1>1. \A i \in Buckets : \A x \in Elems(C[i]) : r[<<"index", x>>] = i
  BY DEF ChainOK, Elems
<1>2. ASSUME NEW x \in Elems(S)
      PROVE  /\ r[<<"index", x>>] \in Buckets /\ x \in Elems(C[r[<<"index", x>>]])
             /\ r[<<"key", x>>] # NULL => r[<<"index", x>>] = Hash[r[<<"key", x>>]]
  <2>1. PICK i \in Buckets : x \in Elems(C[i])
    OBVIOUS
  <2>2. r[<<"index", x>>] = i
    BY <1>1, <2>1
  <2> QED BY <2>1, <2>2
<1>3. SameBlocks(r, S, G, C)
  BY <1>2 DEF SameBlocks
<1>4. KeysOK(r, Elems(S))
  BY <1>2 DEF KeysOK
<1>5. MapOK(r, S, G, C)
  BY <1>3, <1>4 DEF MapOK
<1> QED BY <1>5, MapOKGood

(* The parts of the map lie in different words. *)
Parts == {Tails, Fields(SetL), Fields(GetL), ChainFields, Drifting \union {"elementCount"}, {"key"}}

LEMMA PartsApart == \A P, Q \in Parts : P # Q => P \intersect Q = {}
<1>1. /\ Fields(SetL) = {"setHead", "setTail", "setNext", "setPrev"}
      /\ Fields(GetL) = {"getHead", "getTail", "getNext", "getPrev"}
  BY DEF Fields, SetL, GetL
<1> QED BY <1>1 DEF Parts, Tails, ChainFields, Drifting

LEMMA PartsNames == \A P \in Parts : P \subseteq LogFields
<1>1. Fields(SetL) \subseteq MapFields /\ Fields(GetL) \subseteq MapFields
  BY ListNames
<1>2. ChainFields \subseteq MapFields /\ Tails \subseteq MapFields
  BY FieldNames
<1>3. {"elementCount"} \subseteq MapFields /\ {"key"} \subseteq MapFields
  BY DEF MapFields
<1> QED BY <1>1, <1>2, <1>3 DEF Parts, LogFields

LEMMA PartSame ==
  ASSUME NEW P \in Parts, NEW Q \in Parts, P # Q, NEW m, NEW es, Touches(es, P)
  PROVE  Same(m, Over(m, es), Q)
<1>1. P \intersect Q = {}
  BY PartsApart
<1> QED BY <1>1, OverSame

LEMMA PartFits ==
  ASSUME NEW P \in Parts, NEW es, NEW n \in Nat, Fits(es, P, n)
  PROVE  Fits(es, LogFields, n)
<1>1. P \subseteq LogFields
  BY PartsNames
<1> QED BY <1>1, FitsMore

(* Blocks of the map have a place in each sequence. *)
LEMMA GoodPlaces ==
  ASSUME NEW m, Good(m), NEW b \in Linked(m)
  PROVE  /\ \E j \in DOMAIN SetSeq(m) : SetSeq(m)[j] = b
         /\ \E j \in DOMAIN GetSeq(m) : GetSeq(m)[j] = b
         /\ m[<<"index", b>>] \in Buckets
         /\ \E j \in DOMAIN Chains(m)[m[<<"index", b>>]] : Chains(m)[m[<<"index", b>>]][j] = b
<1>1. /\ MapOK(m, SetSeq(m), GetSeq(m), Chains(m))
      /\ Linked(m) = Elems(SetSeq(m)) /\ Linked(m) = Elems(GetSeq(m))
  BY GoodFacts
<1>2. m[<<"index", b>>] \in Buckets /\ b \in Elems(Chains(m)[m[<<"index", b>>]])
  BY <1>1 DEF MapOK, SameBlocks
<1> QED BY <1>1, <1>2 DEF Elems

(* The parts of a sound map. *)
LEMMA GoodParts ==
  ASSUME NEW m, Good(m), NEW S, NEW G, NEW C, S = SetSeq(m), G = GetSeq(m), C = Chains(m)
  PROVE  /\ ListOK(m, SetL, S) /\ ListOK(m, GetL, G) /\ \A i \in Buckets : ChainOK(m, i, C[i])
         /\ Elems(G) = Elems(S) /\ \A i \in Buckets : Elems(C[i]) \subseteq Elems(S)
         /\ \A x \in Elems(S) : \E i \in Buckets : x \in Elems(C[i])
         /\ m[<<"elementCount", NULL>>] = Len(S) /\ TailsOK(m, Elems(S))
         /\ Linked(m) = Elems(S) /\ Distinct(S) /\ Distinct(G) /\ Elems(S) \subseteq Blocks
         /\ C = [i \in Buckets |-> C[i]]
<1>1. /\ MapOK(m, S, G, C) /\ Linked(m) = Elems(S) /\ Distinct(S) /\ Distinct(G)
      /\ Elems(S) \subseteq Blocks /\ C = [i \in Buckets |-> C[i]]
  BY GoodFacts
<1>2. Elems(G) = Elems(S) /\ \A i \in Buckets : Elems(C[i]) \subseteq Elems(S)
  BY <1>1 DEF MapOK, SameBlocks
<1>3. \A x \in Elems(S) : \E i \in Buckets : x \in Elems(C[i])
  BY <1>1 DEF MapOK, SameBlocks
<1> QED BY <1>1, <1>2, <1>3 DEF MapOK

LEMMA GoodKeys ==
  ASSUME NEW m, Good(m), NEW C, C = Chains(m)
  PROVE  /\ \A i \in Buckets : \A x \in Elems(C[i]) : m[<<"index", x>>] = i
         /\ \A i \in Buckets : \A x \in Elems(C[i]) : m[<<"key", x>>] # NULL => i = Hash[m[<<"key", x>>]]
         /\ \A x, y \in Linked(m) : x # y /\ m[<<"key", x>>] # NULL => m[<<"key", x>>] # m[<<"key", y>>]
<1>1. MapOK(m, SetSeq(m), GetSeq(m), C) /\ Linked(m) = Elems(SetSeq(m))
  BY GoodFacts
<1>0. \A i \in Buckets : ChainOK(m, i, C[i])
  BY <1>1 DEF MapOK
<1>2. \A i \in Buckets : \A x \in Elems(C[i]) : m[<<"index", x>>] = i
  <2>1. ASSUME NEW i \in Buckets, NEW x \in Elems(C[i]) PROVE m[<<"index", x>>] = i
    <3>1. PICK k \in DOMAIN C[i] : C[i][k] = x
      BY DEF Elems
    <3>2. m[<<"index", C[i][k]>>] = i
      BY <1>0 DEF ChainOK
    <3> QED BY <3>1, <3>2
  <2> QED BY <2>1
<1>3. \A i \in Buckets : Elems(C[i]) \subseteq Linked(m)
  BY <1>1 DEF MapOK, SameBlocks
<1>4. KeysOK(m, Linked(m))
  BY <1>1 DEF MapOK
<1>5. \A i \in Buckets : \A x \in Elems(C[i]) : m[<<"key", x>>] # NULL => i = Hash[m[<<"key", x>>]]
  BY <1>2, <1>3, <1>4 DEF KeysOK
<1> QED BY <1>2, <1>4, <1>5 DEF KeysOK

LEMMA EraseEffect ==
  ASSUME Typed(mem), Good(mem), NEW b \in Linked(mem), NEW n, Same(mem, n, MapFields)
  PROVE  /\ Fits(eraseLog(b), LogFields, 14)
         /\ Good(Over(n, eraseLog(b))) /\ Linked(Over(n, eraseLog(b))) = Linked(mem) \ {b}
         /\ Same(mem, Over(n, eraseLog(b)), {"key"})
<1>0. PICK S, G, C : S = SetSeq(mem) /\ G = GetSeq(mem) /\ C = Chains(mem)
  OBVIOUS
<1>1. /\ ListOK(mem, SetL, S) /\ ListOK(mem, GetL, G) /\ \A i \in Buckets : ChainOK(mem, i, C[i])
      /\ Elems(G) = Elems(S) /\ \A i \in Buckets : Elems(C[i]) \subseteq Elems(S)
      /\ \A x \in Elems(S) : \E i \in Buckets : x \in Elems(C[i])
      /\ mem[<<"elementCount", NULL>>] = Len(S) /\ TailsOK(mem, Elems(S))
      /\ Linked(mem) = Elems(S) /\ Distinct(S) /\ Distinct(G) /\ Elems(S) \subseteq Blocks
  BY <1>0, GoodParts
<1>2. PICK i : i = mem[<<"index", b>>]
  OBVIOUS
<1>3. i \in Buckets
  BY <1>2, GoodPlaces
<1>4. PICK j \in DOMAIN S : S[j] = b
  BY <1>0, GoodPlaces
<1>5. PICK g \in DOMAIN G : G[g] = b
  BY <1>0, GoodPlaces
<1>6. PICK c \in DOMAIN C[i] : C[i][c] = b
  BY <1>0, <1>2, GoodPlaces
<1>7. PICK u1, u2, u3, u4, u5 :
        /\ u1 = TailsPast(b) /\ u2 = Unlink(SetL, b) /\ u3 = Unlink(GetL, b) /\ u4 = Unchain(b)
        /\ u5 = Uncount(b)
  OBVIOUS
<1>8. PICK o1 : o1 = Over(n, u1)
  OBVIOUS
<1>9. PICK o2 : o2 = Over(o1, u2)
  OBVIOUS
<1>10. PICK o3 : o3 = Over(o2, u3)
  OBVIOUS
<1>11. PICK o4 : o4 = Over(o3, u4)
  OBVIOUS
<1>12. PICK r : r = Over(o4, u5)
  OBVIOUS
<1>13. PICK T, FS, FG, FC, FD, FK :
         /\ T = Tails /\ FS = Fields(SetL) /\ FG = Fields(GetL) /\ FC = ChainFields
         /\ FD = Drifting \union {"elementCount"} /\ FK = {"key"}
  OBVIOUS
<1>14. /\ T \in Parts /\ FS \in Parts /\ FG \in Parts /\ FC \in Parts /\ FD \in Parts /\ FK \in Parts
       /\ T # FS /\ T # FG /\ T # FC /\ T # FD /\ T # FK /\ FS # FG /\ FS # FC /\ FS # FD /\ FS # FK
       /\ FG # FC /\ FG # FD /\ FG # FK /\ FC # FD /\ FC # FK /\ FD # FK
  <2>1. T \in Parts /\ FS \in Parts /\ FG \in Parts /\ FC \in Parts /\ FD \in Parts /\ FK \in Parts
    BY <1>13 DEF Parts
  <2>2. /\ "dirtyTail" \in T /\ "setHead" \in FS /\ "getHead" \in FG /\ "index" \in FC /\ "getCount" \in FD
        /\ "key" \in FK
    BY <1>13 DEF Tails, Fields, SetL, GetL, ChainFields, Drifting
  <2>3. /\ "dirtyTail" \notin FS \union FG \union FC \union FD \union FK
        /\ "setHead" \notin FG \union FC \union FD \union FK
        /\ "getHead" \notin FC \union FD \union FK /\ "index" \notin FD \union FK /\ "getCount" \notin FK
    BY <1>13 DEF Tails, Fields, SetL, GetL, ChainFields, Drifting
  <2> QED BY <2>1, <2>2, <2>3
<1>15. Same(mem, n, T) /\ Same(mem, n, FS) /\ Same(mem, n, FG) /\ Same(mem, n, FC) /\ Same(mem, n, FK)
       /\ Same(mem, n, {"elementCount"})
  <2>1. T \subseteq MapFields /\ FS \subseteq MapFields /\ FG \subseteq MapFields /\ FC \subseteq MapFields
    BY <1>13, FieldNames, ListNames
  <2>2. FK \subseteq MapFields /\ {"elementCount"} \subseteq MapFields
    BY <1>13 DEF MapFields
  <2> QED BY <2>1, <2>2, SameSub
<1>16. Fits(u1, T, 3) /\ TailsOK(o1, Elems(S) \ {b})
  BY <1>1, <1>7, <1>8, <1>13, <1>15, TailsPastEffect
<1>17. Same(n, o1, FS) /\ Same(n, o1, FG) /\ Same(n, o1, FC) /\ Same(n, o1, FD) /\ Same(n, o1, FK)
  BY <1>8, <1>14, <1>16, FitsSeq, PartSame
<1>18. Same(mem, o1, FS)
  BY <1>15, <1>17, SameTrans
<1>19. Fits(u2, FS, 2) /\ ListOK(o2, SetL, Without(S, j))
  <2>1. SetL \in {SetL, GetL} /\ Same(mem, o1, Fields(SetL))
    BY <1>13, <1>18
  <2>2. Fits(Unlink(SetL, S[j]), Fields(SetL), 2) /\ ListOK(Over(o1, Unlink(SetL, S[j])), SetL, Without(S, j))
    BY <1>1, <2>1, UnlinkEffect
  <2> QED BY <1>4, <1>7, <1>9, <1>13, <2>2
<1>20. Same(o1, o2, T) /\ Same(o1, o2, FG) /\ Same(o1, o2, FC) /\ Same(o1, o2, FD) /\ Same(o1, o2, FK)
  BY <1>9, <1>14, <1>19, FitsSeq, PartSame
<1>21. Same(mem, o2, FG)
  BY <1>15, <1>17, <1>20, SameTrans
<1>22. Fits(u3, FG, 2) /\ ListOK(o3, GetL, Without(G, g))
  <2>1. GetL \in {SetL, GetL} /\ Same(mem, o2, Fields(GetL))
    BY <1>13, <1>21
  <2>2. Fits(Unlink(GetL, G[g]), Fields(GetL), 2) /\ ListOK(Over(o2, Unlink(GetL, G[g])), GetL, Without(G, g))
    BY <1>1, <2>1, UnlinkEffect
  <2> QED BY <1>5, <1>7, <1>10, <1>13, <2>2
<1>23. Same(o2, o3, T) /\ Same(o2, o3, FS) /\ Same(o2, o3, FC) /\ Same(o2, o3, FD) /\ Same(o2, o3, FK)
  BY <1>10, <1>14, <1>22, FitsSeq, PartSame
<1>24. Same(mem, o3, FC)
  BY <1>15, <1>17, <1>20, <1>23, SameTrans
<1>25. /\ Fits(u4, FC, 4) /\ ChainOK(o4, i, Without(C[i], c)) /\ \A k \in Buckets \ {i} : ChainOK(o4, k, C[k])
  <2>1. Same(mem, o3, ChainFields)
    BY <1>13, <1>24
  <2>2. \A k \in Buckets : ChainOK(mem, k, C[k])
    BY <1>1
  <2>3. /\ Fits(Unchain(C[i][c]), ChainFields, 4)
        /\ ChainOK(Over(o3, Unchain(C[i][c])), i, Without(C[i], c))
        /\ \A k \in Buckets \ {i} : ChainOK(Over(o3, Unchain(C[i][c])), k, C[k])
    BY <1>3, <2>1, <2>2, UnchainEffect
  <2> QED BY <1>6, <1>7, <1>11, <1>13, <2>3
<1>26. Same(o3, o4, T) /\ Same(o3, o4, FS) /\ Same(o3, o4, FG) /\ Same(o3, o4, FD) /\ Same(o3, o4, FK)
  BY <1>11, <1>14, <1>25, FitsSeq, PartSame
<1>27. Same(mem, o4, {"elementCount"})
  <2>1. Same(n, o4, FD)
    BY <1>17, <1>20, <1>23, <1>26, SameTrans
  <2>2. Same(n, o4, {"elementCount"})
    BY <1>13, <2>1, SameSub
  <2> QED BY <1>15, <2>2, SameTrans
<1>28. Len(S) \in Nat /\ Len(S) # 0
  BY <1>1, <1>4, DistinctFacts
<1>29. Fits(u5, FD, 3) /\ r[<<"elementCount", NULL>>] = Len(S) - 1
  <2>1. mem[<<"elementCount", NULL>>] # 0
    BY <1>1, <1>28
  <2>2. /\ Fits(Uncount(b), Drifting \union {"elementCount"}, 3)
        /\ Over(o4, Uncount(b))[<<"elementCount", NULL>>] = mem[<<"elementCount", NULL>>] - 1
    BY <1>27, <2>1, UncountEffect
  <2> QED BY <1>1, <1>7, <1>12, <1>13, <2>2
<1>30. Same(o4, r, T) /\ Same(o4, r, FS) /\ Same(o4, r, FG) /\ Same(o4, r, FC) /\ Same(o4, r, FK)
  BY <1>12, <1>14, <1>29, FitsSeq, PartSame
<1>31. Fits(eraseLog(b), LogFields, 14) /\ Over(n, eraseLog(b)) = r
  <2>0. PICK F : F = LogFields
    OBVIOUS
  <2>1. Fits(u1, F, 3) /\ Fits(u2, F, 2) /\ Fits(u3, F, 2) /\ Fits(u4, F, 4) /\ Fits(u5, F, 3)
    BY <1>14, <1>16, <1>19, <1>22, <1>25, <1>29, <2>0, PartFits
  <2>2. Fits(u1 \o u2 \o u3 \o u4 \o u5, F, 3 + 2 + 2 + 4 + 3)
    BY <2>1, Cat5
  <2>3. Over(n, u1 \o u2 \o u3 \o u4 \o u5) = Over(Over(Over(Over(Over(n, u1), u2), u3), u4), u5)
    BY <2>1, Cat5
  <2>4. eraseLog(b) = u1 \o u2 \o u3 \o u4 \o u5
    BY <1>7 DEF eraseLog
  <2>5. 3 + 2 + 2 + 4 + 3 = 14
    OBVIOUS
  <2>6. Fits(eraseLog(b), LogFields, 14)
    BY <2>0, <2>2, <2>4, <2>5
  <2> QED BY <2>3, <2>4, <2>6, <1>8, <1>9, <1>10, <1>11, <1>12
<1>32. PICK S1, G1 : S1 = Without(S, j) /\ G1 = Without(G, g)
  OBVIOUS
<1>33. PICK C1 : C1 = [k \in Buckets |-> IF k = i THEN Without(C[i], c) ELSE C[k]]
  OBVIOUS
<1>34. Elems(S1) = Elems(S) \ {b} /\ Elems(G1) = Elems(S) \ {b} /\ Len(S1) = Len(S) - 1
  <2>1. Elems(S1) = Elems(S) \ {b} /\ Len(S1) = Len(S) - 1
    BY <1>1, <1>4, <1>32, WithoutFacts
  <2>2. Elems(G1) = Elems(G) \ {b}
    BY <1>1, <1>5, <1>32, WithoutFacts
  <2> QED BY <1>1, <2>1, <2>2
<1>35. ListOK(r, SetL, S1) /\ ListOK(r, GetL, G1)
  <2>1. Same(o2, r, FS)
    BY <1>23, <1>26, <1>30, SameTrans
  <2>2. Same(o3, r, FG)
    BY <1>26, <1>30, SameTrans
  <2>3. Same(o2, r, Fields(SetL)) /\ Same(o3, r, Fields(GetL)) /\ SetL \in {SetL, GetL} /\ GetL \in {SetL, GetL}
    BY <1>13, <2>1, <2>2
  <2>4. ListOK(r, SetL, S1)
    BY <1>19, <1>32, <2>3, ListSame
  <2>5. ListOK(r, GetL, G1)
    BY <1>22, <1>32, <2>3, ListSame
  <2> QED BY <2>4, <2>5
<1>36. \A k \in Buckets : C1[k] = IF k = i THEN Without(C[i], c) ELSE C[k]
  BY <1>33
<1>37. \A k \in Buckets : ChainOK(r, k, C1[k])
  <2>1. \A k \in Buckets : ChainOK(o4, k, C1[k])
    BY <1>25, <1>36
  <2>2. Same(o4, r, ChainFields)
    BY <1>13, <1>30
  <2> QED BY <2>1, <2>2, ChainSame
<1>38. \A k \in Buckets : \A x \in Elems(C[k]) : mem[<<"index", x>>] = k
  BY <1>0, GoodKeys
<1>39. \A k \in Buckets : Elems(C1[k]) = Elems(C[k]) \ {b}
  <2>1. ASSUME NEW k \in Buckets, k # i PROVE Elems(C1[k]) = Elems(C[k]) \ {b}
    <3>1. C1[k] = C[k]
      BY <1>36, <2>1
    <3>2. b \notin Elems(C[k])
      BY <1>2, <1>38, <2>1
    <3> QED BY <3>1, <3>2
  <2>2. Elems(C1[i]) = Elems(C[i]) \ {b}
    <3>0. PICK d : d = C[i]
      OBVIOUS
    <3>1. Distinct(d)
      BY <1>1, <1>3, <3>0, LinearDistinct DEF ChainOK
    <3>2. Elems(Without(d, c)) = Elems(d) \ {d[c]}
      BY <1>6, <3>0, <3>1, WithoutFacts
    <3> QED BY <1>3, <1>6, <1>36, <3>0, <3>2
  <2> QED BY <2>1, <2>2
<1>40. TailsOK(r, Elems(S1))
  <2>1. Same(o1, r, T)
    BY <1>20, <1>23, <1>26, <1>30, SameTrans
  <2>2. \A t \in Tails : r[<<t, NULL>>] = o1[<<t, NULL>>]
    BY <1>13, <2>1, SameWords, FieldNames
  <2> QED BY <1>16, <1>34, <2>2 DEF TailsOK
<1>41. Same(mem, r, {"key"})
  <2>1. Same(mem, r, FK)
    BY <1>15, <1>17, <1>20, <1>23, <1>26, <1>30, SameTrans
  <2> QED BY <1>13, <2>1
<1>42. \A x \in Blocks : r[<<"key", x>>] = mem[<<"key", x>>]
  BY <1>41, SameWords, FieldNames
<1>43. \A k \in Buckets : \A x \in Elems(C1[k]) : r[<<"key", x>>] # NULL => k = Hash[r[<<"key", x>>]]
  <2>1. \A k \in Buckets : \A x \in Elems(C[k]) : mem[<<"key", x>>] # NULL => k = Hash[mem[<<"key", x>>]]
    BY <1>0, GoodKeys
  <2>2. ASSUME NEW k \in Buckets, NEW x \in Elems(C1[k]) PROVE r[<<"key", x>>] # NULL => k = Hash[r[<<"key", x>>]]
    <3>1. x \in Elems(C[k]) /\ x \in Blocks
      BY <1>1, <1>39
    <3> QED BY <1>42, <2>1, <3>1
  <2> QED BY <2>2
<1>44. \A x, y \in Elems(S1) : x # y /\ r[<<"key", x>>] # NULL => r[<<"key", x>>] # r[<<"key", y>>]
  <2>1. \A x, y \in Elems(S) : x # y /\ mem[<<"key", x>>] # NULL => mem[<<"key", x>>] # mem[<<"key", y>>]
    BY <1>1, GoodKeys
  <2> QED BY <1>1, <1>34, <1>42, <2>1
<1>45. \A x \in Elems(S1) : \E k \in Buckets : x \in Elems(C1[k])
  BY <1>1, <1>34, <1>39
<1>46. \A k \in Buckets : Elems(C1[k]) \subseteq Elems(S1)
  BY <1>1, <1>34, <1>39
<1>47. C1 = [k \in Buckets |-> C1[k]]
  BY <1>33
<1>48. r[<<"elementCount", NULL>>] = Len(S1) /\ Elems(G1) = Elems(S1)
  BY <1>29, <1>34
<1>49. MapParts(r, S1, G1, C1)
  BY <1>35, <1>37, <1>40, <1>43, <1>44, <1>45, <1>46, <1>47, <1>48 DEF MapParts
<1>50. Good(r) /\ Linked(r) = Elems(S1)
  BY <1>49, Assemble
<1> QED BY <1>1, <1>31, <1>34, <1>41, <1>50

(* A tail that moves within the map. *)
LEMMA TailKept ==
  ASSUME NEW n, NEW D, D \subseteq Blocks, TailsOK(n, D), NEW t \in Tails, NEW v \in D \union {NULL}
  PROVE  Fits(Up(t, NULL, v), Tails, 1) /\ TailsOK(Over(n, Up(t, NULL, v)), D)
<1>1. Fits(Up(t, NULL, v), Tails, 1) /\ <<t, NULL>> \in HashAddr
  BY TailFits
<1>2. PICK o : o = Over(n, Up(t, NULL, v))
  OBVIOUS
<1>3. WordSet(o, n, t, NULL, v)
  BY <1>1, <1>2, OneWord
<1>4. \A x \in Tails : <<x, NULL>> \in HashAddr
  BY FieldNames, HeadWord
<1>5. \A x \in Tails : o[<<x, NULL>>] = IF x = t THEN v ELSE n[<<x, NULL>>]
  BY <1>3, <1>4 DEF WordSet
<1>6. TailsOK(o, D)
  BY <1>5 DEF TailsOK
<1> QED BY <1>1, <1>2, <1>6

LEMMA TailKeptIf ==
  ASSUME NEW n, NEW D, D \subseteq Blocks, TailsOK(n, D), NEW t \in Tails, NEW v \in D \union {NULL},
         NEW c \in BOOLEAN
  PROVE  Fits(When(c, Up(t, NULL, v)), Tails, 1) /\ TailsOK(Over(n, When(c, Up(t, NULL, v))), D)
<1>1. CASE c
  <2>1. When(c, Up(t, NULL, v)) = Up(t, NULL, v)
    BY <1>1 DEF When
  <2> QED BY <2>1, TailKept
<1>2. CASE ~c
  <2>1. When(c, Up(t, NULL, v)) = <<>>
    BY <1>2 DEF When
  <2>2. Fits(<<>>, Tails, 1)
    BY FitsEmpty
  <2>3. \A x \in Tails : <<x, NULL>> \in HashAddr
    BY FieldNames, HeadWord
  <2>4. \A a \in HashAddr : Over(n, <<>>)[a] = n[a]
    BY OverNone
  <2>5. TailsOK(Over(n, <<>>), D)
    BY <2>3, <2>4 DEF TailsOK
  <2> QED BY <2>1, <2>2, <2>5
<1> QED BY <1>1, <1>2

(* The lists in another order, the rest as it was. *)
LEMMA Rearranged ==
  ASSUME NEW m, Good(m), NEW r, NEW S, NEW G, ListOK(r, SetL, S), ListOK(r, GetL, G),
         Elems(S) = Linked(m), Elems(G) = Linked(m), TailsOK(r, Linked(m)),
         Same(m, r, ChainFields), Same(m, r, {"key"}), Same(m, r, {"elementCount"})
  PROVE  Good(r) /\ Linked(r) = Linked(m)
<1>0. PICK S0, G0, C : S0 = SetSeq(m) /\ G0 = GetSeq(m) /\ C = Chains(m)
  OBVIOUS
<1>1. /\ \A i \in Buckets : ChainOK(m, i, C[i])
      /\ \A i \in Buckets : Elems(C[i]) \subseteq Elems(S0)
      /\ \A x \in Elems(S0) : \E i \in Buckets : x \in Elems(C[i])
      /\ m[<<"elementCount", NULL>>] = Len(S0)
      /\ Linked(m) = Elems(S0) /\ Distinct(S0) /\ Elems(S0) \subseteq Blocks
      /\ C = [i \in Buckets |-> C[i]]
  BY <1>0, GoodParts
<1>2. \A i \in Buckets : ChainOK(r, i, C[i])
  BY <1>1, ChainSame
<1>3. \A x \in Blocks : r[<<"key", x>>] = m[<<"key", x>>]
  BY SameWords, FieldNames
<1>4. r[<<"elementCount", NULL>>] = Len(S)
  <2>1. r[<<"elementCount", NULL>>] = m[<<"elementCount", NULL>>]
    BY SameWords, FieldNames
  <2>2. Distinct(S)
    BY LinearDistinct DEF ListOK
  <2>3. Cardinality(Elems(S)) = Len(S)
    BY <2>2, DistinctLen
  <2>4. Cardinality(Elems(S0)) = Len(S0)
    BY <1>1, DistinctLen
  <2> QED BY <1>1, <2>1, <2>3, <2>4
<1>5. \A i \in Buckets : \A x \in Elems(C[i]) : r[<<"key", x>>] # NULL => i = Hash[r[<<"key", x>>]]
  <2>1. \A i \in Buckets : \A x \in Elems(C[i]) : m[<<"key", x>>] # NULL => i = Hash[m[<<"key", x>>]]
    BY <1>0, GoodKeys
  <2>2. ASSUME NEW i \in Buckets, NEW x \in Elems(C[i])
        PROVE  r[<<"key", x>>] # NULL => i = Hash[r[<<"key", x>>]]
    <3>1. x \in Blocks
      BY <1>1
    <3> QED BY <1>3, <2>1, <3>1
  <2> QED BY <2>2
<1>6. \A x, y \in Elems(S) : x # y /\ r[<<"key", x>>] # NULL => r[<<"key", x>>] # r[<<"key", y>>]
  <2>1. \A x, y \in Linked(m) : x # y /\ m[<<"key", x>>] # NULL => m[<<"key", x>>] # m[<<"key", y>>]
    BY GoodKeys
  <2> QED BY <1>1, <1>3, <2>1
<1>7. MapParts(r, S, G, C)
  BY <1>1, <1>2, <1>4, <1>5, <1>6 DEF MapParts
<1> QED BY <1>7, Assemble

(* Tails that move, then a list whose blocks change places. *)
LEMMA ListTurned ==
  ASSUME Good(mem), NEW l \in {SetL, GetL}, NEW n, Same(mem, n, MapFields),
         NEW u, Fits(u, Tails, 2), TailsOK(Over(n, u), Linked(mem)),
         NEW v, Fits(v, Fields(l), 6), NEW s, ListOK(Over(Over(n, u), v), l, s), Elems(s) = Linked(mem)
  PROVE  /\ Fits(u \o v, LogFields, 8)
         /\ Good(Over(n, u \o v)) /\ Linked(Over(n, u \o v)) = Linked(mem)
         /\ Same(mem, Over(n, u \o v), {"key"})
<1>0. PICK o : o = Over(n, u)
  OBVIOUS
<1>1. PICK r : r = Over(o, v)
  OBVIOUS
<1>2. PICK T, FS, FG, FC, FD, FK, F :
         /\ T = Tails /\ FS = Fields(SetL) /\ FG = Fields(GetL) /\ FC = ChainFields
         /\ FD = Drifting \union {"elementCount"} /\ FK = {"key"} /\ F = Fields(l)
  OBVIOUS
<1>3. /\ T \in Parts /\ FS \in Parts /\ FG \in Parts /\ FC \in Parts /\ FD \in Parts /\ FK \in Parts
      /\ F \in {FS, FG}
      /\ T # FS /\ T # FG /\ T # FC /\ T # FD /\ T # FK /\ FS # FG /\ FS # FC /\ FS # FD /\ FS # FK
      /\ FG # FC /\ FG # FD /\ FG # FK
  <2>1. T \in Parts /\ FS \in Parts /\ FG \in Parts /\ FC \in Parts /\ FD \in Parts /\ FK \in Parts
    BY <1>2 DEF Parts
  <2>2. /\ "dirtyTail" \in T /\ "setHead" \in FS /\ "getHead" \in FG
    BY <1>2 DEF Tails, Fields, SetL, GetL
  <2>3. /\ "dirtyTail" \notin FS \union FG \union FC \union FD \union FK
        /\ "setHead" \notin FG \union FC \union FD \union FK
        /\ "getHead" \notin FC \union FD \union FK
    BY <1>2 DEF Tails, Fields, SetL, GetL, ChainFields, Drifting
  <2>4. F \in {FS, FG}
    BY <1>2
  <2> QED BY <2>1, <2>2, <2>3, <2>4
<1>4. /\ Same(mem, n, FS) /\ Same(mem, n, FG) /\ Same(mem, n, FC) /\ Same(mem, n, FK)
      /\ Same(mem, n, {"elementCount"})
  <2>1. FS \subseteq MapFields /\ FG \subseteq MapFields /\ FC \subseteq MapFields
    BY <1>2, FieldNames, ListNames
  <2>2. FK \subseteq MapFields /\ {"elementCount"} \subseteq MapFields
    BY <1>2 DEF MapFields
  <2> QED BY <2>1, <2>2, SameSub
<1>5. Touches(u, T) /\ Touches(v, F) /\ Fits(u, T, 2) /\ Fits(v, F, 6)
  BY <1>2, FitsSeq
<1>6. Same(n, o, FS) /\ Same(n, o, FG) /\ Same(n, o, FC) /\ Same(n, o, FD) /\ Same(n, o, FK)
  BY <1>0, <1>3, <1>5, PartSame
<1>7. /\ Same(o, r, T) /\ Same(o, r, FC) /\ Same(o, r, FD) /\ Same(o, r, FK)
      /\ F # FS => Same(o, r, FS)
      /\ F # FG => Same(o, r, FG)
  BY <1>1, <1>3, <1>5, PartSame
<1>8. Fits(u \o v, LogFields, 8) /\ Over(n, u \o v) = r
  <2>1. PICK K : K = LogFields
    OBVIOUS
  <2>2. Fits(u, K, 2) /\ Fits(v, K, 6)
    BY <1>3, <1>5, <2>1, PartFits
  <2>3. Fits(u \o v, K, 2 + 6)
    BY <2>2, FitsCat
  <2>4. Over(n, u \o v) = Over(Over(n, u), v)
    BY <2>2, OverCat, FitsSeq
  <2> QED BY <1>0, <1>1, <2>1, <2>3, <2>4
<1>9. /\ ListOK(mem, SetL, SetSeq(mem)) /\ ListOK(mem, GetL, GetSeq(mem))
      /\ Elems(SetSeq(mem)) = Linked(mem) /\ Elems(GetSeq(mem)) = Linked(mem)
  BY GoodParts
<1>10. Same(mem, r, FC) /\ Same(mem, r, FK) /\ Same(mem, r, {"elementCount"})
  <2>1. Same(n, r, FC) /\ Same(n, r, FK) /\ Same(n, r, FD)
    BY <1>6, <1>7, SameTrans
  <2>2. Same(n, r, {"elementCount"})
    BY <1>2, <2>1, SameSub
  <2> QED BY <1>4, <2>1, <2>2, SameTrans
<1>11. TailsOK(r, Linked(mem))
  <2>1. \A t \in Tails : r[<<t, NULL>>] = o[<<t, NULL>>]
    BY <1>2, <1>7, SameWords, FieldNames
  <2> QED BY <1>0, <2>1 DEF TailsOK
<1>12. PICK Sq, Gq : Sq = SetSeq(mem) /\ Gq = GetSeq(mem)
  OBVIOUS
<1>13. CASE l = SetL
  <2>1. Same(mem, r, FG)
    <3>1. F # FG
      BY <1>2, <1>3, <1>13
    <3> QED BY <1>4, <1>6, <1>7, <3>1, SameTrans
  <2>2. ListOK(r, GetL, Gq)
    <3>1. Same(mem, r, Fields(GetL)) /\ GetL \in {SetL, GetL} /\ ListOK(mem, GetL, Gq)
      BY <1>2, <1>9, <1>12, <2>1
    <3> QED BY <3>1, ListSame
  <2>3. ListOK(r, SetL, s)
    BY <1>0, <1>1, <1>13
  <2>4. Good(r) /\ Linked(r) = Linked(mem)
    BY <1>2, <1>9, <1>10, <1>11, <1>12, <2>2, <2>3, Rearranged
  <2> QED BY <1>2, <1>8, <1>10, <2>4
<1>14. CASE l = GetL
  <2>1. Same(mem, r, FS)
    <3>1. F # FS
      BY <1>2, <1>3, <1>14
    <3> QED BY <1>4, <1>6, <1>7, <3>1, SameTrans
  <2>2. ListOK(r, SetL, Sq)
    <3>1. Same(mem, r, Fields(SetL)) /\ SetL \in {SetL, GetL} /\ ListOK(mem, SetL, Sq)
      BY <1>2, <1>9, <1>12, <2>1
    <3> QED BY <3>1, ListSame
  <2>3. ListOK(r, GetL, s)
    BY <1>0, <1>1, <1>14
  <2>4. Good(r) /\ Linked(r) = Linked(mem)
    BY <1>2, <1>9, <1>10, <1>11, <1>12, <2>2, <2>3, Rearranged
  <2> QED BY <1>2, <1>8, <1>10, <2>4
<1> QED BY <1>13, <1>14

LEMMA MakeNewEffect ==
  ASSUME Typed(mem), Good(mem), NEW i \in Buckets, NEW b \in Blocks, b \notin Linked(mem),
         mem[<<"index", b>>] = i, mem[<<"key", b>>] = NULL, \A f \in BlockLinks : mem[<<f, b>>] = NULL,
         NEW n, Same(mem, n, MapFields)
  PROVE  /\ Fits(makeNewLog(b, i), LogFields, 13)
         /\ Good(Over(n, makeNewLog(b, i))) /\ Linked(Over(n, makeNewLog(b, i))) = Linked(mem) \union {b}
         /\ Same(mem, Over(n, makeNewLog(b, i)), {"key"}) /\ Over(n, makeNewLog(b, i))[<<"index", b>>] = i
<1>0. PICK S, G, C : S = SetSeq(mem) /\ G = GetSeq(mem) /\ C = Chains(mem)
  OBVIOUS
<1>1. /\ ListOK(mem, SetL, S) /\ ListOK(mem, GetL, G) /\ \A k \in Buckets : ChainOK(mem, k, C[k])
      /\ Elems(G) = Elems(S) /\ \A k \in Buckets : Elems(C[k]) \subseteq Elems(S)
      /\ \A x \in Elems(S) : \E k \in Buckets : x \in Elems(C[k])
      /\ mem[<<"elementCount", NULL>>] = Len(S) /\ TailsOK(mem, Elems(S))
      /\ Linked(mem) = Elems(S) /\ Distinct(S) /\ Distinct(G) /\ Elems(S) \subseteq Blocks
  BY <1>0, GoodParts
<1>2. b \notin Elems(S) /\ b \notin Elems(G) /\ \A k \in Buckets : b \notin Elems(C[k])
  BY <1>1
<1>7. PICK u1, u2, u3, u4, u5 :
        /\ u1 = Inc("dirtyCount", NULL) /\ u2 = Inc("elementCount", NULL) /\ u3 = PutInChain(b, i)
        /\ u4 = PutFirst(SetL, b) /\ u5 = PutFirst(GetL, b)
  OBVIOUS
<1>8. PICK o1 : o1 = Over(n, u1)
  OBVIOUS
<1>9. PICK o2 : o2 = Over(o1, u2)
  OBVIOUS
<1>10. PICK o3 : o3 = Over(o2, u3)
  OBVIOUS
<1>11. PICK o4 : o4 = Over(o3, u4)
  OBVIOUS
<1>12. PICK r : r = Over(o4, u5)
  OBVIOUS
<1>13. PICK T, FS, FG, FC, FD, FK :
         /\ T = Tails /\ FS = Fields(SetL) /\ FG = Fields(GetL) /\ FC = ChainFields
         /\ FD = Drifting \union {"elementCount"} /\ FK = {"key"}
  OBVIOUS
<1>14. /\ T \in Parts /\ FS \in Parts /\ FG \in Parts /\ FC \in Parts /\ FD \in Parts /\ FK \in Parts
       /\ T # FS /\ T # FG /\ T # FC /\ T # FD /\ T # FK /\ FS # FG /\ FS # FC /\ FS # FD /\ FS # FK
       /\ FG # FC /\ FG # FD /\ FG # FK /\ FC # FD /\ FC # FK /\ FD # FK
  <2>1. T \in Parts /\ FS \in Parts /\ FG \in Parts /\ FC \in Parts /\ FD \in Parts /\ FK \in Parts
    BY <1>13 DEF Parts
  <2>2. /\ "dirtyTail" \in T /\ "setHead" \in FS /\ "getHead" \in FG /\ "index" \in FC /\ "getCount" \in FD
        /\ "key" \in FK
    BY <1>13 DEF Tails, Fields, SetL, GetL, ChainFields, Drifting
  <2>3. /\ "dirtyTail" \notin FS \union FG \union FC \union FD \union FK
        /\ "setHead" \notin FG \union FC \union FD \union FK
        /\ "getHead" \notin FC \union FD \union FK /\ "index" \notin FD \union FK /\ "getCount" \notin FK
    BY <1>13 DEF Tails, Fields, SetL, GetL, ChainFields, Drifting
  <2> QED BY <2>1, <2>2, <2>3
<1>15. Same(mem, n, T) /\ Same(mem, n, FS) /\ Same(mem, n, FG) /\ Same(mem, n, FC) /\ Same(mem, n, FK)
  <2>1. T \subseteq MapFields /\ FS \subseteq MapFields /\ FG \subseteq MapFields /\ FC \subseteq MapFields
    BY <1>13, FieldNames, ListNames
  <2>2. FK \subseteq MapFields
    BY <1>13 DEF MapFields
  <2> QED BY <2>1, <2>2, SameSub
<1>16. Fits(u1, FD, 1) /\ Fits(u2, FD, 1)
  <2>1. "dirtyCount" \in HeadCounts /\ "elementCount" \in HeadCounts /\ "dirtyCount" \in FD /\ "elementCount" \in FD
    BY <1>13 DEF HeadCounts, Drifting
  <2> QED BY <1>7, <2>1, CountFits
<1>17. Same(n, o1, T) /\ Same(n, o1, FS) /\ Same(n, o1, FG) /\ Same(n, o1, FC) /\ Same(n, o1, FK)
  BY <1>8, <1>14, <1>16, FitsSeq, PartSame
<1>18. Same(o1, o2, T) /\ Same(o1, o2, FS) /\ Same(o1, o2, FG) /\ Same(o1, o2, FC) /\ Same(o1, o2, FK)
  BY <1>9, <1>14, <1>16, FitsSeq, PartSame
<1>19. /\ Distinct(Pushed(S, b)) /\ Len(Pushed(S, b)) = Len(S) + 1
       /\ Elems(Pushed(S, b)) = Elems(S) \union {b}
  BY <1>1, <1>2, PushedFacts
<1>20. o2[<<"elementCount", NULL>>] = Len(S) + 1
  <2>1. Len(S) \in Nat
    BY <1>1, DistinctFacts
  <2>2. Len(Pushed(S, b)) <= Cardinality(Blocks) /\ Cardinality(Blocks) \in Nat
    BY <1>19, DistinctLen
  <2>3. MaxCount \in Nat /\ Cardinality(Blocks) <= MaxCount
    BY MapAssumption
  <2>4. mem[<<"elementCount", NULL>>] # MaxCount
    BY <1>1, <1>19, <2>1, <2>2, <2>3
  <2>5. u2 = Up("elementCount", NULL, Len(S) + 1)
    BY <1>1, <1>7, <2>4 DEF Inc
  <2>6. <<"elementCount", NULL>> \in HashAddr
    BY HeadWord, FieldNames
  <2> QED BY <1>9, <2>5, <2>6, OverOneAt
<1>21. Same(mem, o2, FC)
  BY <1>15, <1>17, <1>18, SameTrans
<1>22. /\ Fits(u3, FC, 5) /\ ChainOK(o3, i, Pushed(C[i], b)) /\ \A k \in Buckets \ {i} : ChainOK(o3, k, C[k])
  <2>1. Same(mem, o2, ChainFields)
    BY <1>13, <1>21
  <2>2. \A k \in Buckets : ChainOK(mem, k, C[k])
    BY <1>1
  <2>3. /\ Fits(PutInChain(b, i), ChainFields, 5)
        /\ ChainOK(Over(o2, PutInChain(b, i)), i, Pushed(C[i], b))
        /\ \A k \in Buckets \ {i} : ChainOK(Over(o2, PutInChain(b, i)), k, C[k])
    BY <1>2, <2>1, <2>2, PutInChainEffect
  <2> QED BY <1>7, <1>10, <1>13, <2>3
<1>23. Same(o2, o3, T) /\ Same(o2, o3, FS) /\ Same(o2, o3, FG) /\ Same(o2, o3, FD) /\ Same(o2, o3, FK)
  BY <1>10, <1>14, <1>22, FitsSeq, PartSame
<1>24. Same(mem, o3, FS)
  BY <1>15, <1>17, <1>18, <1>23, SameTrans
<1>a. /\ mem[<<SetL.next, b>>] = NULL /\ mem[<<SetL.prev, b>>] = NULL
      /\ mem[<<GetL.next, b>>] = NULL /\ mem[<<GetL.prev, b>>] = NULL
  <2>1. SetL.next \in BlockLinks /\ SetL.prev \in BlockLinks /\ GetL.next \in BlockLinks /\ GetL.prev \in BlockLinks
    BY ListNames
  <2> QED BY <2>1
<1>25. Fits(u4, FS, 3) /\ ListOK(o4, SetL, Pushed(S, b))
  <2>1. SetL \in {SetL, GetL} /\ Same(mem, o3, Fields(SetL))
    BY <1>13, <1>24
  <2>2. Fits(PutFirst(SetL, b), Fields(SetL), 3) /\ ListOK(Over(o3, PutFirst(SetL, b)), SetL, Pushed(S, b))
    BY <1>1, <1>2, <1>a, <2>1, PutFirstEffect
  <2> QED BY <1>7, <1>11, <1>13, <2>2
<1>26. Same(o3, o4, T) /\ Same(o3, o4, FG) /\ Same(o3, o4, FC) /\ Same(o3, o4, FD) /\ Same(o3, o4, FK)
  BY <1>11, <1>14, <1>25, FitsSeq, PartSame
<1>27. Same(mem, o4, FG)
  BY <1>15, <1>17, <1>18, <1>23, <1>26, SameTrans
<1>28. Fits(u5, FG, 3) /\ ListOK(r, GetL, Pushed(G, b))
  <2>1. GetL \in {SetL, GetL} /\ Same(mem, o4, Fields(GetL))
    BY <1>13, <1>27
  <2>2. Fits(PutFirst(GetL, b), Fields(GetL), 3) /\ ListOK(Over(o4, PutFirst(GetL, b)), GetL, Pushed(G, b))
    BY <1>1, <1>2, <1>a, <2>1, PutFirstEffect
  <2> QED BY <1>7, <1>12, <1>13, <2>2
<1>30. Same(o4, r, T) /\ Same(o4, r, FS) /\ Same(o4, r, FC) /\ Same(o4, r, FD) /\ Same(o4, r, FK)
  BY <1>12, <1>14, <1>28, FitsSeq, PartSame
<1>31. Fits(makeNewLog(b, i), LogFields, 13) /\ Over(n, makeNewLog(b, i)) = r
  <2>0. PICK F : F = LogFields
    OBVIOUS
  <2>1. Fits(u1, F, 1) /\ Fits(u2, F, 1) /\ Fits(u3, F, 5) /\ Fits(u4, F, 3) /\ Fits(u5, F, 3)
    BY <1>14, <1>16, <1>22, <1>25, <1>28, <2>0, PartFits
  <2>2. Fits(u1 \o u2 \o u3 \o u4 \o u5, F, 1 + 1 + 5 + 3 + 3)
    BY <2>1, Cat5
  <2>3. Over(n, u1 \o u2 \o u3 \o u4 \o u5) = Over(Over(Over(Over(Over(n, u1), u2), u3), u4), u5)
    BY <2>1, Cat5
  <2>4. makeNewLog(b, i) = u1 \o u2 \o u3 \o u4 \o u5
    BY <1>7 DEF makeNewLog
  <2>5. 1 + 1 + 5 + 3 + 3 = 13
    OBVIOUS
  <2>6. Fits(makeNewLog(b, i), LogFields, 13)
    BY <2>0, <2>2, <2>4, <2>5
  <2> QED BY <2>3, <2>4, <2>6, <1>8, <1>9, <1>10, <1>11, <1>12
<1>32. PICK S1, G1 : S1 = Pushed(S, b) /\ G1 = Pushed(G, b)
  OBVIOUS
<1>33. PICK C1 : C1 = [k \in Buckets |-> IF k = i THEN Pushed(C[i], b) ELSE C[k]]
  OBVIOUS
<1>34. Elems(S1) = Elems(S) \union {b} /\ Elems(G1) = Elems(S) \union {b} /\ Len(S1) = Len(S) + 1
  <2>2. Elems(G1) = Elems(G) \union {b}
    BY <1>1, <1>2, <1>32, PushedFacts
  <2> QED BY <1>1, <1>19, <1>32, <2>2
<1>35. ListOK(r, SetL, S1) /\ ListOK(r, GetL, G1)
  <2>3. Same(o4, r, Fields(SetL)) /\ SetL \in {SetL, GetL}
    BY <1>13, <1>30
  <2>4. ListOK(r, SetL, S1)
    BY <1>25, <1>32, <2>3, ListSame
  <2> QED BY <1>28, <1>32, <2>4
<1>36. \A k \in Buckets : C1[k] = IF k = i THEN Pushed(C[i], b) ELSE C[k]
  BY <1>33
<1>37. \A k \in Buckets : ChainOK(r, k, C1[k])
  <2>1. \A k \in Buckets : ChainOK(o3, k, C1[k])
    BY <1>22, <1>36
  <2>2. Same(o3, r, FC)
    BY <1>26, <1>30, SameTrans
  <2>3. Same(o3, r, ChainFields)
    BY <1>13, <2>2
  <2> QED BY <2>1, <2>3, ChainSame
<1>39. \A k \in Buckets : Elems(C1[k]) = IF k = i THEN Elems(C[i]) \union {b} ELSE Elems(C[k])
  <2>2. Elems(C1[i]) = Elems(C[i]) \union {b}
    <3>0. PICK d : d = C[i]
      OBVIOUS
    <3>1. Distinct(d) /\ b \notin Elems(d)
      BY <1>1, <1>2, <3>0, LinearDistinct DEF ChainOK
    <3>2. Elems(Pushed(d, b)) = Elems(d) \union {b}
      BY <3>1, PushedFacts
    <3> QED BY <1>36, <3>0, <3>2
  <2> QED BY <1>36, <2>2
<1>40. TailsOK(r, Elems(S1))
  <2>1. Same(mem, r, T)
    BY <1>15, <1>17, <1>18, <1>23, <1>26, <1>30, SameTrans
  <2>2. \A t \in Tails : r[<<t, NULL>>] = mem[<<t, NULL>>]
    BY <1>13, <2>1, SameWords, FieldNames
  <2> QED BY <1>1, <1>34, <2>2 DEF TailsOK
<1>41. Same(mem, r, {"key"})
  <2>1. Same(mem, r, FK)
    BY <1>15, <1>17, <1>18, <1>23, <1>26, <1>30, SameTrans
  <2> QED BY <1>13, <2>1
<1>42. \A x \in Blocks : r[<<"key", x>>] = mem[<<"key", x>>]
  BY <1>41, SameWords, FieldNames
<1>43. \A k \in Buckets : \A x \in Elems(C1[k]) : r[<<"key", x>>] # NULL => k = Hash[r[<<"key", x>>]]
  <2>1. \A k \in Buckets : \A x \in Elems(C[k]) : mem[<<"key", x>>] # NULL => k = Hash[mem[<<"key", x>>]]
    BY <1>0, GoodKeys
  <2>2. ASSUME NEW k \in Buckets, NEW x \in Elems(C1[k]) PROVE r[<<"key", x>>] # NULL => k = Hash[r[<<"key", x>>]]
    <3>1. x \in Elems(C[k]) \union {b} /\ x \in Blocks
      BY <1>1, <1>39
    <3>2. r[<<"key", b>>] = NULL
      BY <1>42
    <3> QED BY <1>42, <2>1, <3>1, <3>2
  <2> QED BY <2>2
<1>44. \A x, y \in Elems(S1) : x # y /\ r[<<"key", x>>] # NULL => r[<<"key", x>>] # r[<<"key", y>>]
  <2>1. \A x, y \in Elems(S) : x # y /\ mem[<<"key", x>>] # NULL => mem[<<"key", x>>] # mem[<<"key", y>>]
    BY <1>1, GoodKeys
  <2> QED BY <1>1, <1>34, <1>42, <2>1
<1>45. \A x \in Elems(S1) : \E k \in Buckets : x \in Elems(C1[k])
  <2>1. ASSUME NEW x \in Elems(S1) PROVE \E k \in Buckets : x \in Elems(C1[k])
    <3>1. CASE x = b
      BY <1>39, <3>1
    <3>2. CASE x # b
      <4>1. PICK k \in Buckets : x \in Elems(C[k])
        BY <1>1, <1>34, <3>2
      <4>2. x \in Elems(C1[k])
        BY <1>39, <4>1
      <4> QED BY <4>2
    <3> QED BY <3>1, <3>2
  <2> QED BY <2>1
<1>46. \A k \in Buckets : Elems(C1[k]) \subseteq Elems(S1)
  <2>1. ASSUME NEW k \in Buckets PROVE Elems(C1[k]) \subseteq Elems(S) \union {b}
    <3>1. Elems(C[k]) \subseteq Elems(S) /\ Elems(C[i]) \subseteq Elems(S)
      BY <1>1
    <3> QED BY <1>39, <3>1
  <2> QED BY <1>34, <2>1
<1>47. C1 = [k \in Buckets |-> C1[k]]
  BY <1>33
<1>48. r[<<"elementCount", NULL>>] = Len(S1) /\ Elems(G1) = Elems(S1)
  <2>1. Same(o2, r, FD)
    BY <1>23, <1>26, <1>30, SameTrans
  <2>2. r[<<"elementCount", NULL>>] = o2[<<"elementCount", NULL>>]
    BY <1>13, <2>1, SameWords, FieldNames
  <2> QED BY <1>20, <1>34, <2>2
<1>49. MapParts(r, S1, G1, C1)
  BY <1>35, <1>37, <1>40, <1>43, <1>44, <1>45, <1>46, <1>47, <1>48 DEF MapParts
<1>50. Good(r) /\ Linked(r) = Elems(S1)
  BY <1>49, Assemble
<1>51. r[<<"index", b>>] = i
  <2>1. ChainOK(r, i, C1[i]) /\ b \in Elems(C1[i])
    BY <1>37, <1>39
  <2> QED BY <2>1 DEF ChainOK, Elems
<1> QED BY <1>1, <1>31, <1>34, <1>41, <1>50, <1>51

(* A list is as it was behind the entries that move tails. *)
LEMMA TailsAside ==
  ASSUME NEW l \in {SetL, GetL}, NEW m, NEW n, Same(m, n, MapFields), NEW u, Touches(u, Tails)
  PROVE  Same(m, Over(n, u), Fields(l))
<1>1. Fields(l) \subseteq MapFields
  BY ListNames
<1>2. Same(m, n, Fields(l))
  BY <1>1, SameSub
<1>3. Tails \intersect Fields(l) = {}
  BY FieldNames
<1>4. Same(n, Over(n, u), Fields(l))
  BY <1>3, OverSame
<1> QED BY <1>2, <1>4, SameTrans

LEMMA RefreshSetEffect ==
  ASSUME Good(mem), NEW b \in Linked(mem), NEW n, Same(mem, n, MapFields)
  PROVE  /\ Fits(refreshSetLog(b), LogFields, 8)
         /\ Good(Over(n, refreshSetLog(b))) /\ Linked(Over(n, refreshSetLog(b))) = Linked(mem)
         /\ Same(mem, Over(n, refreshSetLog(b)), {"key"})
<1>0. PICK S, D : S = SetSeq(mem) /\ D = Linked(mem)
  OBVIOUS
<1>1. ListOK(mem, SetL, S) /\ Elems(S) = D /\ D \subseteq Blocks /\ Distinct(S) /\ TailsOK(mem, D)
  BY <1>0, GoodParts
<1>2. PICK j \in DOMAIN S : S[j] = b
  BY <1>0, GoodPlaces
<1>3. PICK p : p = mem[<<"setPrev", b>>]
  OBVIOUS
<1>4. p \in D \union {NULL} /\ b \in D \union {NULL}
  BY <1>0, <1>3, LinkedFacts
<1>5. PICK at \in BOOLEAN : at <=> (mem[<<"setHead", NULL>>] = b)
  OBVIOUS
<1>6. PICK c1 \in BOOLEAN : c1 <=> (mem[<<"syncTail", NULL>>] = b /\ ~at)
  OBVIOUS
<1>7. PICK c2 \in BOOLEAN : c2 <=> (mem[<<"dirtyTail", NULL>>] = b /\ ~at)
  OBVIOUS
<1>8. PICK c3 \in BOOLEAN : c3 <=> (mem[<<"dirtyTail", NULL>>] = NULL)
  OBVIOUS
<1>9. PICK u1, u2, v :
        /\ u1 = When(c1, Up("syncTail", NULL, p))
        /\ u2 = IF c2 THEN Up("dirtyTail", NULL, p) ELSE When(c3, Up("dirtyTail", NULL, b))
        /\ v = When(~at, MoveToHead(SetL, b))
  OBVIOUS
<1>10. refreshSetLog(b) = u1 \o u2 \o v
  BY <1>3, <1>5, <1>6, <1>7, <1>8, <1>9 DEF refreshSetLog, H, B
<1>11. TailsOK(n, D)
  <2>1. \A t \in Tails : n[<<t, NULL>>] = mem[<<t, NULL>>]
    BY SameWords, FieldNames
  <2> QED BY <1>1, <2>1 DEF TailsOK
<1>12. "syncTail" \in Tails /\ "dirtyTail" \in Tails
  BY DEF Tails
<1>13. PICK o1 : o1 = Over(n, u1)
  OBVIOUS
<1>14. Fits(u1, Tails, 1) /\ TailsOK(o1, D)
  BY <1>1, <1>4, <1>9, <1>11, <1>12, <1>13, TailKeptIf
<1>15. Fits(u2, Tails, 1) /\ TailsOK(Over(o1, u2), D)
  <2>1. CASE c2
    <3>1. u2 = Up("dirtyTail", NULL, p)
      BY <1>9, <2>1
    <3> QED BY <1>1, <1>4, <1>12, <1>14, <3>1, TailKept
  <2>2. CASE ~c2
    <3>1. u2 = When(c3, Up("dirtyTail", NULL, b))
      BY <1>9, <2>2
    <3> QED BY <1>1, <1>4, <1>12, <1>14, <3>1, TailKeptIf
  <2> QED BY <2>1, <2>2
<1>16. PICK u : u = u1 \o u2
  OBVIOUS
<1>17. Fits(u, Tails, 2) /\ TailsOK(Over(n, u), D)
  <2>1. Fits(u, Tails, 2)
    BY <1>14, <1>15, <1>16, FitsTwo
  <2>2. Over(n, u) = Over(o1, u2)
    BY <1>13, <1>14, <1>15, <1>16, OverCat, FitsSeq
  <2> QED BY <1>15, <2>1, <2>2
<1>18. SetL \in {SetL, GetL}
  OBVIOUS
<1>19. PICK o : o = Over(n, u)
  OBVIOUS
<1>20. Same(mem, o, Fields(SetL))
  BY <1>17, <1>18, <1>19, TailsAside, FitsSeq
<1>21. mem[<<"setHead", NULL>>] = Nth(S, 1)
  BY <1>1 DEF ListOK, SetL
<1>22. DOMAIN S = 1..Len(S) /\ Len(S) \in Nat
  BY <1>1, DistinctFacts
<1>23. PICK s : Fits(v, Fields(SetL), 6) /\ ListOK(Over(o, v), SetL, s) /\ Elems(s) = D
  <2>1. CASE at
    <3>1. v = <<>>
      BY <1>9, <2>1 DEF When
    <3>2. Fits(v, Fields(SetL), 6)
      BY <3>1, FitsEmpty
    <3>3. \A a \in HashAddr : Over(o, v)[a] = o[a]
      BY <3>1, OverNone
    <3>4. Same(o, Over(o, v), Fields(SetL))
      BY <3>3 DEF Same
    <3>5. Same(mem, Over(o, v), Fields(SetL))
      BY <1>20, <3>4, SameTrans
    <3>6. ListOK(Over(o, v), SetL, S)
      BY <1>1, <1>18, <3>5, ListSame
    <3> QED BY <1>1, <3>2, <3>6
  <2>2. CASE ~at
    <3>1. v = MoveToHead(SetL, S[j])
      BY <1>2, <1>9, <2>2 DEF When
    <3>2. j # 1
      BY <1>2, <1>5, <1>21, <2>2 DEF Nth
    <3>3. /\ Fits(MoveToHead(SetL, S[j]), Fields(SetL), 6)
          /\ ListOK(Over(o, MoveToHead(SetL, S[j])), SetL, Moved(S, j))
      BY <1>1, <1>18, <1>20, <3>2, MoveToHeadEffect
    <3>4. Elems(Moved(S, j)) = D
      BY <1>1, MovedFacts
    <3> QED BY <3>1, <3>3, <3>4
  <2> QED BY <2>1, <2>2
<1>24. /\ Fits(u \o v, LogFields, 8) /\ Good(Over(n, u \o v)) /\ Linked(Over(n, u \o v)) = Linked(mem)
       /\ Same(mem, Over(n, u \o v), {"key"})
  <2>1. Elems(s) = Linked(mem) /\ TailsOK(Over(n, u), Linked(mem)) /\ ListOK(Over(Over(n, u), v), SetL, s)
    BY <1>0, <1>17, <1>19, <1>23
  <2> QED BY <1>17, <1>18, <1>23, <2>1, ListTurned
<1> QED BY <1>10, <1>16, <1>24

(* The block that is read goes to the front of its list. *)
LEMMA FrontEffect ==
  ASSUME Good(mem), NEW b \in Linked(mem), mem[<<"getHead", NULL>>] # b, NEW n, Same(mem, n, MapFields),
         NEW w, NEW v, w = When(mem[<<"backupTail", NULL>>] = b, Up("backupTail", NULL, mem[<<"getPrev", b>>])),
         v = MoveToHead(GetL, b) \/ (mem[<<"getTail", NULL>>] = b /\ v = TailToHead(GetL, b))
  PROVE  /\ Fits(w \o v, LogFields, 8)
         /\ Good(Over(n, w \o v)) /\ Linked(Over(n, w \o v)) = Linked(mem)
         /\ Same(mem, Over(n, w \o v), {"key"})
<1>0. PICK G, D : G = GetSeq(mem) /\ D = Linked(mem)
  OBVIOUS
<1>1. ListOK(mem, GetL, G) /\ Elems(G) = D /\ D \subseteq Blocks /\ Distinct(G) /\ TailsOK(mem, D)
  BY <1>0, GoodParts
<1>2. PICK j \in DOMAIN G : G[j] = b
  BY <1>0, GoodPlaces
<1>3. PICK p : p = mem[<<"getPrev", b>>]
  OBVIOUS
<1>4. p \in D \union {NULL}
  BY <1>0, <1>3, LinkedFacts
<1>11. TailsOK(n, D)
  <2>1. \A t \in Tails : n[<<t, NULL>>] = mem[<<t, NULL>>]
    BY SameWords, FieldNames
  <2> QED BY <1>1, <2>1 DEF TailsOK
<1>12. "backupTail" \in Tails
  BY DEF Tails
<1>13. PICK o : o = Over(n, w)
  OBVIOUS
<1>14. Fits(w, Tails, 1) /\ TailsOK(o, D)
  <2>1. PICK c \in BOOLEAN : c <=> (mem[<<"backupTail", NULL>>] = b)
    OBVIOUS
  <2>2. w = When(c, Up("backupTail", NULL, p))
    BY <1>3, <2>1
  <2> QED BY <1>1, <1>4, <1>11, <1>12, <1>13, <2>2, TailKeptIf
<1>15. Fits(w, Tails, 2)
  BY <1>14, FitsMore
<1>18. GetL \in {SetL, GetL}
  OBVIOUS
<1>20. Same(mem, o, Fields(GetL))
  BY <1>14, <1>18, <1>13, TailsAside, FitsSeq
<1>21. mem[<<"getHead", NULL>>] = Nth(G, 1) /\ mem[<<"getTail", NULL>>] = Nth(G, Len(G))
  BY <1>1 DEF ListOK, GetL
<1>22. /\ DOMAIN G = 1..Len(G) /\ Len(G) \in Nat
       /\ \A i, k \in 1..Len(G) : G[i] = G[k] => i = k
  BY <1>1, DistinctFacts
<1>23. j # 1
  BY <1>2, <1>21 DEF Nth
<1>24. PICK s : s = Moved(G, j)
  OBVIOUS
<1>25. Elems(s) = D
  BY <1>1, <1>24, MovedFacts
<1>26. Fits(v, Fields(GetL), 6) /\ ListOK(Over(o, v), GetL, s)
  <2>1. CASE v = MoveToHead(GetL, b)
    <3>1. /\ Fits(MoveToHead(GetL, G[j]), Fields(GetL), 6)
          /\ ListOK(Over(o, MoveToHead(GetL, G[j])), GetL, Moved(G, j))
      BY <1>1, <1>18, <1>20, <1>23, MoveToHeadEffect
    <3> QED BY <1>2, <1>24, <2>1, <3>1
  <2>2. CASE mem[<<"getTail", NULL>>] = b /\ v = TailToHead(GetL, b)
    <3>1. j = Len(G)
      <4>1. Len(G) \in DOMAIN G
        BY <1>2, <1>22
      <4>2. G[Len(G)] = b
        BY <1>21, <2>2, <4>1 DEF Nth
      <4> QED BY <1>2, <1>22, <4>1, <4>2
    <3>2. Nth(G, j + 1) = NULL
      BY <1>22, <3>1 DEF Nth
    <3>3. /\ Fits(TailToHead(GetL, G[j]), Fields(GetL), 6)
          /\ ListOK(Over(o, TailToHead(GetL, G[j])), GetL, Moved(G, j))
      BY <1>1, <1>18, <1>20, <1>23, <3>2, TailToHeadEffect
    <3> QED BY <1>2, <1>24, <2>2, <3>3
  <2> QED BY <2>1, <2>2
<1>27. Elems(s) = Linked(mem) /\ TailsOK(Over(n, w), Linked(mem)) /\ ListOK(Over(Over(n, w), v), GetL, s)
  BY <1>0, <1>13, <1>14, <1>25, <1>26
<1> QED BY <1>15, <1>18, <1>26, <1>27, ListTurned

LEMMA RefreshGetEffect ==
  ASSUME Good(mem), NEW b \in Linked(mem), mem[<<"getHead", NULL>>] # b, NEW n, Same(mem, n, MapFields)
  PROVE  /\ Fits(refreshGetLog(b), LogFields, 8)
         /\ Good(Over(n, refreshGetLog(b))) /\ Linked(Over(n, refreshGetLog(b))) = Linked(mem)
         /\ Same(mem, Over(n, refreshGetLog(b)), {"key"})
<1>1. PICK w, v : /\ w = When(mem[<<"backupTail", NULL>>] = b, Up("backupTail", NULL, mem[<<"getPrev", b>>]))
                  /\ v = MoveToHead(GetL, b)
  OBVIOUS
<1>2. refreshGetLog(b) = w \o v
  BY <1>1 DEF refreshGetLog, H, B
<1>3. /\ Fits(w \o v, LogFields, 8) /\ Good(Over(n, w \o v)) /\ Linked(Over(n, w \o v)) = Linked(mem)
      /\ Same(mem, Over(n, w \o v), {"key"})
  <2>1. v = MoveToHead(GetL, b) \/ (mem[<<"getTail", NULL>>] = b /\ v = TailToHead(GetL, b))
    BY <1>1
  <2>2. w = When(mem[<<"backupTail", NULL>>] = b, Up("backupTail", NULL, mem[<<"getPrev", b>>]))
    BY <1>1
  <2> HIDE <1>1
  <2> QED BY <2>1, <2>2, FrontEffect
<1> QED BY <1>2, <1>3

toFrontLog(b) == When(H("backupTail") = b, Up("backupTail", NULL, B("getPrev", b))) \o TailToHead(GetL, b)

LEMMA ToFrontEffect ==
  ASSUME Good(mem), NEW b \in Linked(mem), mem[<<"getHead", NULL>>] # b, mem[<<"getTail", NULL>>] = b,
         NEW n, Same(mem, n, MapFields)
  PROVE  /\ Fits(toFrontLog(b), LogFields, 8)
         /\ Good(Over(n, toFrontLog(b))) /\ Linked(Over(n, toFrontLog(b))) = Linked(mem)
         /\ Same(mem, Over(n, toFrontLog(b)), {"key"})
<1>1. PICK w, v : /\ w = When(mem[<<"backupTail", NULL>>] = b, Up("backupTail", NULL, mem[<<"getPrev", b>>]))
                  /\ v = TailToHead(GetL, b)
  OBVIOUS
<1>2. toFrontLog(b) = w \o v
  BY <1>1 DEF toFrontLog, H, B
<1>3. /\ Fits(w \o v, LogFields, 8) /\ Good(Over(n, w \o v)) /\ Linked(Over(n, w \o v)) = Linked(mem)
      /\ Same(mem, Over(n, w \o v), {"key"})
  <2>1. v = MoveToHead(GetL, b) \/ (mem[<<"getTail", NULL>>] = b /\ v = TailToHead(GetL, b))
    BY <1>1
  <2>2. w = When(mem[<<"backupTail", NULL>>] = b, Up("backupTail", NULL, mem[<<"getPrev", b>>]))
    BY <1>1
  <2> HIDE <1>1
  <2> QED BY <2>1, <2>2, FrontEffect
<1> QED BY <1>2, <1>3

LEMMA SetDirtyFits ==
  ASSUME Typed(mem), NEW b \in Blocks, NEW d \in {0, 1}
  PROVE  Fits(setDirtyLog(b, d), Drifting \union {"dirty"}, 2)
<1>0. PICK F : F = Drifting \union {"dirty"}
  OBVIOUS
<1>1. "dirtyCount" \in HeadCounts /\ "dirtyCount" \in F /\ "dirty" \in F
  BY <1>0 DEF HeadCounts, Drifting
<1>2. PICK u : u = IF d = 1 THEN Inc("dirtyCount", NULL) ELSE Dec("dirtyCount", NULL)
  OBVIOUS
<1>3. Fits(u, F, 1)
  BY <1>1, <1>2, CountFits
<1>4. Fits(Up("dirty", b, d), F, 1)
  <2>1. <<"dirty", b>> \in HashAddr
    BY BlockWord DEF BlockFields
  <2>2. d \in Kind("dirty")
    BY DEF Kind, HeadLinks, BlockLinks, HeadCounts
  <2> QED BY <1>1, <2>1, <2>2, FitsUp
<1>5. Fits(u \o Up("dirty", b, d), F, 2)
  BY <1>3, <1>4, FitsTwo
<1> QED BY <1>0, <1>2, <1>5 DEF setDirtyLog

-----------------------------------------------------------------------------
(* The steps an operation has left *)

LEMMA TailFacts ==
  ASSUME NEW S, NEW s \in Seq(S), s # <<>>
  PROVE  /\ Tail(s) \in Seq(S) /\ Len(Tail(s)) = Len(s) - 1 /\ Len(s) \in Nat \ {0}
         /\ \A i \in 1..(Len(s) - 1) : Tail(s)[i] = s[i + 1]
         /\ Head(s) = s[1]
<1>1. Len(s) \in Nat /\ Len(s) # 0
  BY SeqFacts
<1>2. Tail(s) \in Seq(S) /\ Len(Tail(s)) = Len(s) - 1 /\ \A i \in 1..Len(Tail(s)) : Tail(s)[i] = s[i + 1]
  BY HeadTailProperties
<1>3. Head(s) = s[1]
  OBVIOUS
<1> QED BY <1>1, <1>2, <1>3

LEMMA AtFacts ==
  ASSUME NEW x, At(x), Shape(todo, cur.k)
  PROVE  todo # <<>> /\ todo[1] = x /\ todo \in Seq(Steps)
<1>1. todo # <<>> /\ Head(todo) = x /\ todo \in Seq(Steps)
  BY DEF At, Shape
<1> QED BY <1>1, TailFacts

(* Every step but the last has one behind it. *)
LEMMA ShapeTail ==
  ASSUME NEW t, NEW k, Shape(t, k), t # <<>>, t[1] # "return"
  PROVE  /\ Shape(Tail(t), k) /\ Tail(t) # <<>> /\ Tail(t)[1] = t[2] /\ Follows(t[1], Tail(t)[1])
         /\ Tail(t)[1] = "commit" => Commits(t[1], Tail(t)[2])
         /\ Evicting(Tail(t)) => Evicting(t) /\ t[1] \in EraseFamily
<1>0. PICK u : u = Tail(t)
  OBVIOUS
<1>1. t \in Seq(Steps) /\ t[Len(t)] = "return"
  BY DEF Shape
<1>2. /\ u \in Seq(Steps) /\ Len(u) = Len(t) - 1 /\ Len(t) \in Nat \ {0}
      /\ \A i \in 1..(Len(t) - 1) : u[i] = t[i + 1]
  BY <1>0, <1>1, TailFacts
<1>3. Len(t) > 1
  BY <1>1, <1>2
<1>4. DOMAIN t = 1..Len(t) /\ DOMAIN u = 1..Len(u) /\ u # <<>>
  BY <1>1, <1>2, <1>3, SeqFacts
<1>5. u[1] = t[2] /\ u[Len(u)] = "return"
  BY <1>1, <1>2, <1>3
<1>6. ASSUME NEW i \in DOMAIN u, i < Len(u) PROVE Follows(u[i], u[i + 1])
  <2>1. i + 1 \in DOMAIN t /\ i + 1 < Len(t) /\ i \in 1..(Len(t) - 1) /\ i + 1 \in 1..(Len(t) - 1)
    BY <1>2, <1>4, <1>6
  <2>2. Follows(t[i + 1], t[(i + 1) + 1])
    BY <2>1 DEF Shape
  <2> QED BY <1>2, <2>1, <2>2
<1>7. ASSUME NEW i \in DOMAIN u, i + 1 < Len(u), u[i + 1] = "commit" PROVE Commits(u[i], u[i + 2])
  <2>1. /\ i + 1 \in DOMAIN t /\ (i + 1) + 1 < Len(t) /\ i \in 1..(Len(t) - 1)
        /\ i + 1 \in 1..(Len(t) - 1) /\ i + 2 \in 1..(Len(t) - 1)
    BY <1>2, <1>4, <1>7
  <2>2. u[i] = t[i + 1] /\ u[i + 1] = t[(i + 1) + 1] /\ u[i + 2] = t[(i + 1) + 2]
    <3>1. u[i + 2] = t[(i + 2) + 1]
      BY <1>2, <2>1
    <3>2. (i + 2) + 1 = (i + 1) + 2
      BY <2>1
    <3> QED BY <1>2, <2>1, <3>1, <3>2
  <2>3. t[(i + 1) + 1] = "commit" => Commits(t[i + 1], t[(i + 1) + 2])
    BY <2>1 DEF Shape
  <2> QED BY <1>7, <2>2, <2>3
<1>8. ASSUME NEW i \in DOMAIN u, u[i] = "evict"
      PROVE  t[1] \in EraseFamily /\ i + 1 \in DOMAIN t /\ t[i + 1] = "evict"
             /\ \A j \in 1..(i - 1) : u[j] \in EraseFamily
  <2>1. i + 1 \in DOMAIN t /\ t[i + 1] = "evict" /\ i \in 1..(Len(t) - 1)
    BY <1>2, <1>4, <1>8
  <2>2. \A j \in 1..((i + 1) - 1) : t[j] \in EraseFamily
    BY <2>1 DEF Shape
  <2>3. t[1] \in EraseFamily
    BY <2>1, <2>2
  <2>4. ASSUME NEW j \in 1..(i - 1) PROVE u[j] \in EraseFamily
    <3>1. j \in 1..(Len(t) - 1) /\ j + 1 \in 1..((i + 1) - 1)
      BY <2>1
    <3> QED BY <1>2, <2>2, <3>1
  <2> QED BY <2>1, <2>3, <2>4
<1>9. ASSUME NEW i \in DOMAIN u, u[i] \in Keyed PROVE k \in Keys
  <2>1. i + 1 \in DOMAIN t /\ t[i + 1] \in Keyed
    BY <1>2, <1>4, <1>9
  <2> QED BY <2>1 DEF Shape
<1>10. Shape(u, k)
  BY <1>2, <1>5, <1>6, <1>7, <1>8, <1>9 DEF Shape
<1>11. Follows(t[1], t[2])
  <2>1. 1 \in DOMAIN t /\ 1 < Len(t) /\ 1 + 1 = 2
    BY <1>3, <1>4
  <2> QED BY <2>1 DEF Shape
<1>12. u[1] = "commit" => Commits(t[1], u[2])
  <2>1. SUFFICES ASSUME u[1] = "commit" PROVE Commits(t[1], u[2])
    OBVIOUS
  <2>2. Len(u) > 1
    BY <1>2, <1>3, <1>5, <2>1
  <2>3. 1 \in DOMAIN t /\ 1 + 1 < Len(t) /\ 1 + 1 = 2 /\ 1 + 2 = 3 /\ 2 \in 1..(Len(t) - 1)
    BY <1>2, <1>4, <2>2
  <2>4. t[2] = "commit" => Commits(t[1], t[3])
    BY <2>3 DEF Shape
  <2>5. u[2] = t[3]
    BY <1>2, <2>3
  <2> QED BY <1>5, <2>1, <2>4, <2>5
<1>13. Evicting(u) => Evicting(t) /\ t[1] \in EraseFamily
  BY <1>8 DEF Evicting
<1> QED BY <1>0, <1>4, <1>5, <1>10, <1>11, <1>12, <1>13

LEMMA ShapeLast ==
  ASSUME NEW k
  PROVE  Shape(<<"return">>, k) /\ <<"return">> # <<>> /\ <<"return">>[1] = "return" /\ ~Evicting(<<"return">>)
<1>0. PICK u : u = <<"return">>
  OBVIOUS
<1>1. u \in Seq(Steps) /\ Len(u) = 1 /\ DOMAIN u = {1} /\ u[1] = "return" /\ u # <<>>
  BY <1>0 DEF Steps
<1>2. "return" \notin Keyed
  BY DEF Keyed, KeyOps, Ops, AllocFamily, WriteFamily
<1>3. \A i \in DOMAIN u : i = 1 /\ u[i] = "return"
  BY <1>1
<1>4. \A i \in DOMAIN u : ~(i < Len(u)) /\ ~(i + 1 < Len(u))
  BY <1>1
<1>5. Shape(u, k) /\ ~Evicting(u)
  BY <1>1, <1>2, <1>3, <1>4 DEF Shape, Evicting
<1> QED BY <1>0, <1>1, <1>5

LEMMA ShapeCons ==
  ASSUME NEW t, NEW k, Shape(t, k), t # <<>>, NEW x \in Steps, Follows(x, t[1]),
         t[1] = "commit" => Commits(x, t[2]), Evicting(t) => x \in EraseFamily, x \in Keyed => k \in Keys
  PROVE  /\ Shape(<<x>> \o t, k) /\ <<x>> \o t # <<>> /\ (<<x>> \o t)[1] = x /\ (<<x>> \o t)[2] = t[1]
         /\ Evicting(<<x>> \o t) => x = "evict" \/ Evicting(t)
<1>0. PICK u : u = <<x>> \o t
  OBVIOUS
<1>1. t \in Seq(Steps) /\ t[Len(t)] = "return" /\ <<x>> \in Seq(Steps) /\ Len(<<x>>) = 1 /\ <<x>>[1] = x
  BY DEF Shape
<1>2. /\ u \in Seq(Steps) /\ Len(u) = Len(t) + 1
      /\ u[1] = x /\ \A i \in 1..Len(t) : u[1 + i] = t[i]
  BY <1>0, <1>1, CatFacts
<1>3. Len(t) \in Nat /\ Len(t) # 0 /\ DOMAIN t = 1..Len(t) /\ DOMAIN u = 1..(Len(t) + 1) /\ u # <<>>
  BY <1>1, <1>2, SeqFacts
<1>4. \A i \in 2..(Len(t) + 1) : u[i] = t[i - 1] /\ i - 1 \in DOMAIN t
  <2>1. ASSUME NEW i \in 2..(Len(t) + 1) PROVE u[i] = t[i - 1] /\ i - 1 \in DOMAIN t
    <3>1. i - 1 \in 1..Len(t) /\ 1 + (i - 1) = i
      BY <1>3
    <3> QED BY <1>2, <1>3, <3>1
  <2> QED BY <2>1
<1>5. u[2] = t[1] /\ u[Len(u)] = "return"
  BY <1>1, <1>2, <1>3, <1>4
<1>6. ASSUME NEW i \in DOMAIN u, i < Len(u) PROVE Follows(u[i], u[i + 1])
  <2>1. CASE i = 1
    BY <1>2, <1>5, <2>1
  <2>2. CASE i # 1
    <3>1. /\ i \in 2..(Len(t) + 1) /\ i + 1 \in 2..(Len(t) + 1) /\ i - 1 \in DOMAIN t /\ i - 1 < Len(t)
          /\ (i - 1) + 1 = i /\ (i + 1) - 1 = i
      BY <1>2, <1>3, <1>6, <2>2
    <3>2. Follows(t[i - 1], t[(i - 1) + 1])
      BY <3>1 DEF Shape
    <3> QED BY <1>4, <3>1, <3>2
  <2> QED BY <2>1, <2>2
<1>7. ASSUME NEW i \in DOMAIN u, i + 1 < Len(u), u[i + 1] = "commit" PROVE Commits(u[i], u[i + 2])
  <2>1. CASE i = 1
    <3>1. 3 \in 2..(Len(t) + 1) /\ i + 1 = 2 /\ i + 2 = 3 /\ 3 - 1 = 2
      BY <1>2, <1>3, <1>7, <2>1
    <3>2. u[3] = t[2]
      BY <1>4, <3>1
    <3> QED BY <1>2, <1>5, <1>7, <2>1, <3>1, <3>2
  <2>2. CASE i # 1
    <3>1. /\ i \in 2..(Len(t) + 1) /\ i + 1 \in 2..(Len(t) + 1) /\ i + 2 \in 2..(Len(t) + 1)
          /\ i - 1 \in DOMAIN t /\ (i - 1) + 1 < Len(t)
          /\ (i + 1) - 1 = (i - 1) + 1 /\ (i + 2) - 1 = (i - 1) + 2
      BY <1>2, <1>3, <1>7, <2>2
    <3>2. t[(i - 1) + 1] = "commit" => Commits(t[i - 1], t[(i - 1) + 2])
      BY <3>1 DEF Shape
    <3>3. u[i] = t[i - 1] /\ u[i + 1] = t[(i + 1) - 1] /\ u[i + 2] = t[(i + 2) - 1]
      BY <1>4, <3>1
    <3> QED BY <1>7, <3>1, <3>2, <3>3
  <2> QED BY <2>1, <2>2
<1>8. ASSUME NEW i \in DOMAIN u, u[i] = "evict"
      PROVE  (x = "evict" \/ Evicting(t)) /\ \A j \in 1..(i - 1) : u[j] \in EraseFamily
  <2>1. CASE i = 1
    BY <1>2, <1>8, <2>1
  <2>2. CASE i # 1
    <3>1. i \in 2..(Len(t) + 1) /\ i - 1 \in DOMAIN t /\ t[i - 1] = "evict"
      BY <1>3, <1>4, <1>8, <2>2
    <3>2. Evicting(t)
      BY <3>1 DEF Evicting
    <3>3. \A j \in 1..((i - 1) - 1) : t[j] \in EraseFamily
      BY <3>1 DEF Shape
    <3>4. ASSUME NEW j \in 1..(i - 1) PROVE u[j] \in EraseFamily
      <4>1. CASE j = 1
        BY <1>2, <3>2, <4>1
      <4>2. CASE j # 1
        <5>1. j \in 2..(Len(t) + 1) /\ j - 1 \in 1..((i - 1) - 1)
          BY <1>3, <3>1, <4>2
        <5> QED BY <1>4, <3>3, <5>1
      <4> QED BY <4>1, <4>2
    <3> QED BY <3>2, <3>4
  <2> QED BY <2>1, <2>2
<1>9. ASSUME NEW i \in DOMAIN u, u[i] \in Keyed PROVE k \in Keys
  <2>1. CASE i = 1
    BY <1>2, <1>9, <2>1
  <2>2. CASE i # 1
    <3>1. i - 1 \in DOMAIN t /\ t[i - 1] \in Keyed
      BY <1>3, <1>4, <1>9, <2>2
    <3> QED BY <3>1 DEF Shape
  <2> QED BY <2>1, <2>2
<1>10. Shape(u, k)
  BY <1>2, <1>5, <1>6, <1>7, <1>8, <1>9 DEF Shape
<1>11. Evicting(u) => x = "evict" \/ Evicting(t)
  BY <1>8 DEF Evicting
<1> QED BY <1>0, <1>2, <1>3, <1>5, <1>10, <1>11

Led(w, x, u) == Len(w) = Len(u) + 1 /\ w[1] = x /\ \A i \in 1..Len(u) : w[1 + i] = u[i]

LEMMA Glued ==
  ASSUME NEW x \in Steps, NEW u \in Seq(Steps), NEW w \in Seq(Steps), Led(w, x, u), NEW t \in Seq(Steps)
  PROVE  w \o t = <<x>> \o (u \o t)
<1>1. <<x>> \in Seq(Steps) /\ Len(<<x>>) = 1 /\ <<x>>[1] = x
  OBVIOUS
<1>2. PICK a : a = <<x>>
  OBVIOUS
<1>3. a \in Seq(Steps)
  BY <1>1, <1>2
<1>b. Len(a) = 1 /\ a[1] = x
  BY <1>1, <1>2
<1>4. PICK v : v = a \o u
  OBVIOUS
<1>5. /\ v \in Seq(Steps) /\ Len(v) = 1 + Len(u) /\ v[1] = x /\ \A i \in 1..Len(u) : v[1 + i] = u[i]
      /\ Len(u) \in Nat
  <2>1. Len(u) \in Nat
    BY SeqFacts
  <2>2. /\ v \in Seq(Steps) /\ Len(v) = Len(a) + Len(u) /\ \A i \in 1..Len(a) : v[i] = a[i]
        /\ \A i \in 1..Len(u) : v[Len(a) + i] = u[i]
    BY <1>3, <1>4, CatFacts
  <2> QED BY <1>b, <2>1, <2>2
<1>6. w = v
  <2>a. Len(w) = Len(u) + 1 /\ w[1] = x /\ \A i \in 1..Len(u) : w[1 + i] = u[i]
    BY DEF Led
  <2>1. ASSUME NEW i \in 1..Len(w) PROVE w[i] = v[i]
    <3>1. CASE i = 1
      BY <1>5, <2>a, <3>1
    <3>2. CASE i # 1
      <4>1. i - 1 \in 1..Len(u) /\ 1 + (i - 1) = i
        BY <1>5, <2>a, <3>2
      <4>2. w[1 + (i - 1)] = u[i - 1] /\ v[1 + (i - 1)] = u[i - 1]
        BY <1>5, <2>a, <4>1
      <4> QED BY <4>1, <4>2
    <3> QED BY <3>1, <3>2
  <2>2. Len(w) = Len(v)
    BY <1>5, <2>a
  <2> QED BY <1>5, <2>1, <2>2, SeqEqual
<1>7. (a \o u) \o t = a \o (u \o t)
  BY <1>3, ConcatAssociative
<1> QED BY <1>2, <1>4, <1>6, <1>7

LEMMA Spell2 ==
  ASSUME NEW t \in Seq(Steps), NEW x1 \in Steps, NEW x2 \in Steps
  PROVE  <<x1, x2>> \o t = <<x1>> \o (<<x2>> \o t)
<1>1. PICK u, w : u = <<x2>> /\ w = <<x1, x2>>
  OBVIOUS
<1>2. u \in Seq(Steps) /\ w \in Seq(Steps) /\ Len(u) = 1 /\ Len(w) = 2 /\ w[1] = x1 /\ w[1 + 1] = u[1]
  BY <1>1
<1>a. Led(w, x1, u)
  BY <1>2 DEF Led
<1>3. w \o t = <<x1>> \o (u \o t)
  BY <1>2, <1>a, Glued
<1> QED BY <1>1, <1>3

LEMMA Spell3 ==
  ASSUME NEW t \in Seq(Steps), NEW x1 \in Steps, NEW x2 \in Steps, NEW x3 \in Steps
  PROVE  <<x1, x2, x3>> \o t = <<x1>> \o (<<x2>> \o (<<x3>> \o t))
<1>1. PICK u, w : u = <<x2, x3>> /\ w = <<x1, x2, x3>>
  OBVIOUS
<1>2. /\ u \in Seq(Steps) /\ w \in Seq(Steps) /\ Len(u) = 2 /\ Len(w) = 3 /\ w[1] = x1
      /\ w[1 + 1] = u[1] /\ w[1 + 2] = u[2]
  BY <1>1
<1>a. Led(w, x1, u)
  BY <1>2 DEF Led
<1>3. w \o t = <<x1>> \o (u \o t)
  BY <1>2, <1>a, Glued
<1>4. <<x2, x3>> \o t = <<x2>> \o (<<x3>> \o t)
  BY Spell2
<1> QED BY <1>1, <1>3, <1>4

Six == {w \in Seq(Steps) : Len(w) = 6}

LEMMA Spell6 ==
  ASSUME NEW t \in Seq(Steps), NEW w \in Six
  PROVE  w \o t = <<w[1]>> \o (<<w[2]>> \o (<<w[3]>> \o (<<w[4]>> \o (<<w[5]>> \o (<<w[6]>> \o t)))))
<1>1. w[1] \in Steps /\ w[2] \in Steps /\ w[3] \in Steps /\ w[4] \in Steps /\ w[5] \in Steps /\ w[6] \in Steps
  <2>1. w \in Seq(Steps) /\ Len(w) = 6
    BY DEF Six
  <2> QED BY <2>1, SeqFacts
<1>2. PICK x1 \in Steps, x2 \in Steps, x3 \in Steps, x4 \in Steps, x5 \in Steps, x6 \in Steps :
        x1 = w[1] /\ x2 = w[2] /\ x3 = w[3] /\ x4 = w[4] /\ x5 = w[5] /\ x6 = w[6]
  BY <1>1
<1>3. PICK u3, u4, u5 : u3 = <<x4, x5, x6>> /\ u4 = <<x3, x4, x5, x6>> /\ u5 = <<x2, x3, x4, x5, x6>>
  OBVIOUS
<1>4. u3 \in Seq(Steps) /\ u4 \in Seq(Steps) /\ u5 \in Seq(Steps)
  BY <1>3
<1>5. Led(u4, x3, u3)
  BY <1>3 DEF Led
<1>6. Led(u5, x2, u4)
  BY <1>3 DEF Led
<1>7. Led(w, x1, u5)
  BY <1>2, <1>3 DEF Led, Six
<1>a. w \in Seq(Steps)
  BY DEF Six
<1>8. u4 \o t = <<x3>> \o (u3 \o t)
  BY <1>4, <1>5, Glued
<1>9. u5 \o t = <<x2>> \o (u4 \o t)
  BY <1>4, <1>6, Glued
<1>10. w \o t = <<x1>> \o (u5 \o t)
  BY <1>4, <1>7, <1>a, Glued
<1>11. u3 \o t = <<x4>> \o (<<x5>> \o (<<x6>> \o t))
  <2>1. <<x4, x5, x6>> \o t = <<x4>> \o (<<x5>> \o (<<x6>> \o t))
    BY Spell3
  <2> QED BY <1>3, <2>1
<1> QED BY <1>2, <1>8, <1>9, <1>10, <1>11

LEMMA StepNames ==
  /\ Ops \subseteq Steps /\ AllocFamily \subseteq Steps /\ WriteFamily \subseteq Steps
  /\ EraseFamily \subseteq Steps /\ BlockFamily \subseteq Steps
  /\ "enter" \in Steps /\ "return" \in Steps /\ "evict" \in Steps /\ "handed" \in Steps
  /\ (EraseFamily \union BlockFamily \union {"enter", "return", "handed"}) \intersect Keyed = {}
  /\ EraseFamily \intersect (AllocFamily \union WriteFamily \union BlockFamily \union Ops \union {"evict"}) = {}
  /\ AllocFamily \intersect (WriteFamily \union BlockFamily \union Ops
                             \union {"enter", "return", "evict", "handed"}) = {}
BY DEF Steps, Ops, AllocFamily, WriteFamily, EraseFamily, BlockFamily, Keyed, KeyOps

(* The steps t can be put behind x. *)
Behind(x, t, k) ==
  /\ Shape(t, k) /\ t # <<>> /\ x \in Steps /\ Follows(x, t[1])
  /\ t[1] = "commit" => Commits(x, t[2])
  /\ Evicting(t) => x \in EraseFamily
  /\ x \in Keyed => k \in Keys

(* u is a list of steps that begins with x, and evicts only if e. *)
Begins(u, k, x, e) == Shape(u, k) /\ u # <<>> /\ u \in Seq(Steps) /\ u[1] = x /\ (Evicting(u) => e)

LEMMA Put ==
  ASSUME NEW t, NEW k, NEW x, Behind(x, t, k)
  PROVE  /\ Begins(<<x>> \o t, k, x, x = "evict" \/ Evicting(t)) /\ (<<x>> \o t)[2] = t[1]
<1>1. /\ Shape(<<x>> \o t, k) /\ <<x>> \o t # <<>> /\ (<<x>> \o t)[1] = x /\ (<<x>> \o t)[2] = t[1]
      /\ Evicting(<<x>> \o t) => x = "evict" \/ Evicting(t)
  BY ShapeCons DEF Behind
<1>2. <<x>> \o t \in Seq(Steps)
  BY <1>1 DEF Shape
<1> QED BY <1>1, <1>2 DEF Begins

LEMMA PutOne ==
  ASSUME NEW t, NEW k, NEW y, NEW e, Begins(t, k, y, e), NEW x \in Steps, Follows(x, y), y # "commit",
         e => x \in EraseFamily, x \in Keyed => k \in Keys, x # "evict"
  PROVE  Begins(<<x>> \o t, k, x, e) /\ (<<x>> \o t)[2] = y
<1>1. Behind(x, t, k)
  BY DEF Begins, Behind
<1>2. Begins(<<x>> \o t, k, x, x = "evict" \/ Evicting(t)) /\ (<<x>> \o t)[2] = t[1]
  BY <1>1, Put
<1> QED BY <1>2 DEF Begins

LEMMA PutCommitted ==
  ASSUME NEW t, NEW k, NEW z, NEW e, Begins(t, k, "commit", e), t[2] = z, NEW x \in Steps, Follows(x, "commit"),
         Commits(x, z), e => x \in EraseFamily, x \in Keyed => k \in Keys, x # "evict"
  PROVE  Begins(<<x>> \o t, k, x, e) /\ (<<x>> \o t)[2] = "commit"
<1>1. Behind(x, t, k)
  BY DEF Begins, Behind
<1>2. Begins(<<x>> \o t, k, x, x = "evict" \/ Evicting(t)) /\ (<<x>> \o t)[2] = t[1]
  BY <1>1, Put
<1> QED BY <1>2 DEF Begins

LEMMA Second ==
  ASSUME NEW t, NEW k, NEW y, NEW e, Begins(t, k, y, e), NEW x \in Steps
  PROVE  (<<x>> \o t)[2] = y
<1>0. t \in Seq(Steps)
  BY DEF Begins
<1>1. t # <<>> /\ t[1] = y
  BY DEF Begins
<1>2. <<x>> \in Seq(Steps) /\ Len(<<x>>) = 1
  OBVIOUS
<1>3. Len(t) \in Nat /\ Len(t) # 0
  BY <1>0, <1>1, SeqFacts
<1>4. PICK a : a = <<x>>
  OBVIOUS
<1>a. a \in Seq(Steps)
  BY <1>2, <1>4
<1>5. Len(a) = 1
  BY <1>2, <1>4
<1>6. \A i \in 1..Len(t) : (a \o t)[Len(a) + i] = t[i]
  BY <1>0, <1>a, CatFacts
<1>7. 1 \in 1..Len(t) /\ Len(a) + 1 = 2
  BY <1>3, <1>5
<1>8. (a \o t)[Len(a) + 1] = t[1]
  BY <1>6, <1>7
<1> QED BY <1>1, <1>4, <1>7, <1>8

LEMMA EraseBegins ==
  ASSUME NEW t, NEW k, NEW y \in {"evict", "recover", "return"}, NEW e, Begins(t, k, y, e)
  PROVE  Begins(EraseSteps \o t, k, "unlink", e)
<1>0. PICK t6 : t6 = <<"unused">> \o t
  OBVIOUS
<1>1. PICK t5 : t5 = <<"count">> \o t6
  OBVIOUS
<1>2. PICK t4 : t4 = <<"release">> \o t5
  OBVIOUS
<1>3. PICK t3 : t3 = <<"wipe">> \o t4
  OBVIOUS
<1>4. PICK t2 : t2 = <<"commit">> \o t3
  OBVIOUS
<1>5. PICK t1 : t1 = <<"unlink">> \o t2
  OBVIOUS
<1>6. \A x \in {"unlink", "commit", "wipe", "release", "count", "unused"} :
        x \in EraseFamily /\ x \in Steps /\ x \notin Keyed /\ x # "evict"
  BY StepNames DEF EraseFamily
<1>7. /\ Follows("unused", y) /\ Follows("count", "unused") /\ Follows("release", "count")
      /\ Follows("wipe", "release") /\ Follows("commit", "wipe") /\ Follows("unlink", "commit")
      /\ Commits("unlink", "wipe") /\ y # "commit"
  BY DEF Follows, Commits
<1>8. Begins(t6, k, "unused", e)
  BY <1>0, <1>6, <1>7, PutOne
<1>9. Begins(t5, k, "count", e)
  BY <1>1, <1>6, <1>7, <1>8, PutOne
<1>10. Begins(t4, k, "release", e)
  BY <1>2, <1>6, <1>7, <1>9, PutOne
<1>11. Begins(t3, k, "wipe", e)
  BY <1>3, <1>6, <1>7, <1>10, PutOne
<1>12. Begins(t2, k, "commit", e) /\ t2[2] = "wipe"
  <2>1. Begins(t2, k, "commit", e)
    BY <1>4, <1>6, <1>7, <1>11, PutOne
  <2>2. t2[2] = "wipe"
    BY <1>4, <1>6, <1>7, <1>11, Second
  <2> QED BY <2>1, <2>2
<1>13. Begins(t1, k, "unlink", e)
  BY <1>5, <1>6, <1>7, <1>12, PutCommitted
<1>14. EraseSteps \o t = t1
  <2>1. t \in Seq(Steps)
    BY DEF Begins
  <2>2. PICK w : w = EraseSteps
    OBVIOUS
  <2>3. /\ w[1] = "unlink" /\ w[2] = "commit" /\ w[3] = "wipe" /\ w[4] = "release" /\ w[5] = "count" /\ w[6] = "unused"
        /\ Len(w) = 6
    BY <2>2 DEF EraseSteps
  <2>4. w \in Seq(Steps)
    BY <1>6, <2>2 DEF EraseSteps
  <2>6. w \in Six
    BY <2>3, <2>4 DEF Six
  <2>5. w \o t = <<w[1]>> \o (<<w[2]>> \o (<<w[3]>> \o (<<w[4]>> \o (<<w[5]>> \o (<<w[6]>> \o t)))))
    BY <2>1, <2>6, Spell6
  <2> QED BY <1>0, <1>1, <1>2, <1>3, <1>4, <1>5, <2>2, <2>3, <2>5
<1> QED BY <1>13, <1>14

LEMMA AllocBegins ==
  ASSUME NEW t, NEW k \in Keys, Begins(t, k, "flags", FALSE)
  PROVE  Begins(AllocSteps \o t, k, "take", FALSE)
<1>0. PICK t6 : t6 = <<"used">> \o t
  OBVIOUS
<1>1. PICK t5 : t5 = <<"commit">> \o t6
  OBVIOUS
<1>2. PICK t4 : t4 = <<"makeNew">> \o t5
  OBVIOUS
<1>3. PICK t3 : t3 = <<"init">> \o t4
  OBVIOUS
<1>4. PICK t2 : t2 = <<"pop">> \o t3
  OBVIOUS
<1>5. PICK t1 : t1 = <<"take">> \o t2
  OBVIOUS
<1>6. \A x \in {"take", "pop", "init", "makeNew", "commit", "used"} : x \in Steps /\ x # "evict"
  BY StepNames DEF EraseFamily, AllocFamily, WriteFamily
<1>7. /\ Follows("used", "flags") /\ Follows("commit", "used") /\ Follows("makeNew", "commit")
      /\ Follows("init", "makeNew") /\ Follows("pop", "init") /\ Follows("take", "pop")
      /\ Commits("makeNew", "used")
  BY DEF Follows, Commits
<1>a. PICK e : e = FALSE
  OBVIOUS
<1>c. \A x : e => x \in EraseFamily
  BY <1>a
<1>b. Begins(t, k, "flags", e)
  BY <1>a
<1>8. Begins(t6, k, "used", e)
  BY <1>0, <1>6, <1>7, <1>c, <1>b, PutOne
<1>9. Begins(t5, k, "commit", e) /\ t5[2] = "used"
  <2>1. Begins(t5, k, "commit", e)
    BY <1>1, <1>6, <1>7, <1>8, <1>c, PutOne
  <2>2. t5[2] = "used"
    BY <1>1, <1>6, <1>7, <1>8, <1>c, Second
  <2> QED BY <2>1, <2>2
<1>10. Begins(t4, k, "makeNew", e)
  BY <1>2, <1>6, <1>7, <1>9, <1>c, PutCommitted
<1>11. Begins(t3, k, "init", e)
  BY <1>3, <1>6, <1>7, <1>10, <1>c, PutOne
<1>12. Begins(t2, k, "pop", e)
  BY <1>4, <1>6, <1>7, <1>11, <1>c, PutOne
<1>13. Begins(t1, k, "take", e)
  BY <1>5, <1>6, <1>7, <1>12, <1>c, PutOne
<1>14. AllocSteps \o t = t1
  <2>1. t \in Seq(Steps)
    BY DEF Begins
  <2>2. PICK w : w = AllocSteps
    OBVIOUS
  <2>3. /\ w[1] = "take" /\ w[2] = "pop" /\ w[3] = "init" /\ w[4] = "makeNew" /\ w[5] = "commit" /\ w[6] = "used"
        /\ Len(w) = 6
    BY <2>2 DEF AllocSteps
  <2>4. w \in Seq(Steps)
    BY <1>6, <2>2 DEF AllocSteps
  <2>6. w \in Six
    BY <2>3, <2>4 DEF Six
  <2>5. w \o t = <<w[1]>> \o (<<w[2]>> \o (<<w[3]>> \o (<<w[4]>> \o (<<w[5]>> \o (<<w[6]>> \o t)))))
    BY <2>1, <2>6, Spell6
  <2> QED BY <1>0, <1>1, <1>2, <1>3, <1>4, <1>5, <2>2, <2>3, <2>5
<1> QED BY <1>13, <1>14, <1>a

LEMMA WriteBegins ==
  ASSUME NEW t, NEW k \in Keys, NEW y \in {"mark", "refreshSet"}, Begins(t, k, y, FALSE)
  PROVE  Begins(WriteSteps \o t, k, "flags", FALSE)
<1>0. PICK t6 : t6 = <<"commit">> \o t
  OBVIOUS
<1>1. PICK t5 : t5 = <<"length">> \o t6
  OBVIOUS
<1>2. PICK t4 : t4 = <<"copy">> \o t5
  OBVIOUS
<1>3. PICK t3 : t3 = <<"only">> \o t4
  OBVIOUS
<1>4. PICK t2 : t2 = <<"dirty">> \o t3
  OBVIOUS
<1>5. PICK t1 : t1 = <<"flags">> \o t2
  OBVIOUS
<1>6. \A x \in {"flags", "dirty", "only", "copy", "length", "commit"} : x \in Steps /\ x # "evict"
  BY StepNames DEF EraseFamily, WriteFamily
<1>7. /\ Follows("commit", y) /\ Follows("length", "commit") /\ Follows("copy", "length")
      /\ Follows("only", "copy") /\ Follows("dirty", "only") /\ Follows("flags", "dirty")
      /\ Commits("length", y) /\ y # "commit"
  BY DEF Follows, Commits
<1>a. PICK e : e = FALSE
  OBVIOUS
<1>c. \A x : e => x \in EraseFamily
  BY <1>a
<1>b. Begins(t, k, y, e)
  BY <1>a
<1>8. Begins(t6, k, "commit", e) /\ t6[2] = y
  <2>1. Begins(t6, k, "commit", e)
    BY <1>0, <1>6, <1>7, <1>c, <1>b, PutOne
  <2>2. t6[2] = y
    BY <1>0, <1>6, <1>7, <1>c, <1>b, Second
  <2> QED BY <2>1, <2>2
<1>9. Begins(t5, k, "length", e)
  BY <1>1, <1>6, <1>7, <1>8, <1>c, PutCommitted
<1>10. Begins(t4, k, "copy", e)
  BY <1>2, <1>6, <1>7, <1>9, <1>c, PutOne
<1>11. Begins(t3, k, "only", e)
  BY <1>3, <1>6, <1>7, <1>10, <1>c, PutOne
<1>12. Begins(t2, k, "dirty", e)
  BY <1>4, <1>6, <1>7, <1>11, <1>c, PutOne
<1>13. Begins(t1, k, "flags", e)
  BY <1>5, <1>6, <1>7, <1>12, <1>c, PutOne
<1>14. WriteSteps \o t = t1
  <2>1. t \in Seq(Steps)
    BY DEF Begins
  <2>2. PICK w : w = WriteSteps
    OBVIOUS
  <2>3. /\ w[1] = "flags" /\ w[2] = "dirty" /\ w[3] = "only" /\ w[4] = "copy" /\ w[5] = "length" /\ w[6] = "commit"
        /\ Len(w) = 6
    BY <2>2 DEF WriteSteps
  <2>4. w \in Seq(Steps)
    BY <1>6, <2>2 DEF WriteSteps
  <2>6. w \in Six
    BY <2>3, <2>4 DEF Six
  <2>5. w \o t = <<w[1]>> \o (<<w[2]>> \o (<<w[3]>> \o (<<w[4]>> \o (<<w[5]>> \o (<<w[6]>> \o t)))))
    BY <2>1, <2>6, Spell6
  <2> QED BY <1>0, <1>1, <1>2, <1>3, <1>4, <1>5, <2>2, <2>3, <2>5
<1> QED BY <1>13, <1>14, <1>a

LEMMA RefreshBegins ==
  ASSUME NEW t, NEW k, NEW y \in {"return", "commit"}, Begins(t, k, y, FALSE), y = "commit" => t[2] = "return"
  PROVE  Begins(RefreshSteps \o t, k, "refreshSet", FALSE)
<1>0. PICK t3 : t3 = <<"refreshGet">> \o t
  OBVIOUS
<1>1. PICK t2 : t2 = <<"commit">> \o t3
  OBVIOUS
<1>2. PICK t1 : t1 = <<"refreshSet">> \o t2
  OBVIOUS
<1>6. \A x \in {"refreshSet", "commit", "refreshGet"} : x \in Steps /\ x # "evict" /\ x \notin Keyed
  BY StepNames DEF EraseFamily, BlockFamily
<1>7. /\ Follows("refreshGet", y) /\ Follows("commit", "refreshGet") /\ Follows("refreshSet", "commit")
      /\ Commits("refreshSet", "refreshGet") /\ Commits("refreshGet", "return")
  BY DEF Follows, Commits
<1>a. PICK e : e = FALSE
  OBVIOUS
<1>c. \A x : e => x \in EraseFamily
  BY <1>a
<1>b. Begins(t, k, y, e)
  BY <1>a
<1>8. Begins(t3, k, "refreshGet", e)
  <2>1. CASE y = "commit"
    BY <1>0, <1>6, <1>7, <1>c, <1>b, <2>1, PutCommitted
  <2>2. CASE y = "return"
    BY <1>0, <1>6, <1>7, <1>c, <1>b, <2>2, PutOne
  <2> QED BY <2>1, <2>2
<1>9. Begins(t2, k, "commit", e) /\ t2[2] = "refreshGet"
  <2>1. Begins(t2, k, "commit", e)
    BY <1>1, <1>6, <1>7, <1>8, <1>c, PutOne
  <2>2. t2[2] = "refreshGet"
    BY <1>1, <1>6, <1>7, <1>8, <1>c, Second
  <2> QED BY <2>1, <2>2
<1>10. Begins(t1, k, "refreshSet", e)
  BY <1>2, <1>6, <1>7, <1>9, <1>c, PutCommitted
<1>14. RefreshSteps \o t = t1
  <2>1. t \in Seq(Steps)
    BY DEF Begins
  <2>2. RefreshSteps \o t = <<"refreshSet">> \o (<<"commit">> \o (<<"refreshGet">> \o t))
    BY <1>6, <2>1, Spell3 DEF RefreshSteps
  <2> QED BY <1>0, <1>1, <1>2, <2>2
<1> QED BY <1>10, <1>14, <1>a

-----------------------------------------------------------------------------
(* What a step leaves as it was *)

LEMMA EntriesLog ==
  ASSUME NEW es \in Seq(Entries)
  PROVE  es \in Seq(LogEntry)
<1>1. Entries \subseteq LogEntry
  BY DEF Entries
<1> QED BY <1>1

LEMMA RedoneNext == ASSUME log' \in Seq(LogEntry) PROVE Redone' = Over(mem', log')
<1>1. DOMAIN log' = 1..Len(log')
  BY SeqFacts
<1> QED BY <1>1, MapWords DEF Redone, Over

LEMMA CountsSame ==
  ASSUME NEW m, NEW es, CountsOnly(es)
  PROVE  Same(m, Over(m, es), MapFields)
<1>1. ASSUME NEW i \in DOMAIN es PROVE es[i].addr[1] \in Drifting
  <2>1. es[i].addr \in Drifting \X {NULL}
    BY DEF CountsOnly
  <2> QED BY <2>1
<1>2. Touches(es, Drifting)
  BY <1>1 DEF Touches
<1> QED BY <1>2, FieldNames, OverSame

LEMMA CountsFit ==
  ASSUME NEW es, NEW n, Fits(es, Drifting, n)
  PROVE  CountsOnly(es)
<1>1. ASSUME NEW i \in DOMAIN es PROVE es[i].addr \in Drifting \X {NULL}
  <2>1. es[i] \in Entries
    BY SeqFacts DEF Fits
  <2>2. es[i].addr[1] \in Drifting
    BY DEF Fits, Touches
  <2>3. PICK a \in HashAddr : a = es[i].addr
    BY <2>1, EntryFields
  <2>4. Drifting \intersect BlockFields = {} /\ Drifting \intersect {"blockAddr", "listCount"} = {}
    BY DEF Drifting, BlockFields, BlockLinks
  <2>5. a[1] \in Drifting
    BY <2>2, <2>3
  <2>6. CASE \E f \in HeadLinks \union HeadCounts : a = <<f, NULL>>
    <3>1. PICK f : a = <<f, NULL>>
      BY <2>6
    <3>2. f \in Drifting
      BY <2>5, <3>1
    <3> QED BY <2>3, <3>1, <3>2
  <2>7. CASE \E f \in BlockFields, b \in Blocks : a = <<f, b>>
    BY <2>4, <2>5, <2>7
  <2>8. CASE \E f \in {"blockAddr", "listCount"}, x \in Buckets : a = <<f, x>>
    BY <2>4, <2>5, <2>8
  <2> QED BY <2>6, <2>7, <2>8, WordFields
<1> QED BY <1>1 DEF CountsOnly

LEMMA CountsCat ==
  ASSUME NEW es \in Seq(Entries), NEW fs \in Seq(Entries), CountsOnly(es), CountsOnly(fs)
  PROVE  CountsOnly(es \o fs)
<1>1. /\ DOMAIN es = 1..Len(es) /\ DOMAIN fs = 1..Len(fs) /\ Len(es) \in Nat /\ Len(fs) \in Nat
  BY SeqFacts
<1>2. PICK c : c = es \o fs
  OBVIOUS
<1>3. /\ c \in Seq(Entries) /\ Len(c) = Len(es) + Len(fs)
      /\ \A i \in 1..Len(es) : c[i] = es[i]
      /\ \A i \in 1..Len(fs) : c[Len(es) + i] = fs[i]
  BY <1>2, CatFacts
<1>4. DOMAIN c = 1..(Len(es) + Len(fs))
  BY <1>3, SeqFacts
<1>5. ASSUME NEW i \in DOMAIN c PROVE c[i].addr \in Drifting \X {NULL}
  <2>1. CASE i \in 1..Len(es)
    <3>1. c[i] = es[i] /\ i \in DOMAIN es
      BY <1>1, <1>3, <2>1
    <3> QED BY <3>1 DEF CountsOnly
  <2>2. CASE i \notin 1..Len(es)
    <3>1. i - Len(es) \in 1..Len(fs) /\ Len(es) + (i - Len(es)) = i
      BY <1>1, <1>4, <2>2
    <3>2. c[i] = fs[i - Len(es)] /\ i - Len(es) \in DOMAIN fs
      BY <1>1, <1>3, <3>1
    <3> QED BY <3>2 DEF CountsOnly
  <2> QED BY <2>1, <2>2
<1> QED BY <1>2, <1>5 DEF CountsOnly

LEMMA ReadySame ==
  ASSUME NEW m, NEW n, Good(m), Same(m, n, MapFields), NEW x, NEW c, NEW F, Ready(x, m, c, F)
  PROVE  Ready(x, n, c, F)
<1>1. Linked(n) = Linked(m) /\ Linked(m) \subseteq Blocks
  BY GoodSame, GoodFacts
<1>2. \A b \in Blocks : /\ n[<<"index", b>>] = m[<<"index", b>>] /\ n[<<"key", b>>] = m[<<"key", b>>]
                        /\ \A f \in BlockLinks : n[<<f, b>>] = m[<<f, b>>]
  <2>1. BlockLinks \subseteq MapFields /\ "index" \in MapFields /\ "key" \in MapFields
    BY DEF MapFields
  <2> QED BY <2>1, SameWords, FieldNames
<1>3. x \in {"unlink"} \union WriteFamily \union BlockFamily => c.b \in Linked(n)
  BY <1>1 DEF Ready
<1>4. x \in {"wipe", "release", "init", "makeNew"} => c.b \in Blocks \ (Linked(n) \union F)
  BY <1>1 DEF Ready
<1>5. x = "makeNew" => /\ n[<<"index", c.b>>] = Hash[c.k] /\ n[<<"key", c.b>>] = NULL
                       /\ \A f \in BlockLinks : n[<<f, c.b>>] = NULL
  <2>1. SUFFICES ASSUME x = "makeNew"
                 PROVE  /\ n[<<"index", c.b>>] = Hash[c.k] /\ n[<<"key", c.b>>] = NULL
                        /\ \A f \in BlockLinks : n[<<f, c.b>>] = NULL
    OBVIOUS
  <2>2. c.b \in Blocks
    BY <2>1 DEF Ready
  <2> QED BY <1>2, <2>1, <2>2 DEF Ready
<1>6. x \in WriteFamily => /\ n[<<"index", c.b>>] = Hash[c.k]
                           /\ \A d \in Linked(n) : n[<<"key", d>>] = c.k => d = c.b
  <2>1. SUFFICES ASSUME x \in WriteFamily
                 PROVE  /\ n[<<"index", c.b>>] = Hash[c.k]
                        /\ \A d \in Linked(n) : n[<<"key", d>>] = c.k => d = c.b
    OBVIOUS
  <2>2. c.b \in Blocks
    BY <1>1, <2>1 DEF Ready
  <2> QED BY <1>1, <1>2, <2>1, <2>2 DEF Ready
<1> QED BY <1>3, <1>4, <1>5, <1>6 DEF Ready

LEMMA NotThereSame ==
  ASSUME NEW m, NEW n, NEW k, NotThere(m, k), Linked(n) \subseteq Linked(m), Linked(m) \subseteq Blocks,
         Same(m, n, {"key"})
  PROVE  NotThere(n, k)
<1>1. \A b \in Blocks : n[<<"key", b>>] = m[<<"key", b>>]
  BY SameWords, FieldNames
<1> QED BY <1>1 DEF NotThere

LEMMA ServesSame ==
  ASSUME NEW m, NEW n, Good(m), Same(m, n, MapFields), NEW t, NEW c, NEW F, Serves(t, m, c, F)
  PROVE  Serves(t, n, c, F)
<1>1. Linked(n) = Linked(m) /\ Linked(m) \subseteq Blocks
  BY GoodSame, GoodFacts
<1>2. Same(m, n, {"key"})
  <2>1. {"key"} \subseteq MapFields
    BY DEF MapFields
  <2> QED BY <2>1, SameSub
<1>3. Ready(Upcoming(t), n, c, F)
  BY ReadySame DEF Serves
<1>4. NotThere(m, c.k) => NotThere(n, c.k)
  BY <1>1, <1>2, NotThereSame
<1> QED BY <1>3, <1>4 DEF Serves

LEMMA SoundSame ==
  ASSUME NEW m, NEW n, NEW F, Sound(m, F), Same(m, n, MapFields)
  PROVE  Sound(n, F)
<1>1. Good(n) /\ Linked(n) = Linked(m)
  BY GoodSame DEF Sound
<1> QED BY <1>1 DEF Sound

-----------------------------------------------------------------------------
(* A step inside an operation *)

Waiting == {"enter", "commit", "apply"}

(* What is so before a step that neither begins nor copies. *)
LEMMA CalmFacts ==
  ASSUME MapInv, NEW x, At(x), x \notin Waiting
  PROVE  /\ todo # <<>> /\ todo[1] = x /\ todo \in Seq(Steps) /\ Shape(todo, cur.k)
         /\ entered /\ status \in {0, 1} /\ copied = 0 /\ Recovered = mem
         /\ Typed(mem) /\ log \in Seq(Entries) /\ CountsOnly(log) /\ Len(log) <= Room(x) /\ Len(log) \in Nat
         /\ Sound(mem, Elems(free)) /\ Good(mem) /\ Linked(mem) \subseteq Blocks
         /\ Serves(todo, mem, cur, Elems(free)) /\ cur \in Locals
<1>1. Shape(todo, cur.k) /\ cur \in Locals
  BY DEF MapInv, ControlInv
<1>2. todo # <<>> /\ todo[1] = x /\ todo \in Seq(Steps)
  BY <1>1, AtFacts
<1>3. entered /\ status # 2 /\ Len(log) <= Room(x) /\ CountsOnly(log)
  BY <1>2 DEF MapInv, ControlInv, Waiting
<1>4. status \in {0, 1} /\ copied = 0
  BY <1>3 DEF MapInv, LogInv, LogTypeOK
<1>5. Recovered = mem /\ Coming = mem
  BY <1>2, <1>4 DEF Recovered, Coming, Waiting
<1>6. /\ Typed(mem) /\ log \in Seq(Entries) /\ Sound(mem, Elems(free))
      /\ Serves(todo, mem, cur, Elems(free))
  BY <1>2, <1>3, <1>5 DEF MapInv, DataInv
<1>7. Good(mem) /\ Linked(mem) \subseteq Blocks
  BY <1>6, GoodFacts DEF Sound
<1>8. Len(log) \in Nat
  BY <1>6, SeqFacts
<1> QED BY <1>1, <1>2, <1>3, <1>4, <1>5, <1>6, <1>7, <1>8

(* The operation goes on with step y. *)
Onto(y) ==
  /\ Shape(todo', cur'.k) /\ todo' # <<>> /\ todo'[1] = y
  /\ cur' \in Locals /\ missed' \subseteq Blocks /\ mode' = mode /\ crashes' = crashes
  /\ entered' = TRUE /\ status' \in {0, 1}

LEMMA RoomFits == \A y : Room(y) \in Nat /\ Room(y) <= 17
BY DEF Room

LEMMA Lands ==
  ASSUME MapInv, NEW y, Onto(y), y \notin Waiting, Len(log') <= Room(y), CountsOnly(log'),
         Typed(mem'), log' \in Seq(Entries), Sound(mem', Elems(free')), Serves(todo', mem', cur', Elems(free'))
  PROVE  ControlInv' /\ DataInv'
<1>1. Recovered' = mem' /\ Coming' = mem'
  BY DEF Recovered, Coming, Onto, Waiting
<1>2. DataInv'
  BY <1>1 DEF DataInv, Onto
<1>3. Len(log') <= 17
  <2>1. Len(log') \in Nat
    BY SeqFacts
  <2>2. Room(y) \in Nat /\ Room(y) <= 17
    BY RoomFits
  <2> QED BY <2>1, <2>2
<1>4. mode \in Modes /\ crashes \in 0..mode.crashes
  BY DEF MapInv, ControlInv
<1>5. ControlInv'
  BY <1>3, <1>4 DEF ControlInv, Onto, Waiting
<1> QED BY <1>2, <1>5

LEMMA LandsToCommit ==
  ASSUME MapInv, Onto("commit"), Len(log') <= 17, Typed(mem'), log' \in Seq(Entries),
         Sound(mem', Elems(free')), Sound(Over(mem', log'), Elems(free')),
         Serves(todo', Over(mem', log'), cur', Elems(free'))
  PROVE  ControlInv' /\ DataInv'
<1>1. Recovered' = mem' /\ Coming' = Redone'
  BY DEF Recovered, Coming, Onto
<1>2. Redone' = Over(mem', log')
  BY EntriesLog, RedoneNext
<1>3. DataInv'
  BY <1>1, <1>2 DEF DataInv, Onto
<1>4. mode \in Modes /\ crashes \in 0..mode.crashes
  BY DEF MapInv, ControlInv
<1>5. Room("commit") = 17
  BY DEF Room, Ops
<1>6. ControlInv'
  BY <1>4, <1>5 DEF ControlInv, Onto
<1> QED BY <1>3, <1>6

(* The stores of a step, and what they leave of the map. *)
Quiet(n) ==
  /\ Typed(mem') /\ Same(mem, mem', MapFields)
  /\ log' \in Seq(Entries) /\ CountsOnly(log') /\ Len(log') <= Len(log) + n
  /\ entered' = TRUE /\ status' \in {0, 1}

LEMMA QuietLands ==
  ASSUME MapInv, NEW x, At(x), x \notin Waiting, NEW n \in Nat, Quiet(n),
         NEW y, Onto(y), y \notin Waiting, Room(x) + n <= Room(y),
         Linked(mem) \intersect Elems(free') = {}, Serves(todo', mem, cur', Elems(free'))
  PROVE  ControlInv' /\ DataInv'
<1>1. Good(mem) /\ Len(log) <= Room(x) /\ Len(log) \in Nat
  BY CalmFacts
<1>2. Sound(mem, Elems(free'))
  BY <1>1 DEF Sound
<1>3. Sound(mem', Elems(free'))
  BY <1>2, SoundSame DEF Quiet
<1>4. Serves(todo', mem', cur', Elems(free'))
  BY <1>1, ServesSame DEF Quiet
<1>5. Len(log') <= Room(y)
  <2>1. Len(log') \in Nat /\ Len(log') <= Len(log) + n
    BY SeqFacts DEF Quiet
  <2>2. Room(x) \in Nat /\ Room(y) \in Nat
    BY RoomFits
  <2> QED BY <1>1, <2>1, <2>2
<1> QED BY <1>3, <1>4, <1>5, Lands DEF Quiet

-----------------------------------------------------------------------------
(* The stores of a step *)

LogStep == [LogNext]_logVars

LEMMA NoStoreQuiet ==
  ASSUME MapInv, NEW x, At(x), x \notin Waiting, NoStore
  PROVE  Quiet(0) /\ LogStep
<1>1. Typed(mem) /\ log \in Seq(Entries) /\ CountsOnly(log) /\ entered = TRUE /\ status \in {0, 1} /\ Len(log) \in Nat
  <2>1. entered \in BOOLEAN
    BY DEF MapInv, LogInv, LogTypeOK
  <2> QED BY <2>1, CalmFacts
<1>2. mem' = mem /\ log' = log /\ status' = status /\ copied' = copied /\ entered' = entered
  BY DEF NoStore
<1>3. Same(mem, mem', MapFields)
  BY <1>2 DEF Same
<1>4. Quiet(0)
  BY <1>1, <1>2, <1>3 DEF Quiet
<1> QED BY <1>2, <1>4 DEF LogStep, logVars

LEMMA UpdateStep ==
  ASSUME MapInv, NEW x, At(x), x \notin Waiting, NEW es \in Seq(Entries), update(es)
  PROVE  /\ LogStep /\ mem' = mem /\ entered' = TRUE /\ status' \in {0, 1}
         /\ log' \in Seq(Entries) /\ Len(log') = Len(log) + Len(es)
         /\ Over(mem', log') = Over(Over(mem, log), es) /\ log' = log \o es
<1>1. log \in Seq(Entries) /\ entered = TRUE /\ status \in {0, 1}
  <2>1. entered \in BOOLEAN
    BY DEF MapInv, LogInv, LogTypeOK
  <2> QED BY <2>1, CalmFacts
<1>2. mem' = mem /\ log' = log \o es /\ status' = 1 /\ copied' = copied /\ entered' = entered
  BY DEF update
<1>3. /\ log' \in Seq(Entries) /\ Len(log') = Len(log) + Len(es)
      /\ \A i \in 1..Len(log) : log'[i] = log[i]
  BY <1>1, <1>2, CatFacts
<1>4. Over(mem, log \o es) = Over(Over(mem, log), es)
  BY <1>1, OverCat
<1>5. Gather
  <2>1. log' \in Seq(LogEntry)
    BY <1>3, EntriesLog
  <2>2. Len(log) \in Nat /\ Len(es) \in Nat
    BY <1>1, SeqFacts
  <2>3. Len(log) <= Len(log')
    BY <1>3, <2>2
  <2> QED BY <1>1, <1>2, <1>3, <2>1, <2>3 DEF Gather
<1> QED BY <1>1, <1>2, <1>3, <1>4, <1>5 DEF LogStep, LogNext

LEMMA UpdateQuiet ==
  ASSUME MapInv, NEW x, At(x), x \notin Waiting, NEW n \in Nat, NEW es, Fits(es, Drifting, n), update(es)
  PROVE  Quiet(n) /\ LogStep
<1>1. es \in Seq(Entries) /\ CountsOnly(es) /\ Len(es) <= n /\ Len(es) \in Nat
  <2>1. es \in Seq(Entries) /\ Len(es) <= n
    BY DEF Fits
  <2> QED BY <2>1, CountsFit, SeqFacts
<1>2. Typed(mem) /\ log \in Seq(Entries) /\ CountsOnly(log) /\ Len(log) \in Nat
  BY CalmFacts
<1>3. /\ LogStep /\ mem' = mem /\ entered' = TRUE /\ status' \in {0, 1}
      /\ log' \in Seq(Entries) /\ Len(log') = Len(log) + Len(es) /\ log' = log \o es
  BY <1>1, UpdateStep
<1>4. CountsOnly(log')
  BY <1>1, <1>2, <1>3, CountsCat
<1>5. Same(mem, mem', MapFields)
  BY <1>3 DEF Same
<1> QED BY <1>1, <1>2, <1>3, <1>4, <1>5 DEF Quiet

LEMMA LogQuiet ==
  ASSUME MapInv, NEW x, At(x), x \notin Waiting, NEW n \in Nat, NEW es, Fits(es, Drifting, n), Log(es)
  PROVE  Quiet(n) /\ LogStep
<1>1. CASE es = <<>>
  <2>1. Quiet(0) /\ LogStep
    BY <1>1, NoStoreQuiet DEF Log
  <2>2. Len(log) \in Nat
    BY CalmFacts
  <2>3. log' \in Seq(Entries) /\ Len(log') <= Len(log) + 0
    BY <2>1 DEF Quiet
  <2>4. Len(log') \in Nat
    BY <2>3, SeqFacts
  <2>5. Len(log') <= Len(log) + n
    BY <2>2, <2>3, <2>4
  <2> QED BY <2>1, <2>5 DEF Quiet
<1>2. CASE es # <<>>
  BY <1>2, UpdateQuiet DEF Log
<1> QED BY <1>1, <1>2

(* Nothing leads to a block that is in no list. *)
LEMMA UnlinkedLoose ==
  ASSUME NEW m, Good(m), NEW b \in Blocks, b \notin Linked(m)
  PROVE  Loose(m, b)
<1>1. PICK S, G, C, D : S = SetSeq(m) /\ G = GetSeq(m) /\ C = Chains(m) /\ D = Blocks \ Elems(S)
  OBVIOUS
<1>2. /\ ListOK(m, SetL, S) /\ ListOK(m, GetL, G) /\ \A i \in Buckets : ChainOK(m, i, C[i])
      /\ Elems(G) = Elems(S) /\ \A i \in Buckets : Elems(C[i]) \subseteq Elems(S)
      /\ \A x \in Elems(S) : \E i \in Buckets : x \in Elems(C[i])
      /\ TailsOK(m, Elems(S)) /\ Linked(m) = Elems(S)
  BY <1>1, GoodParts
<1>3. NULL \notin D
  BY <1>1, MapAssumption
<1>4. \A f \in HeadLinks : m[<<f, NULL>>] \notin D
  <2>1. \A f \in {"setHead", "setTail", "getHead", "getTail"} \union Tails :
          m[<<f, NULL>>] \in Elems(S) \union {NULL}
    BY <1>2, LinkedFacts
  <2> QED BY <1>1, <1>3, <2>1 DEF HeadLinks, Tails
<1>5. ASSUME NEW i \in Buckets PROVE m[<<"blockAddr", i>>] \notin D
  <2>1. m[<<"blockAddr", i>>] = Nth(C[i], 1) /\ Elems(C[i]) \subseteq Elems(S)
    BY <1>2 DEF ChainOK
  <2> QED BY <1>1, <1>3, <2>1 DEF Nth, Elems
<1>6. ASSUME NEW d \in Elems(S) PROVE \A f \in BlockLinks : m[<<f, d>>] \notin D
  <2>1. \A f \in {"setNext", "setPrev"} : m[<<f, d>>] \in Elems(S) \union {NULL}
    BY <1>2, ListFacts DEF SetL
  <2>2. \A f \in {"getNext", "getPrev"} : m[<<f, d>>] \in Elems(S) \union {NULL}
    BY <1>2, ListFacts DEF GetL
  <2>3. PICK i \in Buckets : \E n \in DOMAIN C[i] : d = C[i][n]
    BY <1>2 DEF Elems
  <2>4. PICK n \in DOMAIN C[i] : d = C[i][n]
    BY <2>3
  <2>5. /\ m[<<"blockNext", d>>] = Nth(C[i], n + 1) /\ m[<<"blockPrev", d>>] = Nth(C[i], n - 1)
        /\ Elems(C[i]) \subseteq Elems(S)
    BY <1>2, <2>4 DEF ChainOK, Linear
  <2>6. \A f \in {"blockNext", "blockPrev"} : m[<<f, d>>] \in Elems(S) \union {NULL}
    BY <2>5 DEF Nth, Elems
  <2> QED BY <1>1, <1>3, <2>1, <2>2, <2>6 DEF BlockLinks
<1>7. ASSUME NEW a \in HashLinks, m[a] \in D PROVE \E d \in D : a \in BlockWords(d)
  <2>1. PICK f \in BlockLinks, d \in Blocks : a = <<f, d>>
    BY <1>4, <1>5, <1>7 DEF HashLinks
  <2>2. d \in D
    BY <1>1, <1>6, <1>7, <2>1
  <2> QED BY <2>1, <2>2, BlockWord, FieldNames
<1>8. DOMAIN Words = Blocks /\ Links = HashLinks /\ \A d \in Blocks : Words[d] = BlockWords(d)
  BY MapWords DEF HashWords
<1>9. D \in SUBSET DOMAIN Words /\ b \in D
  BY <1>1, <1>2, <1>8
<1>10. \A a \in Links : m[a] \in D => \E d \in D : a \in Words[d]
  BY <1>1, <1>7, <1>8
<1> QED BY <1>9, <1>10 DEF Loose

(* Words written past the log: a group of the map, or a block that is in   *)
(* no list, neither of which the log has an entry for.                     *)
LEMMA WriteStep ==
  ASSUME MapInv, NEW x, At(x), x \notin Waiting, Typed(mem'), NEW g,
         g \in HashGroups \/ \E b \in Blocks \ Linked(mem) : g = BlockWords(b),
         g \intersect (Drifting \X {NULL}) = {},
         \A a \in HashAddr \ g : mem'[a] = mem[a], UNCHANGED <<log, status, copied, entered>>
  PROVE  LogStep /\ entered' = TRUE /\ status' \in {0, 1}
<1>1. entered = TRUE /\ status \in {0, 1}
  <2>1. entered \in BOOLEAN
    BY DEF MapInv, LogInv, LogTypeOK
  <2> QED BY <2>1, CalmFacts
<1>2. mem' \in [Addr -> Value] /\ \A a \in Addr \ g : mem'[a] = mem[a]
  BY MapWords DEF Typed
<1>3. \A i \in 1..Len(log) : log[i].addr \notin g
  <2>1. log \in Seq(Entries) /\ CountsOnly(log)
    BY CalmFacts
  <2>2. DOMAIN log = 1..Len(log)
    BY <2>1, SeqFacts
  <2> QED BY <2>1, <2>2 DEF CountsOnly
<1>4. /\ g \in Groups \union {Words[o] : o \in DOMAIN Words}
      /\ g \in Groups \/ \E o \in DOMAIN Words : g = Words[o] /\ Loose(mem, o)
  <2>1. CASE g \in HashGroups
    BY <2>1, MapWords
  <2>2. ASSUME NEW b \in Blocks \ Linked(mem), g = BlockWords(b)
        PROVE  b \in DOMAIN Words /\ g = Words[b] /\ Loose(mem, b)
    <3>1. Loose(mem, b)
      BY CalmFacts, UnlinkedLoose
    <3> QED BY <2>2, <3>1, MapWords DEF HashWords
  <2> QED BY <2>1, <2>2
<1>5. WrittenPast(log, mem, mem')
  BY <1>2, <1>3, <1>4 DEF WrittenPast
<1>6. DirectWrite
  BY <1>1, <1>5 DEF DirectWrite
<1> QED BY <1>1, <1>6 DEF LogStep, LogNext

(* The groups of the map hold no count that the log is about. *)
Past(f, b) ==
  \/ f \in Tails \union {"usedChunk"} /\ b = NULL
  \/ f \in {"dirty", "onlyKey", "val"} /\ b \in Blocks

LEMMA DataGroup ==
  ASSUME NEW b \in Blocks
  PROVE  /\ {<<"key", b>>, <<"val", b>>} \in HashGroups
         /\ {<<"key", b>>, <<"val", b>>} \intersect (Drifting \X {NULL}) = {}
<1>1. {<<"key", b>>, <<"val", b>>} \in HashGroups
  BY DEF HashGroups
<1>2. <<"key", b>> \notin Drifting \X {NULL} /\ <<"val", b>> \notin Drifting \X {NULL}
  BY DEF Drifting
<1> QED BY <1>1, <1>2

LEMMA PastGroup ==
  ASSUME NEW f, NEW b, Past(f, b)
  PROVE  \E g \in HashGroups : <<f, b>> \in g /\ g \intersect (Drifting \X {NULL}) = {}
<1>1. CASE f \in Tails \union {"usedChunk"} /\ b = NULL
  <2>1. {<<f, b>>} \in HashGroups
    BY <1>1 DEF HashGroups, Tails
  <2>2. <<f, b>> \notin Drifting \X {NULL}
    BY <1>1 DEF Drifting, Tails
  <2> QED BY <2>1, <2>2
<1>2. CASE f \in {"dirty", "onlyKey"} /\ b \in Blocks
  <2>1. {<<f, b>>} \in HashGroups
    BY <1>2 DEF HashGroups
  <2>2. <<f, b>> \notin Drifting \X {NULL}
    BY <1>2 DEF Drifting
  <2> QED BY <2>1, <2>2
<1>3. CASE f = "val" /\ b \in Blocks
  BY <1>3, DataGroup
<1> QED BY <1>1, <1>2, <1>3 DEF Past

LEMMA StoreOne ==
  ASSUME MapInv, NEW x, At(x), x \notin Waiting, NEW f, NEW b, NEW v, <<f, b>> \in HashAddr, v \in Kind(f),
         Store(Up(f, b, v)), Past(f, b)
  PROVE  /\ LogStep /\ entered' = TRUE /\ status' \in {0, 1} /\ log' = log
         /\ Typed(mem') /\ WordSet(mem', mem, f, b, v)
<1>1. Typed(mem) /\ mem \in [HashAddr -> HashValue]
  BY CalmFacts DEF Typed
<1>2. PICK es, w : es = Up(f, b, v) /\ w = <<f, b>>
  OBVIOUS
<1>3. DOMAIN es = {1} /\ es[1].addr = w /\ es[1].val = v
  BY <1>2 DEF Up
<1>4. mem' = [a \in HashAddr |-> IF \E i \in DOMAIN es : es[i].addr = a
                                 THEN es[CHOOSE i \in DOMAIN es : es[i].addr = a].val ELSE mem[a]]
  BY <1>2 DEF Store
<1>5. mem'[w] = v
  <2>1. \E i \in DOMAIN es : es[i].addr = w
    BY <1>3
  <2>2. PICK c : c = CHOOSE i \in DOMAIN es : es[i].addr = w
    OBVIOUS
  <2>3. c \in DOMAIN es
    BY <2>1, <2>2
  <2>4. es[c].val = v
    BY <1>3, <2>3
  <2>5. w \in HashAddr
    BY <1>2
  <2> QED BY <1>4, <2>1, <2>2, <2>4, <2>5
<1>6. \A a \in HashAddr : a # w => mem'[a] = mem[a]
  BY <1>3, <1>4
<1>7. WordSet(mem', mem, f, b, v)
  BY <1>2, <1>5, <1>6 DEF WordSet
<1>8. v \in HashValue
  BY KindValue
<1>9. ASSUME NEW a \in HashAddr PROVE mem'[a] \in HashValue /\ mem'[a] \in Kind(a[1])
  <2>1. CASE a = w
    <3>1. a[1] = f
      BY <1>2, <2>1
    <3> QED BY <1>5, <1>8, <2>1, <3>1
  <2>2. CASE a # w
    BY <1>1, <1>6, <2>2 DEF Typed
  <2> QED BY <2>1, <2>2
<1>10. mem' = [a \in HashAddr |-> mem'[a]]
  BY <1>4
<1>11. mem' \in [HashAddr -> HashValue]
  BY <1>9, <1>10
<1>12. Typed(mem')
  BY <1>9, <1>11 DEF Typed
<1>13. PICK g \in HashGroups : w \in g /\ g \intersect (Drifting \X {NULL}) = {}
  BY <1>2, PastGroup
<1>14. UNCHANGED <<log, status, copied, entered>>
  BY DEF Store
<1>15. LogStep /\ entered' = TRUE /\ status' \in {0, 1}
  <2>1. \A a \in HashAddr \ g : mem'[a] = mem[a]
    BY <1>6, <1>13
  <2> QED BY <1>12, <1>13, <1>14, <2>1, WriteStep
<1> QED BY <1>7, <1>12, <1>14, <1>15

LEMMA WordOut ==
  ASSUME NEW m, NEW n, NEW f, NEW b, NEW v, WordSet(n, m, f, b, v), NEW F, f \notin F
  PROVE  Same(m, n, F)
<1>1. ASSUME NEW a \in HashAddr, a[1] \in F PROVE m[a] = n[a]
  <2>1. a # <<f, b>>
    BY <1>1
  <2> QED BY <2>1 DEF WordSet
<1> QED BY <1>1 DEF Same

LEMMA StoreQuiet ==
  ASSUME MapInv, NEW x, At(x), x \notin Waiting, NEW f, NEW b, NEW v, <<f, b>> \in HashAddr, v \in Kind(f),
         Store(Up(f, b, v)), Past(f, b), f \notin MapFields
  PROVE  Quiet(0) /\ LogStep
<1>1. /\ LogStep /\ entered' = TRUE /\ status' \in {0, 1} /\ log' = log
      /\ Typed(mem') /\ WordSet(mem', mem, f, b, v)
  BY StoreOne
<1>2. log \in Seq(Entries) /\ CountsOnly(log) /\ Len(log) \in Nat
  BY CalmFacts
<1>3. Same(mem, mem', MapFields)
  BY <1>1, WordOut
<1> QED BY <1>1, <1>2, <1>3 DEF Quiet

-----------------------------------------------------------------------------
(* Stores past the log that the map sees *)

LEMMA StoreTail ==
  ASSUME MapInv, NEW x, At(x), x \notin Waiting, NEW t \in Tails, NEW v \in Linked(mem) \union {NULL},
         Store(Up(t, NULL, v))
  PROVE  /\ LogStep /\ entered' = TRUE /\ status' \in {0, 1} /\ log' = log
         /\ Typed(mem') /\ Good(mem') /\ Linked(mem') = Linked(mem)
<1>1. Good(mem) /\ Linked(mem) \subseteq Blocks
  BY CalmFacts
<1>2. <<t, NULL>> \in HashAddr /\ v \in Kind(t)
  <2>1. t \in HeadLinks
    BY FieldNames
  <2> QED BY <1>1, <2>1, HeadWord DEF Kind
<1>3. /\ LogStep /\ entered' = TRUE /\ status' \in {0, 1} /\ log' = log
      /\ Typed(mem') /\ WordSet(mem', mem, t, NULL, v)
  BY <1>2, StoreOne DEF Past
<1>4. PICK n : n = mem'
  OBVIOUS
<1>5. WordSet(n, mem, t, NULL, v)
  BY <1>3, <1>4
<1>6. Same(mem, n, Fields(SetL)) /\ Same(mem, n, Fields(GetL)) /\ Same(mem, n, ChainFields)
      /\ Same(mem, n, {"key"}) /\ Same(mem, n, {"elementCount"})
  <2>1. /\ t \notin Fields(SetL) /\ t \notin Fields(GetL) /\ t \notin ChainFields /\ t \notin {"key"}
        /\ t \notin {"elementCount"}
    BY FieldNames DEF Tails
  <2> QED BY <1>5, <2>1, WordOut
<1>7. PICK S, G, C : S = SetSeq(mem) /\ G = GetSeq(mem) /\ C = Chains(mem)
  OBVIOUS
<1>8. ListOK(mem, SetL, S) /\ ListOK(mem, GetL, G) /\ Elems(S) = Linked(mem) /\ Elems(G) = Linked(mem)
      /\ TailsOK(mem, Linked(mem))
  BY <1>1, <1>7, GoodParts
<1>9. ListOK(n, SetL, S) /\ ListOK(n, GetL, G)
  BY <1>6, <1>8, ListSame
<1>10. TailsOK(n, Linked(mem))
  <2>1. ASSUME NEW u \in Tails PROVE n[<<u, NULL>>] \in Linked(mem) \union {NULL}
    <3>1. u = t => n[<<u, NULL>>] = v
      BY <1>5 DEF WordSet
    <3>2. u # t => n[<<u, NULL>>] = mem[<<u, NULL>>]
      <4>1. <<u, NULL>> \in HashAddr
        BY FieldNames, HeadWord
      <4> QED BY <1>5, <4>1 DEF WordSet
    <3> QED BY <1>8, <3>1, <3>2 DEF TailsOK
  <2> QED BY <2>1 DEF TailsOK
<1>11. Good(n) /\ Linked(n) = Linked(mem)
  BY <1>1, <1>6, <1>8, <1>9, <1>10, Rearranged
<1> QED BY <1>3, <1>4, <1>11

(* The words of a block that is in no list. *)
BlockSet(n, m, b) == \A a \in HashAddr \ BlockWords(b) : n[a] = m[a]

LEMMA BlockSetElse ==
  ASSUME NEW m, NEW n, NEW b \in Blocks, BlockSet(n, m, b)
  PROVE  /\ \A f \in HeadLinks \union HeadCounts : n[<<f, NULL>>] = m[<<f, NULL>>]
         /\ \A f \in BlockFields, d \in Blocks \ {b} : n[<<f, d>>] = m[<<f, d>>]
         /\ \A f \in {"blockAddr", "listCount"}, i \in Buckets : n[<<f, i>>] = m[<<f, i>>]
<1>0. b # NULL
  BY MapAssumption
<1>1. ASSUME NEW f, NEW d, d # b PROVE <<f, d>> \notin BlockWords(b)
  BY <1>1 DEF BlockWords
<1>2. ASSUME NEW f \in HeadLinks \union HeadCounts PROVE n[<<f, NULL>>] = m[<<f, NULL>>]
  BY <1>0, <1>1, HeadWord DEF BlockSet
<1>3. ASSUME NEW f \in BlockFields, NEW d \in Blocks \ {b} PROVE n[<<f, d>>] = m[<<f, d>>]
  BY <1>1, BlockWord DEF BlockSet
<1>4. ASSUME NEW f \in {"blockAddr", "listCount"}, NEW i \in Buckets PROVE n[<<f, i>>] = m[<<f, i>>]
  <2>1. <<f, i>> \in HashAddr
    BY BucketWord
  <2>2. <<f, i>> \notin BlockWords(b)
    <3>1. {"blockAddr", "listCount"} \intersect BlockFields = {}
      BY DEF BlockFields, BlockLinks
    <3> QED BY <3>1 DEF BlockWords
  <2> QED BY <2>1, <2>2 DEF BlockSet
<1> QED BY <1>2, <1>3, <1>4

LEMMA BlockAside ==
  ASSUME NEW m, NEW n, Good(m), NEW b \in Blocks, b \notin Linked(m), BlockSet(n, m, b)
  PROVE  Good(n) /\ Linked(n) = Linked(m) /\ \A k : NotThere(m, k) => NotThere(n, k)
<1>1. PICK S, G, C : S = SetSeq(m) /\ G = GetSeq(m) /\ C = Chains(m)
  OBVIOUS
<1>2. /\ ListOK(m, SetL, S) /\ ListOK(m, GetL, G) /\ \A i \in Buckets : ChainOK(m, i, C[i])
      /\ Elems(G) = Elems(S) /\ \A i \in Buckets : Elems(C[i]) \subseteq Elems(S)
      /\ m[<<"elementCount", NULL>>] = Len(S) /\ TailsOK(m, Elems(S))
      /\ Linked(m) = Elems(S) /\ Elems(S) \subseteq Blocks /\ C = [i \in Buckets |-> C[i]]
  BY <1>1, GoodParts
<1>3. SameBlocks(m, S, G, C) /\ KeysOK(m, Elems(S))
  BY <1>1, GoodFacts DEF MapOK
<1>4. /\ \A f \in HeadLinks \union HeadCounts : n[<<f, NULL>>] = m[<<f, NULL>>]
      /\ \A f \in BlockFields, d \in Elems(S) : n[<<f, d>>] = m[<<f, d>>]
      /\ \A f \in {"blockAddr", "listCount"}, i \in Buckets : n[<<f, i>>] = m[<<f, i>>]
  BY <1>2, BlockSetElse
<1>5. ASSUME NEW l \in {SetL, GetL}, NEW s, ListOK(m, l, s), Elems(s) = Elems(S) PROVE ListOK(n, l, s)
  <2>1. /\ l.head \in HeadLinks /\ l.tail \in HeadLinks /\ l.next \in BlockFields /\ l.prev \in BlockFields
    BY ListNames, FieldNames
  <2>2. Linear(n, l.next, l.prev, s)
    BY <1>4, <1>5, <2>1, LinearSame DEF ListOK
  <2> QED BY <1>4, <1>5, <2>1, <2>2 DEF ListOK
<1>6. ListOK(n, SetL, S) /\ ListOK(n, GetL, G)
  BY <1>2, <1>5
<1>7. ASSUME NEW i \in Buckets PROVE ChainOK(n, i, C[i])
  <2>1. ChainOK(m, i, C[i]) /\ Elems(C[i]) \subseteq Elems(S)
    BY <1>2
  <2>2. "blockNext" \in BlockFields /\ "blockPrev" \in BlockFields /\ "index" \in BlockFields
    BY FieldNames
  <2> QED BY <1>4, <2>1, <2>2, ChainStays
<1>8. SameBlocks(n, S, G, C) /\ KeysOK(n, Elems(S))
  <2>1. \A d \in Elems(S) : n[<<"index", d>>] = m[<<"index", d>>] /\ n[<<"key", d>>] = m[<<"key", d>>]
    BY <1>4, FieldNames
  <2>2. SameBlocks(n, S, G, C)
    BY <1>3, <2>1 DEF SameBlocks
  <2> QED BY <1>3, <2>1, <2>2 DEF KeysOK
<1>9. TailsOK(n, Elems(S)) /\ n[<<"elementCount", NULL>>] = Len(S)
  BY <1>2, <1>4, FieldNames DEF TailsOK
<1>10. MapOK(n, S, G, C)
  BY <1>6, <1>7, <1>8, <1>9 DEF MapOK
<1>11. Good(n) /\ Linked(n) = Elems(S)
  BY <1>2, <1>10, MapOKGood
<1>12. \A k : NotThere(m, k) => NotThere(n, k)
  BY <1>2, <1>4, <1>11, FieldNames DEF NotThere
<1> QED BY <1>2, <1>11, <1>12

LEMMA StoreBlockAside ==
  ASSUME MapInv, NEW x, At(x), x \notin Waiting, NEW b \in Blocks, b \notin Linked(mem), Typed(mem'),
         BlockSet(mem', mem, b), UNCHANGED <<log, status, copied, entered>>
  PROVE  /\ LogStep /\ entered' = TRUE /\ status' \in {0, 1} /\ log' = log
         /\ Good(mem') /\ Linked(mem') = Linked(mem) /\ \A k : NotThere(mem, k) => NotThere(mem', k)
<1>1. Good(mem)
  BY CalmFacts
<1>2. BlockWords(b) \intersect (Drifting \X {NULL}) = {}
  BY MapAssumption DEF BlockWords
<1>3. LogStep /\ entered' = TRUE /\ status' \in {0, 1}
  BY <1>2, WriteStep DEF BlockSet
<1>4. Good(mem') /\ Linked(mem') = Linked(mem) /\ \A k : NotThere(mem, k) => NotThere(mem', k)
  BY <1>1, BlockAside
<1> QED BY <1>3, <1>4

(* A record gets its key. *)
KeySet(n, m, b, k) ==
  /\ n[<<"key", b>>] = k
  /\ \A a \in HashAddr : a \notin {<<"key", b>>, <<"val", b>>} => n[a] = m[a]

LEMMA KeyAside ==
  ASSUME NEW m, NEW n, Good(m), NEW b \in Linked(m), NEW k \in Keys, m[<<"index", b>>] = Hash[k],
         \A d \in Linked(m) : m[<<"key", d>>] = k => d = b, KeySet(n, m, b, k)
  PROVE  Good(n) /\ Linked(n) = Linked(m)
<1>1. PICK S, G, C : S = SetSeq(m) /\ G = GetSeq(m) /\ C = Chains(m)
  OBVIOUS
<1>2. MapOK(m, S, G, C) /\ Linked(m) = Elems(S) /\ Elems(S) \subseteq Blocks /\ C = [i \in Buckets |-> C[i]]
  BY <1>1, GoodFacts
<1>3. ASSUME NEW F, "key" \notin F, "val" \notin F PROVE Same(m, n, F)
  <2>1. ASSUME NEW a \in HashAddr, a[1] \in F PROVE m[a] = n[a]
    <3>1. a # <<"key", b>> /\ a # <<"val", b>>
      BY <1>3, <2>1
    <3> QED BY <3>1 DEF KeySet
  <2> QED BY <2>1 DEF Same
<1>4. /\ Same(m, n, Fields(SetL)) /\ Same(m, n, Fields(GetL)) /\ Same(m, n, ChainFields)
      /\ Same(m, n, Tails) /\ Same(m, n, {"elementCount"}) /\ Same(m, n, {"index"})
  <2>1. \A F \in {Fields(SetL), Fields(GetL), ChainFields, Tails, {"elementCount"}, {"index"}} :
          "key" \notin F /\ "val" \notin F
    BY DEF Fields, SetL, GetL, ChainFields, Tails
  <2> QED BY <1>3, <2>1
<1>5. ListOK(n, SetL, S) /\ ListOK(n, GetL, G) /\ \A i \in Buckets : ChainOK(n, i, C[i])
  BY <1>2, <1>4, ListSame, ChainSame DEF MapOK
<1>6. \A d \in Elems(S) : n[<<"index", d>>] = m[<<"index", d>>]
  BY <1>2, <1>4, SameWords, FieldNames
<1>7. \A t \in Tails : n[<<t, NULL>>] = m[<<t, NULL>>]
  BY <1>4, SameWords, FieldNames
<1>8. n[<<"elementCount", NULL>>] = m[<<"elementCount", NULL>>]
  BY <1>4, SameWords, FieldNames
<1>9. SameBlocks(n, S, G, C) /\ TailsOK(n, Elems(S))
  BY <1>2, <1>6, <1>7 DEF MapOK, SameBlocks, TailsOK
<1>10. n[<<"key", b>>] = k /\ \A d \in Elems(S) \ {b} : n[<<"key", d>>] = m[<<"key", d>>]
  <2>1. ASSUME NEW d \in Elems(S) \ {b} PROVE n[<<"key", d>>] = m[<<"key", d>>]
    <3>1. <<"key", d>> \in HashAddr
      BY <1>2, BlockWord, FieldNames
    <3> QED BY <3>1 DEF KeySet
  <2> QED BY <2>1 DEF KeySet
<1>11. KeysOK(n, Elems(S))
  <2>1. ASSUME NEW d \in Elems(S), n[<<"key", d>>] # NULL PROVE n[<<"index", d>>] = Hash[n[<<"key", d>>]]
    BY <1>2, <1>6, <1>10, <2>1 DEF MapOK, KeysOK
  <2>2. ASSUME NEW d \in Elems(S), NEW c \in Elems(S), d # c, n[<<"key", d>>] # NULL
        PROVE  n[<<"key", d>>] # n[<<"key", c>>]
    <3>1. CASE d = b
      BY <1>2, <1>10, <2>2, <3>1
    <3>2. CASE c = b
      BY <1>2, <1>10, <2>2, <3>2
    <3>3. CASE d # b /\ c # b
      BY <1>2, <1>10, <2>2, <3>3 DEF MapOK, KeysOK
    <3> QED BY <3>1, <3>2, <3>3
  <2> QED BY <2>1, <2>2 DEF KeysOK
<1>12. MapOK(n, S, G, C)
  BY <1>2, <1>5, <1>8, <1>9, <1>11 DEF MapOK
<1> QED BY <1>2, <1>12, MapOKGood

-----------------------------------------------------------------------------
(* What a lookup finds *)

LEMMA FirstIn ==
  ASSUME NEW c, NEW ns, ns \subseteq DOMAIN c, DOMAIN c \subseteq Nat
  PROVE  IF ns = {} THEN FirstOf(c, ns) = NULL ELSE \E n \in ns : FirstOf(c, ns) = c[n]
<1>1. CASE ns = {}
  BY <1>1 DEF FirstOf
<1>2. CASE ns # {}
  <2>1. Min(ns) \in ns
    BY <1>2, MinIn
  <2> QED BY <1>2, <2>1 DEF FirstOf
<1> QED BY <1>1, <1>2

LEMMA ChainIn ==
  ASSUME NEW m, Good(m), NEW i \in Buckets
  PROVE  /\ DOMAIN Chain(m, i) \subseteq Nat
         /\ \A n \in DOMAIN Chain(m, i) : Chain(m, i)[n] \in Linked(m) /\ m[<<"index", Chain(m, i)[n]>>] = i
         /\ \A d \in Linked(m) : m[<<"index", d>>] = i => \E n \in DOMAIN Chain(m, i) : Chain(m, i)[n] = d
<1>1. PICK S, G, C : S = SetSeq(m) /\ G = GetSeq(m) /\ C = Chains(m)
  OBVIOUS
<1>2. ChainOK(m, i, C[i]) /\ Elems(C[i]) \subseteq Linked(m)
  BY <1>1, GoodParts
<1>3. Chain(m, i) = C[i]
  BY <1>1, GoodFacts
<1>4. Distinct(C[i])
  BY <1>2, LinearDistinct DEF ChainOK
<1>5. DOMAIN C[i] = 1..Len(C[i]) /\ Len(C[i]) \in Nat
  BY <1>4, DistinctFacts
<1>6. \A n \in DOMAIN C[i] : C[i][n] \in Linked(m) /\ m[<<"index", C[i][n]>>] = i
  BY <1>2 DEF ChainOK, Elems
<1>7. ASSUME NEW d \in Linked(m), m[<<"index", d>>] = i PROVE \E n \in DOMAIN C[i] : C[i][n] = d
  <2>1. \E j \in DOMAIN Chains(m)[m[<<"index", d>>]] : Chains(m)[m[<<"index", d>>]][j] = d
    BY GoodPlaces
  <2> QED BY <1>1, <1>7, <2>1
<1> QED BY <1>3, <1>5, <1>6, <1>7

(* The record of a key. *)
Holds(m, k, b) ==
  /\ b \in Linked(m) /\ m[<<"key", b>>] = k /\ m[<<"index", b>>] = Hash[k]
  /\ \A d \in Linked(m) : m[<<"key", d>>] = k => d = b

LEMMA FindFacts ==
  ASSUME Good(mem), NEW k \in Keys, NEW w
  PROVE  find(k, w) = NULL \/ Holds(mem, k, find(k, w))
<1>1. PICK c : c = Chain(mem, Hash[k])
  OBVIOUS
<1>2. Hash[k] \in Buckets /\ k # NULL
  BY MapAssumption
<1>3. /\ DOMAIN c \subseteq Nat
      /\ \A n \in DOMAIN c : c[n] \in Linked(mem) /\ mem[<<"index", c[n]>>] = Hash[k]
  BY <1>1, <1>2, ChainIn
<1>4. PICK ns : ns = {n \in DOMAIN c : Decodes(c[n], w) /\ B("key", c[n]) = k}
  OBVIOUS
<1>5. find(k, w) = FirstOf(c, ns)
  BY <1>1, <1>4 DEF find
<1>6. CASE ns = {}
  BY <1>3, <1>4, <1>5, <1>6, FirstIn
<1>7. CASE ns # {}
  <2>1. PICK n \in ns : FirstOf(c, ns) = c[n]
    BY <1>3, <1>4, <1>7, FirstIn
  <2>2. PICK b : b = c[n]
    OBVIOUS
  <2>3. b \in Linked(mem) /\ mem[<<"index", b>>] = Hash[k] /\ mem[<<"key", b>>] = k
    BY <1>3, <1>4, <2>2 DEF B
  <2>4. \A x, y \in Linked(mem) : x # y /\ mem[<<"key", x>>] # NULL => mem[<<"key", x>>] # mem[<<"key", y>>]
    BY GoodKeys
  <2>5. Holds(mem, k, b)
    BY <1>2, <2>3, <2>4 DEF Holds
  <2> QED BY <1>5, <2>1, <2>2, <2>5
<1> QED BY <1>6, <1>7

LEMMA FindWhole ==
  ASSUME Good(mem), NEW k \in Keys
  PROVE  find(k, TRUE) = NULL \/ Holds(mem, k, find(k, TRUE))
<1>1. PICK w : w = TRUE
  OBVIOUS
<1>2. find(k, w) = NULL \/ Holds(mem, k, find(k, w))
  BY FindFacts
<1> QED BY <1>1, <1>2

LEMMA FindKey ==
  ASSUME Good(mem), NEW k \in Keys
  PROVE  (find(k, FALSE) = NULL /\ NotThere(mem, k)) \/ (find(k, FALSE) # NULL /\ Holds(mem, k, find(k, FALSE)))
<1>1. PICK w : w = FALSE
  OBVIOUS
<1>2. find(k, w) = NULL \/ Holds(mem, k, find(k, w))
  BY FindFacts
<1>3. ASSUME find(k, w) = NULL PROVE NotThere(mem, k)
  <2>1. PICK c : c = Chain(mem, Hash[k])
    OBVIOUS
  <2>2. Hash[k] \in Buckets /\ k # NULL
    BY MapAssumption
  <2>3. /\ DOMAIN c \subseteq Nat
        /\ \A n \in DOMAIN c : c[n] \in Linked(mem)
        /\ \A d \in Linked(mem) : mem[<<"index", d>>] = Hash[k] => \E n \in DOMAIN c : c[n] = d
    <3>1. PICK i \in Buckets : i = Hash[k]
      BY <2>2
    <3>2. c = Chain(mem, i)
      BY <2>1, <3>1
    <3>3. DOMAIN c \subseteq Nat
      BY <3>2, ChainIn
    <3>4. \A n \in DOMAIN c : c[n] \in Linked(mem)
      BY <3>2, ChainIn
    <3>5. \A d \in Linked(mem) : mem[<<"index", d>>] = i => \E n \in DOMAIN c : c[n] = d
      BY <3>2, ChainIn
    <3> QED BY <3>1, <3>3, <3>4, <3>5
  <2>4. PICK ns : ns = {n \in DOMAIN c : Decodes(c[n], w) /\ B("key", c[n]) = k}
    OBVIOUS
  <2>5. find(k, w) = FirstOf(c, ns)
    BY <2>1, <2>4 DEF find
  <2>6. Linked(mem) \subseteq Blocks
    BY GoodFacts
  <2>7. ns = {}
    <3>1. SUFFICES ASSUME ns # {} PROVE FALSE
      OBVIOUS
    <3>2. PICK n \in ns : FirstOf(c, ns) = c[n]
      BY <2>3, <2>4, <3>1, FirstIn
    <3>3. c[n] # NULL
      BY <2>3, <2>4, <2>6, MapAssumption
    <3> QED BY <1>3, <2>5, <3>2, <3>3
  <2>8. ASSUME NEW d \in Linked(mem), mem[<<"key", d>>] = k PROVE FALSE
    <3>1. mem[<<"index", d>>] = Hash[k]
      BY <2>2, <2>8, GoodFacts DEF MapOK, KeysOK
    <3>2. PICK n \in DOMAIN c : c[n] = d
      BY <2>3, <3>1
    <3>3. n \in ns
      BY <1>1, <2>2, <2>4, <2>8, <3>2 DEF Decodes, B
    <3> QED BY <2>7, <3>3
  <2> QED BY <2>8 DEF NotThere
<1>4. Holds(mem, k, find(k, w)) => find(k, w) # NULL
  <2>1. Linked(mem) \subseteq Blocks
    BY GoodFacts
  <2> QED BY <2>1, MapAssumption DEF Holds
<1> QED BY <1>1, <1>2, <1>3, <1>4

LEMMA FoundIn ==
  ASSUME NEW m, Good(m), NEW k, NEW b, Holds(m, k, b)
  PROVE  b \in Linked(m) /\ b \in Blocks /\ b # NULL
<1>1. Linked(m) \subseteq Blocks
  BY GoodFacts
<1> QED BY <1>1, MapAssumption DEF Holds

-----------------------------------------------------------------------------
(* The steps that remain *)

(* The step takes its turn: the next one of the operation follows. *)
Turns == todo' = Rest /\ cur' \in Locals /\ cur'.k = cur.k
Keeps == missed' \subseteq Blocks /\ mode' = mode /\ crashes' = crashes
Running == entered' = TRUE /\ status' \in {0, 1}

LEMMA GoesOn ==
  ASSUME MapInv, NEW x, At(x), x \notin Waiting, x # "return", Turns, Keeps, Running
  PROVE  /\ Onto(todo'[1]) /\ Follows(x, todo'[1])
         /\ todo'[1] = "commit" => Commits(x, todo'[2])
         /\ Evicting(todo') => Evicting(todo) /\ x \in EraseFamily
<1>1. todo # <<>> /\ todo[1] = x /\ Shape(todo, cur.k)
  BY CalmFacts
<1>2. PICK t : t = Tail(todo)
  OBVIOUS
<1>3. /\ Shape(t, cur.k) /\ t # <<>> /\ Follows(x, t[1])
      /\ t[1] = "commit" => Commits(x, t[2])
      /\ Evicting(t) => Evicting(todo) /\ x \in EraseFamily
  BY <1>1, <1>2, ShapeTail
<1>4. todo' = t
  BY <1>2 DEF Turns, Rest
<1> QED BY <1>3, <1>4 DEF Onto, Turns, Keeps, Running

LEMMA BeginsOnto ==
  ASSUME NEW x, NEW e, Begins(todo', cur'.k, x, e), cur' \in Locals, Keeps, Running
  PROVE  Onto(x)
BY DEF Begins, Onto, Keeps, Running

(* What the operation has left behind a step. *)
LEMMA RestBegins ==
  ASSUME MapInv, NEW x, At(x), x \notin Waiting, x # "return"
  PROVE  /\ Begins(Rest, cur.k, Rest[1], Evicting(todo) /\ x \in EraseFamily) /\ Follows(x, Rest[1])
         /\ Rest[1] = "commit" => Commits(x, Rest[2])
<1>1. todo # <<>> /\ todo[1] = x /\ Shape(todo, cur.k)
  BY CalmFacts
<1>2. PICK t : t = Tail(todo)
  OBVIOUS
<1>3. /\ Shape(t, cur.k) /\ t # <<>> /\ Follows(x, t[1])
      /\ t[1] = "commit" => Commits(x, t[2])
      /\ Evicting(t) => Evicting(todo) /\ x \in EraseFamily
  BY <1>1, <1>2, ShapeTail
<1>4. t \in Seq(Steps)
  BY <1>3 DEF Shape
<1> QED BY <1>2, <1>3, <1>4 DEF Begins, Rest

LEMMA ServesPlain ==
  ASSUME NEW t, NEW m, NEW c, NEW F, NEW z, z = Upcoming(t),
         z \notin WriteFamily \union AllocFamily \union {"wipe", "release"},
         z \in {"unlink"} \union BlockFamily => c.b \in Linked(m),
         Evicting(t) => NotThere(m, c.k)
  PROVE  Serves(t, m, c, F)
<1>1. z \notin {"wipe", "release", "init", "makeNew"} /\ z # "makeNew" /\ z \notin AllocFamily
  BY DEF AllocFamily
<1>2. Ready(z, m, c, F)
  BY <1>1 DEF Ready
<1> QED BY <1>1, <1>2 DEF Serves

LEMMA AllocSame ==
  ASSUME MapInv, free' = free, avail' = avail, todo' # <<>> => todo'[1] \notin {"take", "pop", "count"}
  PROVE  AllocInv'
BY DEF MapInv, AllocInv

(* What is to come of it: the step keeps what the map relies on. *)
StepOK == LogStep /\ ControlInv' /\ AllocInv' /\ DataInv'

-----------------------------------------------------------------------------
(* The beginning and the end of an operation *)

LEMMA RecoveredSame ==
  ASSUME mem' = mem, log' = log, status' = status
  PROVE  Redone' = Redone /\ Recovered' = Recovered
BY DEF Recovered, Redone

LEMMA CallStep ==
  ASSUME MapInv, NEW op \in mode.ops, Call(op)
  PROVE  StepOK
<1>1. mode \in Modes /\ ~entered /\ todo = <<>> /\ entered' = entered /\ op \in Ops
  <2>1. mode \in Modes /\ ~entered
    BY DEF MapInv, ControlInv, Call
  <2> QED BY <2>1, MapModes DEF Call, NoStore
<1>2. mem' = mem /\ log' = log /\ status' = status /\ copied' = copied
  BY DEF Call, NoStore
<1>3. Recovered' = Recovered
  BY <1>2, RecoveredSame
<1>4. mode' = mode /\ free' = free /\ avail' = avail /\ crashes' = crashes /\ missed' = missed
  BY DEF Call
<1>5. mode.dirty \subseteq 0..1
  BY <1>1, MapModes
<1>6. cur' \in Locals /\ (op \in Keyed => cur'.k \in Keys)
  <2>1. PICK ks : ks = IF op \in {"erase", "sync", "syncNext", "backup", "backupNext"} THEN {NULL} ELSE Keys
    OBVIOUS
  <2>2. PICK ds : ds = IF op = "set" THEN mode.dirty ELSE IF op \in {"erase", "backup"} THEN 0..1 ELSE {0}
    OBVIOUS
  <2>3. PICK only : only = IF op = "setKey" THEN 1 ELSE 0
    OBVIOUS
  <2>4. ks \subseteq Keys \union {NULL} /\ ds \subseteq {0, 1} /\ only \in {0, 1}
    BY <1>5, <2>1, <2>2, <2>3
  <2>5. PICK k \in ks, d \in ds : cur' = [k |-> k, b |-> NULL, only |-> only, dirty |-> d, left |-> 0]
    BY <2>1, <2>2, <2>3 DEF Call, Args
  <2>6. cur' \in Locals
    BY <2>4, <2>5 DEF Locals
  <2>7. op \in Keyed => op \in KeyOps
    BY <1>1 DEF Keyed, Ops, AllocFamily, WriteFamily
  <2>8. op \in KeyOps => ks = Keys
    BY <2>1 DEF KeyOps
  <2> QED BY <2>4, <2>5, <2>6, <2>7, <2>8
<1>7. Shape(todo', cur'.k) /\ todo' # <<>> /\ todo'[1] = "enter"
  <2>1. PICK k : k = cur'.k
    OBVIOUS
  <2>2. PICK e : e = FALSE
    OBVIOUS
  <2>3. PICK t : t = <<"return">>
    OBVIOUS
  <2>4. Begins(t, k, "return", e)
    <3>1. Shape(t, k) /\ t # <<>> /\ t[1] = "return" /\ ~Evicting(t)
      BY <2>3, ShapeLast
    <3> QED BY <3>1 DEF Begins, Shape
  <2>5. op \in Steps /\ "enter" \in Steps /\ "enter" \notin Keyed
    BY <1>1, StepNames
  <2>6. op # "commit" /\ op # "evict"
    BY <1>1 DEF Ops
  <2>7. Begins(<<op>> \o t, k, op, e)
    <3>1. Follows(op, "return")
      BY <1>1 DEF Follows
    <3>2. op \in Keyed => k \in Keys
      BY <1>6, <2>1
    <3> QED BY <2>2, <2>4, <2>5, <2>6, <3>1, <3>2, PutOne
  <2>8. Begins(<<"enter">> \o (<<op>> \o t), k, "enter", e)
    <3>1. Follows("enter", op)
      BY <1>1 DEF Follows
    <3> QED BY <2>2, <2>5, <2>6, <2>7, <3>1, PutOne
  <2>9. todo' = <<"enter">> \o (<<op>> \o t)
    <3>1. <<"enter", op>> \o t = <<"enter">> \o (<<op>> \o t)
      BY <2>4, <2>5, Spell2 DEF Begins
    <3>2. todo' = <<"enter", op>> \o t
      BY <2>3 DEF Call
    <3> QED BY <3>1, <3>2
  <2> QED BY <2>1, <2>8, <2>9 DEF Begins
<1>8. Len(log) <= 17 /\ Room("enter") = 17
  BY DEF MapInv, ControlInv, Room, Ops
<1>9. ControlInv'
  BY <1>1, <1>2, <1>4, <1>6, <1>7, <1>8 DEF MapInv, ControlInv
<1>10. Coming = Recovered /\ Coming' = Recovered'
  BY <1>1 DEF Coming
<1>11. DataInv'
  BY <1>1, <1>2, <1>3, <1>4, <1>10 DEF MapInv, DataInv
<1>12. AllocInv'
  BY <1>4, <1>7, AllocSame
<1>13. LogStep
  BY <1>1, <1>2 DEF LogStep, logVars
<1> QED BY <1>9, <1>11, <1>12, <1>13 DEF StepOK

LEMMA LeftBehind ==
  ASSUME MapInv, todo' = <<>>, cur' = Idle, missed' \subseteq Blocks, mode' = mode,
         crashes' \in 0..mode.crashes, entered' = FALSE, mem' = mem, log' = log, status' = status,
         free' = free, avail' = avail
  PROVE  ControlInv' /\ DataInv' /\ AllocInv'
<1>1. Recovered' = Recovered
  BY RecoveredSame
<1>2. Coming' = Recovered'
  BY DEF Coming
<1>3. DataInv'
  BY <1>1, <1>2 DEF MapInv, DataInv
<1>4. Idle \in Locals
  BY DEF Idle, Locals
<1>5. Shape(<<>>, NULL)
  <2>1. PICK t : t = <<>>
    OBVIOUS
  <2>2. t \in Seq(Steps) /\ DOMAIN t = {}
    BY <2>1, EmptySeq
  <2> QED BY <2>1, <2>2 DEF Shape
<1>6. cur'.k = NULL
  BY DEF Idle
<1>7. ControlInv'
  BY <1>4, <1>5, <1>6 DEF MapInv, ControlInv
<1> QED BY <1>3, <1>7, AllocSame

LEMMA LeaveStep == ASSUME MapInv, Leave PROVE StepOK
<1>1. Return /\ todo' = <<>> /\ cur' = Idle /\ Aside
  BY DEF Leave
<1>2. /\ entered' = FALSE /\ mem' = mem /\ log' = log /\ status' = status
      /\ free' = free /\ avail' = avail /\ mode' = mode /\ crashes' = crashes /\ missed' = missed
  BY <1>1 DEF Return, Aside
<1>3. crashes \in 0..mode.crashes /\ missed \subseteq Blocks
  BY DEF MapInv, ControlInv
<1>4. ControlInv' /\ DataInv' /\ AllocInv'
  BY <1>1, <1>2, <1>3, LeftBehind
<1> QED BY <1>1, <1>4 DEF StepOK, LogStep, LogNext

LEMMA DieStep == ASSUME MapInv, Die PROVE StepOK
<1>1. /\ crashes' = crashes + 1 /\ crashes < mode.crashes /\ copied' = 0 /\ entered' = FALSE
      /\ todo' = <<>> /\ cur' = Idle /\ missed' = {}
      /\ mem' = mem /\ log' = log /\ status' = status /\ mode' = mode /\ free' = free /\ avail' = avail
  BY DEF Die
<1>2. mode.crashes \in Nat /\ crashes \in 0..mode.crashes
  BY MapModes DEF MapInv, ControlInv
<1>3. crashes' \in 0..mode.crashes
  BY <1>1, <1>2
<1>4. ControlInv' /\ DataInv' /\ AllocInv'
  BY <1>1, <1>3, LeftBehind
<1>5. Crash
  BY <1>1 DEF Crash
<1> QED BY <1>4, <1>5 DEF StepOK, LogStep, LogNext

LEMMA StutterStep == ASSUME MapInv, UNCHANGED vars PROVE StepOK
<1>1. /\ mem' = mem /\ log' = log /\ status' = status /\ copied' = copied /\ entered' = entered
      /\ mode' = mode /\ free' = free /\ avail' = avail /\ todo' = todo /\ cur' = cur
      /\ calls' = calls /\ crashes' = crashes /\ missed' = missed
  BY DEF vars, mapVars
<1>2. Recovered' = Recovered /\ Redone' = Redone
  BY <1>1, RecoveredSame
<1>3. Coming' = Coming
  BY <1>1, <1>2 DEF Coming
<1>4. DataInv'
  BY <1>1, <1>2, <1>3 DEF MapInv, DataInv
<1>5. ControlInv'
  BY <1>1 DEF MapInv, ControlInv
<1>6. AllocInv'
  BY <1>1 DEF MapInv, AllocInv
<1>7. LogStep
  BY <1>1 DEF LogStep, logVars
<1> QED BY <1>4, <1>5, <1>6, <1>7 DEF StepOK

-----------------------------------------------------------------------------
(* doUpdate *)

LEMMA WaitFacts ==
  ASSUME MapInv, NEW x \in Waiting, At(x)
  PROVE  /\ todo # <<>> /\ todo[1] = x /\ Shape(todo, cur.k)
         /\ entered \in BOOLEAN /\ (entered <=> x # "enter")
         /\ x = "commit" => status # 2 /\ Coming = Redone
         /\ x # "commit" => Coming = Recovered
         /\ x = "apply" => status = 2
         /\ LogInv /\ log \in Seq(Entries) /\ Len(log) <= 17 /\ Typed(mem)
         /\ Sound(Coming, Elems(free)) /\ (entered => Serves(todo, Coming, cur, Elems(free)))
<1>1. Shape(todo, cur.k) /\ LogInv /\ Len(log) <= 17 /\ log \in Seq(Entries) /\ Typed(mem)
      /\ Sound(Coming, Elems(free))
  BY DEF MapInv, ControlInv, DataInv
<1>2. todo # <<>> /\ todo[1] = x
  BY <1>1, AtFacts
<1>3. entered \in BOOLEAN
  BY <1>1 DEF LogInv, LogTypeOK
<1>4. (entered <=> x # "enter") /\ (x = "commit" => status # 2) /\ (x = "apply" => status = 2)
  BY <1>2 DEF MapInv, ControlInv, Waiting
<1>5. (x = "commit" => Coming = Redone) /\ (x # "commit" => Coming = Recovered)
  BY <1>2, <1>4 DEF Coming
<1>6. entered => Serves(todo, Coming, cur, Elems(free))
  BY <1>2 DEF MapInv, DataInv
<1> QED BY <1>1, <1>2, <1>3, <1>4, <1>5, <1>6

(* A step of the copying that leaves the operation where it is. *)
LEMMA CopyStays ==
  ASSUME MapInv, NEW x \in {"enter", "apply"}, At(x), todo' = todo, cur' = cur, Aside,
         entered' = entered, Typed(mem'), log' \in Seq(Entries), Len(log') <= 17, Recovered' = Recovered,
         x = "apply" => status' = 2
  PROVE  ControlInv' /\ DataInv' /\ AllocInv'
<1>1. x \in Waiting
  BY DEF Waiting
<1>2. /\ todo # <<>> /\ todo[1] = x /\ (entered <=> x # "enter") /\ Coming = Recovered
      /\ entered => Serves(todo, Coming, cur, Elems(free))
  BY <1>1, WaitFacts
<1>3. mode' = mode /\ free' = free /\ avail' = avail /\ crashes' = crashes /\ missed' = missed
  BY DEF Aside
<1>4. Coming' = Recovered'
  BY <1>2 DEF Coming
<1>5. Room(x) = 17
  BY DEF Room, Ops
<1>6. ControlInv'
  BY <1>2, <1>3, <1>5 DEF MapInv, ControlInv
<1>7. DataInv'
  BY <1>2, <1>3, <1>4 DEF MapInv, DataInv
<1>8. AllocInv'
  BY <1>2, <1>3, AllocSame
<1> QED BY <1>6, <1>7, <1>8

LEMMA EmptyLog == <<>> \in Seq(Entries) /\ Len(<<>>) = 0 /\ CountsOnly(<<>>)
<1>1. PICK t : t = <<>>
  OBVIOUS
<1>2. t \in Seq(Entries) /\ Len(t) = 0 /\ DOMAIN t = {}
  BY <1>1, EmptySeq
<1>3. CountsOnly(t)
  BY <1>2 DEF CountsOnly
<1> QED BY <1>1, <1>2, <1>3

LEMMA DiscardStep ==
  ASSUME MapInv, At("enter"), Discard, UNCHANGED <<todo, cur>>, Aside
  PROVE  StepOK
<1>1. /\ status = 1 /\ log' = <<>> /\ status' = 0 /\ mem' = mem /\ entered' = entered
  BY DEF Discard
<1>2. Recovered' = Recovered
  BY <1>1 DEF Recovered
<1>3. log' \in Seq(Entries) /\ Len(log') <= 17
  BY <1>1, EmptyLog
<1>4. Typed(mem')
  BY <1>1 DEF MapInv, DataInv
<1>5. PICK x : x = "enter"
  OBVIOUS
<1>6. ControlInv' /\ DataInv' /\ AllocInv'
  BY <1>1, <1>2, <1>3, <1>4, <1>5, CopyStays
<1> QED BY <1>6 DEF StepOK, LogStep, LogNext

LEMMA CopyDoneFacts ==
  ASSUME MapInv, CopyDone
  PROVE  /\ Recovered = mem /\ mem' = mem /\ log' = <<>> /\ status' = 0 /\ entered' = entered
         /\ log' \in Seq(Entries) /\ Len(log') = 0 /\ CountsOnly(log') /\ Recovered' = mem /\ Redone' = mem
<1>1. /\ status = 2 /\ copied = Len(log) /\ mem' = mem /\ log' = <<>> /\ status' = 0 /\ entered' = entered
  BY DEF CopyDone
<1>2. Redone = mem
  BY <1>1, NothingLeft DEF MapInv
<1>3. Recovered = mem /\ Recovered' = mem
  BY <1>1, <1>2 DEF Recovered
<1>4. log' \in Seq(Entries) /\ Len(log') = 0 /\ CountsOnly(log')
  BY <1>1, EmptyLog
<1>5. Redone' = mem
  <2>1. Redone' = Over(mem', log')
    BY <1>4, EntriesLog, RedoneNext
  <2>2. mem \in [HashAddr -> HashValue]
    BY DEF MapInv, DataInv, Typed
  <2>3. Over(mem, <<>>) = mem
    BY <2>2, OverEmpty
  <2> QED BY <1>1, <2>1, <2>3
<1> QED BY <1>1, <1>3, <1>4, <1>5

LEMMA CopyDoneEnter ==
  ASSUME MapInv, At("enter"), CopyDone, UNCHANGED <<todo, cur>>, Aside
  PROVE  StepOK
<1>1. /\ Recovered' = Recovered /\ mem' = mem /\ entered' = entered
      /\ log' \in Seq(Entries) /\ Len(log') <= 17
  BY CopyDoneFacts
<1>2. Typed(mem')
  BY <1>1 DEF MapInv, DataInv
<1>3. PICK x : x = "enter"
  OBVIOUS
<1>4. ControlInv' /\ DataInv' /\ AllocInv'
  BY <1>1, <1>2, <1>3, CopyStays
<1> QED BY <1>4 DEF StepOK, LogStep, LogNext

LEMMA CopyOneStep ==
  ASSUME MapInv, NEW x \in {"enter", "apply"}, At(x), CopyOne, UNCHANGED <<todo, cur>>, Aside
  PROVE  StepOK
<1>1. /\ status = 2 /\ status' = 2 /\ log' = log /\ entered' = entered
      /\ mem' = [mem EXCEPT ![log[copied + 1].addr] = log[copied + 1].val]
  BY DEF CopyOne
<1>2. Redone' = Redone
  BY CopyIsRedo DEF MapInv
<1>3. Recovered' = Recovered
  BY <1>1, <1>2 DEF Recovered
<1>4. log \in Seq(Entries) /\ Len(log) <= 17 /\ Typed(mem)
  BY DEF MapInv, ControlInv, DataInv
<1>5. PICK e : e = log[copied + 1]
  OBVIOUS
<1>6. e \in Entries
  <2>1. copied \in 0..Len(log) /\ copied < Len(log) /\ DOMAIN log = 1..Len(log) /\ Len(log) \in Nat
    BY <1>4, SeqFacts DEF MapInv, LogInv, LogTypeOK, CopyOne
  <2>2. copied + 1 \in DOMAIN log
    BY <2>1
  <2> QED BY <1>4, <1>5, <2>2, SeqFacts
<1>7. e.addr \in HashAddr /\ e.val \in HashValue /\ e.val \in Kind(e.addr[1])
  BY <1>6, EntryFields
<1>8. mem' = [mem EXCEPT ![e.addr] = e.val]
  BY <1>1, <1>5
<1>9. mem \in [HashAddr -> HashValue]
  BY <1>4 DEF Typed
<1>10. mem' \in [HashAddr -> HashValue]
  BY <1>7, <1>8, <1>9
<1>11. ASSUME NEW a \in HashAddr PROVE mem'[a] \in Kind(a[1])
  <2>1. a = e.addr => mem'[a] = e.val
    BY <1>7, <1>8, <1>9
  <2>2. a # e.addr => mem'[a] = mem[a]
    BY <1>8, <1>9
  <2>3. mem[a] \in Kind(a[1])
    BY <1>4 DEF Typed
  <2> QED BY <1>7, <2>1, <2>2, <2>3
<1>12. Typed(mem')
  BY <1>10, <1>11 DEF Typed
<1>13. ControlInv' /\ DataInv' /\ AllocInv'
  BY <1>1, <1>3, <1>4, <1>12, CopyStays
<1> QED BY <1>13 DEF StepOK, LogStep, LogNext

LEMMA CopyDoneApply ==
  ASSUME MapInv, At("apply"), CopyDone, todo' = Rest, UNCHANGED cur, Aside
  PROVE  StepOK
<1>1. /\ Recovered = mem /\ mem' = mem /\ log' = <<>> /\ status' = 0 /\ entered' = entered
      /\ log' \in Seq(Entries) /\ Len(log') = 0 /\ CountsOnly(log') /\ Recovered' = mem /\ Redone' = mem
  BY CopyDoneFacts
<1>2. "apply" \in Waiting
  BY DEF Waiting
<1>3. /\ todo # <<>> /\ todo[1] = "apply" /\ Shape(todo, cur.k) /\ entered = TRUE /\ Coming = Recovered
      /\ Typed(mem) /\ Sound(Coming, Elems(free)) /\ Serves(todo, Coming, cur, Elems(free))
  BY <1>2, WaitFacts
<1>4. PICK t : t = Tail(todo)
  OBVIOUS
<1>5. Shape(t, cur.k) /\ t # <<>> /\ t[1] = todo[2] /\ Follows("apply", t[1])
  BY <1>3, <1>4, ShapeTail
<1>6. (t[1] = "commit" => Commits("apply", t[2])) /\ (Evicting(t) => Evicting(todo))
  BY <1>3, <1>4, ShapeTail
<1>7. todo' = t
  BY <1>4 DEF Rest
<1>8. mode' = mode /\ free' = free /\ avail' = avail /\ crashes' = crashes /\ missed' = missed /\ cur' = cur
  BY DEF Aside
<1>9. Room(t[1]) \in Nat
  BY RoomFits
<1>10. t[1] # "enter" /\ t[1] # "apply" /\ t[1] \notin {"take", "pop", "count"}
  BY <1>5 DEF Follows, Ops
<1>11. ControlInv'
  BY <1>1, <1>3, <1>5, <1>7, <1>8, <1>9, <1>10 DEF MapInv, ControlInv
<1>12. Coming' = mem
  BY <1>1 DEF Coming
<1>13. Serves(t, mem, cur, Elems(free))
  <2>0. Serves(todo, mem, cur, Elems(free))
    BY <1>1, <1>3
  <2>1. Upcoming(todo) = t[1]
    BY <1>3, <1>5 DEF Upcoming
  <2>2. CASE t[1] # "commit"
    <3>1. Upcoming(t) = t[1]
      BY <1>10, <2>2 DEF Upcoming
    <3> QED BY <1>6, <2>0, <2>1, <3>1 DEF Serves
  <2>3. CASE t[1] = "commit"
    <3>1. PICK z : z = Upcoming(t)
      OBVIOUS
    <3>2. z = "return"
      BY <1>6, <2>3, <3>1 DEF Upcoming, Commits
    <3>3. z \notin WriteFamily \union AllocFamily \union {"wipe", "release"} \union {"unlink"} \union BlockFamily
      BY <3>2 DEF WriteFamily, AllocFamily, BlockFamily
    <3>4. Evicting(t) => NotThere(mem, cur.k)
      BY <1>6, <2>0 DEF Serves
    <3> QED BY <3>1, <3>3, <3>4, ServesPlain
  <2> QED BY <2>2, <2>3
<1>14. DataInv'
  BY <1>1, <1>3, <1>7, <1>8, <1>12, <1>13 DEF DataInv
<1>15. AllocInv'
  BY <1>7, <1>8, <1>10, AllocSame
<1> QED BY <1>11, <1>14, <1>15 DEF StepOK, LogStep, LogNext

LEMMA EnterStep ==
  ASSUME MapInv, At("enter"), Enter, todo' = Rest, UNCHANGED cur, Aside
  PROVE  StepOK
<1>1. /\ status = 0 /\ mem' = mem /\ log' = log /\ status' = status /\ entered' = TRUE
  BY DEF Enter
<1>2. "enter" \in Waiting
  BY DEF Waiting
<1>3. /\ todo # <<>> /\ todo[1] = "enter" /\ Shape(todo, cur.k) /\ Coming = Recovered
      /\ LogInv /\ Typed(mem) /\ Sound(Coming, Elems(free))
  BY <1>2, WaitFacts
<1>4. log = <<>>
  BY <1>1, <1>3 DEF LogInv
<1>5. log \in Seq(Entries) /\ Len(log) = 0 /\ CountsOnly(log)
  BY <1>4, EmptyLog
<1>6. PICK t : t = Tail(todo)
  OBVIOUS
<1>7. Shape(t, cur.k) /\ t # <<>> /\ Follows("enter", t[1]) /\ (Evicting(t) => "enter" \in EraseFamily)
  BY <1>3, <1>6, ShapeTail
<1>8. todo' = t /\ t[1] \in Ops
  BY <1>6, <1>7 DEF Rest, Follows, Ops
<1>9. t[1] \notin Waiting \union {"take", "pop", "count"}
  BY <1>8 DEF Ops, Waiting
<1>10. mode' = mode /\ free' = free /\ avail' = avail /\ crashes' = crashes /\ missed' = missed /\ cur' = cur
  BY DEF Aside
<1>11. Onto(t[1])
  <2>1. cur \in Locals /\ missed \subseteq Blocks
    BY DEF MapInv, ControlInv
  <2> QED BY <1>1, <1>7, <1>8, <1>10, <2>1 DEF Onto
<1>12. Recovered = mem
  BY <1>1 DEF Recovered
<1>13. Serves(t, mem, cur, Elems(free))
  <2>1. PICK z : z = Upcoming(t)
    OBVIOUS
  <2>2. z = t[1]
    BY <1>9, <2>1 DEF Upcoming, Waiting
  <2>3. z \notin WriteFamily \union AllocFamily \union {"wipe", "release"} \union {"unlink"} \union BlockFamily
    BY <1>8, <2>2 DEF WriteFamily, AllocFamily, BlockFamily, Ops
  <2>4. ~Evicting(t)
    BY <1>7 DEF EraseFamily
  <2> QED BY <2>1, <2>3, <2>4, ServesPlain
<1>14. Len(log') <= Room(t[1])
  BY <1>1, <1>5, RoomFits
<1>15. ControlInv' /\ DataInv'
  BY <1>1, <1>3, <1>5, <1>8, <1>9, <1>10, <1>11, <1>12, <1>13, <1>14, Lands
<1>16. AllocInv'
  BY <1>8, <1>9, <1>10, AllocSame
<1> QED BY <1>15, <1>16 DEF StepOK, LogStep, LogNext

LEMMA FinishStep ==
  ASSUME MapInv, At("commit"), finish, Goto(<<"apply">>), UNCHANGED cur, Aside
  PROVE  StepOK
<1>1. /\ mem' = mem /\ log' = log /\ status' = 2 /\ entered' = entered
  BY DEF finish
<1>2. "commit" \in Waiting
  BY DEF Waiting
<1>3. /\ todo # <<>> /\ todo[1] = "commit" /\ Shape(todo, cur.k) /\ entered = TRUE /\ Coming = Redone
      /\ status # 2 /\ log \in Seq(Entries) /\ Len(log) <= 17 /\ Typed(mem)
      /\ Sound(Coming, Elems(free)) /\ Serves(todo, Coming, cur, Elems(free))
  BY <1>2, WaitFacts
<1>4. PICK t : t = Tail(todo)
  OBVIOUS
<1>5. Shape(t, cur.k) /\ t # <<>> /\ t[1] = todo[2] /\ Follows("commit", t[1])
  BY <1>3, <1>4, ShapeTail
<1>6. (t[1] = "commit" => Commits("commit", t[2])) /\ (Evicting(t) => Evicting(todo))
  BY <1>3, <1>4, ShapeTail
<1>7. todo' = <<"apply">> \o t
  BY <1>4 DEF Goto, Rest
<1>8. PICK u : u = <<"apply">> \o t
  OBVIOUS
<1>9. Shape(u, cur.k) /\ u # <<>> /\ u[1] = "apply" /\ u[2] = t[1] /\ (Evicting(u) => Evicting(t))
  <2>1. Follows("apply", t[1])
    BY <1>5 DEF Follows, Ops
  <2>2. t[1] = "commit" => Commits("apply", t[2])
    BY <1>6 DEF Commits
  <2>3. "apply" \in Steps /\ "apply" \in EraseFamily /\ "apply" \notin Keyed
    BY StepNames DEF EraseFamily
  <2>4. PICK x : x = "apply"
    OBVIOUS
  <2>5. Shape(<<x>> \o t, cur.k) /\ <<x>> \o t # <<>> /\ (<<x>> \o t)[1] = x /\ (<<x>> \o t)[2] = t[1]
    BY <1>5, <2>1, <2>2, <2>3, <2>4, ShapeCons
  <2>6. Evicting(<<x>> \o t) => x = "evict" \/ Evicting(t)
    BY <1>5, <2>1, <2>2, <2>3, <2>4, ShapeCons
  <2> QED BY <1>8, <2>4, <2>5, <2>6
<1>10. todo' = u
  BY <1>7, <1>8
<1>11. mode' = mode /\ free' = free /\ avail' = avail /\ crashes' = crashes /\ missed' = missed /\ cur' = cur
  BY DEF Aside
<1>12. Room("apply") = 17
  BY DEF Room, Ops
<1>13. ControlInv'
  BY <1>1, <1>3, <1>9, <1>10, <1>11, <1>12 DEF MapInv, ControlInv
<1>14. Redone' = Redone
  BY <1>1 DEF Redone
<1>15. Recovered' = Redone /\ Coming' = Redone
  BY <1>1, <1>9, <1>10, <1>14 DEF Recovered, Coming
<1>16. Serves(u, Redone, cur, Elems(free))
  <2>1. Upcoming(u) = Upcoming(todo)
    BY <1>3, <1>5, <1>9 DEF Upcoming
  <2> QED BY <1>3, <1>6, <1>9, <2>1 DEF Serves
<1>17. DataInv'
  BY <1>1, <1>3, <1>10, <1>11, <1>15, <1>16 DEF DataInv
<1>18. AllocInv'
  BY <1>9, <1>10, <1>11, AllocSame
<1>19. Finish
  BY <1>3 DEF Finish
<1> QED BY <1>13, <1>17, <1>18, <1>19 DEF StepOK, LogStep, LogNext

LEMMA DoUpdateStep == ASSUME MapInv, doUpdate PROVE StepOK
<1>0. UNCHANGED cur /\ Aside
  BY DEF doUpdate
<1>1. CASE At("enter") /\ Discard /\ UNCHANGED todo
  BY <1>0, <1>1, DiscardStep
<1>2. CASE At("enter") /\ CopyDone /\ UNCHANGED todo
  BY <1>0, <1>2, CopyDoneEnter
<1>3. CASE (At("enter") \/ At("apply")) /\ CopyOne /\ UNCHANGED todo
  BY <1>0, <1>3, CopyOneStep
<1>4. CASE At("apply") /\ CopyDone /\ todo' = Rest
  BY <1>0, <1>4, CopyDoneApply
<1>5. CASE At("enter") /\ Enter /\ todo' = Rest
  BY <1>0, <1>5, EnterStep
<1>6. CASE At("commit") /\ finish /\ Goto(<<"apply">>)
  BY <1>0, <1>6, FinishStep
<1> QED BY <1>1, <1>2, <1>3, <1>4, <1>5, <1>6 DEF doUpdate

-----------------------------------------------------------------------------
(* Block::erase and deallocate *)

(* The memory with the log gathered so far. *)
Ahead == Over(mem, log)

LEMMA ReadyAt ==
  ASSUME MapInv, NEW x, At(x), x \notin Waiting
  PROVE  /\ Ready(x, mem, cur, Elems(free))
         /\ x \in AllocFamily \/ Evicting(todo) => NotThere(mem, cur.k)
<1>1. todo[1] = x /\ Serves(todo, mem, cur, Elems(free))
  BY CalmFacts
<1>2. Upcoming(todo) = x
  BY <1>1 DEF Upcoming, Waiting
<1> QED BY <1>1, <1>2 DEF Serves

LEMMA LoggedStep ==
  ASSUME MapInv, NEW x, At(x), x \notin Waiting, NEW F, NEW n \in Nat, NEW es, Fits(es, F, n),
         Room(x) + n <= 17, update(es)
  PROVE  /\ LogStep /\ Running /\ mem' = mem /\ log' \in Seq(Entries) /\ Len(log') <= 17
         /\ Over(mem', log') = Over(Ahead, es)
<1>1. es \in Seq(Entries) /\ Len(es) <= n /\ Len(es) \in Nat
  BY SeqFacts DEF Fits
<1>2. Len(log) <= Room(x) /\ Len(log) \in Nat /\ Room(x) \in Nat
  BY CalmFacts, RoomFits
<1>3. /\ LogStep /\ mem' = mem /\ entered' = TRUE /\ status' \in {0, 1}
      /\ log' \in Seq(Entries) /\ Len(log') = Len(log) + Len(es)
      /\ Over(mem', log') = Over(Over(mem, log), es)
  BY <1>1, UpdateStep
<1>4. Len(log') <= 17
  BY <1>1, <1>2, <1>3
<1> QED BY <1>3, <1>4 DEF Running, Ahead

LEMMA AheadSame ==
  ASSUME MapInv, NEW x, At(x), x \notin Waiting
  PROVE  Same(mem, Ahead, MapFields)
BY CalmFacts, CountsSame DEF Ahead

LEMMA CommitLands ==
  ASSUME MapInv, NEW x, At(x), x \notin Waiting, NEW F, NEW n \in Nat, NEW es, Fits(es, F, n),
         Room(x) + n <= 17, update(es), Onto("commit"), free' = free,
         Sound(Over(Ahead, es), Elems(free)), Serves(todo', Over(Ahead, es), cur', Elems(free))
  PROVE  LogStep /\ ControlInv' /\ DataInv'
<1>1. /\ LogStep /\ mem' = mem /\ log' \in Seq(Entries) /\ Len(log') <= 17
      /\ Over(mem', log') = Over(Ahead, es)
  BY LoggedStep
<1>2. Typed(mem') /\ Sound(mem', Elems(free'))
  BY <1>1, CalmFacts
<1>3. Sound(Over(mem', log'), Elems(free')) /\ Serves(todo', Over(mem', log'), cur', Elems(free'))
  BY <1>1
<1>4. ControlInv' /\ DataInv'
  BY <1>1, <1>2, <1>3, LandsToCommit
<1> QED BY <1>1, <1>4

LEMMA Stays == ASSUME MapInv, cur' = cur, missed' \subseteq missed, mode' = mode, crashes' = crashes
               PROVE  cur' \in Locals /\ cur'.k = cur.k /\ Keeps
BY DEF MapInv, ControlInv, Keeps

LEMMA UnlinkStep ==
  ASSUME MapInv, At("unlink"), update(eraseLog(cur.b)), todo' = Rest,
         UNCHANGED <<cur, mode, crashes, free, avail, missed>>
  PROVE  StepOK
<1>0. "unlink" \notin Waiting
  BY DEF Waiting
<1>1. /\ Typed(mem) /\ Good(mem) /\ Linked(mem) \subseteq Blocks
      /\ Linked(mem) \intersect Elems(free) = {}
  BY <1>0, CalmFacts DEF Sound
<1>2. PICK b : b = cur.b
  OBVIOUS
<1>3. b \in Linked(mem) /\ (Evicting(todo) => NotThere(mem, cur.k))
  BY <1>0, <1>2, ReadyAt DEF Ready
<1>4. PICK es : es = eraseLog(b)
  OBVIOUS
<1>5. Same(mem, Ahead, MapFields)
  BY <1>0, AheadSame
<1>6. /\ Fits(es, LogFields, 14) /\ Good(Over(Ahead, es)) /\ Linked(Over(Ahead, es)) = Linked(mem) \ {b}
      /\ Same(mem, Over(Ahead, es), {"key"})
  BY <1>1, <1>3, <1>4, <1>5, EraseEffect
<1>7. update(es)
  BY <1>2, <1>4
<1>8. Room("unlink") + 14 <= 17
  BY DEF Room, Ops
<1>9. LogStep /\ Running
  BY <1>0, <1>6, <1>7, <1>8, LoggedStep
<1>10. /\ Onto(todo'[1]) /\ Follows("unlink", todo'[1]) /\ (todo'[1] = "commit" => Commits("unlink", todo'[2]))
       /\ (Evicting(todo') => Evicting(todo))
  <2>1. Turns /\ Keeps
    BY Stays DEF Turns
  <2> QED BY <1>0, <1>9, <2>1, GoesOn
<1>11. todo'[1] = "commit" /\ todo'[2] = "wipe"
  <2>1. todo'[1] = "commit"
    BY <1>10 DEF Follows, Ops
  <2> QED BY <1>10, <2>1 DEF Commits
<1>12. Onto("commit")
  BY <1>10, <1>11
<1>13. Serves(todo', Over(Ahead, es), cur, Elems(free))
  <2>1. Upcoming(todo') = "wipe"
    BY <1>11 DEF Upcoming
  <2>2. cur.b \in Blocks \ (Linked(Over(Ahead, es)) \union Elems(free))
    BY <1>1, <1>2, <1>3, <1>6
  <2>3. Ready("wipe", Over(Ahead, es), cur, Elems(free))
    BY <2>2 DEF Ready, WriteFamily, BlockFamily
  <2>4. Evicting(todo') => NotThere(Over(Ahead, es), cur.k)
    <3>1. Linked(Over(Ahead, es)) \subseteq Linked(mem)
      BY <1>6
    <3> QED BY <1>1, <1>3, <1>6, <1>10, <3>1, NotThereSame
  <2>5. "wipe" \notin AllocFamily
    BY DEF AllocFamily
  <2> QED BY <2>1, <2>3, <2>4, <2>5 DEF Serves
<1>14. Sound(Over(Ahead, es), Elems(free))
  BY <1>1, <1>6 DEF Sound
<1>15. ControlInv' /\ DataInv'
  BY <1>0, <1>6, <1>7, <1>8, <1>12, <1>13, <1>14, CommitLands
<1>16. AllocInv'
  BY <1>11, AllocSame
<1> QED BY <1>9, <1>15, <1>16 DEF StepOK

LEMMA ZeroKind == \A f \in BlockFields : Zero(f) \in Kind(f)
BY DEF BlockFields, BlockLinks, Zero, Kind, HeadLinks, HeadCounts

(* The words of a block, all at once. *)
LEMMA BlockStored ==
  ASSUME NEW m, NEW n, Typed(m), NEW b \in Blocks, NEW V, \A f \in BlockFields : V[f] \in Kind(f),
         n = [a \in HashAddr |-> IF a \in BlockWords(b) THEN V[a[1]] ELSE m[a]]
  PROVE  Typed(n) /\ BlockSet(n, m, b)
<1>1. ASSUME NEW a \in HashAddr PROVE n[a] \in Kind(a[1])
  <2>1. CASE a \in BlockWords(b)
    <3>1. PICK f \in BlockFields : a = <<f, b>>
      BY <2>1 DEF BlockWords
    <3>2. a[1] = f
      BY <3>1
    <3> QED BY <2>1, <3>2
  <2>2. CASE a \notin BlockWords(b)
    BY <2>2 DEF Typed
  <2> QED BY <2>1, <2>2
<1>2. ASSUME NEW a \in HashAddr PROVE n[a] \in HashValue
  BY <1>1, KindValue
<1>3. Typed(n)
  BY <1>1, <1>2 DEF Typed
<1>4. BlockSet(n, m, b)
  BY DEF BlockSet
<1> QED BY <1>3, <1>4

LEMMA WipeStep ==
  ASSUME MapInv, At("wipe"), StoreBlock(cur.b, Zero), missed' = missed \ {cur.b}, todo' = Rest,
         UNCHANGED <<cur, mode, crashes, free, avail>>
  PROVE  StepOK
<1>0. "wipe" \notin Waiting
  BY DEF Waiting
<1>1. /\ Typed(mem) /\ Good(mem) /\ Linked(mem) \intersect Elems(free) = {}
      /\ log \in Seq(Entries) /\ CountsOnly(log) /\ Len(log) <= Room("wipe")
  BY <1>0, CalmFacts DEF Sound
<1>2. PICK b : b = cur.b
  OBVIOUS
<1>3. b \in Blocks /\ b \notin Linked(mem) /\ b \notin Elems(free) /\ (Evicting(todo) => NotThere(mem, cur.k))
  BY <1>0, <1>2, ReadyAt DEF Ready
<1>4. PICK V : V = [f \in BlockFields |-> Zero(f)]
  OBVIOUS
<1>5. mem' = [a \in HashAddr |-> IF a \in BlockWords(b) THEN V[a[1]] ELSE mem[a]]
  <2>1. mem' = [a \in HashAddr |-> IF a \in BlockWords(b) THEN Zero(a[1]) ELSE mem[a]]
    BY <1>2 DEF StoreBlock
  <2>2. \A a \in BlockWords(b) : V[a[1]] = Zero(a[1])
    BY <1>4 DEF BlockWords
  <2> QED BY <2>1, <2>2
<1>6. Typed(mem') /\ BlockSet(mem', mem, b)
  <2>1. \A f \in BlockFields : V[f] \in Kind(f)
    BY <1>4, ZeroKind
  <2> QED BY <1>1, <1>3, <1>5, <2>1, BlockStored
<1>7. UNCHANGED <<log, status, copied, entered>>
  BY DEF StoreBlock
<1>8. /\ LogStep /\ Running /\ log' = log /\ Good(mem') /\ Linked(mem') = Linked(mem)
      /\ \A k : NotThere(mem, k) => NotThere(mem', k)
  BY <1>0, <1>3, <1>6, <1>7, StoreBlockAside DEF Running
<1>9. Onto(todo'[1]) /\ Follows("wipe", todo'[1]) /\ (Evicting(todo') => Evicting(todo))
  <2>1. Turns /\ Keeps
    BY Stays DEF Turns
  <2> QED BY <1>0, <1>8, <2>1, GoesOn
<1>10. todo'[1] = "release"
  BY <1>9 DEF Follows, Ops
<1>11. Onto("release") /\ "release" \notin Waiting /\ Room("release") = Room("wipe")
  BY <1>9, <1>10 DEF Waiting, Room
<1>12. Serves(todo', mem', cur', Elems(free'))
  <2>1. Upcoming(todo') = "release"
    BY <1>10 DEF Upcoming
  <2>2. Ready("release", mem', cur', Elems(free'))
    BY <1>2, <1>3, <1>8 DEF Ready, WriteFamily, BlockFamily
  <2>3. Evicting(todo') => NotThere(mem', cur'.k)
    BY <1>3, <1>8, <1>9
  <2>4. "release" \notin AllocFamily
    BY DEF AllocFamily
  <2> QED BY <2>1, <2>2, <2>3, <2>4 DEF Serves
<1>13. Sound(mem', Elems(free'))
  BY <1>1, <1>8 DEF Sound
<1>14. ControlInv' /\ DataInv'
  BY <1>1, <1>6, <1>8, <1>11, <1>12, <1>13, Lands
<1>15. AllocInv'
  BY <1>10, AllocSame
<1> QED BY <1>8, <1>14, <1>15 DEF StepOK

LEMMA FreeFirst ==
  ASSUME NEW s \in Seq(Blocks), \A i, j \in DOMAIN s : s[i] = s[j] => i = j, NEW b \in Blocks, b \notin Elems(s)
  PROVE  /\ <<b>> \o s \in Seq(Blocks) /\ Len(<<b>> \o s) = Len(s) + 1
         /\ \A i, j \in DOMAIN (<<b>> \o s) : (<<b>> \o s)[i] = (<<b>> \o s)[j] => i = j
         /\ Elems(<<b>> \o s) = Elems(s) \union {b}
<1>1. PICK f, n : f = <<b>> \o s /\ n = Len(s)
  OBVIOUS
<1>2. n \in Nat /\ DOMAIN s = 1..n
  BY <1>1, SeqFacts
<1>3. PICK o : o = <<b>>
  OBVIOUS
<1>4. o \in Seq(Blocks) /\ Len(o) = 1 /\ o[1] = b
  BY <1>3
<1>5. o \in Seq(Blocks)
  BY <1>4
<1>6. f \in Seq(Blocks) /\ Len(f) = Len(o) + n
      /\ (\A i \in 1..Len(o) : f[i] = o[i]) /\ \A i \in 1..n : f[Len(o) + i] = s[i]
  BY <1>1, <1>3, <1>5, CatFacts
<1>7. f \in Seq(Blocks) /\ Len(f) = n + 1 /\ f[1] = b /\ \A i \in 1..n : f[1 + i] = s[i]
  BY <1>2, <1>4, <1>6
<1>8. DOMAIN f = 1..(n + 1)
  BY <1>7, SeqFacts
<1>9. ASSUME NEW i \in DOMAIN f, i # 1 PROVE i - 1 \in DOMAIN s /\ f[i] = s[i - 1] /\ i \in Nat
  <2>1. i - 1 \in 1..n /\ 1 + (i - 1) = i /\ i \in Nat
    BY <1>2, <1>8, <1>9
  <2>2. f[1 + (i - 1)] = s[i - 1]
    BY <1>7, <2>1
  <2> QED BY <1>2, <2>1, <2>2
<1>10. \A i \in DOMAIN s : s[i] # b
  BY DEF Elems
<1>11. ASSUME NEW i \in DOMAIN f, NEW j \in DOMAIN f, f[i] = f[j] PROVE i = j
  <2>1. CASE i = 1 /\ j # 1
    BY <1>7, <1>9, <1>10, <1>11, <2>1
  <2>2. CASE i # 1 /\ j = 1
    BY <1>7, <1>9, <1>10, <1>11, <2>2
  <2>3. CASE i # 1 /\ j # 1
    <3>1. i - 1 \in DOMAIN s /\ j - 1 \in DOMAIN s /\ s[i - 1] = s[j - 1] /\ i \in Nat /\ j \in Nat
      BY <1>9, <1>11, <2>3
    <3>2. i - 1 = j - 1
      BY <3>1
    <3> QED BY <3>1, <3>2
  <2> QED BY <2>1, <2>2, <2>3
<1>12. Elems(f) = Elems(s) \union {b}
  <2>1. ASSUME NEW x \in Elems(f) PROVE x \in Elems(s) \union {b}
    <3>1. PICK i \in DOMAIN f : x = f[i]
      BY DEF Elems
    <3> QED BY <1>7, <1>9, <3>1 DEF Elems
  <2>2. b \in Elems(f)
    <3>1. 1 \in DOMAIN f
      BY <1>2, <1>8
    <3> QED BY <1>7, <3>1 DEF Elems
  <2>3. ASSUME NEW x \in Elems(s) PROVE x \in Elems(f)
    <3>1. PICK i \in DOMAIN s : x = s[i]
      BY DEF Elems
    <3>2. 1 + i \in DOMAIN f /\ f[1 + i] = s[i]
      BY <1>2, <1>7, <1>8
    <3> QED BY <3>1, <3>2 DEF Elems
  <2> QED BY <2>1, <2>2, <2>3
<1> QED BY <1>1, <1>7, <1>11, <1>12

LEMMA ReleaseBlockStep ==
  ASSUME MapInv, At("release"), free' = <<cur.b>> \o free, NoStore, todo' = Rest,
         UNCHANGED <<cur, mode, crashes, avail, missed>>
  PROVE  StepOK
<1>0. "release" \notin Waiting
  BY DEF Waiting
<1>1. Linked(mem) \intersect Elems(free) = {}
  BY <1>0, CalmFacts DEF Sound
<1>2. PICK b : b = cur.b
  OBVIOUS
<1>3. b \in Blocks /\ b \notin Linked(mem) /\ b \notin Elems(free) /\ (Evicting(todo) => NotThere(mem, cur.k))
  BY <1>0, <1>2, ReadyAt DEF Ready
<1>4. /\ free \in Seq(Blocks) /\ (\A i, j \in DOMAIN free : free[i] = free[j] => i = j) /\ avail \in 0..Len(free)
  BY DEF MapInv, AllocInv
<1>5. PICK f : f = <<b>> \o free
  OBVIOUS
<1>6. /\ f \in Seq(Blocks) /\ Len(f) = Len(free) + 1 /\ Elems(f) = Elems(free) \union {b}
      /\ \A i, j \in DOMAIN f : f[i] = f[j] => i = j
  BY <1>3, <1>4, <1>5, FreeFirst
<1>7. free' = f
  BY <1>2, <1>5
<1>8. Quiet(0) /\ LogStep /\ Running
  <2>1. Quiet(0) /\ LogStep
    BY <1>0, NoStoreQuiet
  <2> QED BY <2>1 DEF Quiet, Running
<1>9. Onto(todo'[1]) /\ Follows("release", todo'[1]) /\ (Evicting(todo') => Evicting(todo))
  <2>1. Turns /\ Keeps
    BY Stays DEF Turns
  <2> QED BY <1>0, <1>8, <2>1, GoesOn
<1>10. todo'[1] = "count"
  BY <1>9 DEF Follows, Ops
<1>11. Onto("count") /\ "count" \notin Waiting /\ Room("release") + 0 <= Room("count")
  BY <1>9, <1>10 DEF Waiting, Room
<1>12. Serves(todo', mem, cur', Elems(free'))
  <2>1. PICK z : z = Upcoming(todo')
    OBVIOUS
  <2>2. z = "count"
    BY <1>10, <2>1 DEF Upcoming
  <2>3. z \notin WriteFamily \union AllocFamily \union {"wipe", "release"} \union {"unlink"} \union BlockFamily
    BY <2>2 DEF WriteFamily, AllocFamily, BlockFamily
  <2>4. Evicting(todo') => NotThere(mem, cur'.k)
    BY <1>3, <1>9
  <2> QED BY <2>1, <2>3, <2>4, ServesPlain
<1>13. Linked(mem) \intersect Elems(free') = {}
  BY <1>1, <1>3, <1>6, <1>7
<1>14. ControlInv' /\ DataInv'
  BY <1>0, <1>8, <1>11, <1>12, <1>13, QuietLands
<1>15. AllocInv'
  <2>1. Len(free) \in Nat
    BY <1>4, SeqFacts
  <2>2. avail' \in 0..Len(free') /\ avail' < Len(free')
    BY <1>4, <1>6, <1>7, <2>1
  <2> QED BY <1>6, <1>7, <1>10, <2>2 DEF AllocInv
<1> QED BY <1>8, <1>14, <1>15 DEF StepOK

LEMMA CountStep ==
  ASSUME MapInv, At("count"), avail' = avail + 1, NoStore, todo' = Rest,
         UNCHANGED <<cur, mode, crashes, free, missed>>
  PROVE  StepOK
<1>0. "count" \notin Waiting
  BY DEF Waiting
<1>1. Linked(mem) \intersect Elems(free) = {} /\ todo # <<>> /\ todo[1] = "count"
  BY <1>0, CalmFacts DEF Sound
<1>2. Evicting(todo) => NotThere(mem, cur.k)
  BY <1>0, ReadyAt
<1>3. Quiet(0) /\ LogStep /\ Running
  <2>1. Quiet(0) /\ LogStep
    BY <1>0, NoStoreQuiet
  <2> QED BY <2>1 DEF Quiet, Running
<1>4. Onto(todo'[1]) /\ Follows("count", todo'[1]) /\ (Evicting(todo') => Evicting(todo))
  <2>1. Turns /\ Keeps
    BY Stays DEF Turns
  <2> QED BY <1>0, <1>3, <2>1, GoesOn
<1>5. todo'[1] = "unused"
  BY <1>4 DEF Follows, Ops
<1>6. Onto("unused") /\ "unused" \notin Waiting /\ Room("count") + 0 <= Room("unused")
  BY <1>4, <1>5 DEF Waiting, Room
<1>7. Serves(todo', mem, cur', Elems(free'))
  <2>1. PICK z : z = Upcoming(todo')
    OBVIOUS
  <2>2. z = "unused"
    BY <1>5, <2>1 DEF Upcoming
  <2>3. z \notin WriteFamily \union AllocFamily \union {"wipe", "release"} \union {"unlink"} \union BlockFamily
    BY <2>2 DEF WriteFamily, AllocFamily, BlockFamily
  <2>4. Evicting(todo') => NotThere(mem, cur'.k)
    BY <1>2, <1>4
  <2> QED BY <2>1, <2>3, <2>4, ServesPlain
<1>8. ControlInv' /\ DataInv'
  BY <1>0, <1>1, <1>3, <1>6, <1>7, QuietLands
<1>9. AllocInv'
  <2>1. /\ free \in Seq(Blocks) /\ (\A i, j \in DOMAIN free : free[i] = free[j] => i = j)
        /\ avail \in 0..Len(free) /\ avail < Len(free)
    BY <1>1 DEF MapInv, AllocInv
  <2>2. Len(free) \in Nat
    BY <2>1, SeqFacts
  <2>3. avail' \in 0..Len(free')
    BY <2>1, <2>2
  <2> QED BY <1>5, <2>1, <2>3 DEF AllocInv
<1> QED BY <1>3, <1>8, <1>9 DEF StepOK

LEMMA UsedWord ==
  ASSUME Typed(mem)
  PROVE  /\ \E v \in Kind("usedChunk") : Inc("usedChunk", NULL) = Up("usedChunk", NULL, v)
         /\ \E v \in Kind("usedChunk") : Dec("usedChunk", NULL) = Up("usedChunk", NULL, v)
         /\ <<"usedChunk", NULL>> \in HashAddr /\ "usedChunk" \notin MapFields
<1>1. "usedChunk" \in HeadCounts /\ "usedChunk" \notin MapFields
  BY DEF HeadCounts, MapFields, HeadLinks, BlockLinks
<1>2. <<"usedChunk", NULL>> \in HashAddr
  BY <1>1, HeadWord
<1>3. Kind("usedChunk") = 0..MaxCount
  BY DEF Kind, HeadLinks, BlockLinks, HeadCounts
<1>4. PICK a, n : a = <<"usedChunk", NULL>> /\ n = mem[a]
  OBVIOUS
<1>5. n \in 0..MaxCount
  <2>1. n \in Kind(a[1]) /\ a[1] = "usedChunk"
    BY <1>2, <1>4 DEF Typed
  <2> QED BY <1>3, <2>1
<1>6. MaxCount \in Nat \ {0}
  BY MapAssumption
<1>7. (IF n = MaxCount THEN 0 ELSE n + 1) \in 0..MaxCount /\ (IF n = 0 THEN MaxCount ELSE n - 1) \in 0..MaxCount
  BY <1>5, <1>6
<1> QED BY <1>1, <1>2, <1>3, <1>4, <1>7 DEF Inc, Dec

LEMMA UsedQuiet ==
  ASSUME MapInv, NEW x, At(x), x \notin Waiting,
         Store(Inc("usedChunk", NULL)) \/ Store(Dec("usedChunk", NULL))
  PROVE  Quiet(0) /\ LogStep
<1>0. Past("usedChunk", NULL)
  BY DEF Past
<1>1. Typed(mem)
  BY CalmFacts
<1>2. <<"usedChunk", NULL>> \in HashAddr /\ "usedChunk" \notin MapFields
  BY <1>1, UsedWord
<1>3. CASE Store(Inc("usedChunk", NULL))
  <2>1. PICK v \in Kind("usedChunk") : Inc("usedChunk", NULL) = Up("usedChunk", NULL, v)
    BY <1>1, UsedWord
  <2>2. Store(Up("usedChunk", NULL, v))
    BY <1>3, <2>1
  <2> QED BY <1>0, <1>2, <2>2, StoreQuiet
<1>4. CASE Store(Dec("usedChunk", NULL))
  <2>1. PICK v \in Kind("usedChunk") : Dec("usedChunk", NULL) = Up("usedChunk", NULL, v)
    BY <1>1, UsedWord
  <2>2. Store(Up("usedChunk", NULL, v))
    BY <1>4, <2>1
  <2> QED BY <1>0, <1>2, <2>2, StoreQuiet
<1> QED BY <1>3, <1>4

LEMMA UnusedStep ==
  ASSUME MapInv, At("unused"), Store(Dec("usedChunk", NULL)), todo' = Rest,
         UNCHANGED <<cur, mode, crashes, free, avail, missed>>
  PROVE  StepOK
<1>0. "unused" \notin Waiting
  BY DEF Waiting
<1>1. Linked(mem) \intersect Elems(free) = {}
  BY <1>0, CalmFacts DEF Sound
<1>2. Evicting(todo) => NotThere(mem, cur.k)
  BY <1>0, ReadyAt
<1>3. Quiet(0) /\ LogStep /\ Running
  <2>1. Quiet(0) /\ LogStep
    BY <1>0, UsedQuiet
  <2> QED BY <2>1 DEF Quiet, Running
<1>4. Onto(todo'[1]) /\ Follows("unused", todo'[1]) /\ (Evicting(todo') => Evicting(todo))
  <2>1. Turns /\ Keeps
    BY Stays DEF Turns
  <2> QED BY <1>0, <1>3, <2>1, GoesOn
<1>5. PICK y : y = todo'[1]
  OBVIOUS
<1>6. y \in {"evict", "recover", "return"}
  BY <1>4, <1>5 DEF Follows, Ops
<1>7. Onto(y) /\ y \notin Waiting /\ Room("unused") + 0 <= Room(y)
  BY <1>4, <1>5, <1>6 DEF Waiting, Room, Ops
<1>8. Serves(todo', mem, cur', Elems(free'))
  <2>1. PICK z : z = Upcoming(todo')
    OBVIOUS
  <2>2. z \in {"evict", "recover", "return"}
    BY <1>5, <1>6, <2>1 DEF Upcoming
  <2>3. z \notin WriteFamily \union AllocFamily \union {"wipe", "release"} \union {"unlink"} \union BlockFamily
    BY <2>2 DEF WriteFamily, AllocFamily, BlockFamily
  <2>4. Evicting(todo') => NotThere(mem, cur'.k)
    BY <1>2, <1>4
  <2> QED BY <2>1, <2>3, <2>4, ServesPlain
<1>9. ControlInv' /\ DataInv'
  BY <1>0, <1>1, <1>3, <1>7, <1>8, QuietLands
<1>10. AllocInv'
  <2>1. todo'[1] \notin {"take", "pop", "count"}
    BY <1>5, <1>6
  <2> QED BY <2>1, AllocSame
<1> QED BY <1>3, <1>9, <1>10 DEF StepOK

LEMMA ReleaseStep == ASSUME MapInv, Release PROVE StepOK
<1>0. todo' = Rest /\ UNCHANGED <<cur, mode, crashes>>
  BY DEF Release
<1>1. CASE At("unlink") /\ update(eraseLog(cur.b)) /\ UNCHANGED <<free, avail, missed>>
  BY <1>0, <1>1, UnlinkStep
<1>2. CASE At("wipe") /\ StoreBlock(cur.b, Zero) /\ missed' = missed \ {cur.b} /\ UNCHANGED <<free, avail>>
  BY <1>0, <1>2, WipeStep
<1>3. CASE At("release") /\ free' = <<cur.b>> \o free /\ NoStore /\ UNCHANGED <<avail, missed>>
  BY <1>0, <1>3, ReleaseBlockStep
<1>4. CASE At("count") /\ avail' = avail + 1 /\ NoStore /\ UNCHANGED <<free, missed>>
  BY <1>0, <1>4, CountStep
<1>5. CASE At("unused") /\ Store(Dec("usedChunk", NULL)) /\ UNCHANGED <<free, avail, missed>>
  BY <1>0, <1>5, UnusedStep
<1> QED BY <1>1, <1>2, <1>3, <1>4, <1>5 DEF Release

-----------------------------------------------------------------------------
(* allocateMemBlock *)

LEMMA KeyedAt ==
  ASSUME MapInv, NEW x, At(x), x \notin Waiting, x \in Keyed
  PROVE  cur.k \in Keys
<1>1. todo # <<>> /\ todo[1] = x /\ todo \in Seq(Steps) /\ Shape(todo, cur.k)
  BY CalmFacts
<1>2. 1 \in DOMAIN todo
  BY <1>1, SeqFacts
<1> QED BY <1>1, <1>2 DEF Shape

LEMMA TakeStep ==
  ASSUME MapInv, At("take"), avail' = avail - 1, NoStore, todo' = Rest,
         UNCHANGED <<cur, mode, crashes, free, missed>>
  PROVE  StepOK
<1>0. "take" \notin Waiting
  BY DEF Waiting
<1>1. Linked(mem) \intersect Elems(free) = {} /\ todo # <<>> /\ todo[1] = "take"
  BY <1>0, CalmFacts DEF Sound
<1>2. NotThere(mem, cur.k)
  BY <1>0, ReadyAt DEF AllocFamily
<1>3. Quiet(0) /\ LogStep /\ Running
  <2>1. Quiet(0) /\ LogStep
    BY <1>0, NoStoreQuiet
  <2> QED BY <2>1 DEF Quiet, Running
<1>4. Onto(todo'[1]) /\ Follows("take", todo'[1])
  <2>1. Turns /\ Keeps
    BY Stays DEF Turns
  <2> QED BY <1>0, <1>3, <2>1, GoesOn
<1>5. todo'[1] = "pop"
  BY <1>4 DEF Follows, Ops
<1>6. Onto("pop") /\ "pop" \notin Waiting /\ Room("take") + 0 <= Room("pop")
  BY <1>4, <1>5 DEF Waiting, Room, Ops
<1>7. Serves(todo', mem, cur', Elems(free'))
  <2>1. Upcoming(todo') = "pop"
    BY <1>5 DEF Upcoming
  <2>2. Ready("pop", mem, cur', Elems(free'))
    BY DEF Ready, WriteFamily, BlockFamily
  <2> QED BY <1>2, <2>1, <2>2 DEF Serves
<1>8. ControlInv' /\ DataInv'
  BY <1>0, <1>1, <1>3, <1>6, <1>7, QuietLands
<1>9. AllocInv'
  <2>1. /\ free \in Seq(Blocks) /\ (\A i, j \in DOMAIN free : free[i] = free[j] => i = j)
        /\ avail \in 0..Len(free) /\ avail > 0
    BY <1>1 DEF MapInv, AllocInv
  <2>2. Len(free) \in Nat
    BY <2>1, SeqFacts
  <2>3. avail' \in 0..Len(free') /\ avail' < Len(free')
    BY <2>1, <2>2
  <2> QED BY <1>5, <2>1, <2>3 DEF AllocInv
<1> QED BY <1>3, <1>8, <1>9 DEF StepOK

LEMMA FreeRest ==
  ASSUME NEW s \in Seq(Blocks), \A i, j \in DOMAIN s : s[i] = s[j] => i = j, s # <<>>
  PROVE  /\ Tail(s) \in Seq(Blocks) /\ Len(Tail(s)) = Len(s) - 1
         /\ \A i, j \in DOMAIN Tail(s) : Tail(s)[i] = Tail(s)[j] => i = j
         /\ Elems(Tail(s)) \subseteq Elems(s) /\ Head(s) \in Elems(s) /\ Head(s) \notin Elems(Tail(s))
         /\ Head(s) \in Blocks
<1>1. PICK f, n : f = Tail(s) /\ n = Len(s)
  OBVIOUS
<1>2. /\ f \in Seq(Blocks) /\ Len(f) = n - 1 /\ n \in Nat \ {0}
      /\ (\A i \in 1..(n - 1) : f[i] = s[i + 1]) /\ Head(s) = s[1]
  BY <1>1, TailFacts
<1>3. DOMAIN f = 1..(n - 1) /\ DOMAIN s = 1..n /\ \A i \in DOMAIN s : s[i] \in Blocks
  BY <1>1, <1>2, SeqFacts
<1>4. ASSUME NEW i \in DOMAIN f
      PROVE  i \in 1..(n - 1) /\ i + 1 \in DOMAIN s /\ f[i] = s[i + 1] /\ i \in Nat /\ i + 1 # 1
  BY <1>2, <1>3
<1>5. ASSUME NEW i \in DOMAIN f, NEW j \in DOMAIN f, f[i] = f[j] PROVE i = j
  <2>1. i + 1 = j + 1
    BY <1>4, <1>5
  <2>2. i \in Nat /\ j \in Nat
    BY <1>4
  <2> QED BY <2>1, <2>2
<1>6. 1 \in DOMAIN s
  BY <1>2, <1>3
<1>7. Head(s) \in Elems(s) /\ Head(s) \in Blocks
  BY <1>2, <1>3, <1>6 DEF Elems
<1>8. ASSUME NEW x \in Elems(f) PROVE x \in Elems(s) /\ x # Head(s)
  <2>1. PICK i \in DOMAIN f : x = f[i]
    BY DEF Elems
  <2>2. i + 1 \in DOMAIN s /\ x = s[i + 1] /\ i + 1 # 1
    BY <1>4, <2>1
  <2> QED BY <1>2, <1>6, <2>2 DEF Elems
<1> QED BY <1>1, <1>2, <1>5, <1>7, <1>8

LEMMA OnFacts ==
  ASSUME cur \in Locals, NEW b \in Blocks \union {NULL}, On(b)
  PROVE  cur' \in Locals /\ cur'.k = cur.k /\ cur'.b = b
BY DEF Locals, On

LEMMA PopStep ==
  ASSUME MapInv, At("pop"), free' = Tail(free), On(Head(free)), NoStore, todo' = Rest,
         UNCHANGED <<mode, crashes, avail, missed>>
  PROVE  StepOK
<1>0. "pop" \notin Waiting
  BY DEF Waiting
<1>1. Linked(mem) \intersect Elems(free) = {} /\ todo # <<>> /\ todo[1] = "pop" /\ cur \in Locals
  BY <1>0, CalmFacts DEF Sound
<1>2. NotThere(mem, cur.k)
  BY <1>0, ReadyAt DEF AllocFamily
<1>3. /\ free \in Seq(Blocks) /\ (\A i, j \in DOMAIN free : free[i] = free[j] => i = j)
      /\ avail \in 0..Len(free) /\ avail < Len(free)
  BY <1>1 DEF MapInv, AllocInv
<1>4. free # <<>> /\ Len(free) \in Nat
  BY <1>3, SeqFacts
<1>5. PICK f, b : f = Tail(free) /\ b = Head(free)
  OBVIOUS
<1>6. /\ f \in Seq(Blocks) /\ Len(f) = Len(free) - 1 /\ Elems(f) \subseteq Elems(free)
      /\ (\A i, j \in DOMAIN f : f[i] = f[j] => i = j)
      /\ b \in Elems(free) /\ b \notin Elems(f) /\ b \in Blocks
  BY <1>3, <1>4, <1>5, FreeRest
<1>7. free' = f /\ On(b)
  BY <1>5
<1>8. cur' \in Locals /\ cur'.k = cur.k /\ cur'.b = b
  BY <1>1, <1>6, <1>7, OnFacts
<1>9. Quiet(0) /\ LogStep /\ Running
  <2>1. Quiet(0) /\ LogStep
    BY <1>0, NoStoreQuiet
  <2> QED BY <2>1 DEF Quiet, Running
<1>10. Onto(todo'[1]) /\ Follows("pop", todo'[1])
  <2>1. missed \subseteq Blocks
    BY DEF MapInv, ControlInv
  <2>2. Turns /\ Keeps
    BY <1>8, <2>1 DEF Turns, Keeps
  <2> QED BY <1>0, <1>9, <2>2, GoesOn
<1>11. todo'[1] = "init"
  BY <1>10 DEF Follows, Ops
<1>12. Onto("init") /\ "init" \notin Waiting /\ Room("pop") + 0 <= Room("init")
  BY <1>10, <1>11 DEF Waiting, Room, Ops
<1>13. Serves(todo', mem, cur', Elems(free'))
  <2>1. Upcoming(todo') = "init"
    BY <1>11 DEF Upcoming
  <2>2. Ready("init", mem, cur', Elems(free'))
    BY <1>1, <1>6, <1>7, <1>8 DEF Ready, WriteFamily, BlockFamily
  <2> QED BY <1>2, <1>8, <2>1, <2>2 DEF Serves
<1>14. Linked(mem) \intersect Elems(free') = {}
  BY <1>1, <1>6, <1>7
<1>15. ControlInv' /\ DataInv'
  BY <1>0, <1>9, <1>12, <1>13, <1>14, QuietLands
<1>16. AllocInv'
  <2>1. avail' \in 0..Len(free')
    BY <1>3, <1>4, <1>6, <1>7
  <2> QED BY <1>6, <1>7, <1>11, <2>1 DEF AllocInv
<1> QED BY <1>9, <1>15, <1>16 DEF StepOK

LEMMA InitStep ==
  ASSUME MapInv, At("init"),
         StoreBlock(cur.b, LAMBDA f : IF f = "dirty" THEN 1 ELSE IF f = "index" THEN Hash[cur.k] ELSE Zero(f)),
         todo' = Rest, UNCHANGED <<cur, mode, crashes, free, avail, missed>>
  PROVE  StepOK
<1>0. "init" \notin Waiting /\ "init" \in Keyed
  BY DEF Waiting, Keyed, AllocFamily
<1>1. /\ Typed(mem) /\ Good(mem) /\ Linked(mem) \intersect Elems(free) = {}
      /\ log \in Seq(Entries) /\ CountsOnly(log) /\ Len(log) <= Room("init")
  BY <1>0, CalmFacts DEF Sound
<1>2. PICK b, i : b = cur.b /\ i = Hash[cur.k]
  OBVIOUS
<1>3. b \in Blocks /\ b \notin Linked(mem) /\ b \notin Elems(free) /\ NotThere(mem, cur.k)
  BY <1>0, <1>2, ReadyAt DEF Ready, AllocFamily
<1>4. i \in Buckets
  <2>1. cur.k \in Keys
    BY <1>0, KeyedAt
  <2> QED BY <1>2, <2>1, MapAssumption
<1>5. PICK V : V = [f \in BlockFields |-> IF f = "dirty" THEN 1 ELSE IF f = "index" THEN i ELSE Zero(f)]
  OBVIOUS
<1>6. mem' = [a \in HashAddr |-> IF a \in BlockWords(b) THEN V[a[1]] ELSE mem[a]]
  <2>1. mem' = [a \in HashAddr |-> IF a \in BlockWords(b)
                   THEN IF a[1] = "dirty" THEN 1 ELSE IF a[1] = "index" THEN i ELSE Zero(a[1]) ELSE mem[a]]
    BY <1>2 DEF StoreBlock
  <2>2. \A a \in BlockWords(b) : V[a[1]] = IF a[1] = "dirty" THEN 1 ELSE IF a[1] = "index" THEN i ELSE Zero(a[1])
    <3>1. ASSUME NEW a \in BlockWords(b)
          PROVE  V[a[1]] = IF a[1] = "dirty" THEN 1 ELSE IF a[1] = "index" THEN i ELSE Zero(a[1])
      <4>1. PICK f \in BlockFields : a = <<f, b>>
        BY DEF BlockWords
      <4>2. a[1] = f
        BY <4>1
      <4> QED BY <1>5, <4>2
    <3> QED BY <3>1
  <2> QED BY <2>1, <2>2
<1>7. Typed(mem') /\ BlockSet(mem', mem, b) /\ (\A f \in BlockFields : mem'[<<f, b>>] = V[f])
  <2>1. \A f \in BlockFields : V[f] \in Kind(f)
    <3>1. 1 \in Kind("dirty") /\ i \in Kind("index")
      BY <1>4 DEF Kind, HeadLinks, BlockLinks, HeadCounts
    <3> QED BY <1>5, <3>1, ZeroKind
  <2>2. PICK n : n = mem'
    OBVIOUS
  <2>3. n = [a \in HashAddr |-> IF a \in BlockWords(b) THEN V[a[1]] ELSE mem[a]]
    BY <1>6, <2>2
  <2>4. Typed(n) /\ BlockSet(n, mem, b)
    BY <1>1, <1>3, <2>1, <2>3, BlockStored
  <2>5. ASSUME NEW f \in BlockFields PROVE n[<<f, b>>] = V[f]
    <3>1. <<f, b>> \in HashAddr /\ <<f, b>> \in BlockWords(b) /\ <<f, b>>[1] = f
      BY <1>3, BlockWord
    <3> QED BY <2>3, <3>1
  <2> QED BY <2>2, <2>4, <2>5
<1>8. /\ mem'[<<"index", b>>] = i /\ mem'[<<"key", b>>] = NULL
      /\ \A f \in BlockLinks : mem'[<<f, b>>] = NULL
  <2>1. V["index"] = i /\ V["key"] = NULL /\ \A f \in BlockLinks : V[f] = NULL
    BY <1>5 DEF BlockFields, BlockLinks, Zero
  <2>2. mem'[<<"index", b>>] = V["index"] /\ mem'[<<"key", b>>] = V["key"]
    BY <1>7, FieldNames
  <2>3. \A f \in BlockLinks : mem'[<<f, b>>] = V[f]
    BY <1>7, FieldNames
  <2> QED BY <2>1, <2>2, <2>3
<1>9. UNCHANGED <<log, status, copied, entered>>
  BY DEF StoreBlock
<1>10. /\ LogStep /\ Running /\ log' = log /\ Good(mem') /\ Linked(mem') = Linked(mem)
       /\ \A k : NotThere(mem, k) => NotThere(mem', k)
  BY <1>0, <1>3, <1>7, <1>9, StoreBlockAside DEF Running
<1>11. Onto(todo'[1]) /\ Follows("init", todo'[1])
  <2>1. Turns /\ Keeps
    BY Stays DEF Turns
  <2> QED BY <1>0, <1>10, <2>1, GoesOn
<1>12. todo'[1] = "makeNew"
  BY <1>11 DEF Follows, Ops
<1>13. Onto("makeNew") /\ "makeNew" \notin Waiting /\ Room("makeNew") = Room("init")
  BY <1>11, <1>12 DEF Waiting, Room, Ops
<1>14. Serves(todo', mem', cur', Elems(free'))
  <2>1. Upcoming(todo') = "makeNew"
    BY <1>12 DEF Upcoming
  <2>2. Ready("makeNew", mem', cur', Elems(free'))
    BY <1>2, <1>3, <1>8, <1>10 DEF Ready, WriteFamily, BlockFamily
  <2> QED BY <1>3, <1>10, <2>1, <2>2 DEF Serves
<1>15. Sound(mem', Elems(free'))
  BY <1>1, <1>10 DEF Sound
<1>16. ControlInv' /\ DataInv'
  BY <1>1, <1>7, <1>10, <1>13, <1>14, <1>15, Lands
<1>17. AllocInv'
  BY <1>12, AllocSame
<1> QED BY <1>10, <1>16, <1>17 DEF StepOK

LEMMA MakeNewStep ==
  ASSUME MapInv, At("makeNew"), update(makeNewLog(cur.b, Hash[cur.k])), todo' = Rest,
         UNCHANGED <<cur, mode, crashes, free, avail, missed>>
  PROVE  StepOK
<1>0. "makeNew" \notin Waiting /\ "makeNew" \in Keyed
  BY DEF Waiting, Keyed, AllocFamily
<1>1. /\ Typed(mem) /\ Good(mem) /\ Linked(mem) \subseteq Blocks /\ Linked(mem) \intersect Elems(free) = {}
  BY <1>0, CalmFacts DEF Sound
<1>2. PICK b, i : b = cur.b /\ i = Hash[cur.k]
  OBVIOUS
<1>3. /\ b \in Blocks /\ b \notin Linked(mem) /\ b \notin Elems(free)
      /\ mem[<<"index", b>>] = i /\ mem[<<"key", b>>] = NULL
  BY <1>0, <1>2, ReadyAt DEF Ready
<1>4. \A f \in BlockLinks : mem[<<f, b>>] = NULL
  BY <1>0, <1>2, ReadyAt DEF Ready
<1>5. NotThere(mem, cur.k)
  BY <1>0, ReadyAt DEF AllocFamily
<1>6. i \in Buckets
  <2>1. cur.k \in Keys
    BY <1>0, KeyedAt
  <2> QED BY <1>2, <2>1, MapAssumption
<1>7. PICK es : es = makeNewLog(b, i)
  OBVIOUS
<1>8. Same(mem, Ahead, MapFields)
  BY <1>0, AheadSame
<1>9. /\ Fits(es, LogFields, 13) /\ Good(Over(Ahead, es)) /\ Linked(Over(Ahead, es)) = Linked(mem) \union {b}
      /\ Same(mem, Over(Ahead, es), {"key"}) /\ Over(Ahead, es)[<<"index", b>>] = i
  BY <1>1, <1>3, <1>4, <1>6, <1>7, <1>8, MakeNewEffect
<1>10. update(es)
  BY <1>2, <1>7
<1>11. Room("makeNew") + 13 <= 17
  BY DEF Room, Ops
<1>12. LogStep /\ Running
  BY <1>0, <1>9, <1>10, <1>11, LoggedStep
<1>13. /\ Onto(todo'[1]) /\ Follows("makeNew", todo'[1]) /\ (todo'[1] = "commit" => Commits("makeNew", todo'[2]))
       /\ (Evicting(todo') => "makeNew" \in EraseFamily)
  <2>1. Turns /\ Keeps
    BY Stays DEF Turns
  <2> QED BY <1>0, <1>12, <2>1, GoesOn
<1>14. todo'[1] = "commit" /\ todo'[2] = "used" /\ ~Evicting(todo')
  <2>1. todo'[1] = "commit" /\ ~Evicting(todo')
    BY <1>13 DEF Follows, Ops, EraseFamily
  <2> QED BY <1>13, <2>1 DEF Commits
<1>15. Onto("commit")
  BY <1>13, <1>14
<1>16. Serves(todo', Over(Ahead, es), cur, Elems(free))
  <2>1. Upcoming(todo') = "used"
    BY <1>14 DEF Upcoming
  <2>2. PICK o : o = Over(Ahead, es)
    OBVIOUS
  <2>3. \A d \in Linked(mem) : o[<<"key", d>>] # cur.k
    <3>1. \A d \in Blocks : o[<<"key", d>>] = mem[<<"key", d>>]
      BY <1>9, <2>2, SameWords, FieldNames
    <3> QED BY <1>1, <1>5, <3>1 DEF NotThere
  <2>4. cur.b \in Linked(o) /\ o[<<"index", cur.b>>] = Hash[cur.k]
        /\ \A d \in Linked(o) : o[<<"key", d>>] = cur.k => d = cur.b
    BY <1>2, <1>9, <2>2, <2>3
  <2>5. Ready("used", o, cur, Elems(free))
    BY <2>4 DEF Ready
  <2>6. "used" \notin AllocFamily
    BY DEF AllocFamily
  <2> QED BY <1>14, <2>1, <2>2, <2>5, <2>6 DEF Serves
<1>17. Sound(Over(Ahead, es), Elems(free))
  BY <1>1, <1>3, <1>9 DEF Sound
<1>18. ControlInv' /\ DataInv'
  BY <1>0, <1>9, <1>10, <1>11, <1>15, <1>16, <1>17, CommitLands
<1>19. AllocInv'
  BY <1>14, AllocSame
<1> QED BY <1>12, <1>18, <1>19 DEF StepOK

(* A step of Block::set that leaves the map as it is. *)
LEMMA WriteTurn ==
  ASSUME MapInv, NEW x \in {"used", "flags", "dirty", "only", "copy"}, At(x), NEW n \in {0, 2}, Quiet(n),
         n = 2 => x = "flags", todo' = Rest, UNCHANGED <<cur, mode, crashes, free, avail, missed>>
  PROVE  ControlInv' /\ DataInv' /\ AllocInv'
<1>0. x \notin Waiting /\ x \in WriteFamily /\ x # "return"
  BY DEF Waiting, WriteFamily
<1>1. Linked(mem) \intersect Elems(free) = {}
  BY <1>0, CalmFacts DEF Sound
<1>2. Ready(x, mem, cur, Elems(free))
  BY <1>0, ReadyAt
<1>3. Onto(todo'[1]) /\ Follows(x, todo'[1]) /\ (Evicting(todo') => x \in EraseFamily)
  <2>1. Turns /\ Keeps
    BY Stays DEF Turns
  <2>2. Running
    BY DEF Quiet, Running
  <2> QED BY <1>0, <2>1, <2>2, GoesOn
<1>4. PICK y : y = todo'[1]
  OBVIOUS
<1>5. y \in {"flags", "dirty", "only", "copy", "length"} /\ (x = "used" => y = "flags") /\ (x = "flags" => y = "dirty")
      /\ (x \in {"dirty", "only", "copy"} => y \in {"only", "copy", "length"})
  BY <1>3, <1>4 DEF Follows, Ops
<1>6. Onto(y) /\ y \notin Waiting /\ y \in WriteFamily
  BY <1>3, <1>4, <1>5 DEF Waiting, WriteFamily
<1>7. Room(x) + n <= Room(y)
  BY <1>5 DEF Room, Ops
<1>8. Serves(todo', mem, cur', Elems(free'))
  <2>1. Upcoming(todo') = y
    BY <1>4, <1>5 DEF Upcoming
  <2>2. y \notin {"wipe", "release", "init", "makeNew"} /\ y # "makeNew" /\ y \notin AllocFamily
    BY <1>5 DEF AllocFamily
  <2>3. Ready(y, mem, cur, Elems(free))
    BY <1>0, <1>2, <1>6, <2>2 DEF Ready
  <2>4. ~Evicting(todo')
    BY <1>3 DEF EraseFamily
  <2> QED BY <2>1, <2>2, <2>3, <2>4 DEF Serves
<1>9. ControlInv' /\ DataInv'
  BY <1>0, <1>1, <1>6, <1>7, <1>8, QuietLands
<1>10. AllocInv'
  <2>1. todo'[1] \notin {"take", "pop", "count"}
    BY <1>4, <1>5
  <2> QED BY <2>1, AllocSame
<1> QED BY <1>9, <1>10

LEMMA UsedStep ==
  ASSUME MapInv, At("used"), Store(Inc("usedChunk", NULL)), todo' = Rest,
         UNCHANGED <<cur, mode, crashes, free, avail, missed>>
  PROVE  StepOK
<1>0. "used" \notin Waiting
  BY DEF Waiting
<1>1. Quiet(0) /\ LogStep
  BY <1>0, UsedQuiet
<1>2. PICK x, n : x = "used" /\ n = 0
  OBVIOUS
<1>3. Quiet(n) /\ At(x) /\ x \in {"used", "flags", "dirty", "only", "copy"} /\ n \in {0, 2} /\ (n = 2 => x = "flags")
  BY <1>1, <1>2
<1>4. ControlInv' /\ DataInv' /\ AllocInv'
  BY <1>3, WriteTurn
<1> QED BY <1>1, <1>4 DEF StepOK

LEMMA AllocateStep == ASSUME MapInv, Allocate PROVE StepOK
<1>0. todo' = Rest /\ UNCHANGED <<mode, crashes, missed>>
  BY DEF Allocate
<1>1. CASE At("take") /\ avail' = avail - 1 /\ NoStore /\ UNCHANGED <<free, cur>>
  BY <1>0, <1>1, TakeStep
<1>2. CASE At("pop") /\ free' = Tail(free) /\ On(Head(free)) /\ NoStore /\ UNCHANGED avail
  BY <1>0, <1>2, PopStep
<1>3. CASE /\ At("init")
           /\ StoreBlock(cur.b, LAMBDA f : IF f = "dirty" THEN 1
                                           ELSE IF f = "index" THEN Hash[cur.k] ELSE Zero(f))
           /\ UNCHANGED <<free, avail, cur>>
  BY <1>0, <1>3, InitStep
<1>4. CASE At("makeNew") /\ update(makeNewLog(cur.b, Hash[cur.k])) /\ UNCHANGED <<free, avail, cur>>
  BY <1>0, <1>4, MakeNewStep
<1>5. CASE At("used") /\ Store(Inc("usedChunk", NULL)) /\ UNCHANGED <<free, avail, cur>>
  BY <1>0, <1>5, UsedStep
<1> QED BY <1>1, <1>2, <1>3, <1>4, <1>5 DEF Allocate

-----------------------------------------------------------------------------
(* Steps that leave every block where it is *)

Calm(n) ==
  /\ Typed(mem') /\ Good(mem') /\ Linked(mem') = Linked(mem)
  /\ log' \in Seq(Entries) /\ CountsOnly(log') /\ Len(log') <= Len(log) + n /\ Running

(* Steps that rely on no more than a block of the lists. *)
Plain == Steps \ (WriteFamily \union AllocFamily \union {"wipe", "release"})

LEMMA QuietCalm ==
  ASSUME MapInv, NEW x, At(x), x \notin Waiting, NEW n, Quiet(n)
  PROVE  Calm(n)
<1>1. Good(mem') /\ Linked(mem') = Linked(mem)
  BY CalmFacts, GoodSame DEF Quiet
<1> QED BY <1>1 DEF Quiet, Calm, Running

LEMMA NoStoreCalm ==
  ASSUME MapInv, NEW x, At(x), x \notin Waiting, NoStore
  PROVE  Calm(0) /\ LogStep
BY NoStoreQuiet, QuietCalm

LEMMA StoreCalm ==
  ASSUME MapInv, NEW x, At(x), x \notin Waiting, LogStep, Running, log' = log,
         Typed(mem'), Good(mem'), Linked(mem') = Linked(mem)
  PROVE  Calm(0)
<1>1. log \in Seq(Entries) /\ CountsOnly(log) /\ Len(log) \in Nat
  BY CalmFacts
<1> QED BY <1>1 DEF Calm

LEMMA TailCalm ==
  ASSUME MapInv, NEW x, At(x), x \notin Waiting, NEW t \in Tails, NEW v \in Linked(mem) \union {NULL},
         Store(Up(t, NULL, v))
  PROVE  Calm(0) /\ LogStep
<1>1. /\ LogStep /\ Running /\ log' = log
      /\ Typed(mem') /\ Good(mem') /\ Linked(mem') = Linked(mem)
  BY StoreTail DEF Running
<1> QED BY <1>1, StoreCalm

LEMMA CalmLands ==
  ASSUME MapInv, NEW x, At(x), x \notin Waiting, NEW n \in Nat, Calm(n), NEW y \in Plain, y \notin Waiting,
         Onto(y), y # "count", Room(x) + n <= Room(y), y \in {"unlink"} \union BlockFamily => cur'.b \in Linked(mem),
         Evicting(todo') => NotThere(mem', cur'.k), UNCHANGED <<free, avail>>
  PROVE  ControlInv' /\ DataInv' /\ AllocInv'
<1>1. Len(log) <= Room(x) /\ Len(log) \in Nat /\ Linked(mem) \intersect Elems(free) = {}
  BY CalmFacts DEF Sound
<1>2. Len(log') <= Room(y)
  <2>1. Len(log') \in Nat /\ Len(log') <= Len(log) + n
    BY SeqFacts DEF Calm
  <2>2. Room(x) \in Nat /\ Room(y) \in Nat
    BY RoomFits
  <2> QED BY <1>1, <2>1, <2>2
<1>3. Sound(mem', Elems(free'))
  BY <1>1 DEF Sound, Calm
<1>4. todo'[1] = y
  BY DEF Onto
<1>5. Serves(todo', mem', cur', Elems(free'))
  <2>1. PICK z : z = Upcoming(todo')
    OBVIOUS
  <2>2. z = y
    BY <1>4, <2>1 DEF Upcoming, Waiting
  <2>3. z \notin WriteFamily \union AllocFamily \union {"wipe", "release"}
    BY <2>2 DEF Plain
  <2>4. z \in {"unlink"} \union BlockFamily => cur'.b \in Linked(mem')
    BY <2>2 DEF Calm
  <2> QED BY <2>1, <2>3, <2>4, ServesPlain
<1>6. ControlInv' /\ DataInv'
  BY <1>2, <1>3, <1>5, Lands DEF Calm
<1>7. todo'[1] \notin {"take", "pop", "count"}
  BY <1>4 DEF Plain, AllocFamily
<1> QED BY <1>6, <1>7, AllocSame

LEMMA CalmCommit ==
  ASSUME MapInv, NEW x, At(x), x \notin Waiting, NEW n \in Nat, Calm(n), Onto("commit"), Room(x) + n <= 17,
         NEW z \in Plain, z = todo'[2], z # "unlink", z \in BlockFamily => cur'.b \in Linked(mem), ~Evicting(todo'),
         UNCHANGED <<free, avail>>
  PROVE  ControlInv' /\ DataInv' /\ AllocInv'
<1>1. Len(log) <= Room(x) /\ Len(log) \in Nat /\ Linked(mem) \intersect Elems(free) = {}
  BY CalmFacts DEF Sound
<1>2. Len(log') <= 17
  <2>1. Len(log') \in Nat /\ Len(log') <= Len(log) + n
    BY SeqFacts DEF Calm
  <2>2. Room(x) \in Nat
    BY RoomFits
  <2> QED BY <1>1, <2>1, <2>2
<1>3. Sound(mem', Elems(free'))
  BY <1>1 DEF Sound, Calm
<1>4. todo'[1] = "commit"
  BY DEF Onto
<1>5. PICK o : o = Over(mem', log')
  OBVIOUS
<1>6. Same(mem', o, MapFields)
  BY <1>5, CountsSame DEF Calm
<1>7. Sound(o, Elems(free'))
  BY <1>3, <1>6, SoundSame
<1>8. Linked(o) = Linked(mem)
  BY <1>6, GoodSame DEF Calm
<1>9. Serves(todo', o, cur', Elems(free'))
  <2>1. z = Upcoming(todo')
    BY <1>4 DEF Upcoming
  <2>2. z \notin WriteFamily \union AllocFamily \union {"wipe", "release"}
    BY DEF Plain
  <2>3. z \in {"unlink"} \union BlockFamily => cur'.b \in Linked(o)
    BY <1>8
  <2> QED BY <2>1, <2>2, <2>3, ServesPlain
<1>10. Sound(Over(mem', log'), Elems(free')) /\ Serves(todo', Over(mem', log'), cur', Elems(free'))
  BY <1>5, <1>7, <1>9
<1>11. ControlInv' /\ DataInv'
  BY <1>2, <1>3, <1>10, LandsToCommit DEF Calm
<1> QED BY <1>4, <1>11, AllocSame

LEMMA MoveCommit ==
  ASSUME MapInv, NEW x, At(x), x \notin Waiting, NEW F, NEW n \in Nat, NEW es, Fits(es, F, n),
         Room(x) + n <= 17, update(es), Onto("commit"), UNCHANGED <<free, avail>>,
         Good(Over(Ahead, es)), Linked(Over(Ahead, es)) = Linked(mem),
         NEW z \in Plain, z = todo'[2], z # "unlink", z \in BlockFamily => cur'.b \in Linked(mem), ~Evicting(todo')
  PROVE  StepOK
<1>1. Linked(mem) \intersect Elems(free) = {}
  BY CalmFacts DEF Sound
<1>2. todo'[1] = "commit"
  BY DEF Onto
<1>3. Sound(Over(Ahead, es), Elems(free))
  BY <1>1 DEF Sound
<1>4. Serves(todo', Over(Ahead, es), cur', Elems(free))
  <2>1. z = Upcoming(todo')
    BY <1>2 DEF Upcoming
  <2>2. z \notin WriteFamily \union AllocFamily \union {"wipe", "release"}
    BY DEF Plain
  <2>3. z \in {"unlink"} \union BlockFamily => cur'.b \in Linked(Over(Ahead, es))
    OBVIOUS
  <2> QED BY <2>1, <2>2, <2>3, ServesPlain
<1>5. LogStep /\ ControlInv' /\ DataInv'
  BY <1>3, <1>4, CommitLands
<1>6. AllocInv'
  BY <1>2, AllocSame
<1> QED BY <1>5, <1>6 DEF StepOK

LEMMA AsideFacts ==
  ASSUME MapInv, Aside
  PROVE  Keeps /\ free' = free /\ avail' = avail /\ missed' = missed
BY DEF MapInv, ControlInv, Aside, Keeps

LEMMA EmptyCat == ASSUME NEW s \in Seq(Steps) PROVE <<>> \o s = s
BY ConcatEmptySeq

(* The operation goes on behind the step. *)
LEMMA GotoRest ==
  ASSUME MapInv, NEW x, At(x), x \notin Waiting, x # "return", Goto(<<>>)
  PROVE  todo' = Rest
<1>1. Rest \in Seq(Steps)
  BY RestBegins DEF Begins
<1> QED BY <1>1, EmptyCat DEF Goto

LEMMA Returns ==
  ASSUME MapInv, NEW x, At(x), x \notin Waiting, NEW n \in Nat, Calm(n), todo' = <<"return">>,
         cur' \in Locals, Keeps, UNCHANGED <<free, avail>>, Room(x) + n <= 2
  PROVE  ControlInv' /\ DataInv' /\ AllocInv'
<1>1. PICK y : y = "return"
  OBVIOUS
<1>2. Shape(todo', cur'.k) /\ todo' # <<>> /\ todo'[1] = "return" /\ ~Evicting(todo')
  BY ShapeLast
<1>3. Onto(y)
  BY <1>1, <1>2 DEF Onto, Keeps, Calm, Running
<1>4. y \in Plain /\ y \notin Waiting /\ y # "count" /\ y \notin {"unlink"} \union BlockFamily /\ Room(y) = 2
  BY <1>1 DEF Plain, Steps, WriteFamily, AllocFamily, Waiting, BlockFamily, Room, Ops
<1> QED BY <1>2, <1>3, <1>4, CalmLands

-----------------------------------------------------------------------------
(* Finding room for a record *)

LEMMA AllocLands ==
  ASSUME MapInv, NEW x \in {"alloc", "evict"}, At(x), Quiet(0), NEW y \in {"alloc", "take", "evict"},
         NEW e, Begins(todo', cur'.k, y, e), cur' \in Locals, cur'.k = cur.k, Keeps, UNCHANGED <<free, avail>>,
         y = "take" => avail > 0, NotThere(mem, cur.k)
  PROVE  ControlInv' /\ DataInv' /\ AllocInv'
<1>0. x \notin Waiting /\ Room(x) = 2 /\ y \notin Waiting /\ Room(y) = 2
  BY DEF Waiting, Room, Ops
<1>1. Linked(mem) \intersect Elems(free) = {}
  BY <1>0, CalmFacts DEF Sound
<1>2. Onto(y) /\ todo'[1] = y
  <2>1. Running
    BY DEF Quiet, Running
  <2> QED BY <2>1, BeginsOnto DEF Begins
<1>3. Serves(todo', mem, cur', Elems(free'))
  <2>1. Upcoming(todo') = y
    BY <1>2 DEF Upcoming
  <2>2. Ready(y, mem, cur', Elems(free'))
    BY DEF Ready, WriteFamily, BlockFamily
  <2> QED BY <2>1, <2>2 DEF Serves
<1>4. PICK n : n = 0
  OBVIOUS
<1>5. Room(x) + n <= Room(y) /\ n \in Nat /\ Quiet(n)
  BY <1>0, <1>4
<1>6. ControlInv' /\ DataInv'
  BY <1>0, <1>1, <1>2, <1>3, <1>5, QuietLands
<1>7. AllocInv'
  BY <1>2 DEF MapInv, AllocInv
<1> QED BY <1>6, <1>7

LEMMA BehindAlloc ==
  ASSUME MapInv, NEW x \in {"alloc", "evict"}, At(x)
  PROVE  /\ Begins(Rest, cur.k, "flags", FALSE) /\ cur.k \in Keys /\ NotThere(mem, cur.k)
         /\ Rest \in Seq(Steps)
<1>0. x \notin Waiting /\ x # "return" /\ x \in Keyed /\ x \notin EraseFamily
  BY DEF Waiting, Keyed, AllocFamily, EraseFamily
<1>1. Begins(Rest, cur.k, Rest[1], Evicting(todo) /\ x \in EraseFamily) /\ Follows(x, Rest[1])
  BY <1>0, RestBegins
<1>2. Rest[1] = "flags"
  BY <1>1 DEF Follows, Ops
<1>3. Begins(Rest, cur.k, "flags", FALSE)
  BY <1>0, <1>1, <1>2 DEF Begins
<1>4. cur.k \in Keys
  BY <1>0, KeyedAt
<1>5. NotThere(mem, cur.k)
  <2>1. CASE x = "alloc"
    BY <1>0, <2>1, ReadyAt DEF AllocFamily
  <2>2. CASE x = "evict"
    <3>1. todo[1] = "evict" /\ todo # <<>> /\ todo \in Seq(Steps)
      BY <1>0, <2>2, CalmFacts
    <3>2. 1 \in DOMAIN todo
      BY <3>1, SeqFacts
    <3>3. Evicting(todo)
      BY <3>1, <3>2 DEF Evicting
    <3> QED BY <1>0, <3>3, ReadyAt
  <2> QED BY <2>1, <2>2
<1> QED BY <1>3, <1>4, <1>5 DEF Begins

LEMMA EvictBegins ==
  ASSUME NEW t, NEW k \in Keys, Begins(t, k, "flags", FALSE)
  PROVE  \E e : Begins(<<"evict">> \o t, k, "evict", e)
<1>1. PICK x : x = "evict"
  OBVIOUS
<1>2. Behind(x, t, k)
  <2>1. x \in Steps /\ Follows(x, "flags")
    BY <1>1 DEF Steps, Follows
  <2> QED BY <2>1 DEF Behind, Begins
<1>3. Begins(<<x>> \o t, k, x, x = "evict" \/ Evicting(t))
  BY <1>2, Put
<1> QED BY <1>1, <1>3

LEMMA NextVictim ==
  ASSUME MapInv, At("evict"), NEW v \in Linked(mem), NEW d \in {0, 1}, NoStore, Aside,
         cur' = [cur EXCEPT !.b = v, !.left = @ - d], Goto(EraseSteps \o <<"evict">>)
  PROVE  StepOK
<1>0. "evict" \notin Waiting
  BY DEF Waiting
<1>1. Begins(Rest, cur.k, "flags", FALSE) /\ cur.k \in Keys /\ NotThere(mem, cur.k) /\ Rest \in Seq(Steps)
  BY BehindAlloc
<1>2. cur \in Locals /\ Linked(mem) \subseteq Blocks
  BY <1>0, CalmFacts
<1>3. cur' \in Locals /\ cur'.k = cur.k /\ cur'.b = v
  <2>1. v \in Blocks
    BY <1>2
  <2>2. cur.left \in Int
    BY <1>2 DEF Locals
  <2>3. PICK l \in Int : l = cur.left - d
    BY <2>2
  <2>4. cur' = [cur EXCEPT !.b = v, !.left = l]
    BY <1>2, <2>3 DEF Locals
  <2> QED BY <1>2, <2>1, <2>4 DEF Locals
<1>4. PICK r, k : r = Rest /\ k = cur.k
  OBVIOUS
<1>5. PICK e : Begins(<<"evict">> \o r, k, "evict", e)
  BY <1>1, <1>4, EvictBegins
<1>6. Begins(EraseSteps \o (<<"evict">> \o r), k, "unlink", e)
  BY <1>5, EraseBegins
<1>7. todo' = EraseSteps \o (<<"evict">> \o r)
  <2>1. EraseSteps \in Seq(Steps) /\ <<"evict">> \in Seq(Steps) /\ r \in Seq(Steps)
    BY <1>1, <1>4 DEF EraseSteps, Steps, EraseFamily
  <2>2. (EraseSteps \o <<"evict">>) \o r = EraseSteps \o (<<"evict">> \o r)
    BY <2>1, ConcatAssociative
  <2> QED BY <1>4, <2>2 DEF Goto
<1>8. Keeps /\ free' = free /\ avail' = avail
  BY AsideFacts
<1>9. Calm(0) /\ LogStep /\ mem' = mem
  BY <1>0, NoStoreCalm DEF NoStore
<1>10. PICK y, n : y = "unlink" /\ n = 0
  OBVIOUS
<1>11. Onto(y)
  <2>1. Begins(todo', cur'.k, y, e)
    BY <1>3, <1>4, <1>6, <1>7, <1>10
  <2> QED BY <1>3, <1>8, <1>9, <2>1, BeginsOnto DEF Calm
<1>12. y \in Plain /\ y \notin Waiting /\ y # "count" /\ Room("evict") + n <= Room(y) /\ n \in Nat
  BY <1>10 DEF Plain, Steps, EraseFamily, WriteFamily, AllocFamily, Waiting, Room, Ops
<1>13. NotThere(mem', cur'.k) /\ cur'.b \in Linked(mem) /\ Calm(n)
  BY <1>1, <1>3, <1>9, <1>10
<1>14. ControlInv' /\ DataInv' /\ AllocInv'
  BY <1>0, <1>8, <1>11, <1>12, <1>13, CalmLands
<1> QED BY <1>9, <1>14 DEF StepOK

LEMMA EvictStep == ASSUME MapInv, Evict PROVE StepOK
<1>0. "evict" \notin Waiting /\ At("evict") /\ NoStore /\ Aside
  BY DEF Waiting, Evict
<1>1. PICK v : v = IF mode.eraseBySet THEN H("setTail") ELSE H("getTail")
  OBVIOUS
<1>2. PICK d : d = IF v # NULL /\ B("onlyKey", v) = 0 /\ Decodes(v, TRUE) THEN 1 ELSE 0
  OBVIOUS
<1>3. v \in Linked(mem) \union {NULL} /\ d \in {0, 1}
  <2>1. mem[<<"setTail", NULL>>] \in Linked(mem) \union {NULL} /\ mem[<<"getTail", NULL>>] \in Linked(mem) \union {NULL}
    BY <1>0, CalmFacts, LinkedFacts
  <2> QED BY <1>1, <1>2, <2>1 DEF H
<1>4. Keeps /\ free' = free /\ avail' = avail
  BY <1>0, AsideFacts
<1>5. Quiet(0) /\ Calm(0) /\ LogStep
  BY <1>0, NoStoreQuiet, NoStoreCalm
<1>6. /\ Begins(Rest, cur.k, "flags", FALSE) /\ cur.k \in Keys /\ NotThere(mem, cur.k) /\ Rest \in Seq(Steps)
  BY <1>0, BehindAlloc
<1>7. CASE v = NULL \/ cur.left = 0
  <2>1. cur' = cur /\ todo' = IF cur.left = EraseCount THEN <<"return">> ELSE <<"alloc">> \o Rest
    BY <1>1, <1>7 DEF Evict
  <2>2. cur' \in Locals /\ cur'.k = cur.k
    BY <1>0, <2>1, CalmFacts
  <2>3. CASE cur.left = EraseCount
    <3>1. Room("evict") + 0 <= 2
      BY DEF Room, Ops
    <3>2. todo' = <<"return">>
      BY <2>1, <2>3
    <3>3. ControlInv' /\ DataInv' /\ AllocInv'
      BY <1>0, <1>4, <1>5, <2>2, <3>1, <3>2, Returns
    <3> QED BY <1>5, <3>3 DEF StepOK
  <2>4. CASE cur.left # EraseCount
    <3>1. todo' = <<"alloc">> \o Rest
      BY <2>1, <2>4
    <3>2. PICK x, e, k, r : x = "alloc" /\ e = FALSE /\ k = cur.k /\ r = Rest
      OBVIOUS
    <3>3. Begins(<<x>> \o r, k, x, e)
      <4>1. x \in Steps /\ Follows(x, "flags") /\ x # "evict"
        BY <3>2 DEF Steps, AllocFamily, Follows
      <4>2. Begins(r, k, "flags", e) /\ k \in Keys
        BY <1>6, <3>2
      <4> QED BY <3>2, <4>1, <4>2, PutOne
    <3>4. Begins(todo', cur'.k, x, e)
      BY <2>2, <3>1, <3>2, <3>3
    <3>5. PICK w : w = "evict"
      OBVIOUS
    <3>6. w \in {"alloc", "evict"} /\ At(w) /\ x \in {"alloc", "take", "evict"} /\ x # "take"
      BY <1>0, <3>2, <3>5
    <3>7. ControlInv' /\ DataInv' /\ AllocInv'
      BY <1>4, <1>5, <1>6, <2>2, <3>4, <3>6, AllocLands
    <3> QED BY <1>5, <3>7 DEF StepOK
  <2> QED BY <2>3, <2>4
<1>8. CASE ~(v = NULL \/ cur.left = 0)
  <2>1. v \in Linked(mem)
    BY <1>3, <1>8
  <2>2. cur' = [cur EXCEPT !.b = v, !.left = @ - d] /\ Goto(EraseSteps \o <<"evict">>)
    BY <1>1, <1>2, <1>8 DEF Evict
  <2> QED BY <1>0, <1>3, <2>1, <2>2, NextVictim
<1> QED BY <1>7, <1>8

LEMMA AllocStep == ASSUME MapInv, Alloc PROVE StepOK
<1>0. "alloc" \notin Waiting /\ At("alloc") /\ NoStore /\ Aside
  BY DEF Waiting, Alloc
<1>1. Keeps /\ free' = free /\ avail' = avail
  BY <1>0, AsideFacts
<1>2. Quiet(0) /\ Calm(0) /\ LogStep
  BY <1>0, NoStoreQuiet, NoStoreCalm
<1>3. /\ Begins(Rest, cur.k, "flags", FALSE) /\ cur.k \in Keys /\ NotThere(mem, cur.k) /\ Rest \in Seq(Steps)
  BY <1>0, BehindAlloc
<1>4. cur \in Locals
  BY <1>0, CalmFacts
<1>5. PICK x, r, k : x = "alloc" /\ r = Rest /\ k = cur.k
  OBVIOUS
<1>6. Begins(r, k, "flags", FALSE) /\ k \in Keys
  BY <1>3, <1>5
<1>7. x \in {"alloc", "evict"} /\ At(x)
  BY <1>0, <1>5
<1>8. CASE avail > 0 /\ Goto(AllocSteps) /\ UNCHANGED cur
  <2>1. PICK y, e : y = "take" /\ e = FALSE
    OBVIOUS
  <2>2. Begins(AllocSteps \o r, k, "take", FALSE)
    BY <1>6, AllocBegins
  <2>3. Begins(todo', cur'.k, y, e)
    BY <1>5, <1>8, <2>1, <2>2 DEF Goto
  <2>4. cur' \in Locals /\ cur'.k = cur.k /\ avail > 0 /\ y \in {"alloc", "take", "evict"}
    BY <1>4, <1>8, <2>1
  <2>5. ControlInv' /\ DataInv' /\ AllocInv'
    BY <1>1, <1>2, <1>3, <1>7, <2>3, <2>4, AllocLands
  <2> QED BY <1>2, <2>5 DEF StepOK
<1>9. CASE Goto(<<"evict">>) /\ cur' = [cur EXCEPT !.left = EraseCount]
  <2>1. PICK y : y = "evict"
    OBVIOUS
  <2>2. PICK e : Begins(<<"evict">> \o r, k, "evict", e)
    BY <1>6, EvictBegins
  <2>3. cur' \in Locals /\ cur'.k = cur.k
    BY <1>4, <1>9, MapAssumption DEF Locals
  <2>4. Begins(todo', cur'.k, y, e)
    BY <1>5, <1>9, <2>1, <2>2, <2>3 DEF Goto
  <2>5. y \in {"alloc", "take", "evict"} /\ y # "take"
    BY <2>1
  <2>6. ControlInv' /\ DataInv' /\ AllocInv'
    BY <1>1, <1>2, <1>3, <1>7, <2>3, <2>4, <2>5, AllocLands
  <2> QED BY <1>2, <2>6 DEF StepOK
<1>10. CASE todo' = <<"return">> /\ UNCHANGED cur
  <2>1. Room("alloc") + 0 <= 2 /\ cur' \in Locals
    BY <1>4, <1>10 DEF Room, Ops
  <2>2. ControlInv' /\ DataInv' /\ AllocInv'
    BY <1>0, <1>1, <1>2, <1>10, <2>1, Returns
  <2> QED BY <1>2, <2>2 DEF StepOK
<1> QED BY <1>8, <1>9, <1>10 DEF Alloc

-----------------------------------------------------------------------------
(* Block::set, setDirty and the refreshing of the lists *)

LEMMA FlagsFit ==
  ASSUME Typed(mem), NEW c \in BOOLEAN, NEW d \in BOOLEAN,
         NEW u \in {Inc("dirtyCount", NULL), Dec("dirtyCount", NULL)},
         NEW v \in {Inc("onlyKeyCount", NULL), Dec("onlyKeyCount", NULL)}
  PROVE  Fits(When(c, u) \o When(d, v), Drifting, 2)
<1>1. "dirtyCount" \in HeadCounts /\ "onlyKeyCount" \in HeadCounts /\ "dirtyCount" \in Drifting
      /\ "onlyKeyCount" \in Drifting
  BY DEF HeadCounts, Drifting
<1>2. Fits(u, Drifting, 1) /\ Fits(v, Drifting, 1)
  BY <1>1, CountFits
<1>3. Fits(When(c, u), Drifting, 1) /\ Fits(When(d, v), Drifting, 1)
  BY <1>2, FitsWhen
<1>4. PICK p, q : p = When(c, u) /\ q = When(d, v)
  OBVIOUS
<1>5. Fits(p \o q, Drifting, 1 + 1)
  BY <1>3, <1>4, FitsCat
<1> QED BY <1>4, <1>5

LEMMA FlagWord ==
  ASSUME NEW b \in Blocks, NEW f \in {"dirty", "onlyKey", "val"}
  PROVE  <<f, b>> \in HashAddr /\ Kind(f) = {0, 1} /\ f \notin MapFields
<1>1. f \in BlockFields /\ Kind(f) = {0, 1} /\ f \notin MapFields
  BY DEF BlockFields, Kind, HeadLinks, BlockLinks, HeadCounts, MapFields
<1> QED BY <1>1, BlockWord

LEMMA WriteFlagStep ==
  ASSUME MapInv, NEW x \in {"dirty", "only", "copy"}, At(x), NEW f \in {"dirty", "onlyKey", "val"},
         NEW v \in {0, 1}, Store(Up(f, cur.b, v)), todo' = Rest, UNCHANGED <<cur, mode, crashes, free, avail, missed>>
  PROVE  StepOK
<1>0. x \notin Waiting /\ x \in WriteFamily
  BY DEF Waiting, WriteFamily
<1>1. cur.b \in Linked(mem) /\ Linked(mem) \subseteq Blocks
  BY <1>0, ReadyAt, CalmFacts DEF Ready
<1>2. PICK b \in Blocks : b = cur.b
  BY <1>1
<1>3. <<f, b>> \in HashAddr /\ v \in Kind(f) /\ f \notin MapFields
  BY FlagWord
<1>4. Store(Up(f, b, v))
  BY <1>2
<1>5. Quiet(0) /\ LogStep
  BY <1>0, <1>3, <1>4, StoreQuiet DEF Past
<1>6. PICK n : n = 0
  OBVIOUS
<1>7. Quiet(n) /\ n \in {0, 2} /\ n # 2 /\ x \in {"used", "flags", "dirty", "only", "copy"}
  BY <1>5, <1>6
<1>8. ControlInv' /\ DataInv' /\ AllocInv'
  BY <1>7, WriteTurn
<1> QED BY <1>5, <1>8 DEF StepOK

LEMMA FlagsStep ==
  ASSUME MapInv, At("flags"), NEW es, Fits(es, Drifting, 2), Log(es), todo' = Rest,
         UNCHANGED <<cur, mode, crashes, free, avail, missed>>
  PROVE  StepOK
<1>0. "flags" \notin Waiting
  BY DEF Waiting
<1>1. PICK x, n : x = "flags" /\ n = 2
  OBVIOUS
<1>2. Fits(es, Drifting, n) /\ n \in Nat /\ At(x) /\ x \notin Waiting
  BY <1>0, <1>1
<1>3. Quiet(n) /\ LogStep
  BY <1>2, LogQuiet
<1>4. x \in {"used", "flags", "dirty", "only", "copy"} /\ n \in {0, 2} /\ (n = 2 => x = "flags")
  BY <1>1
<1>5. ControlInv' /\ DataInv' /\ AllocInv'
  BY <1>2, <1>3, <1>4, WriteTurn
<1> QED BY <1>3, <1>5 DEF StepOK

LEMMA StoreKey ==
  ASSUME MapInv, NEW x, At(x), x \notin Waiting, NEW b \in Blocks, NEW k \in Keys, NEW v \in {0, 1},
         Store(Up("key", b, k) \o Up("val", b, v))
  PROVE  /\ LogStep /\ Running /\ log' = log
         /\ Typed(mem') /\ KeySet(mem', mem, b, k)
<1>1. Typed(mem) /\ mem \in [HashAddr -> HashValue]
  BY CalmFacts DEF Typed
<1>2. PICK es, p, q : es = Up("key", b, k) \o Up("val", b, v) /\ p = <<"key", b>> /\ q = <<"val", b>>
  OBVIOUS
<1>3. DOMAIN es = {1, 2} /\ es[1].addr = p /\ es[1].val = k /\ es[2].addr = q /\ es[2].val = v
  <2>1. PICK u, w : u = Up("key", b, k) /\ w = Up("val", b, v)
    OBVIOUS
  <2>2. PICK S : S = {u[1], w[1]}
    OBVIOUS
  <2>3. Len(u) = 1 /\ Len(w) = 1 /\ u \in Seq(S) /\ w \in Seq(S)
    BY <2>1, <2>2 DEF Up
  <2>4. u \in Seq(S) /\ w \in Seq(S)
    BY <2>3
  <2>5. /\ u \o w \in Seq(S) /\ Len(u \o w) = Len(u) + Len(w)
        /\ \A i \in 1..Len(u) : (u \o w)[i] = u[i]
        /\ \A i \in 1..Len(w) : (u \o w)[Len(u) + i] = w[i]
    BY <2>4, CatFacts
  <2>6. Len(es) = 2 /\ es[1] = u[1] /\ es[2] = w[1] /\ es \in Seq(S)
    BY <1>2, <2>1, <2>3, <2>5
  <2>7. DOMAIN es = {1, 2}
    <3>1. DOMAIN es = 1..2
      BY <2>6, SeqFacts
    <3> QED BY <3>1
  <2>8. u[1].addr = p /\ u[1].val = k /\ w[1].addr = q /\ w[1].val = v
    BY <1>2, <2>1 DEF Up
  <2> QED BY <2>6, <2>7, <2>8
<1>4. mem' = [a \in HashAddr |-> IF \E i \in DOMAIN es : es[i].addr = a
                                 THEN es[CHOOSE i \in DOMAIN es : es[i].addr = a].val ELSE mem[a]]
  BY <1>2 DEF Store
<1>5. p # q /\ p[1] = "key" /\ q[1] = "val"
  BY <1>2
<1>6. p \in HashAddr /\ q \in HashAddr /\ p \in BlockWords(b) /\ q \in BlockWords(b)
  <2>1. "key" \in BlockFields /\ "val" \in BlockFields
    BY DEF BlockFields
  <2> QED BY <1>2, <2>1, BlockWord
<1>7. mem'[p] = k
  <2>1. PICK c : c = CHOOSE i \in DOMAIN es : es[i].addr = p
    OBVIOUS
  <2>2. c = 1
    BY <1>3, <1>5, <2>1
  <2>3. \E i \in DOMAIN es : es[i].addr = p
    BY <1>3
  <2> QED BY <1>3, <1>4, <1>6, <2>1, <2>2, <2>3
<1>8. mem'[q] = v
  <2>1. PICK c : c = CHOOSE i \in DOMAIN es : es[i].addr = q
    OBVIOUS
  <2>2. c = 2
    BY <1>3, <1>5, <2>1
  <2>3. \E i \in DOMAIN es : es[i].addr = q
    BY <1>3
  <2> QED BY <1>3, <1>4, <1>6, <2>1, <2>2, <2>3
<1>9. \A a \in HashAddr : a # p /\ a # q => mem'[a] = mem[a]
  BY <1>3, <1>4
<1>10. KeySet(mem', mem, b, k)
  BY <1>2, <1>7, <1>9 DEF KeySet
<1>11. k \in Kind("key") /\ v \in Kind("val")
  BY DEF Kind, HeadLinks, BlockLinks, HeadCounts
<1>12. ASSUME NEW a \in HashAddr PROVE mem'[a] \in Kind(a[1])
  <2>1. CASE a = p
    BY <1>5, <1>7, <1>11, <2>1
  <2>2. CASE a = q
    BY <1>5, <1>8, <1>11, <2>2
  <2>3. CASE a # p /\ a # q
    BY <1>1, <1>9, <2>3 DEF Typed
  <2> QED BY <2>1, <2>2, <2>3
<1>13. ASSUME NEW a \in HashAddr PROVE mem'[a] \in HashValue
  BY <1>12, KindValue
<1>14. mem' = [a \in HashAddr |-> mem'[a]]
  BY <1>4
<1>15. mem' \in [HashAddr -> HashValue]
  BY <1>13, <1>14
<1>16. Typed(mem')
  BY <1>12, <1>15 DEF Typed
<1>17. UNCHANGED <<log, status, copied, entered>>
  BY DEF Store
<1>18. LogStep /\ Running
  <2>1. PICK g : g = {p, q}
    OBVIOUS
  <2>2. g \in HashGroups /\ g \intersect (Drifting \X {NULL}) = {}
    BY <1>2, <2>1, DataGroup
  <2>3. \A a \in HashAddr \ g : mem'[a] = mem[a]
    BY <1>9, <2>1
  <2> QED BY <1>16, <1>17, <2>2, <2>3, WriteStep DEF Running
<1> QED BY <1>10, <1>16, <1>17, <1>18

LEMMA LengthStep ==
  ASSUME MapInv, At("length"), Store(Up("key", cur.b, cur.k) \o Up("val", cur.b, 1 - cur.only)), todo' = Rest,
         UNCHANGED <<cur, mode, crashes, free, avail, missed>>
  PROVE  StepOK
<1>0. "length" \notin Waiting /\ "length" \in Keyed /\ "length" \in WriteFamily /\ "length" \notin EraseFamily
  BY DEF Waiting, Keyed, WriteFamily, EraseFamily
<1>1. Good(mem) /\ Linked(mem) \subseteq Blocks /\ cur \in Locals
  BY <1>0, CalmFacts
<1>2. PICK b, k, v : b = cur.b /\ k = cur.k /\ v = 1 - cur.only
  OBVIOUS
<1>3. k \in Keys /\ v \in {0, 1}
  <2>1. cur.only \in {0, 1}
    BY <1>1 DEF Locals
  <2> QED BY <1>0, <1>2, <2>1, KeyedAt
<1>4. /\ b \in Linked(mem) /\ mem[<<"index", b>>] = Hash[k]
      /\ \A d \in Linked(mem) : mem[<<"key", d>>] = k => d = b
  BY <1>0, <1>2, ReadyAt DEF Ready
<1>5. /\ LogStep /\ Running /\ log' = log
      /\ Typed(mem') /\ KeySet(mem', mem, b, k)
  <2>1. Store(Up("key", b, k) \o Up("val", b, v)) /\ b \in Blocks
    BY <1>1, <1>2, <1>4
  <2> QED BY <1>0, <1>3, <2>1, StoreKey
<1>6. Good(mem') /\ Linked(mem') = Linked(mem)
  BY <1>1, <1>3, <1>4, <1>5, KeyAside
<1>7. Calm(0)
  BY <1>0, <1>5, <1>6, StoreCalm
<1>8. /\ Onto(todo'[1]) /\ Follows("length", todo'[1]) /\ (todo'[1] = "commit" => Commits("length", todo'[2]))
      /\ (Evicting(todo') => "length" \in EraseFamily)
  <2>1. Turns /\ Keeps
    BY Stays DEF Turns
  <2> QED BY <1>0, <1>5, <2>1, GoesOn
<1>9. todo'[1] = "commit"
  BY <1>8 DEF Follows, Ops
<1>10. PICK z, n : z = todo'[2] /\ n = 0
  OBVIOUS
<1>11. z \in {"mark", "refreshSet"}
  BY <1>8, <1>9, <1>10 DEF Commits
<1>12. z \in Plain /\ z # "unlink" /\ Room("length") + n <= 17 /\ n \in Nat
  BY <1>10, <1>11 DEF Plain, Steps, BlockFamily, WriteFamily, AllocFamily, Room, Ops
<1>13. Onto("commit") /\ ~Evicting(todo') /\ Calm(n) /\ cur'.b \in Linked(mem)
  BY <1>0, <1>2, <1>4, <1>7, <1>8, <1>9, <1>10
<1>14. ControlInv' /\ DataInv' /\ AllocInv'
  BY <1>0, <1>10, <1>12, <1>13, CalmCommit
<1> QED BY <1>5, <1>14 DEF StepOK

LEMMA WriteStepOK == ASSUME MapInv, Write PROVE StepOK
<1>0. todo' = Rest /\ UNCHANGED <<cur, mode, crashes, free, avail, missed>>
  BY DEF Write, Aside
<1>1. cur \in Locals
  BY DEF MapInv, ControlInv
<1>2. cur.only \in {0, 1} /\ 1 - cur.only \in {0, 1}
  <2>1. cur.only \in {0, 1}
    BY <1>1 DEF Locals
  <2> QED BY <2>1
<1>3. ASSUME At("flags"),
             Log(IF cur.only = 1
                 THEN When(B("dirty", cur.b) = 1, Dec("dirtyCount", NULL))
                      \o When(B("onlyKey", cur.b) = 0, Inc("onlyKeyCount", NULL))
                 ELSE When(B("dirty", cur.b) = 0, Inc("dirtyCount", NULL))
                      \o When(B("onlyKey", cur.b) = 1, Dec("onlyKeyCount", NULL)))
      PROVE  StepOK
  <2>1. Typed(mem)
    BY DEF MapInv, DataInv
  <2>2. PICK c, d, e, f : /\ c = (B("dirty", cur.b) = 1) /\ d = (B("onlyKey", cur.b) = 0)
                          /\ e = (B("dirty", cur.b) = 0) /\ f = (B("onlyKey", cur.b) = 1)
    OBVIOUS
  <2>3. PICK u, v : /\ u = When(c, Dec("dirtyCount", NULL)) \o When(d, Inc("onlyKeyCount", NULL))
                    /\ v = When(e, Inc("dirtyCount", NULL)) \o When(f, Dec("onlyKeyCount", NULL))
    OBVIOUS
  <2>4. Fits(u, Drifting, 2) /\ Fits(v, Drifting, 2)
    <3>1. c \in BOOLEAN /\ d \in BOOLEAN /\ e \in BOOLEAN /\ f \in BOOLEAN
      BY <2>2
    <3> QED BY <2>1, <2>3, <3>1, FlagsFit
  <2>5. PICK es : es = IF cur.only = 1 THEN u ELSE v
    OBVIOUS
  <2>6. Fits(es, Drifting, 2)
    BY <2>4, <2>5
  <2>7. Log(es)
    BY <1>3, <2>2, <2>3, <2>5
  <2> QED BY <1>0, <1>3, <2>6, <2>7, FlagsStep
<1>4. CASE At("dirty") /\ Store(Up("dirty", cur.b, 1 - cur.only))
  BY <1>0, <1>2, <1>4, WriteFlagStep
<1>5. CASE At("only") /\ Store(Up("onlyKey", cur.b, cur.only))
  BY <1>0, <1>2, <1>5, WriteFlagStep
<1>6. CASE At("copy") /\ \E v \in {0, B("val", cur.b)} : Store(Up("val", cur.b, v))
  <2>1. PICK v \in {0, B("val", cur.b)} : Store(Up("val", cur.b, v))
    BY <1>6
  <2>2. "copy" \notin Waiting /\ "copy" \in WriteFamily
    BY DEF Waiting, WriteFamily
  <2>3. cur.b \in Blocks /\ Typed(mem)
    BY <1>6, <2>2, ReadyAt, CalmFacts DEF Ready
  <2>4. PICK a : a = <<"val", cur.b>>
    OBVIOUS
  <2>5. a \in HashAddr /\ a[1] = "val" /\ Kind("val") = {0, 1}
    BY <2>3, <2>4, FlagWord
  <2>6. mem[a] \in {0, 1}
    BY <2>3, <2>5 DEF Typed
  <2>7. v \in {0, 1}
    BY <2>4, <2>6 DEF B
  <2> QED BY <1>0, <1>6, <2>1, <2>7, WriteFlagStep
<1>7. CASE At("length") /\ Store(Up("key", cur.b, cur.k) \o Up("val", cur.b, 1 - cur.only))
  BY <1>0, <1>7, LengthStep
<1> QED BY <1>3, <1>4, <1>5, <1>6, <1>7 DEF Write

LEMMA GotoCommit ==
  ASSUME MapInv, NEW x, At(x), x \notin Waiting, x # "return", x \notin EraseFamily, Goto(<<"commit">>),
         cur' \in Locals, cur'.k = cur.k, Keeps, Running, Follows("commit", Rest[1]),
         Rest[1] = "commit" => Rest[2] = "return"
  PROVE  Onto("commit") /\ todo'[2] = Rest[1] /\ ~Evicting(todo')
<1>1. PICK t, c, k : t = Rest /\ c = "commit" /\ k = cur.k
  OBVIOUS
<1>2. Shape(t, k) /\ t # <<>> /\ ~Evicting(t)
  BY <1>1, RestBegins DEF Begins
<1>3. c \in Steps /\ c \notin Keyed /\ c # "evict"
  BY <1>1, StepNames DEF EraseFamily
<1>4. Follows(c, t[1]) /\ (t[1] = "commit" => Commits(c, t[2]))
  BY <1>1 DEF Commits
<1>5. Shape(<<c>> \o t, k) /\ <<c>> \o t # <<>> /\ (<<c>> \o t)[1] = c /\ (<<c>> \o t)[2] = t[1]
  BY <1>2, <1>3, <1>4, ShapeCons
<1>6. Evicting(<<c>> \o t) => c = "evict" \/ Evicting(t)
  BY <1>2, <1>3, <1>4, ShapeCons
<1>7. todo' = <<c>> \o t
  BY <1>1 DEF Goto
<1>8. Shape(todo', cur'.k) /\ todo' # <<>> /\ todo'[1] = "commit" /\ todo'[2] = Rest[1] /\ ~Evicting(todo')
  BY <1>1, <1>2, <1>3, <1>5, <1>6, <1>7
<1> QED BY <1>8 DEF Onto, Keeps, Running

LEMMA DirtyAhead ==
  ASSUME MapInv, NEW x, At(x), x \notin Waiting, NEW n, NEW es, Fits(es, Drifting \union {"dirty"}, n)
  PROVE  Good(Over(Ahead, es)) /\ Linked(Over(Ahead, es)) = Linked(mem)
<1>1. Same(mem, Ahead, MapFields)
  BY AheadSame
<1>2. Same(Ahead, Over(Ahead, es), MapFields)
  <2>1. (Drifting \union {"dirty"}) \intersect MapFields = {}
    BY FieldNames DEF MapFields, HeadLinks, BlockLinks
  <2> QED BY <2>1, OverSame DEF Fits
<1>3. Same(mem, Over(Ahead, es), MapFields)
  BY <1>1, <1>2, SameTrans
<1> QED BY <1>3, CalmFacts, GoodSame

LEMMA MarkStep == ASSUME MapInv, Mark PROVE StepOK
<1>0. At("mark") /\ "mark" \notin Waiting /\ "mark" \notin EraseFamily /\ "mark" \in BlockFamily
  BY DEF Mark, Waiting, EraseFamily, BlockFamily
<1>1. cur' = cur /\ Keeps /\ free' = free /\ avail' = avail /\ missed' = missed /\ mode' = mode /\ crashes' = crashes
  BY AsideFacts DEF Mark, Keeps
<1>2. Typed(mem) /\ cur \in Locals /\ Linked(mem) \subseteq Blocks
  BY <1>0, CalmFacts
<1>3. cur.b \in Linked(mem)
  BY <1>0, ReadyAt DEF Ready
<1>4. Follows("mark", Rest[1])
  BY <1>0, RestBegins
<1>5. PICK z : z = Rest[1]
  OBVIOUS
<1>6. z \in {"refreshSet", "afterSync"}
  BY <1>4, <1>5 DEF Follows, Ops
<1>7. z \in Plain /\ z # "unlink" /\ z \notin Waiting /\ z # "count" /\ Room(z) = 2 /\ Room("mark") = 2
  BY <1>6 DEF Plain, Steps, BlockFamily, WriteFamily, AllocFamily, Waiting, Room, Ops
<1>8. CASE B("dirty", cur.b) # cur.dirty
  <2>1. PICK es : es = setDirtyLog(cur.b, cur.dirty)
    OBVIOUS
  <2>2. update(es) /\ Goto(<<"commit">>)
    BY <1>8, <2>1 DEF Mark
  <2>3. Fits(es, Drifting \union {"dirty"}, 2)
    <3>1. cur.dirty \in {0, 1} /\ cur.b \in Blocks
      BY <1>2, <1>3 DEF Locals
    <3> QED BY <1>2, <2>1, <3>1, SetDirtyFits
  <2>4. Good(Over(Ahead, es)) /\ Linked(Over(Ahead, es)) = Linked(mem)
    BY <1>0, <2>3, DirtyAhead
  <2>5. Room("mark") + 2 <= 17
    BY <1>7
  <2>6. Running
    BY <1>0, <2>2, <2>3, <2>5, LoggedStep
  <2>7. Follows("commit", Rest[1]) /\ Rest[1] # "commit"
    BY <1>5, <1>6 DEF Follows
  <2>8. Onto("commit") /\ todo'[2] = Rest[1] /\ ~Evicting(todo')
    BY <1>0, <1>1, <1>2, <2>2, <2>6, <2>7, GotoCommit
  <2>9. z = todo'[2] /\ cur'.b \in Linked(mem)
    BY <1>1, <1>3, <1>5, <2>8
  <2> QED BY <1>0, <1>1, <1>7, <2>2, <2>3, <2>4, <2>5, <2>8, <2>9, MoveCommit
<1>9. CASE ~(B("dirty", cur.b) # cur.dirty)
  <2>1. NoStore /\ todo' = Rest
    BY <1>9 DEF Mark
  <2>2. Calm(0) /\ LogStep /\ Running
    BY <1>0, <2>1, NoStoreCalm DEF Calm
  <2>3. Onto(todo'[1]) /\ (Evicting(todo') => "mark" \in EraseFamily)
    <3>1. Turns
      BY <1>1, <1>2, <2>1 DEF Turns
    <3> QED BY <1>0, <1>1, <2>2, <3>1, GoesOn
  <2>4. PICK n : n = 0
    OBVIOUS
  <2>5. Onto(z) /\ ~Evicting(todo') /\ cur'.b \in Linked(mem) /\ Calm(n) /\ n \in Nat /\ Room("mark") + n <= Room(z)
    BY <1>0, <1>1, <1>3, <1>5, <1>7, <2>1, <2>2, <2>3, <2>4
  <2>6. ControlInv' /\ DataInv' /\ AllocInv'
    BY <1>0, <1>1, <1>7, <2>5, CalmLands
  <2> QED BY <2>2, <2>6 DEF StepOK
<1> QED BY <1>8, <1>9

LEMMA RefreshSetStep ==
  ASSUME MapInv, At("refreshSet"), Log(refreshSetLog(cur.b)), todo' = Rest, UNCHANGED cur, Aside
  PROVE  StepOK
<1>0. "refreshSet" \notin Waiting /\ "refreshSet" \notin EraseFamily /\ "refreshSet" \in BlockFamily
  BY DEF Waiting, EraseFamily, BlockFamily
<1>1. Keeps /\ free' = free /\ avail' = avail
  BY AsideFacts
<1>2. Good(mem) /\ cur \in Locals
  BY <1>0, CalmFacts
<1>3. cur.b \in Linked(mem)
  BY <1>0, ReadyAt DEF Ready
<1>4. Follows("refreshSet", Rest[1]) /\ (Rest[1] = "commit" => Commits("refreshSet", Rest[2]))
  BY <1>0, RestBegins
<1>5. Rest[1] = "commit"
  BY <1>4 DEF Follows, Ops
<1>6. PICK z : z = Rest[2]
  OBVIOUS
<1>7. z = "refreshGet"
  BY <1>4, <1>5, <1>6 DEF Commits
<1>8. z \in Plain /\ z # "unlink"
  BY <1>7 DEF Plain, Steps, BlockFamily, WriteFamily, AllocFamily
<1>9. Turns
  BY <1>2 DEF Turns
<1>10. PICK es : es = refreshSetLog(cur.b)
  OBVIOUS
<1>11. Same(mem, Ahead, MapFields)
  BY <1>0, AheadSame
<1>12. Fits(es, LogFields, 8) /\ Good(Over(Ahead, es)) /\ Linked(Over(Ahead, es)) = Linked(mem)
  BY <1>2, <1>3, <1>10, <1>11, RefreshSetEffect
<1>13. Room("refreshSet") + 8 <= 17 /\ Room("refreshSet") + 0 <= 17
  BY DEF Room, Ops
<1>14. ASSUME Running PROVE Onto("commit") /\ ~Evicting(todo') /\ z = todo'[2] /\ cur'.b \in Linked(mem)
  <2>1. Onto(todo'[1]) /\ (Evicting(todo') => "refreshSet" \in EraseFamily)
    BY <1>0, <1>1, <1>9, <1>14, GoesOn
  <2> QED BY <1>0, <1>3, <1>5, <1>6, <2>1
<1>15. CASE es # <<>>
  <2>1. update(es)
    BY <1>10, <1>15 DEF Log
  <2>2. Running
    BY <1>0, <1>12, <1>13, <2>1, LoggedStep
  <2>3. Onto("commit") /\ ~Evicting(todo') /\ z = todo'[2] /\ cur'.b \in Linked(mem)
    BY <1>14, <2>2
  <2> QED BY <1>0, <1>1, <1>8, <1>12, <1>13, <2>1, <2>3, MoveCommit
<1>16. CASE es = <<>>
  <2>1. NoStore
    BY <1>10, <1>16 DEF Log
  <2>2. PICK n : n = 0
    OBVIOUS
  <2>3. Calm(n) /\ LogStep /\ Running /\ n \in Nat /\ Room("refreshSet") + n <= 17
    BY <1>0, <1>13, <2>1, <2>2, NoStoreCalm DEF Calm
  <2>4. Onto("commit") /\ ~Evicting(todo') /\ z = todo'[2] /\ cur'.b \in Linked(mem)
    BY <1>14, <2>3
  <2>5. ControlInv' /\ DataInv' /\ AllocInv'
    BY <1>0, <1>1, <1>8, <2>3, <2>4, CalmCommit
  <2> QED BY <2>3, <2>5 DEF StepOK
<1> QED BY <1>15, <1>16

LEMMA RefreshGetStep ==
  ASSUME MapInv, At("refreshGet"), UNCHANGED cur, Aside,
         IF H("getHead") = cur.b THEN NoStore /\ todo' = Rest
         ELSE update(refreshGetLog(cur.b)) /\ Goto(<<"commit">>)
  PROVE  StepOK
<1>0. "refreshGet" \notin Waiting /\ "refreshGet" \notin EraseFamily /\ "refreshGet" \in BlockFamily
  BY DEF Waiting, EraseFamily, BlockFamily
<1>1. Keeps /\ free' = free /\ avail' = avail
  BY AsideFacts
<1>2. Good(mem) /\ cur \in Locals /\ cur' = cur
  BY <1>0, CalmFacts
<1>3. cur.b \in Linked(mem)
  BY <1>0, ReadyAt DEF Ready
<1>4. Follows("refreshGet", Rest[1]) /\ (Rest[1] = "commit" => Commits("refreshGet", Rest[2]))
  BY <1>0, RestBegins
<1>5. Rest[1] \in {"return", "commit"} /\ (Rest[1] = "commit" => Rest[2] = "return")
  BY <1>4 DEF Follows, Ops, Commits
<1>6. \A z \in {"return", "commit"} : z \in Plain /\ z # "unlink" /\ z \notin BlockFamily /\ z # "count"
  BY DEF Plain, Steps, EraseFamily, BlockFamily, WriteFamily, AllocFamily
<1>7. CASE H("getHead") = cur.b
  <2>1. NoStore /\ todo' = Rest
    BY <1>7
  <2>2. PICK n, y, z : n = 0 /\ y = todo'[1] /\ z = todo'[2]
    OBVIOUS
  <2>3. Calm(n) /\ LogStep /\ Running /\ n \in Nat
    BY <1>0, <2>1, <2>2, NoStoreCalm DEF Calm
  <2>4. Onto(y) /\ ~Evicting(todo')
    <3>1. Turns
      BY <1>2, <2>1 DEF Turns
    <3> QED BY <1>0, <1>1, <2>2, <2>3, <3>1, GoesOn
  <2>5. CASE y = "return"
    <3>1. y \in Plain /\ y \notin {"unlink"} \union BlockFamily /\ y # "count" /\ y \notin Waiting /\ Room("refreshGet") + n <= Room(y)
      BY <1>6, <2>2, <2>5 DEF Waiting, Room, Ops
    <3>2. ControlInv' /\ DataInv' /\ AllocInv'
      BY <1>0, <1>1, <2>3, <2>4, <3>1, CalmLands
    <3> QED BY <2>3, <3>2 DEF StepOK
  <2>6. CASE y = "commit"
    <3>1. z = "return"
      BY <1>5, <2>1, <2>2, <2>6
    <3>2. z \in Plain /\ z # "unlink" /\ z \notin BlockFamily /\ Onto("commit") /\ Room("refreshGet") + n <= 17
      BY <1>6, <2>2, <2>4, <2>6, <3>1 DEF Room, Ops
    <3>3. ControlInv' /\ DataInv' /\ AllocInv'
      BY <1>0, <1>1, <2>2, <2>3, <2>4, <3>2, CalmCommit
    <3> QED BY <2>3, <3>3 DEF StepOK
  <2> QED BY <1>5, <2>1, <2>2, <2>5, <2>6
<1>8. CASE H("getHead") # cur.b
  <2>1. PICK es : es = refreshGetLog(cur.b)
    OBVIOUS
  <2>2. update(es) /\ Goto(<<"commit">>)
    BY <1>8, <2>1
  <2>3. Fits(es, LogFields, 8) /\ Good(Over(Ahead, es)) /\ Linked(Over(Ahead, es)) = Linked(mem)
    <3>1. Same(mem, Ahead, MapFields) /\ mem[<<"getHead", NULL>>] # cur.b
      BY <1>0, <1>8, AheadSame DEF H
    <3> QED BY <1>2, <1>3, <2>1, <3>1, RefreshGetEffect
  <2>4. Room("refreshGet") + 8 <= 17
    BY DEF Room, Ops
  <2>5. Running
    BY <1>0, <2>2, <2>3, <2>4, LoggedStep
  <2>6. Follows("commit", Rest[1])
    BY <1>5 DEF Follows
  <2>7. Onto("commit") /\ todo'[2] = Rest[1] /\ ~Evicting(todo')
    BY <1>0, <1>1, <1>2, <1>5, <2>2, <2>5, <2>6, GotoCommit
  <2>8. PICK z : z = todo'[2]
    OBVIOUS
  <2>9. z \in Plain /\ z # "unlink" /\ z \notin BlockFamily
    BY <1>5, <1>6, <2>7, <2>8
  <2> QED BY <1>0, <1>1, <2>2, <2>3, <2>4, <2>7, <2>8, <2>9, MoveCommit
<1> QED BY <1>7, <1>8

LEMMA RefreshStep == ASSUME MapInv, Refresh PROVE StepOK
<1>0. UNCHANGED cur /\ Aside
  BY DEF Refresh
<1>1. CASE At("refreshSet") /\ Log(refreshSetLog(cur.b)) /\ todo' = Rest
  BY <1>0, <1>1, RefreshSetStep
<1>2. CASE At("refreshGet") /\ IF H("getHead") = cur.b THEN NoStore /\ todo' = Rest
                               ELSE update(refreshGetLog(cur.b)) /\ Goto(<<"commit">>)
  BY <1>0, <1>2, RefreshGetStep
<1> QED BY <1>1, <1>2 DEF Refresh

-----------------------------------------------------------------------------
(* The operations on one key *)

(* The steps that may be an operation's last. *)
Enders == Ops \union {"afterSync", "toFront", "syncOne", "pastDirty", "handed"}

LEMMA BehindLast ==
  ASSUME MapInv, NEW x \in Enders, At(x)
  PROVE  /\ x \notin Waiting /\ x # "return" /\ x \notin EraseFamily /\ Room(x) \in 0..2 /\ (x \in Ops => Room(x) = 0)
         /\ Begins(Rest, cur.k, "return", FALSE) /\ Rest \in Seq(Steps) /\ Rest[1] = "return"
<1>1. x \notin Waiting /\ x # "return" /\ x \notin EraseFamily
  BY DEF Enders, Ops, Waiting, EraseFamily
<1>2. Room(x) \in 0..2 /\ (x \in Ops => Room(x) = 0)
  BY DEF Enders, Ops, Room
<1>3. PICK e : e = (Evicting(todo) /\ x \in EraseFamily)
  OBVIOUS
<1>4. Begins(Rest, cur.k, Rest[1], e) /\ Follows(x, Rest[1])
  BY <1>1, <1>3, RestBegins
<1>5. Rest[1] = "return"
  BY <1>4 DEF Follows, Enders, Ops
<1>6. Begins(Rest, cur.k, "return", FALSE) /\ Rest \in Seq(Steps)
  BY <1>1, <1>3, <1>4, <1>5 DEF Begins
<1> QED BY <1>1, <1>2, <1>5, <1>6

LEMMA PlainLands ==
  ASSUME MapInv, NEW x, At(x), x \notin Waiting, NEW n \in Nat, Calm(n), NEW y \in Plain, y \notin Waiting, y # "count",
         NEW e, Begins(todo', cur'.k, y, e), cur' \in Locals, Keeps, UNCHANGED <<free, avail>>,
         Room(x) + n <= Room(y), y \in {"unlink"} \union BlockFamily => cur'.b \in Linked(mem),
         e => NotThere(mem', cur'.k)
  PROVE  ControlInv' /\ DataInv' /\ AllocInv'
<1>1. Onto(y)
  BY BeginsOnto DEF Calm
<1>2. Evicting(todo') => NotThere(mem', cur'.k)
  BY DEF Begins
<1> QED BY <1>1, <1>2, CalmLands

(* The operation has nothing more to do. *)
LEMMA EndsWith ==
  ASSUME MapInv, NEW x \in Enders, At(x), NEW n \in Nat, Calm(n), Room(x) + n <= 2, todo' = Rest,
         cur' \in Locals, cur'.k = cur.k, Keeps, UNCHANGED <<free, avail>>
  PROVE  ControlInv' /\ DataInv' /\ AllocInv'
<1>1. x \notin Waiting /\ Begins(Rest, cur.k, "return", FALSE)
  BY BehindLast
<1>2. PICK y, e : y = "return" /\ e = FALSE
  OBVIOUS
<1>3. Begins(todo', cur'.k, y, e) /\ ~e
  BY <1>1, <1>2
<1>4. y \in Plain /\ y \notin Waiting /\ y # "count" /\ Room(y) = 2 /\ y \notin {"unlink"} \union BlockFamily
  BY <1>2 DEF Plain, Steps, EraseFamily, WriteFamily, AllocFamily, BlockFamily, Waiting, Room, Ops
<1> QED BY <1>1, <1>3, <1>4, PlainLands

LEMMA LookupFits ==
  ASSUME NEW c \in BOOLEAN
  PROVE  Fits(incGetCount \o When(c, incHitCount), Drifting, 2)
<1>1. "getCount" \in HeadCounts /\ "hitCount" \in HeadCounts /\ "getCount" \in Drifting /\ "hitCount" \in Drifting
  BY DEF HeadCounts, Drifting
<1>2. Kind("getCount") = 0..MaxCount /\ Kind("hitCount") = 0..MaxCount /\ 0 \in 0..MaxCount
  BY MapAssumption DEF Kind, HeadCounts, HeadLinks, BlockLinks
<1>3. Fits(incGetCount, Drifting, 1) /\ Fits(incHitCount, Drifting, 1)
  BY <1>1, <1>2, HeadWord, FitsUp DEF incGetCount, incHitCount
<1>4. Fits(When(c, incHitCount), Drifting, 1)
  BY <1>3, FitsWhen
<1> QED BY <1>3, <1>4, FitsTwo

LEMMA LookupQuiet ==
  ASSUME MapInv, NEW x \in Ops, At(x), NEW c \in BOOLEAN, update(incGetCount \o When(c, incHitCount))
  PROVE  Quiet(2) /\ Calm(2) /\ LogStep
<1>1. x \notin Waiting
  BY DEF Ops, Waiting
<1>2. PICK n, es : n = 2 /\ es = incGetCount \o When(c, incHitCount)
  OBVIOUS
<1>3. Fits(es, Drifting, n) /\ n \in Nat /\ update(es)
  BY <1>2, LookupFits
<1>4. Quiet(n) /\ LogStep
  BY <1>1, <1>3, UpdateQuiet
<1>5. Calm(n)
  BY <1>1, <1>4, QuietCalm
<1> QED BY <1>2, <1>4, <1>5

(* The log of the operation is finished, then it is over. *)
LEMMA CommitEnds ==
  ASSUME MapInv, NEW x \in Enders, At(x), NEW F, NEW n \in Nat, NEW es, Fits(es, F, n), n <= 15, update(es),
         Goto(<<"commit">>), cur' \in Locals, cur'.k = cur.k, Keeps, UNCHANGED <<free, avail>>,
         Good(Over(Ahead, es)), Linked(Over(Ahead, es)) = Linked(mem)
  PROVE  StepOK
<1>1. x \notin Waiting /\ x # "return" /\ x \notin EraseFamily /\ Room(x) \in 0..2 /\ Rest[1] = "return"
  BY BehindLast
<1>2. Room(x) + n <= 17
  BY <1>1
<1>3. Running
  BY <1>1, <1>2, LoggedStep
<1>4. Follows("commit", Rest[1]) /\ Rest[1] # "commit"
  BY <1>1 DEF Follows
<1>5. Onto("commit") /\ todo'[2] = Rest[1] /\ ~Evicting(todo')
  BY <1>1, <1>3, <1>4, GotoCommit
<1>6. PICK z : z = todo'[2]
  OBVIOUS
<1>7. z \in Plain /\ z # "unlink" /\ z \notin BlockFamily
  <2>1. z = "return"
    BY <1>1, <1>5, <1>6
  <2> QED BY <2>1 DEF Plain, Steps, WriteFamily, AllocFamily, BlockFamily
<1> QED BY <1>1, <1>2, <1>5, <1>6, <1>7, MoveCommit

LEMMA GetStep == ASSUME MapInv, get PROVE StepOK
<1>1. PICK x, b : x = "get" /\ b = find(cur.k, TRUE)
  OBVIOUS
<1>2. PICK c \in BOOLEAN : c = (b # NULL)
  OBVIOUS
<1>3. x \in Ops /\ x \in Enders /\ x \in Keyed /\ At(x)
  BY <1>1 DEF Ops, Enders, Keyed, KeyOps, get
<1>4. cur' = cur /\ Keeps /\ free' = free /\ avail' = avail
  BY AsideFacts DEF get
<1>5. /\ x \notin Waiting /\ x # "return" /\ x \notin EraseFamily /\ Room(x) = 0
      /\ Begins(Rest, cur.k, "return", FALSE) /\ Rest \in Seq(Steps) /\ Rest[1] = "return"
  BY <1>3, BehindLast
<1>6. cur \in Locals /\ Good(mem) /\ cur.k \in Keys
  BY <1>3, <1>5, CalmFacts, KeyedAt
<1>7. PICK ab : ab = incGetCount \o When(c, incHitCount)
  OBVIOUS
<1>8. Fits(ab, Drifting, 2)
  BY <1>7, LookupFits
<1>9. CASE b # NULL /\ B("onlyKey", b) = 0 /\ H("getHead") # b
  <2>1. PICK u, es : u = refreshGetLog(b) /\ es = ab \o u
    OBVIOUS
  <2>2. update(es) /\ Goto(<<"commit">>)
    BY <1>1, <1>2, <1>7, <1>9, <2>1 DEF get
  <2>3. b \in Linked(mem)
    BY <1>1, <1>6, <1>9, FindWhole DEF Holds
  <2>4. PICK m : m = Over(Ahead, ab)
    OBVIOUS
  <2>5. Same(mem, m, MapFields)
    <3>1. Drifting \intersect MapFields = {}
      BY FieldNames DEF MapFields, HeadLinks, BlockLinks, Drifting
    <3>2. Same(Ahead, m, MapFields)
      BY <1>8, <2>4, <3>1, OverSame DEF Fits
    <3> QED BY <1>3, <1>5, <3>2, AheadSame, SameTrans
  <2>6. Fits(u, LogFields, 8) /\ Good(Over(m, u)) /\ Linked(Over(m, u)) = Linked(mem)
    BY <1>6, <1>9, <2>1, <2>3, <2>5, RefreshGetEffect DEF H
  <2>7. Over(Ahead, es) = Over(m, u)
    <3>1. ab \in Seq(Entries) /\ u \in Seq(Entries)
      BY <1>8, <2>6, FitsSeq
    <3> QED BY <2>1, <2>4, <3>1, OverCat
  <2>8. Good(Over(Ahead, es)) /\ Linked(Over(Ahead, es)) = Linked(mem)
    BY <2>6, <2>7
  <2>9. PICK n : n = 10
    OBVIOUS
  <2>10. Fits(es, LogFields, n) /\ n \in Nat /\ n <= 15
    <3>1. Drifting \subseteq LogFields
      BY DEF Drifting, LogFields
    <3>2. Fits(ab, LogFields, 2)
      BY <1>8, <3>1, FitsMore
    <3>3. Fits(ab \o u, LogFields, 2 + 8)
      BY <2>6, <3>2, FitsCat
    <3> QED BY <2>1, <2>9, <3>3
  <2>11. cur' \in Locals /\ cur'.k = cur.k
    BY <1>4, <1>6
  <2> QED BY <1>3, <1>4, <2>2, <2>8, <2>10, <2>11, CommitEnds
<1>10. CASE ~(b # NULL /\ B("onlyKey", b) = 0 /\ H("getHead") # b)
  <2>1. update(ab \o <<>>) /\ Goto(<<>>)
    BY <1>1, <1>2, <1>7, <1>10 DEF get
  <2>2. ab \o <<>> = ab
    <3>1. ab \in Seq(Entries)
      BY <1>8, FitsSeq
    <3> QED BY <3>1, ConcatEmptySeq
  <2>3. update(incGetCount \o When(c, incHitCount))
    BY <1>7, <2>1, <2>2
  <2>4. Calm(2) /\ LogStep
    BY <1>3, <2>3, LookupQuiet
  <2>5. todo' = Rest
    BY <1>3, <1>5, <2>1, GotoRest
  <2>6. PICK n : n = 2
    OBVIOUS
  <2>7. n \in Nat /\ Calm(n) /\ Room(x) + n <= 2 /\ cur' \in Locals /\ cur'.k = cur.k
    BY <1>4, <1>5, <1>6, <2>4, <2>6
  <2>8. ControlInv' /\ DataInv' /\ AllocInv'
    BY <1>3, <1>4, <2>5, <2>7, EndsWith
  <2> QED BY <2>4, <2>8 DEF StepOK
<1> QED BY <1>9, <1>10

LEMMA LookupFacts ==
  ASSUME MapInv, NEW x \in Ops, At(x), x \in Keyed, Aside
  PROVE  /\ x \notin Waiting /\ x # "return" /\ x \in Enders /\ Room(x) = 0 /\ Keeps /\ free' = free /\ avail' = avail
         /\ Begins(Rest, cur.k, "return", FALSE) /\ Rest \in Seq(Steps)
         /\ cur \in Locals /\ Good(mem) /\ cur.k \in Keys /\ Linked(mem) \intersect Elems(free) = {}
<1>1. x \in Enders
  BY DEF Enders
<1>2. x \notin Waiting /\ x # "return" /\ Room(x) = 0 /\ Begins(Rest, cur.k, "return", FALSE) /\ Rest \in Seq(Steps)
  BY <1>1, BehindLast
<1>3. Keeps /\ free' = free /\ avail' = avail
  BY AsideFacts
<1> QED BY <1>1, <1>2, <1>3, CalmFacts, KeyedAt DEF Sound

LEMMA DelStep == ASSUME MapInv, del PROVE StepOK
<1>1. PICK x, b : x = "del" /\ b = find(cur.k, TRUE)
  OBVIOUS
<1>2. PICK c \in BOOLEAN : c = (b # NULL)
  OBVIOUS
<1>3. x \in Ops /\ x \in Keyed /\ At(x) /\ Aside
  BY <1>1 DEF Ops, Keyed, KeyOps, del
<1>4. /\ x \notin Waiting /\ x # "return" /\ x \in Enders /\ Room(x) = 0 /\ Keeps /\ free' = free /\ avail' = avail
      /\ Begins(Rest, cur.k, "return", FALSE) /\ Rest \in Seq(Steps)
      /\ cur \in Locals /\ Good(mem) /\ cur.k \in Keys
  BY <1>3, LookupFacts
<1>5. Quiet(2) /\ Calm(2) /\ LogStep
  <2>1. update(incGetCount \o When(c, incHitCount))
    BY <1>1, <1>2 DEF del
  <2> QED BY <1>3, <2>1, LookupQuiet
<1>6. b = NULL \/ Holds(mem, cur.k, b)
  BY <1>1, <1>4, FindWhole
<1>7. b \in Blocks \union {NULL}
  BY <1>4, <1>6, FoundIn
<1>8. On(b) /\ Goto(IF b = NULL THEN <<>> ELSE EraseSteps)
  BY <1>1 DEF del
<1>9. cur' \in Locals /\ cur'.k = cur.k /\ cur'.b = b
  BY <1>4, <1>7, <1>8, OnFacts
<1>10. PICK n : n = 2
  OBVIOUS
<1>11. n \in Nat /\ Calm(n) /\ Room(x) + n <= 2
  BY <1>4, <1>5, <1>10
<1>12. CASE b = NULL
  <2>1. todo' = Rest
    <3>1. Goto(<<>>)
      BY <1>8, <1>12
    <3> QED BY <1>3, <1>4, <3>1, GotoRest
  <2>2. ControlInv' /\ DataInv' /\ AllocInv'
    BY <1>3, <1>4, <1>9, <1>11, <2>1, EndsWith
  <2> QED BY <1>5, <2>2 DEF StepOK
<1>13. CASE b # NULL
  <2>1. PICK y, e, z, r, k : y = "unlink" /\ e = FALSE /\ z = "return" /\ r = Rest /\ k = cur.k
    OBVIOUS
  <2>2. Begins(r, k, z, e) /\ z \in {"evict", "recover", "return"}
    BY <1>4, <2>1
  <2>3. Begins(EraseSteps \o r, k, "unlink", e)
    BY <2>2, EraseBegins
  <2>4. todo' = EraseSteps \o r
    BY <1>8, <1>13, <2>1 DEF Goto
  <2>5. Begins(todo', cur'.k, y, e) /\ ~e
    BY <1>9, <2>1, <2>3, <2>4
  <2>6. y \in Plain /\ y \notin Waiting /\ y # "count" /\ Room(y) = 2
    BY <2>1 DEF Plain, Steps, EraseFamily, WriteFamily, AllocFamily, Waiting, Room, Ops
  <2>7. cur'.b \in Linked(mem) /\ Room(x) + n <= Room(y)
    BY <1>6, <1>9, <1>11, <1>13, <2>6 DEF Holds
  <2>8. ControlInv' /\ DataInv' /\ AllocInv'
    BY <1>3, <1>4, <1>9, <1>11, <2>5, <2>6, <2>7, PlainLands
  <2> QED BY <1>5, <2>8 DEF StepOK
<1> QED BY <1>12, <1>13

LEMMA FlagStep ==
  ASSUME MapInv, NEW op \in Ops, op \in Keyed, NEW d \in {0, 1}, NEW steps, Flag(op, d, steps),
         NEW y \in {"mark", "return"}, Begins(steps \o Rest, cur.k, y, FALSE)
  PROVE  StepOK
<1>1. PICK b : b = find(cur.k, FALSE)
  OBVIOUS
<1>2. PICK c \in BOOLEAN : c = (b # NULL)
  OBVIOUS
<1>3. At(op) /\ Aside
  BY DEF Flag
<1>4. /\ op \notin Waiting /\ op # "return" /\ op \in Enders /\ Room(op) = 0 /\ Keeps /\ free' = free /\ avail' = avail
      /\ cur \in Locals /\ Good(mem) /\ cur.k \in Keys
  BY <1>3, LookupFacts
<1>5. Calm(2) /\ LogStep
  <2>1. update(incGetCount \o When(c, incHitCount))
    BY <1>1, <1>2 DEF Flag
  <2> QED BY <1>3, <2>1, LookupQuiet
<1>6. b = NULL \/ Holds(mem, cur.k, b)
  BY <1>1, <1>4, FindKey
<1>7. b \in Blocks \union {NULL}
  BY <1>4, <1>6, FoundIn
<1>8. cur' \in Locals /\ cur'.k = cur.k /\ cur'.b = b
  <2>1. cur' = [cur EXCEPT !.b = b, !.dirty = d]
    BY <1>1 DEF Flag
  <2> QED BY <1>4, <1>7, <2>1 DEF Locals
<1>9. PICK n : n = 2
  OBVIOUS
<1>10. n \in Nat /\ Calm(n) /\ Room(op) + n <= 2
  BY <1>4, <1>5, <1>9
<1>11. CASE b # NULL /\ B("onlyKey", b) = 0
  <2>1. todo' = steps \o Rest
    BY <1>1, <1>11 DEF Flag, Goto
  <2>2. PICK e : e = FALSE
    OBVIOUS
  <2>3. Begins(todo', cur'.k, y, e) /\ ~e
    BY <1>8, <2>1, <2>2
  <2>4. y \in Plain /\ y \notin Waiting /\ y # "count" /\ Room(y) = 2
    BY DEF Plain, Steps, EraseFamily, BlockFamily, WriteFamily, AllocFamily, Waiting, Room, Ops
  <2>5. cur'.b \in Linked(mem) /\ Room(op) + n <= Room(y)
    BY <1>6, <1>8, <1>10, <1>11, <2>4 DEF Holds
  <2>6. ControlInv' /\ DataInv' /\ AllocInv'
    BY <1>3, <1>4, <1>8, <1>10, <2>3, <2>4, <2>5, PlainLands
  <2> QED BY <1>5, <2>6 DEF StepOK
<1>12. CASE ~(b # NULL /\ B("onlyKey", b) = 0)
  <2>1. todo' = Rest
    <3>1. Goto(<<>>)
      BY <1>1, <1>12 DEF Flag
    <3> QED BY <1>3, <1>4, <3>1, GotoRest
  <2>2. ControlInv' /\ DataInv' /\ AllocInv'
    BY <1>3, <1>4, <1>8, <1>10, <2>1, EndsWith
  <2> QED BY <1>5, <2>2 DEF StepOK
<1> QED BY <1>11, <1>12

LEMMA MarkBegins ==
  ASSUME NEW t, NEW k, NEW y \in {"refreshSet", "afterSync"}, Begins(t, k, y, FALSE)
  PROVE  Begins(<<"mark">> \o t, k, "mark", FALSE)
<1>1. PICK x, e : x = "mark" /\ e = FALSE
  OBVIOUS
<1>2. x \in Steps /\ Follows(x, y) /\ y # "commit" /\ x \notin Keyed /\ x # "evict"
  BY <1>1, StepNames DEF Follows, BlockFamily
<1>3. Begins(t, k, y, e) /\ ~e
  BY <1>1
<1>4. Begins(<<x>> \o t, k, x, e)
  BY <1>2, <1>3, PutOne
<1> QED BY <1>1, <1>4

LEMMA ListNamesSteps == /\ WriteSteps \in Seq(Steps) /\ RefreshSteps \in Seq(Steps) /\ <<"mark">> \in Seq(Steps)
                        /\ <<"commit">> \in Seq(Steps) /\ <<"alloc">> \in Seq(Steps) /\ <<>> \in Seq(Steps)
                        /\ EraseSteps \in Seq(Steps) /\ <<"recover">> \in Seq(Steps)
BY DEF WriteSteps, RefreshSteps, EraseSteps, Steps, WriteFamily, BlockFamily, EraseFamily, AllocFamily, Ops

LEMMA SetDirtyStep == ASSUME MapInv, setDirty PROVE StepOK
<1>1. PICK op, d, s : op = "setDirty" /\ d = 1 /\ s = <<"mark">> \o RefreshSteps
  OBVIOUS
<1>2. op \in Ops /\ op \in Keyed /\ d \in {0, 1} /\ Flag(op, d, s)
  BY <1>1 DEF setDirty, Ops, Keyed, KeyOps
<1>3. Begins(Rest, cur.k, "return", FALSE) /\ Rest \in Seq(Steps)
  BY <1>2, LookupFacts DEF Flag
<1>4. PICK r, k, y, z : r = Rest /\ k = cur.k /\ y = "return" /\ z = "mark"
  OBVIOUS
<1>5. Begins(r, k, y, FALSE) /\ y \in {"return", "commit"} /\ y # "commit"
  BY <1>3, <1>4
<1>6. Begins(RefreshSteps \o r, k, "refreshSet", FALSE)
  BY <1>5, RefreshBegins
<1>7. Begins(<<"mark">> \o (RefreshSteps \o r), k, "mark", FALSE)
  BY <1>6, MarkBegins
<1>8. (<<"mark">> \o RefreshSteps) \o r = <<"mark">> \o (RefreshSteps \o r)
  BY <1>3, <1>4, ListNamesSteps, ConcatAssociative
<1>9. Begins(s \o Rest, cur.k, z, FALSE) /\ z \in {"mark", "return"}
  BY <1>1, <1>4, <1>7, <1>8
<1> QED BY <1>2, <1>9, FlagStep

LEMMA SetCleanStep == ASSUME MapInv, setClean PROVE StepOK
<1>1. PICK op, d, s : op = "setClean" /\ d = 0 /\ s = <<"mark">> \o RefreshSteps \o <<"commit">>
  OBVIOUS
<1>2. op \in Ops /\ op \in Keyed /\ d \in {0, 1} /\ Flag(op, d, s)
  BY <1>1 DEF setClean, Ops, Keyed, KeyOps
<1>3. Begins(Rest, cur.k, "return", FALSE) /\ Rest \in Seq(Steps)
  BY <1>2, LookupFacts DEF Flag
<1>4. PICK r, k, y, z, e, w : r = Rest /\ k = cur.k /\ y = "commit" /\ z = "mark" /\ e = FALSE /\ w = "return"
  OBVIOUS
<1>5. Begins(<<y>> \o r, k, y, e) /\ (<<y>> \o r)[2] = w
  <2>1. Begins(r, k, w, e) /\ w # "commit" /\ ~e
    BY <1>3, <1>4
  <2>2. y \in Steps /\ Follows(y, w) /\ y \notin Keyed /\ y # "evict"
    BY <1>4, StepNames DEF Follows, EraseFamily
  <2>3. Begins(<<y>> \o r, k, y, e)
    BY <2>1, <2>2, PutOne
  <2>4. (<<y>> \o r)[2] = w
    BY <2>1, <2>2, Second
  <2> QED BY <2>3, <2>4
<1>6. PICK t : t = <<y>> \o r
  OBVIOUS
<1>7. Begins(t, k, y, FALSE) /\ y \in {"return", "commit"} /\ (y = "commit" => t[2] = "return")
  BY <1>4, <1>5, <1>6
<1>8. Begins(RefreshSteps \o t, k, "refreshSet", FALSE)
  BY <1>7, RefreshBegins
<1>9. Begins(<<"mark">> \o (RefreshSteps \o t), k, "mark", FALSE)
  BY <1>8, MarkBegins
<1>10. s \o r = <<"mark">> \o (RefreshSteps \o t)
  <2>1. PICK p, q, c : p = <<"mark">> /\ q = RefreshSteps /\ c = <<y>>
    OBVIOUS
  <2>2. p \in Seq(Steps) /\ q \in Seq(Steps) /\ c \in Seq(Steps) /\ r \in Seq(Steps)
    BY <1>3, <1>4, <2>1, ListNamesSteps
  <2>3. p \o q \in Seq(Steps) /\ c \o r \in Seq(Steps)
    BY <2>2, CatFacts
  <2>4. ((p \o q) \o c) \o r = (p \o q) \o (c \o r)
    BY <2>2, <2>3, ConcatAssociative
  <2>5. (p \o q) \o (c \o r) = p \o (q \o (c \o r))
    BY <2>2, <2>3, ConcatAssociative
  <2>6. s = (p \o q) \o c
    BY <1>1, <1>4, <2>1
  <2> QED BY <1>6, <2>1, <2>4, <2>5, <2>6
<1>11. Begins(s \o Rest, cur.k, z, FALSE) /\ z \in {"mark", "return"}
  BY <1>4, <1>9, <1>10
<1> QED BY <1>2, <1>11, FlagStep

LEMMA CheckDirtyStep == ASSUME MapInv, checkDirty PROVE StepOK
<1>1. PICK op, d, s : op = "checkDirty" /\ d = 0 /\ s = <<>>
  OBVIOUS
<1>2. op \in Ops /\ op \in Keyed /\ d \in {0, 1} /\ Flag(op, d, s)
  BY <1>1 DEF checkDirty, Ops, Keyed, KeyOps
<1>3. Begins(Rest, cur.k, "return", FALSE) /\ Rest \in Seq(Steps)
  BY <1>2, LookupFacts DEF Flag
<1>4. s \o Rest = Rest
  BY <1>1, <1>3, EmptyCat
<1>5. PICK z : z = "return"
  OBVIOUS
<1>6. Begins(s \o Rest, cur.k, z, FALSE) /\ z \in {"mark", "return"}
  BY <1>3, <1>4, <1>5
<1> QED BY <1>2, <1>6, FlagStep

LEMMA MarkAgainStep == ASSUME MapInv, Flag("setDirtyAfterSync", 1, <<"mark", "afterSync">>) PROVE StepOK
<1>1. PICK op, d, s : op = "setDirtyAfterSync" /\ d = 1 /\ s = <<"mark", "afterSync">>
  OBVIOUS
<1>2. op \in Ops /\ op \in Keyed /\ d \in {0, 1} /\ Flag(op, d, s)
  BY <1>1 DEF Ops, Keyed, KeyOps
<1>3. Begins(Rest, cur.k, "return", FALSE) /\ Rest \in Seq(Steps)
  BY <1>2, LookupFacts DEF Flag
<1>4. PICK r, k, x, z, e, w : r = Rest /\ k = cur.k /\ x = "afterSync" /\ z = "mark" /\ e = FALSE /\ w = "return"
  OBVIOUS
<1>5. x \in Steps /\ z \in Steps
  BY <1>4, StepNames DEF BlockFamily
<1>6. Begins(<<x>> \o r, k, x, e)
  <2>1. Begins(r, k, w, e) /\ w # "commit" /\ ~e
    BY <1>3, <1>4
  <2>2. Follows(x, w) /\ x \notin Keyed /\ x # "evict"
    BY <1>4, StepNames DEF Follows, BlockFamily
  <2> QED BY <1>5, <2>1, <2>2, PutOne
<1>7. Begins(<<x>> \o r, k, x, FALSE) /\ x \in {"refreshSet", "afterSync"}
  BY <1>4, <1>6
<1>8. Begins(<<"mark">> \o (<<x>> \o r), k, "mark", FALSE)
  BY <1>7, MarkBegins
<1>9. <<z, x>> \o r = <<z>> \o (<<x>> \o r)
  BY <1>3, <1>4, <1>5, Spell2
<1>10. Begins(s \o Rest, cur.k, z, FALSE) /\ z \in {"mark", "return"}
  BY <1>1, <1>4, <1>8, <1>9
<1> QED BY <1>2, <1>10, FlagStep

LEMMA AfterSyncStep ==
  ASSUME MapInv, At("afterSync"), todo' = Rest, UNCHANGED cur, Aside,
         StoreIf(H("dirtyTail") = B("setPrev", cur.b), Up("dirtyTail", NULL, cur.b))
  PROVE  StepOK
<1>1. PICK x, n : x = "afterSync" /\ n = 0
  OBVIOUS
<1>2. x \in Enders /\ At(x) /\ x \in BlockFamily /\ n \in Nat /\ x \notin Waiting
  BY <1>1 DEF Enders, BlockFamily, Waiting
<1>3. Keeps /\ free' = free /\ avail' = avail
  BY AsideFacts
<1>4. cur' \in Locals /\ cur'.k = cur.k /\ cur.b \in Linked(mem)
  BY <1>2, CalmFacts, ReadyAt DEF Ready
<1>5. Calm(0) /\ LogStep
  <2>1. CASE NoStore
    BY <1>2, <2>1, NoStoreCalm
  <2>2. CASE Store(Up("dirtyTail", NULL, cur.b))
    <3>1. PICK t \in Tails, v \in Linked(mem) \union {NULL} : t = "dirtyTail" /\ v = cur.b
      BY <1>4 DEF Tails
    <3> QED BY <1>2, <2>2, <3>1, TailCalm
  <2> QED BY <2>1, <2>2 DEF StoreIf
<1>6. Room(x) + n <= 2 /\ Calm(n)
  BY <1>1, <1>5 DEF Room, Ops
<1>7. ControlInv' /\ DataInv' /\ AllocInv'
  BY <1>2, <1>3, <1>4, <1>6, EndsWith
<1> QED BY <1>5, <1>7 DEF StepOK

LEMMA SetDirtyAfterSyncStep == ASSUME MapInv, setDirtyAfterSync PROVE StepOK
BY MarkAgainStep, AfterSyncStep DEF setDirtyAfterSync

(* The steps of set behind the lookup. *)
LEMMA AfterBegins ==
  ASSUME NEW r, NEW k \in Keys, Begins(r, k, "return", FALSE), NEW only,
         NEW after, after = WriteSteps \o (IF only = 1 THEN <<>> ELSE <<"mark">>) \o RefreshSteps
  PROVE  /\ Begins(after \o r, k, "flags", FALSE) /\ after \in Seq(Steps)
         /\ Begins((<<"alloc">> \o after) \o r, k, "alloc", FALSE)
<1>1. r \in Seq(Steps)
  BY DEF Begins
<1>2. PICK y : y = "return"
  OBVIOUS
<1>3. Begins(r, k, y, FALSE) /\ y \in {"return", "commit"} /\ y # "commit"
  BY <1>2
<1>4. Begins(RefreshSteps \o r, k, "refreshSet", FALSE)
  BY <1>3, RefreshBegins
<1>5. PICK w, p, q : w = WriteSteps /\ p = (IF only = 1 THEN <<>> ELSE <<"mark">>) /\ q = RefreshSteps
  OBVIOUS
<1>6. w \in Seq(Steps) /\ p \in Seq(Steps) /\ q \in Seq(Steps)
  BY <1>5, ListNamesSteps
<1>7. PICK u : u = q \o r
  OBVIOUS
<1>8. u \in Seq(Steps) /\ w \o p \in Seq(Steps) /\ p \o u \in Seq(Steps)
  BY <1>1, <1>6, <1>7, CatFacts
<1>9. \E z \in {"mark", "refreshSet"} : Begins(p \o u, k, z, FALSE)
  <2>1. Begins(u, k, "refreshSet", FALSE)
    BY <1>4, <1>5, <1>7
  <2>2. CASE only = 1
    <3>1. p \o u = u
      BY <1>5, <1>8, <2>2, EmptyCat
    <3> QED BY <2>1, <3>1
  <2>3. CASE only # 1
    <3>1. Begins(<<"mark">> \o u, k, "mark", FALSE)
      BY <2>1, MarkBegins
    <3> QED BY <1>5, <2>3, <3>1
  <2> QED BY <2>2, <2>3
<1>10. Begins(WriteSteps \o (p \o u), k, "flags", FALSE)
  BY <1>9, WriteBegins
<1>11. after = (w \o p) \o q /\ after \in Seq(Steps)
  BY <1>5, <1>6, <1>8, CatFacts
<1>12. after \o r = w \o (p \o u)
  <2>1. ((w \o p) \o q) \o r = (w \o p) \o (q \o r)
    <3>1. PICK v \in Seq(Steps) : v = w \o p
      BY <1>8
    <3>2. (v \o q) \o r = v \o (q \o r)
      BY <1>1, <1>6, ConcatAssociative
    <3> QED BY <3>1, <3>2
  <2>2. (w \o p) \o u = w \o (p \o u)
    BY <1>6, <1>8, ConcatAssociative
  <2> QED BY <1>7, <1>11, <2>1, <2>2
<1>13. Begins(after \o r, k, "flags", FALSE)
  BY <1>5, <1>10, <1>12
<1>14. Begins((<<"alloc">> \o after) \o r, k, "alloc", FALSE)
  <2>1. PICK x, z, e, t, a : x = "alloc" /\ z = "flags" /\ e = FALSE /\ t = after \o r /\ a = <<x>>
    OBVIOUS
  <2>2. Begins(t, k, z, e) /\ ~e /\ z # "commit"
    BY <1>13, <2>1
  <2>3. x \in Steps /\ Follows(x, z) /\ x # "evict"
    BY <2>1, StepNames DEF Follows, AllocFamily
  <2>4. Begins(<<x>> \o t, k, x, e)
    BY <2>2, <2>3, PutOne
  <2>5. a \in Seq(Steps)
    BY <2>1, ListNamesSteps
  <2>6. (a \o after) \o r = a \o t
    <3>1. PICK g \in Seq(Steps) : g = after
      BY <1>11
    <3>2. (a \o g) \o r = a \o (g \o r)
      BY <1>1, <2>5, ConcatAssociative
    <3> QED BY <2>1, <3>1, <3>2
  <2> QED BY <2>1, <2>4, <2>6
<1> QED BY <1>11, <1>13, <1>14

LEMMA SetStep == ASSUME MapInv, set PROVE StepOK
<1>1. PICK x \in {"set", "setKey"} : At(x)
  BY DEF set
<1>2. PICK b, after : b = find(cur.k, FALSE)
                      /\ after = WriteSteps \o (IF cur.only = 1 THEN <<>> ELSE <<"mark">>) \o RefreshSteps
  OBVIOUS
<1>3. PICK c \in BOOLEAN : c = (b # NULL)
  OBVIOUS
<1>4. x \in Ops /\ x \in Keyed /\ Aside
  BY DEF Ops, Keyed, KeyOps, set
<1>5. /\ x \notin Waiting /\ x # "return" /\ x \in Enders /\ Room(x) = 0 /\ Keeps /\ free' = free /\ avail' = avail
      /\ Begins(Rest, cur.k, "return", FALSE) /\ Rest \in Seq(Steps)
      /\ cur \in Locals /\ Good(mem) /\ cur.k \in Keys /\ Linked(mem) \intersect Elems(free) = {}
  BY <1>1, <1>4, LookupFacts
<1>6. Quiet(2) /\ Calm(2) /\ LogStep
  <2>1. update(incGetCount \o When(c, incHitCount))
    BY <1>2, <1>3 DEF set
  <2> QED BY <1>1, <1>4, <2>1, LookupQuiet
<1>7. (b = NULL /\ NotThere(mem, cur.k)) \/ (b # NULL /\ Holds(mem, cur.k, b))
  BY <1>2, <1>5, FindKey
<1>8. b \in Blocks \union {NULL}
  BY <1>5, <1>7, FoundIn
<1>9. On(b) /\ Goto(IF b # NULL THEN after ELSE IF findError(cur.k) THEN <<>> ELSE <<"alloc">> \o after)
  BY <1>2 DEF set
<1>10. cur' \in Locals /\ cur'.k = cur.k /\ cur'.b = b
  BY <1>5, <1>8, <1>9, OnFacts
<1>11. PICK n : n = 2
  OBVIOUS
<1>12. n \in Nat /\ Calm(n) /\ Quiet(n) /\ Room(x) + n <= 2
  BY <1>5, <1>6, <1>11
<1>13. PICK r, k, o : r = Rest /\ k = cur.k /\ o = cur.only
  OBVIOUS
<1>14. /\ Begins(after \o r, k, "flags", FALSE)
       /\ Begins((<<"alloc">> \o after) \o r, k, "alloc", FALSE)
  <2>1. after = WriteSteps \o (IF o = 1 THEN <<>> ELSE <<"mark">>) \o RefreshSteps
    BY <1>2, <1>13
  <2>2. Begins(r, k, "return", FALSE) /\ k \in Keys
    BY <1>5, <1>13
  <2> QED BY <2>1, <2>2, AfterBegins
<1>15. Running
  BY <1>6 DEF Calm
<1>16. ASSUME NEW y \in {"flags", "alloc"}, Begins(todo', cur'.k, y, FALSE),
              Ready(y, mem, cur', Elems(free')), y = "alloc" => NotThere(mem, cur'.k)
       PROVE  StepOK
  <2>1. y \notin Waiting /\ Room(y) = 2 /\ y \notin {"take", "pop", "count"} /\ (y \in AllocFamily => y = "alloc")
    BY DEF Waiting, Room, Ops, AllocFamily
  <2>2. PICK e : e = FALSE
    OBVIOUS
  <2>3. Begins(todo', cur'.k, y, e)
    BY <1>16, <2>2
  <2>4. Onto(y) /\ ~Evicting(todo') /\ todo'[1] = y
    BY <1>5, <1>10, <1>15, <2>2, <2>3, BeginsOnto DEF Begins
  <2>5. Upcoming(todo') = y
    BY <2>1, <2>4 DEF Upcoming, Waiting
  <2>6. Serves(todo', mem, cur', Elems(free'))
    BY <1>16, <2>1, <2>4, <2>5 DEF Serves
  <2>7. Room(x) + n <= Room(y) /\ Linked(mem) \intersect Elems(free') = {}
    BY <1>5, <1>12, <2>1
  <2>8. ControlInv' /\ DataInv'
    BY <1>1, <1>5, <1>12, <2>1, <2>4, <2>6, <2>7, QuietLands
  <2>9. AllocInv'
    BY <1>5, <2>1, <2>4, AllocSame
  <2> QED BY <1>6, <2>8, <2>9 DEF StepOK
<1>17. CASE b # NULL
  <2>1. todo' = after \o r
    BY <1>9, <1>13, <1>17 DEF Goto
  <2>2. PICK y : y = "flags"
    OBVIOUS
  <2>3. Begins(todo', cur'.k, y, FALSE) /\ y \in {"flags", "alloc"} /\ y # "alloc"
    BY <1>10, <1>13, <1>14, <2>1, <2>2
  <2>4. Holds(mem, cur'.k, cur'.b)
    BY <1>7, <1>10, <1>17
  <2>5. Ready(y, mem, cur', Elems(free'))
    BY <2>2, <2>4 DEF Ready, Holds, WriteFamily, BlockFamily
  <2> QED BY <1>16, <2>3, <2>5
<1>18. CASE b = NULL /\ findError(cur.k)
  <2>1. todo' = Rest
    <3>1. Goto(<<>>)
      BY <1>9, <1>18
    <3> QED BY <1>1, <1>5, <3>1, GotoRest
  <2>2. ControlInv' /\ DataInv' /\ AllocInv'
    BY <1>1, <1>5, <1>10, <1>12, <2>1, EndsWith
  <2> QED BY <1>6, <2>2 DEF StepOK
<1>19. CASE b = NULL /\ ~findError(cur.k)
  <2>1. todo' = (<<"alloc">> \o after) \o r
    BY <1>9, <1>13, <1>19 DEF Goto
  <2>2. PICK y : y = "alloc"
    OBVIOUS
  <2>3. Begins(todo', cur'.k, y, FALSE) /\ y \in {"flags", "alloc"} /\ NotThere(mem, cur'.k)
    BY <1>7, <1>10, <1>13, <1>14, <1>19, <2>1, <2>2
  <2>4. Ready(y, mem, cur', Elems(free'))
    BY <2>2 DEF Ready, WriteFamily, BlockFamily
  <2> QED BY <1>16, <2>3, <2>4
<1> QED BY <1>17, <1>18, <1>19

-----------------------------------------------------------------------------
(* The operations that walk the lists *)

LEMMA EndsAtOnce ==
  ASSUME MapInv, NEW x \in Enders, At(x), Calm(0), Goto(<<>>) \/ todo' = Rest, cur' = cur, Keeps,
         UNCHANGED <<free, avail>>
  PROVE  ControlInv' /\ DataInv' /\ AllocInv'
<1>1. x \notin Waiting /\ x # "return" /\ Room(x) \in 0..2
  BY BehindLast
<1>2. todo' = Rest
  BY <1>1, GotoRest
<1>3. PICK n : n = 0
  OBVIOUS
<1>4. n \in Nat /\ Calm(n) /\ Room(x) + n <= 2
  BY <1>1, <1>3
<1>5. cur' \in Locals /\ cur'.k = cur.k
  BY <1>1, CalmFacts
<1> QED BY <1>2, <1>4, <1>5, EndsWith

LEMMA EraseOneStep ==
  ASSUME MapInv, At("erase"), NoStore, Aside, NEW b \in Linked(mem), On(b),
         NEW s \in {<<"keepDirty", "toFront">>, EraseSteps}, Goto(s)
  PROVE  StepOK
<1>1. PICK x, n, k, r, w, e : x = "erase" /\ n = 0 /\ k = cur.k /\ r = Rest /\ w = "return" /\ e = FALSE
  OBVIOUS
<1>2. x \in Enders /\ At(x) /\ x \in Ops
  BY <1>1 DEF Enders, Ops
<1>3. x \notin Waiting /\ Room(x) = 0 /\ Begins(Rest, cur.k, "return", FALSE) /\ Rest \in Seq(Steps)
  BY <1>2, BehindLast
<1>4. Keeps /\ free' = free /\ avail' = avail
  BY AsideFacts
<1>5. Calm(0) /\ LogStep
  BY <1>2, <1>3, NoStoreCalm
<1>6. cur' \in Locals /\ cur'.k = cur.k /\ cur'.b = b
  <2>1. cur \in Locals /\ b \in Blocks
    BY <1>2, <1>3, CalmFacts
  <2> QED BY <2>1, OnFacts
<1>7. Begins(r, k, w, e) /\ ~e /\ w # "commit" /\ r \in Seq(Steps)
  BY <1>1, <1>3
<1>8. \E y \in {"unlink", "keepDirty"} : Begins(s \o r, k, y, e)
  <2>1. CASE s = EraseSteps
    <3>1. w \in {"evict", "recover", "return"}
      BY <1>1
    <3>2. Begins(EraseSteps \o r, k, "unlink", e)
      BY <1>7, <3>1, EraseBegins
    <3> QED BY <2>1, <3>2
  <2>2. CASE s = <<"keepDirty", "toFront">>
    <3>1. PICK y, z : y = "keepDirty" /\ z = "toFront"
      OBVIOUS
    <3>2. y \in Steps /\ z \in Steps /\ y \notin Keyed /\ z \notin Keyed /\ y # "evict" /\ z # "evict" /\ z # "commit"
      BY <3>1, StepNames DEF BlockFamily
    <3>3. Follows(y, z) /\ Follows(z, w)
      BY <1>1, <3>1 DEF Follows
    <3>4. Begins(<<z>> \o r, k, z, e)
      BY <1>7, <3>2, <3>3, PutOne
    <3>5. Begins(<<y>> \o (<<z>> \o r), k, y, e)
      BY <1>7, <3>2, <3>3, <3>4, PutOne
    <3>6. <<y, z>> \o r = <<y>> \o (<<z>> \o r)
      BY <1>7, <3>2, Spell2
    <3> QED BY <2>2, <3>1, <3>5, <3>6
  <2> QED BY <2>1, <2>2
<1>9. PICK y \in {"unlink", "keepDirty"} : Begins(s \o r, k, y, e)
  BY <1>8
<1>10. Begins(todo', cur'.k, y, e)
  BY <1>1, <1>6, <1>9 DEF Goto
<1>11. y \in Plain /\ y \notin Waiting /\ y # "count" /\ Room(y) = 2
  BY DEF Plain, Steps, EraseFamily, BlockFamily, WriteFamily, AllocFamily, Waiting, Room, Ops
<1>12. cur'.b \in Linked(mem) /\ Room(x) + n <= Room(y) /\ n \in Nat /\ Calm(n)
  BY <1>1, <1>3, <1>5, <1>6, <1>11
<1>13. ControlInv' /\ DataInv' /\ AllocInv'
  BY <1>2, <1>3, <1>4, <1>6, <1>7, <1>10, <1>11, <1>12, PlainLands
<1> QED BY <1>5, <1>13 DEF StepOK

(* The last block of the list by time of get, while there is a block. *)
LEMMA OldestLinked ==
  ASSUME MapInv, NEW x \in BlockFamily, At(x)
  PROVE  /\ x \notin Waiting /\ x \notin EraseFamily /\ x # "return" /\ H("getTail") \in Linked(mem) /\ Good(mem)
         /\ cur \in Locals /\ cur.b \in Linked(mem)
<1>1. x \notin Waiting /\ x \notin EraseFamily /\ x # "return"
  BY DEF BlockFamily, Waiting, EraseFamily
<1>2. cur.b \in Linked(mem) /\ Good(mem) /\ cur \in Locals
  BY <1>1, ReadyAt, CalmFacts DEF Ready
<1>3. H("getTail") \in Linked(mem)
  BY <1>2, LinkedFacts DEF H
<1> QED BY <1>1, <1>2, <1>3

LEMMA KeepDirtyStep ==
  ASSUME MapInv, At("keepDirty"), todo' = Rest, UNCHANGED cur, Aside,
         StoreIf(H("dirtyTail") = NULL, Up("dirtyTail", NULL, H("getTail")))
  PROVE  StepOK
<1>1. PICK x, n, y : x = "keepDirty" /\ n = 0 /\ y = "toFront"
  OBVIOUS
<1>2. At(x) /\ x \in BlockFamily
  BY <1>1 DEF BlockFamily
<1>3. /\ x \notin Waiting /\ x \notin EraseFamily /\ x # "return" /\ H("getTail") \in Linked(mem)
      /\ cur \in Locals /\ cur.b \in Linked(mem)
  BY <1>2, OldestLinked
<1>4. Keeps /\ free' = free /\ avail' = avail
  BY AsideFacts
<1>5. Calm(0) /\ LogStep
  <2>1. CASE NoStore
    BY <1>2, <1>3, <2>1, NoStoreCalm
  <2>2. CASE Store(Up("dirtyTail", NULL, H("getTail")))
    <3>1. PICK t \in Tails, v \in Linked(mem) \union {NULL} : t = "dirtyTail" /\ v = H("getTail")
      BY <1>3 DEF Tails
    <3> QED BY <1>2, <1>3, <2>2, <3>1, TailCalm
  <2> QED BY <2>1, <2>2 DEF StoreIf
<1>6. Running /\ Calm(n) /\ n \in Nat
  BY <1>1, <1>5 DEF Calm
<1>7. Turns
  BY <1>3 DEF Turns
<1>8. Onto(todo'[1]) /\ Follows(x, todo'[1]) /\ (Evicting(todo') => x \in EraseFamily)
  BY <1>2, <1>3, <1>4, <1>6, <1>7, GoesOn
<1>9. Onto(y) /\ ~Evicting(todo')
  <2>1. todo'[1] = y
    BY <1>1, <1>8 DEF Follows, Ops
  <2> QED BY <1>3, <1>8, <2>1
<1>10. y \in Plain /\ y \notin Waiting /\ y # "count" /\ Room(x) + n <= Room(y) /\ cur'.b \in Linked(mem)
  BY <1>1, <1>3 DEF Plain, Steps, EraseFamily, BlockFamily, WriteFamily, AllocFamily, Waiting, Room, Ops
<1>11. ControlInv' /\ DataInv' /\ AllocInv'
  BY <1>2, <1>3, <1>4, <1>6, <1>9, <1>10, CalmLands
<1> QED BY <1>5, <1>11 DEF StepOK

LEMMA ToFrontStep ==
  ASSUME MapInv, At("toFront"), UNCHANGED cur, Aside,
         IF H("getHead") = H("getTail") THEN NoStore /\ todo' = Rest
         ELSE Goto(<<"commit">>) /\ update(toFrontLog(H("getTail")))
  PROVE  StepOK
<1>1. PICK x, b : x = "toFront" /\ b = H("getTail")
  OBVIOUS
<1>2. At(x) /\ x \in BlockFamily /\ x \in Enders
  BY <1>1 DEF BlockFamily, Enders
<1>3. x \notin Waiting /\ b \in Linked(mem) /\ Good(mem) /\ cur \in Locals
  BY <1>1, <1>2, OldestLinked
<1>4. cur' = cur /\ Keeps /\ free' = free /\ avail' = avail
  BY AsideFacts
<1>5. CASE H("getHead") = b
  <2>1. NoStore /\ todo' = Rest
    BY <1>1, <1>5
  <2>2. Calm(0) /\ LogStep
    BY <1>2, <1>3, <2>1, NoStoreCalm
  <2>3. ControlInv' /\ DataInv' /\ AllocInv'
    BY <1>2, <1>4, <2>1, <2>2, EndsAtOnce
  <2> QED BY <2>2, <2>3 DEF StepOK
<1>6. CASE H("getHead") # b
  <2>1. PICK es, n : es = toFrontLog(b) /\ n = 8
    OBVIOUS
  <2>2. update(es) /\ Goto(<<"commit">>)
    BY <1>1, <1>6, <2>1
  <2>3. Fits(es, LogFields, 8) /\ Good(Over(Ahead, es)) /\ Linked(Over(Ahead, es)) = Linked(mem)
    <3>1. Same(mem, Ahead, MapFields) /\ mem[<<"getHead", NULL>>] # b /\ mem[<<"getTail", NULL>>] = b
      BY <1>1, <1>2, <1>3, <1>6, AheadSame DEF H
    <3> QED BY <1>3, <2>1, <3>1, ToFrontEffect
  <2>4. Fits(es, LogFields, n) /\ n \in Nat /\ n <= 15 /\ cur' \in Locals /\ cur'.k = cur.k
    BY <1>3, <1>4, <2>1, <2>3
  <2> QED BY <1>2, <1>4, <2>2, <2>3, <2>4, CommitEnds
<1> QED BY <1>5, <1>6

LEMMA EraseStep == ASSUME MapInv, erase PROVE StepOK
<1>1. CASE At("erase") /\ NoStore /\ Aside /\ Goto(<<>>) /\ UNCHANGED cur
  <2>1. PICK x : x = "erase"
    OBVIOUS
  <2>2. x \in Enders /\ At(x) /\ x \notin Waiting
    BY <1>1, <2>1 DEF Enders, Ops, Waiting
  <2>3. Calm(0) /\ LogStep
    BY <1>1, <2>2, NoStoreCalm
  <2>4. Keeps /\ free' = free /\ avail' = avail /\ cur' = cur /\ Goto(<<>>)
    BY <1>1, AsideFacts
  <2>5. ControlInv' /\ DataInv' /\ AllocInv'
    BY <2>2, <2>3, <2>4, EndsAtOnce
  <2> QED BY <2>3, <2>5 DEF StepOK
<1>2. CASE At("erase") /\ NoStore /\ Aside /\ H("getTail") # NULL /\ On(H("getTail"))
           /\ Goto(IF cur.dirty = 1 /\ B("dirty", H("getTail")) = 1 THEN <<"keepDirty", "toFront">> ELSE EraseSteps)
  <2>1. PICK b, s : b = H("getTail")
                    /\ s = IF cur.dirty = 1 /\ B("dirty", b) = 1 THEN <<"keepDirty", "toFront">> ELSE EraseSteps
    OBVIOUS
  <2>2. "erase" \notin Waiting
    BY DEF Waiting
  <2>3. b \in Linked(mem)
    BY <1>2, <2>1, <2>2, CalmFacts, LinkedFacts DEF H
  <2>4. s \in {<<"keepDirty", "toFront">>, EraseSteps} /\ On(b) /\ Goto(s)
    BY <1>2, <2>1
  <2> QED BY <1>2, <2>3, <2>4, EraseOneStep
<1>3. CASE At("keepDirty") /\ todo' = Rest /\ UNCHANGED cur /\ Aside
           /\ StoreIf(H("dirtyTail") = NULL, Up("dirtyTail", NULL, H("getTail")))
  BY <1>3, KeepDirtyStep
<1>4. CASE At("toFront") /\ UNCHANGED cur /\ Aside
           /\ (IF H("getHead") = H("getTail") THEN NoStore /\ todo' = Rest
               ELSE Goto(<<"commit">>) /\ update(toFrontLog(H("getTail"))))
  BY <1>4, ToFrontStep
<1> QED BY <1>1, <1>2, <1>3, <1>4 DEF erase, toFrontLog

LEMMA PutLast ==
  ASSUME MapInv, NEW x \in Enders, At(x), NEW y \in {"syncOne", "pastDirty", "handed"}
  PROVE  Begins(<<y>> \o Rest, cur.k, y, FALSE)
<1>1. PICK r, k, w, e : r = Rest /\ k = cur.k /\ w = "return" /\ e = FALSE
  OBVIOUS
<1>2. Begins(r, k, w, e) /\ ~e /\ w # "commit"
  <2>1. Begins(Rest, cur.k, "return", FALSE)
    BY BehindLast
  <2> QED BY <1>1, <2>1
<1>3. y \in Steps /\ y \notin Keyed /\ y # "evict" /\ Follows(y, w)
  BY <1>1, StepNames DEF BlockFamily, Follows
<1>4. Begins(<<y>> \o r, k, y, e)
  BY <1>2, <1>3, PutOne
<1> QED BY <1>1, <1>4

LEMMA PutCommit ==
  ASSUME MapInv, NEW x \in Enders, At(x), NEW y \in {"pastDirty", "handed"}, Goto(<<"commit", y>>),
         cur' \in Locals, cur'.k = cur.k, Keeps, Running
  PROVE  Onto("commit") /\ todo'[2] = y /\ ~Evicting(todo')
<1>1. PICK r, k, c, e, t : r = Rest /\ k = cur.k /\ c = "commit" /\ e = FALSE /\ t = <<y>> \o r
  OBVIOUS
<1>2. Begins(t, k, y, e) /\ ~e /\ y # "commit"
  <2>1. Begins(<<y>> \o Rest, cur.k, y, FALSE)
    BY PutLast
  <2> QED BY <1>1, <2>1
<1>3. c \in Steps /\ c \notin Keyed /\ c # "evict" /\ Follows(c, y) /\ y \in Steps
  BY <1>1, StepNames DEF EraseFamily, BlockFamily, Follows
<1>4. Begins(<<c>> \o t, k, c, e)
  BY <1>2, <1>3, PutOne
<1>5. (<<c>> \o t)[2] = y
  BY <1>2, <1>3, Second
<1>6. r \in Seq(Steps)
  BY <1>1, BehindLast
<1>7. <<c, y>> \o r = <<c>> \o (<<y>> \o r)
  BY <1>3, <1>6, Spell2
<1>8. todo' = <<c>> \o t
  BY <1>1, <1>7 DEF Goto
<1>9. Begins(todo', cur'.k, c, e) /\ todo'[2] = y
  BY <1>1, <1>4, <1>5, <1>8
<1>10. Onto(c)
  BY <1>9, BeginsOnto
<1>11. ~Evicting(todo')
  BY <1>1, <1>9 DEF Begins
<1> QED BY <1>1, <1>9, <1>10, <1>11

(* A step that only moves a tail, or nothing. *)
Glides ==
  \/ NoStore
  \/ \E t \in Tails, v \in Linked(mem) \union {NULL} : Store(Up(t, NULL, v))

LEMMA GlideCalm ==
  ASSUME MapInv, NEW x, At(x), x \notin Waiting, Glides
  PROVE  Calm(0) /\ LogStep
<1>1. CASE NoStore
  BY <1>1, NoStoreCalm
<1>2. CASE \E t \in Tails, v \in Linked(mem) \union {NULL} : Store(Up(t, NULL, v))
  BY <1>2, TailCalm
<1> QED BY <1>1, <1>2 DEF Glides

LEMMA GlideEnds ==
  ASSUME MapInv, NEW x \in Enders, At(x), Glides, Goto(<<>>) \/ todo' = Rest, cur' = cur, Keeps,
         UNCHANGED <<free, avail>>
  PROVE  StepOK
<1>1. Calm(0) /\ LogStep
  BY BehindLast, GlideCalm
<1>2. ControlInv' /\ DataInv' /\ AllocInv'
  BY <1>1, EndsAtOnce
<1> QED BY <1>1, <1>2 DEF StepOK

(* The step goes on with one more. *)
LEMMA GlideOn ==
  ASSUME MapInv, NEW x \in Enders, At(x), Glides, NEW y \in {"syncOne", "pastDirty"}, Goto(<<y>>),
         cur' \in Locals, cur'.k = cur.k, cur'.b \in Linked(mem), Keeps, UNCHANGED <<free, avail>>
  PROVE  StepOK
<1>1. x \notin Waiting /\ Room(x) \in 0..2
  BY BehindLast
<1>2. Calm(0) /\ LogStep
  BY <1>1, GlideCalm
<1>3. PICK e, n : e = FALSE /\ n = 0
  OBVIOUS
<1>4. Begins(todo', cur'.k, y, e) /\ ~e
  <2>1. Begins(<<y>> \o Rest, cur.k, y, FALSE)
    BY PutLast
  <2> QED BY <1>3, <2>1 DEF Goto
<1>5. y \in Plain /\ y \notin Waiting /\ y # "count" /\ Room(y) = 2
  BY DEF Plain, Steps, EraseFamily, BlockFamily, WriteFamily, AllocFamily, Waiting, Room, Ops
<1>6. n \in Nat /\ Calm(n) /\ Room(x) + n <= Room(y)
  BY <1>1, <1>2, <1>3, <1>5
<1>7. ControlInv' /\ DataInv' /\ AllocInv'
  BY <1>1, <1>4, <1>5, <1>6, PlainLands
<1> QED BY <1>2, <1>7 DEF StepOK

LEMMA SyncRound ==
  ASSUME MapInv, At("sync"), Store(Up("syncTail", NULL, H("dirtyTail"))), Goto(<<>>), UNCHANGED cur, Aside
  PROVE  StepOK
<1>1. PICK x : x = "sync"
  OBVIOUS
<1>2. x \in Enders /\ At(x) /\ x \notin Waiting
  BY <1>1 DEF Enders, Ops, Waiting
<1>3. H("dirtyTail") \in Linked(mem) \union {NULL} /\ "syncTail" \in Tails
  BY <1>2, CalmFacts, LinkedFacts DEF H, Tails
<1>4. Glides
  BY <1>3 DEF Glides
<1>5. cur' = cur /\ Keeps /\ free' = free /\ avail' = avail
  BY AsideFacts
<1> QED BY <1>2, <1>4, <1>5, GlideEnds

LEMMA SyncNextStep ==
  ASSUME MapInv, At("syncNext"), H("syncTail") # NULL, On(H("syncTail")), Goto(<<"syncOne">>), Aside,
         Store(Up("syncTail", NULL, B("setPrev", H("syncTail"))))
  PROVE  StepOK
<1>1. PICK x, b, y : x = "syncNext" /\ b = H("syncTail") /\ y = "syncOne"
  OBVIOUS
<1>2. x \in Enders /\ At(x) /\ x \notin Waiting /\ y \in {"syncOne", "pastDirty"} /\ Goto(<<y>>)
  BY <1>1 DEF Enders, Ops, Waiting
<1>3. Good(mem) /\ Linked(mem) \subseteq Blocks /\ cur \in Locals
  BY <1>2, CalmFacts
<1>4. b \in Linked(mem) /\ B("setPrev", b) \in Linked(mem) \union {NULL} /\ "syncTail" \in Tails
  BY <1>1, <1>3, LinkedFacts DEF H, B, Tails
<1>5. Glides
  BY <1>1, <1>4 DEF Glides
<1>6. On(b) /\ b \in Blocks \union {NULL}
  BY <1>1, <1>3, <1>4
<1>7. cur' \in Locals /\ cur'.k = cur.k /\ cur'.b \in Linked(mem)
  BY <1>3, <1>4, <1>6, OnFacts
<1>8. Keeps /\ free' = free /\ avail' = avail
  BY AsideFacts
<1> QED BY <1>2, <1>5, <1>7, <1>8, GlideOn

LEMMA SyncCleanStep ==
  ASSUME MapInv, At("syncOne"), UNCHANGED cur, Aside, Goto(<<"commit", "pastDirty">>), update(setDirtyLog(cur.b, 0))
  PROVE  StepOK
<1>1. PICK x, z, n, b, d : x = "syncOne" /\ z = "pastDirty" /\ n = 2 /\ b = cur.b /\ d = 0
  OBVIOUS
<1>2. x \in Enders /\ At(x) /\ x \in BlockFamily /\ z \in {"pastDirty", "handed"} /\ Goto(<<"commit", z>>) /\ n \in Nat
  BY <1>1 DEF Enders, BlockFamily
<1>3. x \notin Waiting /\ Room(x) \in 0..2
  BY <1>2, BehindLast
<1>4. cur' = cur /\ cur \in Locals /\ cur.b \in Linked(mem) /\ Typed(mem) /\ b \in Blocks /\ d \in {0, 1}
  BY <1>1, <1>2, <1>3, OldestLinked, CalmFacts
<1>5. PICK es : es = setDirtyLog(b, d)
  OBVIOUS
<1>6. Fits(es, Drifting \union {"dirty"}, n) /\ update(es)
  BY <1>1, <1>4, <1>5, SetDirtyFits
<1>7. Good(Over(Ahead, es)) /\ Linked(Over(Ahead, es)) = Linked(mem)
  BY <1>2, <1>3, <1>6, DirtyAhead
<1>8. Room(x) + n <= 17
  BY <1>1, <1>3
<1>9. Running
  BY <1>2, <1>3, <1>6, <1>8, LoggedStep
<1>10. Keeps /\ free' = free /\ avail' = avail
  BY AsideFacts
<1>11. cur' \in Locals /\ cur'.k = cur.k
  BY <1>4
<1>12. Onto("commit") /\ todo'[2] = z /\ ~Evicting(todo')
  BY <1>2, <1>9, <1>10, <1>11, PutCommit
<1>13. z \in Plain /\ z # "unlink" /\ cur'.b \in Linked(mem) /\ z = todo'[2]
  BY <1>1, <1>4, <1>12 DEF Plain, Steps, BlockFamily, WriteFamily, AllocFamily
<1> QED BY <1>2, <1>3, <1>6, <1>7, <1>8, <1>10, <1>12, <1>13, MoveCommit

LEMMA PastDirtyStep ==
  ASSUME MapInv, At("pastDirty"), todo' = Rest, UNCHANGED cur, Aside,
         StoreIf(H("dirtyTail") = cur.b, Up("dirtyTail", NULL, B("setPrev", cur.b)))
  PROVE  StepOK
<1>1. PICK x : x = "pastDirty"
  OBVIOUS
<1>2. x \in Enders /\ At(x) /\ x \in BlockFamily
  BY <1>1 DEF Enders, BlockFamily
<1>3. Good(mem) /\ cur.b \in Linked(mem)
  BY <1>2, OldestLinked
<1>4. B("setPrev", cur.b) \in Linked(mem) \union {NULL} /\ "dirtyTail" \in Tails
  BY <1>3, LinkedFacts DEF B, Tails
<1>5. Glides
  BY <1>4 DEF Glides, StoreIf
<1>6. cur' = cur /\ Keeps /\ free' = free /\ avail' = avail
  BY AsideFacts
<1> QED BY <1>2, <1>5, <1>6, GlideEnds

LEMMA SyncStep == ASSUME MapInv, sync PROVE StepOK
<1>0. Aside /\ cur \in Locals /\ Keeps /\ free' = free /\ avail' = avail
  BY AsideFacts DEF sync, MapInv, ControlInv
<1>2. CASE At("sync") /\ Store(Up("syncTail", NULL, H("dirtyTail"))) /\ Goto(<<>>) /\ UNCHANGED cur
  BY <1>0, <1>2, SyncRound
<1>3. CASE At("syncNext") /\ H("syncTail") = NULL /\ NoStore /\ Goto(<<>>) /\ UNCHANGED cur
  <2>1. PICK x : x = "syncNext"
    OBVIOUS
  <2>2. x \in Enders /\ At(x) /\ Glides /\ cur' = cur /\ Goto(<<>>)
    BY <1>3, <2>1 DEF Enders, Ops, Glides
  <2> QED BY <1>0, <2>2, GlideEnds
<1>4. CASE At("syncNext") /\ H("syncTail") # NULL /\ On(H("syncTail")) /\ Goto(<<"syncOne">>)
           /\ Store(Up("syncTail", NULL, B("setPrev", H("syncTail"))))
  BY <1>0, <1>4, SyncNextStep
<1>5. CASE At("syncOne") /\ UNCHANGED cur /\ NoStore /\ (Goto(<<"pastDirty">>) \/ Goto(<<>>))
  <2>1. PICK x, y : x = "syncOne" /\ y = "pastDirty"
    OBVIOUS
  <2>2. x \in Enders /\ x \in BlockFamily /\ At(x) /\ Glides /\ cur' = cur /\ y \in {"syncOne", "pastDirty"}
    BY <1>5, <2>1 DEF Enders, Ops, BlockFamily, Glides
  <2>3. CASE Goto(<<>>)
    BY <1>0, <2>2, <2>3, GlideEnds
  <2>4. CASE Goto(<<"pastDirty">>)
    <3>1. Goto(<<y>>) /\ cur' \in Locals /\ cur'.k = cur.k /\ cur'.b \in Linked(mem)
      BY <1>0, <2>1, <2>2, <2>4, OldestLinked
    <3> QED BY <1>0, <2>2, <3>1, GlideOn
  <2> QED BY <1>5, <2>3, <2>4
<1>6. CASE At("syncOne") /\ UNCHANGED cur /\ Goto(<<"commit", "pastDirty">>) /\ update(setDirtyLog(cur.b, 0))
  BY <1>0, <1>6, SyncCleanStep
<1>7. CASE At("pastDirty") /\ todo' = Rest /\ UNCHANGED cur
           /\ StoreIf(H("dirtyTail") = cur.b, Up("dirtyTail", NULL, B("setPrev", cur.b)))
  BY <1>0, <1>7, PastDirtyStep
<1>8. CASE At("syncNext")
  <2>1. ~At("sync") /\ ~At("syncOne") /\ ~At("pastDirty")
    BY <1>8 DEF At
  <2> QED BY <1>3, <1>4, <1>8, <2>1 DEF sync
<1>9. CASE ~At("syncNext")
  BY <1>2, <1>5, <1>6, <1>7, <1>9 DEF sync
<1> QED BY <1>8, <1>9

LEMMA BackupStart ==
  ASSUME MapInv, At("backup"), Goto(<<>>), UNCHANGED <<cur, mode, free, avail, crashes>>,
         IF cur.dirty = 1 \/ H("backupTail") = NULL
         THEN Store(Up("backupTail", NULL, H("getTail"))) /\ missed' = Linked(mem)
         ELSE NoStore /\ UNCHANGED missed
  PROVE  StepOK
<1>1. PICK x : x = "backup"
  OBVIOUS
<1>2. x \in Enders /\ At(x) /\ x \notin Waiting
  BY <1>1 DEF Enders, Ops, Waiting
<1>3. H("getTail") \in Linked(mem) \union {NULL} /\ "backupTail" \in Tails /\ Linked(mem) \subseteq Blocks
  BY <1>2, CalmFacts, LinkedFacts DEF H, Tails
<1>4. Glides
  BY <1>3 DEF Glides
<1>5. Keeps
  BY <1>3 DEF Keeps, MapInv, ControlInv
<1> QED BY <1>2, <1>4, <1>5, GlideEnds

LEMMA BackupNextStep ==
  ASSUME MapInv, At("backupNext"), H("backupTail") # NULL, On(H("backupTail")), Goto(<<"commit", "handed">>),
         Store(Up("backupTail", NULL, B("getPrev", H("backupTail")))),
         UNCHANGED <<mode, free, avail, crashes, missed>>
  PROVE  StepOK
<1>1. PICK x, b, z, n : x = "backupNext" /\ b = H("backupTail") /\ z = "handed" /\ n = 0
  OBVIOUS
<1>2. x \in Enders /\ At(x) /\ x \in Ops /\ z \in {"pastDirty", "handed"} /\ Goto(<<"commit", z>>) /\ n \in Nat
  BY <1>1 DEF Enders, Ops
<1>3. x \notin Waiting /\ Room(x) = 0
  BY <1>2, BehindLast
<1>4. Good(mem) /\ Linked(mem) \subseteq Blocks /\ cur \in Locals
  BY <1>2, <1>3, CalmFacts
<1>5. b \in Linked(mem) /\ B("getPrev", b) \in Linked(mem) \union {NULL} /\ "backupTail" \in Tails
  BY <1>1, <1>4, LinkedFacts DEF H, B, Tails
<1>6. Glides
  BY <1>1, <1>5 DEF Glides
<1>7. On(b) /\ b \in Blocks \union {NULL}
  BY <1>1, <1>4, <1>5
<1>8. cur' \in Locals /\ cur'.k = cur.k
  BY <1>4, <1>7, OnFacts
<1>9. Keeps
  BY DEF Keeps, MapInv, ControlInv
<1>10. Calm(0) /\ LogStep
  BY <1>2, <1>3, <1>6, GlideCalm
<1>11. Running /\ Calm(n) /\ Room(x) + n <= 17
  BY <1>1, <1>3, <1>10 DEF Calm
<1>12. Onto("commit") /\ todo'[2] = z /\ ~Evicting(todo')
  BY <1>2, <1>8, <1>9, <1>11, PutCommit
<1>13. z \in Plain /\ z # "unlink" /\ z \notin BlockFamily /\ z = todo'[2]
  BY <1>1, <1>12 DEF Plain, Steps, BlockFamily, WriteFamily, AllocFamily
<1>14. ControlInv' /\ DataInv' /\ AllocInv'
  BY <1>2, <1>3, <1>11, <1>12, <1>13, CalmCommit
<1> QED BY <1>10, <1>14 DEF StepOK

LEMMA BackupStep == ASSUME MapInv, backup PROVE StepOK
<1>0. UNCHANGED <<mode, free, avail, calls, crashes>> /\ missed \subseteq Blocks
  BY DEF backup, MapInv, ControlInv
<1>1. CASE /\ At("backup") /\ Goto(<<>>) /\ UNCHANGED cur
           /\ IF cur.dirty = 1 \/ H("backupTail") = NULL
              THEN Store(Up("backupTail", NULL, H("getTail"))) /\ missed' = Linked(mem)
              ELSE NoStore /\ UNCHANGED missed
  BY <1>0, <1>1, BackupStart
<1>2. CASE At("backupNext") /\ NoStore /\ Goto(<<>>) /\ UNCHANGED <<cur, missed>>
  <2>1. PICK x : x = "backupNext"
    OBVIOUS
  <2>2. x \in Enders /\ At(x) /\ Glides /\ Keeps /\ cur' = cur /\ Goto(<<>>)
    BY <1>0, <1>2, <2>1 DEF Enders, Ops, Glides, Keeps
  <2> QED BY <1>0, <2>2, GlideEnds
<1>3. CASE At("backupNext") /\ H("backupTail") # NULL /\ On(H("backupTail")) /\ Goto(<<"commit", "handed">>)
           /\ Store(Up("backupTail", NULL, B("getPrev", H("backupTail")))) /\ UNCHANGED missed
  BY <1>0, <1>3, BackupNextStep
<1>4. CASE At("handed") /\ NoStore /\ todo' = Rest /\ missed' = missed \ {cur.b} /\ UNCHANGED cur
  <2>1. PICK x : x = "handed"
    OBVIOUS
  <2>2. x \in Enders /\ At(x) /\ Glides /\ Keeps /\ cur' = cur /\ todo' = Rest
    BY <1>0, <1>4, <2>1 DEF Enders, Glides, Keeps
  <2> QED BY <1>0, <2>2, GlideEnds
<1> QED BY <1>1, <1>2, <1>3, <1>4 DEF backup

LEMMA RecoverStep == ASSUME MapInv, recover PROVE StepOK
<1>1. PICK c : c = Chain(mem, Hash[cur.k])
  OBVIOUS
<1>2. PICK ns : ns = {n \in DOMAIN c : ~Decodes(c[n], TRUE)}
  OBVIOUS
<1>3. PICK bad : bad = FirstOf(c, ns)
  OBVIOUS
<1>4. PICK x, n, k, r, e, w : x = "recover" /\ n = 0 /\ k = cur.k /\ r = Rest /\ e = FALSE /\ w = "return"
  OBVIOUS
<1>5. x \in Ops /\ x \in Keyed /\ At(x) /\ Aside /\ NoStore
  BY <1>4 DEF Ops, Keyed, KeyOps, recover
<1>6. /\ x \notin Waiting /\ x # "return" /\ x \in Enders /\ Room(x) = 0 /\ Keeps /\ free' = free /\ avail' = avail
      /\ Begins(Rest, cur.k, "return", FALSE) /\ Rest \in Seq(Steps)
      /\ cur \in Locals /\ Good(mem) /\ cur.k \in Keys
  BY <1>5, LookupFacts
<1>7. Calm(0) /\ LogStep
  BY <1>5, <1>6, NoStoreCalm
<1>8. CASE bad = NULL
  <2>1. Goto(<<>>) /\ cur' = cur
    BY <1>1, <1>2, <1>3, <1>8 DEF recover
  <2>2. ControlInv' /\ DataInv' /\ AllocInv'
    BY <1>5, <1>6, <1>7, <2>1, EndsAtOnce
  <2> QED BY <1>7, <2>2 DEF StepOK
<1>9. CASE bad # NULL
  <2>1. Goto(EraseSteps \o <<"recover">>) /\ On(bad)
    BY <1>1, <1>2, <1>3, <1>9 DEF recover
  <2>2. bad \in Linked(mem) /\ bad \in Blocks \union {NULL}
    <3>1. Hash[cur.k] \in Buckets
      BY <1>6, MapAssumption
    <3>2. DOMAIN c \subseteq Nat /\ \A j \in DOMAIN c : c[j] \in Linked(mem)
      BY <1>1, <1>6, <3>1, ChainIn
    <3>3. ns \subseteq DOMAIN c
      BY <1>2
    <3>4. \E j \in ns : bad = c[j]
      BY <1>3, <1>9, <3>2, <3>3, FirstIn
    <3> QED BY <1>5, <1>6, <3>2, <3>3, <3>4, CalmFacts
  <2>3. cur' \in Locals /\ cur'.k = cur.k /\ cur'.b \in Linked(mem)
    BY <1>6, <2>1, <2>2, OnFacts
  <2>4. Begins(r, k, w, e) /\ ~e /\ w # "commit" /\ k \in Keys /\ r \in Seq(Steps)
    BY <1>4, <1>6
  <2>5. x \in Steps /\ x # "evict" /\ Follows(x, w) /\ x \in {"evict", "recover", "return"}
    BY <1>4, StepNames DEF Ops, Follows
  <2>6. Begins(<<x>> \o r, k, x, e)
    BY <2>4, <2>5, PutOne
  <2>7. Begins(EraseSteps \o (<<x>> \o r), k, "unlink", e)
    BY <2>5, <2>6, EraseBegins
  <2>8. todo' = EraseSteps \o (<<x>> \o r)
    <3>1. PICK g, h : g = EraseSteps /\ h = <<x>>
      OBVIOUS
    <3>2. g \in Seq(Steps) /\ h \in Seq(Steps)
      BY <1>4, <3>1, ListNamesSteps
    <3>3. (g \o h) \o r = g \o (h \o r)
      BY <2>4, <3>2, ConcatAssociative
    <3> QED BY <1>4, <2>1, <3>1, <3>3 DEF Goto
  <2>9. PICK y : y = "unlink"
    OBVIOUS
  <2>10. Begins(todo', cur'.k, y, e)
    BY <1>4, <2>3, <2>7, <2>8, <2>9
  <2>11. y \in Plain /\ y \notin Waiting /\ y # "count" /\ Room(y) = 2
    BY <2>9 DEF Plain, Steps, EraseFamily, WriteFamily, AllocFamily, Waiting, Room, Ops
  <2>12. n \in Nat /\ Calm(n) /\ Room(x) + n <= Room(y)
    BY <1>4, <1>6, <1>7, <2>11
  <2>13. ControlInv' /\ DataInv' /\ AllocInv'
    BY <1>5, <1>6, <2>3, <2>4, <2>10, <2>11, <2>12, PlainLands
  <2> QED BY <1>7, <2>13 DEF StepOK
<1> QED BY <1>8, <1>9

-----------------------------------------------------------------------------
(* Every step keeps the invariant *)

LEMMA MapStep == ASSUME MapInv, [Next]_vars PROVE StepOK
<1>1. CASE \E op \in mode.ops : Call(op)
  BY <1>1, CallStep
<1>2. CASE doUpdate \/ Leave \/ Release \/ Allocate \/ Evict \/ Alloc \/ Write \/ Mark \/ Refresh
  BY <1>2, DoUpdateStep, LeaveStep, ReleaseStep, AllocateStep, EvictStep, AllocStep, WriteStepOK, MarkStep, RefreshStep
<1>3. CASE get \/ set \/ del \/ setDirty \/ setClean \/ checkDirty \/ setDirtyAfterSync
  BY <1>3, GetStep, SetStep, DelStep, SetDirtyStep, SetCleanStep, CheckDirtyStep, SetDirtyAfterSyncStep
<1>4. CASE erase \/ sync \/ backup \/ recover
  BY <1>4, EraseStep, SyncStep, BackupStep, RecoverStep
<1>5. CASE Die
  BY <1>5, DieStep
<1>6. CASE Stop \/ UNCHANGED vars
  BY <1>6, StutterStep DEF Stop
<1> QED BY <1>1, <1>2, <1>3, <1>4, <1>5, <1>6 DEF Next

LEMMA MapInvStep == MapInv /\ [Next]_vars => MapInv' /\ LogStep
<1>1. SUFFICES ASSUME MapInv, [Next]_vars PROVE MapInv' /\ LogStep
  OBVIOUS
<1>2. LogStep /\ ControlInv' /\ AllocInv' /\ DataInv'
  BY <1>1, MapStep DEF StepOK
<1>3. LogInv'
  BY <1>1, <1>2, LogInvStep DEF MapInv, LogStep
<1> QED BY <1>2, <1>3 DEF MapInv

(* The empty map. *)
LEMMA EmptyGood ==
  ASSUME NEW m, \A f \in HeadLinks : m[<<f, NULL>>] = NULL, m[<<"elementCount", NULL>>] = 0,
         \A i \in Buckets : m[<<"blockAddr", i>>] = NULL /\ m[<<"listCount", i>>] = 0
  PROVE  Good(m) /\ Linked(m) = {}
<1>1. PICK s : s = <<>>
  OBVIOUS
<1>2. s \in Seq(Blocks) /\ Len(s) = 0 /\ DOMAIN s = {}
  BY <1>1
<1>3. Nth(s, 1) = NULL /\ Nth(s, Len(s)) = NULL /\ Elems(s) = {}
  BY <1>2 DEF Nth, Elems
<1>4. \A nx, pv : Linear(m, nx, pv, s)
  BY <1>2 DEF Linear
<1>5. ListOK(m, SetL, s) /\ ListOK(m, GetL, s)
  <2>1. \A l \in {SetL, GetL} : l.head \in HeadLinks /\ l.tail \in HeadLinks
    BY DEF SetL, GetL, HeadLinks
  <2> QED BY <1>3, <1>4, <2>1 DEF ListOK
<1>6. PICK C : C = [i \in Buckets |-> s]
  OBVIOUS
<1>7. \A i \in Buckets : C[i] = s /\ ChainOK(m, i, C[i])
  <2>1. \A i \in Buckets : ChainOK(m, i, s)
    BY <1>2, <1>3, <1>4 DEF ChainOK
  <2> QED BY <1>6, <2>1
<1>8. SameBlocks(m, s, s, C)
  BY <1>3, <1>7 DEF SameBlocks
<1>9. TailsOK(m, Elems(s)) /\ KeysOK(m, Elems(s))
  BY <1>3 DEF TailsOK, KeysOK, Tails, HeadLinks
<1>10. MapOK(m, s, s, C)
  BY <1>2, <1>5, <1>7, <1>8, <1>9 DEF MapOK
<1>11. C = [i \in Buckets |-> C[i]]
  BY <1>6
<1> QED BY <1>3, <1>10, <1>11, MapOKGood

LEMMA MapInvInit == Init => MapInv /\ LogInit
<1>1. SUFFICES ASSUME Init PROVE MapInv /\ LogInit
  OBVIOUS
<1>2. PICK Z : Z = HeadCounts \union {"listCount", "dirty", "onlyKey", "val"}
  OBVIOUS
<1>3. mem = [a \in HashAddr |-> IF a[1] \in Z THEN 0 ELSE NULL]
  BY <1>1, <1>2 DEF Init
<1>4. Typed(mem)
  <2>1. \A f : IF f \in Z THEN 0 \in Kind(f) ELSE f \in {g[1] : g \in HashAddr} => NULL \in Kind(f)
    <3>1. ASSUME NEW f \in Z PROVE 0 \in Kind(f)
      BY <1>2, MapAssumption DEF Kind, HeadLinks, BlockLinks, HeadCounts
    <3>2. ASSUME NEW a \in HashAddr, a[1] \notin Z PROVE NULL \in Kind(a[1])
      <4>1. a[1] \in HeadLinks \union HeadCounts \union BlockFields \union {"blockAddr", "listCount"}
        BY WordFields
      <4> QED BY <1>2, <3>2, <4>1 DEF Kind, BlockFields
    <3> QED BY <3>1, <3>2
  <2>2. \A a \in HashAddr : mem[a] \in Kind(a[1])
    BY <1>3, <2>1
  <2>3. mem \in [HashAddr -> HashValue]
    BY <1>3, MapAssumption DEF HashValue
  <2> QED BY <2>2, <2>3 DEF Typed
<1>5. Good(mem) /\ Linked(mem) = {}
  <2>1. \A f \in HeadLinks : mem[<<f, NULL>>] = NULL
    <3>1. ASSUME NEW f \in HeadLinks PROVE mem[<<f, NULL>>] = NULL
      <4>1. f \notin Z
        BY <1>2 DEF HeadLinks, HeadCounts
      <4> QED BY <1>3, <4>1, HeadWord
    <3> QED BY <3>1
  <2>2. mem[<<"elementCount", NULL>>] = 0
    <3>1. "elementCount" \in Z /\ "elementCount" \in HeadLinks \union HeadCounts
      BY <1>2 DEF HeadCounts
    <3> QED BY <1>3, <3>1, HeadWord
  <2>3. \A i \in Buckets : mem[<<"blockAddr", i>>] = NULL /\ mem[<<"listCount", i>>] = 0
    <3>1. "blockAddr" \notin Z /\ "listCount" \in Z
      BY <1>2 DEF HeadCounts
    <3> QED BY <1>3, <3>1, BucketWord
  <2> QED BY <2>1, <2>2, <2>3, EmptyGood
<1>6. LogInit
  BY <1>1, <1>4, MapWords DEF Init, LogInit, Typed
<1>7. LogInv
  BY <1>6, LogInvInit
<1>8. mode \in Modes /\ mode.crashes \in Nat /\ mode.size \in Nat
  <2>1. mode \in Modes
    BY <1>1 DEF Init
  <2> QED BY <2>1, MapModes, MapAssumption, FS_CardinalityType
<1>9. todo = <<>> /\ cur = Idle /\ log = <<>> /\ entered = FALSE /\ status = 0 /\ crashes = 0 /\ missed = {}
  BY <1>1 DEF Init
<1>10. ControlInv
  <2>1. Shape(todo, cur.k)
    BY <1>9 DEF Shape
  <2>2. cur \in Locals
    BY <1>9 DEF Idle, Locals
  <2>3. Len(log) <= 17
    BY <1>9
  <2> QED BY <1>8, <1>9, <2>1, <2>2, <2>3 DEF ControlInv
<1>11. AllocInv
  <2>1. free \in [1..mode.size -> Blocks] /\ IsInjective(free) /\ avail = mode.size
    BY <1>1 DEF Init
  <2>2. free \in Seq(Blocks) /\ Len(free) = mode.size
    BY <1>8, <2>1
  <2> QED BY <1>8, <1>9, <2>1, <2>2 DEF AllocInv, IsInjective
<1>12. DataInv
  <2>1. Recovered = mem /\ Coming = mem
    BY <1>9 DEF Recovered, Coming
  <2>2. log \in Seq(Entries)
    BY <1>9
  <2> QED BY <1>4, <1>5, <1>9, <2>1, <2>2 DEF DataInv, Sound
<1> QED BY <1>6, <1>7, <1>10, <1>11, <1>12 DEF MapInv

-----------------------------------------------------------------------------
(* What the invariant says of the map *)

LEMMA ListSound ==
  ASSUME NEW m, NEW l \in {SetL, GetL}, NEW s, ListOK(m, l, s)
  PROVE  /\ Len(s) <= Cardinality(Blocks) /\ IsInjective(s) /\ ToSet(s) = Elems(s)
         /\ Follow(m, l.prev, m[<<l.tail, NULL>>]) = Reverse(s)
<1>1. Linear(m, l.next, l.prev, s) /\ m[<<l.tail, NULL>>] = Nth(s, Len(s))
  BY DEF ListOK
<1>2. Distinct(s)
  BY <1>1, LinearDistinct
<1>3. /\ DOMAIN s = 1..Len(s) /\ Len(s) \in Nat
      /\ \A i \in 1..Len(s) : s[i] \in Blocks
      /\ \A i, j \in 1..Len(s) : s[i] = s[j] => i = j
  BY <1>2, DistinctFacts
<1>4. PICK r, n, nx, pv : r = Reverse(s) /\ n = Len(s) /\ nx = l.next /\ pv = l.prev
  OBVIOUS
<1>5. r = [i \in 1..n |-> s[(n - i) + 1]] /\ n \in Nat
  BY <1>3, <1>4 DEF Reverse
<1>6. \A i \in 1..n : (n - i) + 1 \in 1..n /\ r[i] = s[(n - i) + 1]
  BY <1>5
<1>7. r \in Seq(Blocks) /\ Len(r) = n /\ DOMAIN r = 1..n
  <2>1. \A i \in 1..n : r[i] \in Blocks
    BY <1>3, <1>4, <1>6
  <2>2. r = [i \in 1..n |-> r[i]]
    BY <1>5
  <2> QED BY <1>5, <2>1, <2>2, FunSeq
<1>8. \A i, j \in DOMAIN r : r[i] = r[j] => i = j
  <2>1. ASSUME NEW i \in 1..n, NEW j \in 1..n, r[i] = r[j] PROVE i = j
    <3>1. (n - i) + 1 = (n - j) + 1
      BY <1>3, <1>4, <1>6, <2>1
    <3> QED BY <1>5, <3>1
  <2> QED BY <1>7, <2>1
<1>9. ASSUME NEW i \in 1..n
      PROVE  m[<<pv, r[i]>>] = Nth(r, i + 1) /\ m[<<nx, r[i]>>] = Nth(r, i - 1)
  <2>1. PICK j \in 1..n : j = (n - i) + 1
    BY <1>6
  <2>2. m[<<nx, s[j]>>] = Nth(s, j + 1) /\ m[<<pv, s[j]>>] = Nth(s, j - 1)
    BY <1>1, <1>3, <1>4 DEF Linear
  <2>3. Nth(s, j - 1) = Nth(r, i + 1)
    <3>1. j - 1 \in 1..n <=> i + 1 \in 1..n
      BY <1>5, <2>1
    <3>2. i + 1 \in 1..n => r[i + 1] = s[j - 1]
      <4>1. (n - (i + 1)) + 1 = j - 1
        BY <1>5, <2>1
      <4> QED BY <1>6, <4>1
    <3> QED BY <1>3, <1>4, <1>7, <3>1, <3>2 DEF Nth
  <2>4. Nth(s, j + 1) = Nth(r, i - 1)
    <3>1. j + 1 \in 1..n <=> i - 1 \in 1..n
      BY <1>5, <2>1
    <3>2. i - 1 \in 1..n => r[i - 1] = s[j + 1]
      <4>1. (n - (i - 1)) + 1 = j + 1
        BY <1>5, <2>1
      <4> QED BY <1>6, <4>1
    <3> QED BY <1>3, <1>4, <1>7, <3>1, <3>2 DEF Nth
  <2> QED BY <1>6, <2>1, <2>2, <2>3, <2>4
<1>10. Linear(m, pv, nx, r)
  BY <1>7, <1>8, <1>9 DEF Linear
<1>11. Nth(r, 1) = Nth(s, n)
  <2>1. 1 \in 1..n <=> n \in 1..n
    BY <1>5
  <2>2. 1 \in 1..n => r[1] = s[n]
    BY <1>5, <1>6
  <2> QED BY <1>3, <1>4, <1>7, <2>1, <2>2 DEF Nth
<1>12. PICK b : b = m[<<l.tail, NULL>>]
  OBVIOUS
<1>13. b = Nth(r, 1)
  BY <1>1, <1>4, <1>11, <1>12
<1>14. Follow(m, pv, b) = r
  BY <1>10, <1>13, LinearFollow
<1>15. IsInjective(s) /\ ToSet(s) = Elems(s)
  BY <1>3 DEF IsInjective, ToSet, Elems
<1>16. Len(s) <= Cardinality(Blocks)
  BY <1>2, DistinctLen
<1> QED BY <1>4, <1>12, <1>14, <1>15, <1>16

LEMMA ChainsSound ==
  ASSUME NEW m, Good(m), NEW i \in Buckets, NEW s, s = Chain(m, i)
  PROVE  /\ IsInjective(s) /\ m[<<"listCount", i>>] = Len(s)
         /\ \A n \in DOMAIN s : /\ m[<<"index", s[n]>>] = i
                                /\ m[<<"blockPrev", s[n]>>] = IF n = 1 THEN NULL ELSE s[n - 1]
<1>1. ChainOK(m, i, s)
  <2>1. MapOK(m, SetSeq(m), GetSeq(m), Chains(m)) /\ Chains(m)[i] = s
    BY GoodFacts
  <2> QED BY <2>1 DEF MapOK
<1>2. Linear(m, "blockNext", "blockPrev", s)
  BY <1>1 DEF ChainOK
<1>3. DOMAIN s = 1..Len(s) /\ Len(s) \in Nat
  BY <1>2, LinearDistinct, DistinctFacts
<1>4. IsInjective(s)
  BY <1>2 DEF Linear, IsInjective
<1>5. ASSUME NEW n \in DOMAIN s PROVE m[<<"blockPrev", s[n]>>] = IF n = 1 THEN NULL ELSE s[n - 1]
  <2>1. m[<<"blockPrev", s[n]>>] = Nth(s, n - 1)
    BY <1>2 DEF Linear
  <2>2. n - 1 \in DOMAIN s <=> n # 1
    BY <1>3
  <2> QED BY <2>1, <2>2 DEF Nth
<1> QED BY <1>1, <1>4, <1>5 DEF ChainOK

LEMMA ChainsTogether ==
  ASSUME NEW m, Good(m)
  PROVE  UNION {ToSet(Chain(m, i)) : i \in Buckets} = Linked(m)
<1>1. /\ MapOK(m, SetSeq(m), GetSeq(m), Chains(m)) /\ Linked(m) = Elems(SetSeq(m))
      /\ \A i \in Buckets : Chains(m)[i] = Chain(m, i)
  BY GoodFacts
<1>2. SameBlocks(m, SetSeq(m), GetSeq(m), Chains(m))
  BY <1>1 DEF MapOK
<1>3. \A i \in Buckets : ToSet(Chain(m, i)) = Elems(Chains(m)[i])
  BY <1>1 DEF ToSet, Elems
<1>4. \A i \in Buckets : ToSet(Chain(m, i)) \subseteq Linked(m)
  BY <1>1, <1>2, <1>3 DEF SameBlocks
<1>5. \A b \in Linked(m) : m[<<"index", b>>] \in Buckets /\ b \in ToSet(Chain(m, m[<<"index", b>>]))
  BY <1>1, <1>2, <1>3 DEF SameBlocks
<1> QED BY <1>4, <1>5

LEMMA InvListsSound == ASSUME MapInv PROVE ListsSound
<1> DEFINE m == Recovered
<1>2. Good(m)
  BY DEF MapInv, DataInv, Sound
<1>3. /\ MapOK(m, SetSeq(m), GetSeq(m), Chains(m)) /\ Linked(m) = Elems(SetSeq(m))
      /\ Linked(m) = Elems(GetSeq(m)) /\ Distinct(SetSeq(m))
  BY <1>2, GoodFacts
<1>4. ListOK(m, SetL, SetSeq(m)) /\ ListOK(m, GetL, GetSeq(m)) /\ m[<<"elementCount", NULL>>] = Len(SetSeq(m))
  BY <1>3 DEF MapOK
<1>5. SetSeq(m) = Follow(m, SetL.next, m[<<SetL.head, NULL>>]) /\ GetSeq(m) = Follow(m, GetL.next, m[<<GetL.head, NULL>>])
  BY DEF SetSeq, GetSeq, SetL, GetL
<1> HIDE DEF m
<1>6. ASSUME NEW l \in {SetL, GetL}, NEW s, s = Follow(m, l.next, m[<<l.head, NULL>>])
      PROVE  /\ Len(s) <= Cardinality(Blocks) /\ IsInjective(s)
             /\ Follow(m, l.prev, m[<<l.tail, NULL>>]) = Reverse(s)
             /\ ToSet(s) = Linked(m)
  <2>1. ListOK(m, l, s) /\ Linked(m) = Elems(s)
    BY <1>3, <1>4, <1>5, <1>6
  <2> QED BY <2>1, ListSound
<1>7. m[<<"elementCount", NULL>>] = Cardinality(Linked(m))
  BY <1>3, <1>4, DistinctLen
<1>8. ASSUME NEW i \in Buckets, NEW s, s = Chain(m, i)
      PROVE  /\ IsInjective(s) /\ m[<<"listCount", i>>] = Len(s)
             /\ \A n \in DOMAIN s : /\ m[<<"index", s[n]>>] = i
                                    /\ m[<<"blockPrev", s[n]>>] = IF n = 1 THEN NULL ELSE s[n - 1]
  BY <1>2, <1>8, ChainsSound
<1>9. UNION {ToSet([j \in Buckets |-> Chain(m, j)][i]) : i \in Buckets} = Linked(m)
  <2>1. \A i \in Buckets : [j \in Buckets |-> Chain(m, j)][i] = Chain(m, i)
    OBVIOUS
  <2> QED BY <1>2, <2>1, ChainsTogether
<1>10. ASSUME NEW l \in {SetL, GetL}
       PROVE  LET s == Follow(m, l.next, m[<<l.head, NULL>>])
              IN  /\ Len(s) <= Cardinality(Blocks) /\ IsInjective(s)
                  /\ Follow(m, l.prev, m[<<l.tail, NULL>>]) = Reverse(s)
                  /\ ToSet(s) = Linked(m)
  BY <1>6
<1>11. ASSUME NEW i \in Buckets
       PROVE  LET s == [j \in Buckets |-> Chain(m, j)][i]
              IN  /\ IsInjective(s) /\ m[<<"listCount", i>>] = Len(s)
                  /\ \A n \in DOMAIN s :
                       /\ m[<<"index", s[n]>>] = i
                       /\ m[<<"blockPrev", s[n]>>] = IF n = 1 THEN NULL ELSE s[n - 1]
  <2>1. PICK s : s = [j \in Buckets |-> Chain(m, j)][i]
    OBVIOUS
  <2>2. s = Chain(m, i)
    BY <2>1
  <2> QED BY <1>8, <2>1, <2>2
<1> QED BY <1>7, <1>9, <1>10, <1>11 DEF ListsSound, m

LEMMA InvTypeOK == ASSUME MapInv PROVE TypeOK
<1>1. mem \in [HashAddr -> HashValue]
  BY DEF MapInv, DataInv, Typed
<1>2. log \in Seq([addr : HashAddr, val : HashValue]) /\ status \in 0..2 /\ copied \in 0..Len(log) /\ entered \in BOOLEAN
  BY MapWords DEF MapInv, LogInv, LogTypeOK, LogEntry
<1>3. free \in Seq(Blocks) /\ avail \in 0..Cardinality(Blocks)
  <2>1. Distinct(free) /\ avail \in 0..Len(free)
    BY DEF MapInv, AllocInv, Distinct
  <2>2. Len(free) <= Cardinality(Blocks) /\ Cardinality(Blocks) \in Nat /\ Len(free) \in Nat
    BY <2>1, DistinctLen, DistinctFacts
  <2> QED BY <2>1, <2>2 DEF Distinct
<1> QED BY <1>1, <1>2, <1>3 DEF TypeOK, MapInv, ControlInv

LEMMA InvMapSound == ASSUME MapInv PROVE MapSound
<1>1. Good(Recovered) /\ Linked(Recovered) \intersect Elems(free) = {}
  BY DEF MapInv, DataInv, Sound
<1>2. FreeApart
  <2>1. ToSet(free) = Elems(free)
    BY DEF ToSet, Elems
  <2>2. IsInjective(free) /\ avail <= Len(free)
    <3>1. free \in Seq(Blocks) /\ avail \in 0..Len(free)
      BY DEF MapInv, AllocInv
    <3> QED BY <3>1 DEF MapInv, AllocInv, IsInjective
  <2> QED BY <1>1, <2>1, <2>2 DEF FreeApart
<1>3. TailsListed
  BY <1>1, LinkedFacts DEF TailsListed, Tails
<1>4. KeyOnce
  <2>1. KeysOK(Recovered, Linked(Recovered))
    BY <1>1, GoodFacts DEF MapOK
  <2> QED BY <2>1 DEF KeysOK, KeyOnce
<1>5. LogFits
  <2>1. Len(log) <= 17 /\ Len(log) \in Nat
    BY DEF MapInv, ControlInv, DataInv
  <2> QED BY <2>1 DEF LogFits
<1> QED BY <1>2, <1>3, <1>4, <1>5, InvTypeOK, InvListsSound DEF MapSound

-----------------------------------------------------------------------------
(***************************************************************************)
(* The invariant of the map: at every store of every operation, and        *)
(* wherever the process dies, the links spell the lists and the chains,    *)
(* and the steps that an operation has left find the block they rely on.   *)
(***************************************************************************)
THEOREM MapInvariant == Spec => []MapInv
<1>1. Init => MapInv
  BY MapInvInit
<1>2. MapInv /\ [Next]_vars => MapInv'
  BY MapInvStep
<1> QED BY <1>1, <1>2, PTL DEF Spec

(***************************************************************************)
(* TC_HashMap survives every crash: whatever store of whatever operation   *)
(* was the last one, and however often the process dies, the lists, the    *)
(* chains, the tails and the free blocks that the next one finds fit       *)
(* together, no key is there twice, and the log has room, for any number   *)
(* of blocks, keys, buckets, operations and crashes.                       *)
(***************************************************************************)
THEOREM MapIsSound == Spec => []MapSound
<1>1. MapInv => MapSound
  BY InvMapSound
<1> QED BY <1>1, MapInvariant, PTL

(***************************************************************************)
(* Every operation of TC_HashMap keeps the protocol of the log: it opens   *)
(* with doUpdate(), gathers only behind that, copies only a log it has     *)
(* finished, and writes past the log one object at a time.                 *)
(***************************************************************************)
THEOREM MapKeepsProtocol == Spec => LogSpec
<1>1. Init => LogInit
  BY MapInvInit
<1>2. MapInv /\ [Next]_vars => [LogNext]_logVars
  BY MapInvStep DEF LogStep
<1> QED BY <1>1, <1>2, MapInvariant, PTL DEF Spec, LogSpec

(***************************************************************************)
(* So the writes that an operation of TC_HashMap finishes with             *)
(* doUpdate(true) reach the shared memory all together or not at all, and  *)
(* no link, head or element count changes but by them.                     *)
(***************************************************************************)
THEOREM MapIsAtomic == Spec => AllOrNothing
BY MapKeepsProtocol, LogAtomic, PTL
=============================================================================
