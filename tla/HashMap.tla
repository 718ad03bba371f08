------------------------------- MODULE HashMap -------------------------------
(***************************************************************************)
(* TC_HashMap (src/util/src/tc_hashmap.cpp) and the block allocator under  *)
(* it (tc_mem_chunk.cpp): a hash table in shared memory whose blocks hang  *)
(* in a hash chain, in a list by time of set and in a list by time of get. *)
(* The process that works on it may die between any two stores, and the    *)
(* next process attaches to whatever it left behind.                       *)
(*                                                                         *)
(* One operation runs at a time (the users hold the container's lock). An  *)
(* operation is a list of steps still to do; a step writes to the log,     *)
(* writes one object of the shared memory directly, or moves the log.      *)
(* Abstracted: the value bytes (a block's data is a key, or a key and a    *)
(* value, or cannot be decoded), the times (whether a block is due for     *)
(* writing back is a free choice), the two statistics _iGetCount and       *)
(* _iHitCount (their log entries are kept, their numbers are not), the     *)
(* sizes (every record fits one block, so no chunk follows a block). The   *)
(* counts are unsigned and wrap around.                                    *)
(***************************************************************************)
EXTENDS ModifyLog, Integers, FiniteSets, SequencesExt

CONSTANTS
  Blocks, Keys, Buckets, NULL,   \* NULL is the address 0
  Hash,          \* hashIndex: [Keys -> Buckets]
  EraseCount,    \* _iEraseCount: how many records one eviction removes
  MaxCount,      \* the largest size_t
  Modes          \* which operations are called, on how many blocks, how many crashes

VARIABLES
  mode,      \* the member of Modes this behaviour uses
  free,      \* the allocator's free list, first block first
  avail,     \* the allocator's _blockAvailable
  todo,      \* the steps of the operation under way
  cur,       \* its arguments and local variables
  calls,     \* how many operations have been called
  crashes,   \* how often the process has died
  missed     \* the blocks the backup sweep under way still owes its caller

mapVars == <<mode, free, avail, todo, cur, calls, crashes, missed>>
vars == <<mem, log, status, copied, entered, mapVars>>

HeadLinks == {"setHead", "setTail", "getHead", "getTail",
              "dirtyTail", "syncTail", "backupTail"}
HeadCounts == {"dirtyCount", "elementCount", "onlyKeyCount", "usedChunk",
               "getCount", "hitCount"}
BlockLinks == {"setNext", "setPrev", "getNext", "getPrev", "blockNext", "blockPrev"}
BlockFields == BlockLinks \union {"index", "dirty", "onlyKey", "key", "val"}

HeadWords == (HeadLinks \union HeadCounts) \X {NULL}
BlockWords(b) == {<<f, b>> : f \in BlockFields}
BucketWords == {"blockAddr", "listCount"} \X Buckets
HashAddr == HeadWords \union BucketWords \union UNION {BlockWords(b) : b \in Blocks}
HashValue == Blocks \union Keys \union Buckets \union {NULL}
             \union 0..MaxCount

(* What is written past the log whether or not the block is linked: the    *)
(* count of used chunks, the tails of the rounds, a record's flags and its *)
(* data (allocateMemBlock, deallocateMemBlock, sync, backup, erase,        *)
(* setDirtyAfterSync, Block::set).                                         *)
HashGroups ==
  {{<<f, NULL>>} : f \in {"usedChunk", "dirtyTail", "syncTail", "backupTail"}}
  \union {{<<f, b>>} : f \in {"dirty", "onlyKey"}, b \in Blocks}
  \union {{<<"key", b>>, <<"val", b>>} : b \in Blocks}
HashLinks == (HeadLinks \X {NULL}) \union (BlockLinks \X Blocks) \union ({"blockAddr"} \X Buckets)
HashWords == [b \in Blocks |-> BlockWords(b)]

Ops == {"get", "set", "setKey", "del", "setDirty", "setClean", "checkDirty", "setDirtyAfterSync",
        "erase", "sync", "syncNext", "backup", "backupNext", "recover"}

(* NULL is no block, key or bucket, the counts can count all blocks, and   *)
(* the log is about the words of the map.                                  *)
ASSUME MapAssumption ==
  /\ NULL \notin Blocks \union Keys \union Buckets
  /\ IsFiniteSet(Blocks)
  /\ MaxCount \in Nat \ {0} /\ Cardinality(Blocks) <= MaxCount
  /\ Hash \in [Keys -> Buckets] /\ EraseCount \in Nat
ASSUME MapModes ==
  Modes \subseteq [ops : SUBSET Ops, size : 0..Cardinality(Blocks), calls : Nat, crashes : Nat,
                  dirty : SUBSET (0..1), autoErase : BOOLEAN, eraseBySet : BOOLEAN]
ASSUME MapWords ==
  /\ Addr = HashAddr /\ Value = HashValue
  /\ Groups = HashGroups /\ Links = HashLinks /\ Words = HashWords

\* memset: what a block holds that was never used or was given back
Zero(f) == IF f \in {"dirty", "onlyKey", "val"} THEN 0 ELSE NULL

H(f) == mem[<<f, NULL>>]
B(f, b) == mem[<<f, b>>]
Up(f, x, v) == <<[addr |-> <<f, x>>, val |-> v]>>
Inc(f, x) == Up(f, x, IF mem[<<f, x>>] = MaxCount THEN 0 ELSE mem[<<f, x>>] + 1)
Dec(f, x) == Up(f, x, IF mem[<<f, x>>] = 0 THEN MaxCount ELSE mem[<<f, x>>] - 1)
When(c, es) == IF c THEN es ELSE <<>>
incGetCount == Up("getCount", NULL, 0)
incHitCount == Up("hitCount", NULL, 0)

SetL == [head |-> "setHead", tail |-> "setTail", next |-> "setNext", prev |-> "setPrev"]
GetL == [head |-> "getHead", tail |-> "getTail", next |-> "getNext", prev |-> "getPrev"]

(* The blocks met from b along the links f of the memory m; a walk that    *)
(* does not end is one block longer than there are blocks.                 *)
Link(m, f, b) == IF b = NULL THEN NULL ELSE m[<<f, b>>]
Walk(m, f, b) ==
  LET at[n \in 0..Cardinality(Blocks)] == IF n = 0 THEN b ELSE Link(m, f, at[n - 1])
  IN  at
Follow(m, f, b) ==
  LET at == Walk(m, f, b)
  IN  [n \in 1..Cardinality({i \in DOMAIN at : at[i] # NULL}) |-> at[n - 1]]

Chain(m, i) == Follow(m, "blockNext", m[<<"blockAddr", i>>])
Linked(m) == ToSet(Follow(m, "setNext", m[<<"setHead", NULL>>]))

-----------------------------------------------------------------------------
(* What the operations of a block put into the log. *)

PutFirst(l, b) ==
  IF H(l.head) = NULL THEN Up(l.head, NULL, b) \o Up(l.tail, NULL, b)
  ELSE Up(l.next, b, H(l.head)) \o Up(l.prev, H(l.head), b) \o Up(l.head, NULL, b)

PutInChain(b, i) ==
  LET first == mem[<<"blockAddr", i>>]
  IN  Inc("listCount", i) \o When(first # NULL, Up("blockPrev", first, b))
      \o Up("blockNext", b, first) \o Up("blockAddr", i, b) \o Up("blockPrev", b, NULL)

makeNewLog(b, i) ==
  Inc("dirtyCount", NULL) \o Inc("elementCount", NULL) \o PutInChain(b, i)
  \o PutFirst(SetL, b) \o PutFirst(GetL, b)

Unlink(l, b) ==
  LET p == B(l.prev, b)
      n == B(l.next, b)
      isHead == H(l.head) = b
      isTail == H(l.tail) = b
  IN  IF isHead
      THEN IF isTail THEN Up(l.head, NULL, NULL) \o Up(l.tail, NULL, NULL)
           ELSE Up(l.head, NULL, n) \o Up(l.prev, n, NULL)
      ELSE IF isTail THEN Up(l.tail, NULL, p) \o Up(l.next, p, NULL)
           ELSE Up(l.next, p, n) \o Up(l.prev, n, p)

Unchain(b) ==
  LET p == B("blockPrev", b)
      n == B("blockNext", b)
      i == B("index", b)
  IN  When(p # NULL, Up("blockNext", p, n)) \o When(n # NULL, Up("blockPrev", n, p))
      \o Dec("listCount", i) \o When(p = NULL, Up("blockAddr", i, n))

TailsPast(b) ==   \* no round goes on from the block
  When(H("dirtyTail") = b, Up("dirtyTail", NULL, B("setPrev", b)))
  \o When(H("syncTail") = b, Up("syncTail", NULL, B("setPrev", b)))
  \o When(H("backupTail") = b, Up("backupTail", NULL, B("getPrev", b)))

Uncount(b) ==
  When(B("dirty", b) = 1, Dec("dirtyCount", NULL))
  \o When(B("onlyKey", b) = 1, Dec("onlyKeyCount", NULL)) \o Dec("elementCount", NULL)

eraseLog(b) == TailsPast(b) \o Unlink(SetL, b) \o Unlink(GetL, b) \o Unchain(b) \o Uncount(b)

MoveToHead(l, b) ==
  LET p == B(l.prev, b)
      n == B(l.next, b)
  IN  Up(l.next, b, H(l.head)) \o Up(l.prev, H(l.head), b)
      \o Up(l.head, NULL, b) \o Up(l.prev, b, NULL) \o Up(l.next, p, n)
      \o (IF n # NULL THEN Up(l.prev, n, p) ELSE Up(l.tail, NULL, p))

refreshSetLogStays(b) ==   \* mutant of refreshSetLog: the dirty tail moves with the block
  When(H("syncTail") = b /\ H("setHead") # b, Up("syncTail", NULL, B("setPrev", b)))
  \o When(H("dirtyTail") = NULL, Up("dirtyTail", NULL, b))
  \o When(H("setHead") # b, MoveToHead(SetL, b))

refreshSetLog(b) ==
  LET atHead == H("setHead") = b
  IN  When(H("syncTail") = b /\ ~atHead, Up("syncTail", NULL, B("setPrev", b)))
      \o (IF H("dirtyTail") = b /\ ~atHead THEN Up("dirtyTail", NULL, B("setPrev", b))
          ELSE When(H("dirtyTail") = NULL, Up("dirtyTail", NULL, b)))
      \o When(~atHead, MoveToHead(SetL, b))

refreshGetLog(b) ==
  When(H("backupTail") = b, Up("backupTail", NULL, B("getPrev", b))) \o MoveToHead(GetL, b)

TailToHead(l, b) ==   \* the last block of the list becomes its first
  LET p == B(l.prev, b)
  IN  Up(l.tail, NULL, p) \o Up(l.next, p, NULL) \o Up(l.prev, b, NULL)
      \o Up(l.next, b, H(l.head)) \o Up(l.prev, H(l.head), b) \o Up(l.head, NULL, b)

setDirtyLogUncounted(b, d) == Up("dirty", b, d)   \* mutant of setDirtyLog

setDirtyLog(b, d) ==
  (IF d = 1 THEN Inc("dirtyCount", NULL) ELSE Dec("dirtyCount", NULL)) \o Up("dirty", b, d)

-----------------------------------------------------------------------------
(* find: the first block of the chain whose record decodes to the key. The *)
(* lookup of get and del decodes the value as well, the one of the others  *)
(* only the key. A lookup that finds nothing reports the error of the last *)
(* block it could not decode, if that was the last of the chain.           *)

Decodes(b, whole) ==
  B("key", b) # NULL /\ (whole => B("onlyKey", b) = 1 \/ B("val", b) = 1)

FirstOf(c, ns) == IF ns = {} THEN NULL ELSE c[Min(ns)]

find(k, whole) ==
  LET c == Chain(mem, Hash[k])
  IN  FirstOf(c, {n \in DOMAIN c : Decodes(c[n], whole) /\ B("key", c[n]) = k})
findError(k) ==
  LET s == Chain(mem, Hash[k])
  IN  find(k, FALSE) = NULL /\ s # <<>> /\ ~Decodes(Last(s), FALSE)

-----------------------------------------------------------------------------
(* The steps. Each one is the head of todo; a step that stores to the      *)
(* shared memory does one store, or writes one object.                     *)

Idle == [k |-> NULL, b |-> NULL, only |-> 0, dirty |-> 0, left |-> 0]

At(step) == todo # <<>> /\ Head(todo) = step
Rest == Tail(todo)
Goto(steps) == todo' = steps \o Rest
On(b) == cur' = [cur EXCEPT !.b = b]
Aside == UNCHANGED <<mode, free, avail, calls, crashes, missed>>

NoStore == UNCHANGED <<mem, log, status, copied, entered>>
Log(es) == IF es = <<>> THEN NoStore ELSE update(es)
Store(es) ==   \* past the log: the words of one object
  /\ mem' = [a \in HashAddr |->
               IF \E i \in DOMAIN es : es[i].addr = a
               THEN es[CHOOSE i \in DOMAIN es : es[i].addr = a].val ELSE mem[a]]
  /\ UNCHANGED <<log, status, copied, entered>>
StoreBlock(b, Val(_)) ==
  /\ mem' = [a \in HashAddr |-> IF a \in BlockWords(b) THEN Val(a[1]) ELSE mem[a]]
  /\ UNCHANGED <<log, status, copied, entered>>
StoreIf(c, es) == IF c THEN Store(es) ELSE NoStore

\* mutant of EraseSteps: the block is given back before the log is finished
EraseStepsEarly == <<"unlink", "release", "count", "commit", "wipe", "unused">>

EraseSteps == <<"unlink", "commit", "wipe", "release", "count", "unused">>
AllocSteps == <<"take", "pop", "init", "makeNew", "commit", "used">>
WriteSteps == <<"flags", "dirty", "only", "copy", "length", "commit">>
RefreshSteps == <<"refreshSet", "commit", "refreshGet">>

(* The user of the map calls an operation: one key, and a flag (bDirty of  *)
(* set, bCheckDirty of erase, bForceFromBegin of backup) where it has one. *)
Args(op) ==
  LET ks == IF op \in {"erase", "sync", "syncNext", "backup", "backupNext"} THEN {NULL} ELSE Keys
      ds == IF op = "set" THEN mode.dirty ELSE IF op \in {"erase", "backup"} THEN 0..1 ELSE {0}
      only == IF op = "setKey" THEN 1 ELSE 0
  IN  {[k |-> k, b |-> NULL, only |-> only, dirty |-> d, left |-> 0] : k \in ks, d \in ds}

CallNoUpdate(op) ==   \* mutant of Call: the operation does not begin with doUpdate()
  /\ todo = <<>> /\ calls < mode.calls
  /\ calls' = calls + 1
  /\ cur' \in Args(op)
  /\ todo' = <<op, "return">>
  /\ NoStore /\ UNCHANGED <<mode, free, avail, crashes, missed>>

Call(op) ==
  /\ todo = <<>> /\ calls < mode.calls
  /\ calls' = calls + 1
  /\ cur' \in Args(op)
  /\ todo' = <<"enter", op, "return">>
  /\ NoStore /\ UNCHANGED <<mode, free, avail, crashes, missed>>

doUpdate ==
  /\ \/ At("enter") /\ (Discard \/ CopyDone) /\ UNCHANGED todo
     \/ (At("enter") \/ At("apply")) /\ CopyOne /\ UNCHANGED todo
     \/ At("apply") /\ CopyDone /\ todo' = Rest
     \/ At("enter") /\ Enter /\ todo' = Rest
     \/ At("commit") /\ finish /\ Goto(<<"apply">>)
  /\ UNCHANGED cur /\ Aside

Leave ==
  /\ At("return") /\ Return
  /\ todo' = <<>> /\ cur' = Idle /\ Aside

-----------------------------------------------------------------------------
(* The steps of Block and of the allocator that several operations share. *)

Release ==   \* Block::erase, then deallocate
  LET b == cur.b IN
  /\ \/ At("unlink") /\ update(eraseLog(b)) /\ UNCHANGED <<free, avail, missed>>
     \/ /\ At("wipe") /\ StoreBlock(b, Zero)
        /\ missed' = missed \ {b} /\ UNCHANGED <<free, avail>>
     \/ At("release") /\ free' = <<b>> \o free /\ NoStore /\ UNCHANGED <<avail, missed>>
     \/ At("count") /\ avail' = avail + 1 /\ NoStore /\ UNCHANGED <<free, missed>>
     \/ At("unused") /\ Store(Dec("usedChunk", NULL)) /\ UNCHANGED <<free, avail, missed>>
  /\ todo' = Rest /\ UNCHANGED <<cur, mode, calls, crashes>>

Allocate ==   \* BlockAllocator::allocateMemBlock when the allocator has a block
  LET b == cur.b IN
  /\ \/ At("take") /\ avail' = avail - 1 /\ NoStore /\ UNCHANGED <<free, cur>>
     \/ At("pop") /\ free' = Tail(free) /\ On(Head(free)) /\ NoStore /\ UNCHANGED avail
     \/ /\ At("init")
        /\ StoreBlock(b, LAMBDA f : IF f = "dirty" THEN 1
                                    ELSE IF f = "index" THEN Hash[cur.k] ELSE Zero(f))
        /\ UNCHANGED <<free, avail, cur>>
     \/ At("makeNew") /\ update(makeNewLog(b, Hash[cur.k])) /\ UNCHANGED <<free, avail, cur>>
     \/ At("used") /\ Store(Inc("usedChunk", NULL)) /\ UNCHANGED <<free, avail, cur>>
  /\ todo' = Rest /\ UNCHANGED <<mode, calls, crashes, missed>>

Evict ==   \* eraseExcept(0): a record whose value is missing is erased and not counted
  LET v == IF mode.eraseBySet THEN H("setTail") ELSE H("getTail")
      ok == v # NULL /\ B("onlyKey", v) = 0 /\ Decodes(v, TRUE)
  IN
  /\ At("evict") /\ NoStore /\ Aside
  /\ IF v = NULL \/ cur.left = 0
     THEN /\ todo' = IF cur.left = EraseCount THEN <<"return">> ELSE <<"alloc">> \o Rest
          /\ UNCHANGED cur
     ELSE /\ cur' = [cur EXCEPT !.b = v, !.left = @ - (IF ok THEN 1 ELSE 0)]
          /\ Goto(EraseSteps \o <<"evict">>)

Alloc ==
  /\ At("alloc") /\ NoStore /\ Aside
  /\ \/ avail > 0 /\ Goto(AllocSteps) /\ UNCHANGED cur
     \/ avail = 0 /\ mode.autoErase /\ Goto(<<"evict">>) /\ cur' = [cur EXCEPT !.left = EraseCount]
     \/ avail = 0 /\ ~mode.autoErase /\ todo' = <<"return">> /\ UNCHANGED cur

Write ==   \* Block::set: the counters go through the log, the rest does not
  LET b == cur.b
      only == cur.only
  IN
  /\ \/ /\ At("flags")
        /\ Log(IF only = 1
               THEN When(B("dirty", b) = 1, Dec("dirtyCount", NULL))
                    \o When(B("onlyKey", b) = 0, Inc("onlyKeyCount", NULL))
               ELSE When(B("dirty", b) = 0, Inc("dirtyCount", NULL))
                    \o When(B("onlyKey", b) = 1, Dec("onlyKeyCount", NULL)))
     \/ At("dirty") /\ Store(Up("dirty", b, 1 - only))
     \/ At("only") /\ Store(Up("onlyKey", b, only))
     \* the new bytes lie under the old length: the value may not decode
     \/ At("copy") /\ \E v \in {0, B("val", b)} : Store(Up("val", b, v))
     \/ At("length") /\ Store(Up("key", b, cur.k) \o Up("val", b, 1 - only))
  /\ todo' = Rest /\ UNCHANGED cur /\ Aside

Mark ==   \* Block::setDirty
  /\ At("mark") /\ UNCHANGED cur /\ Aside
  /\ IF B("dirty", cur.b) # cur.dirty
     THEN update(setDirtyLog(cur.b, cur.dirty)) /\ Goto(<<"commit">>)
     ELSE NoStore /\ todo' = Rest

Refresh ==   \* Block::refreshSetList, which ends in refreshGetList
  LET b == cur.b IN
  /\ UNCHANGED cur /\ Aside
  /\ \/ At("refreshSet") /\ Log(refreshSetLog(b)) /\ todo' = Rest
     \/ /\ At("refreshGet")
        /\ IF H("getHead") = b THEN NoStore /\ todo' = Rest
           ELSE update(refreshGetLog(b)) /\ Goto(<<"commit">>)

-----------------------------------------------------------------------------
(* The operations. *)

get ==
  LET b == find(cur.k, TRUE)
      move == b # NULL /\ B("onlyKey", b) = 0 /\ H("getHead") # b
  IN
  /\ At("get") /\ UNCHANGED cur /\ Aside
  /\ update(incGetCount \o When(b # NULL, incHitCount) \o (IF move THEN refreshGetLog(b) ELSE <<>>))
  /\ Goto(IF move THEN <<"commit">> ELSE <<>>)

set ==   \* both overloads: with a value, and with the key alone
  LET b == find(cur.k, FALSE)
      after == WriteSteps \o (IF cur.only = 1 THEN <<>> ELSE <<"mark">>) \o RefreshSteps
  IN
  /\ At("set") \/ At("setKey")
  /\ update(incGetCount \o When(b # NULL, incHitCount)) /\ Aside
  /\ Goto(IF b # NULL THEN after ELSE IF findError(cur.k) THEN <<>> ELSE <<"alloc">> \o after)
  /\ On(b)

del ==
  LET b == find(cur.k, TRUE) IN
  /\ At("del") /\ Aside
  /\ update(incGetCount \o When(b # NULL, incHitCount))
  /\ Goto(IF b = NULL THEN <<>> ELSE EraseSteps)
  /\ On(b)

(* setDirty, setDirtyAfterSync, setClean and checkDirty find the record alike. *)
Flag(op, dirty, steps) ==
  LET b == find(cur.k, FALSE)
      found == b # NULL /\ B("onlyKey", b) = 0
  IN
  /\ At(op) /\ Aside
  /\ update(incGetCount \o When(b # NULL, incHitCount))
  /\ cur' = [cur EXCEPT !.b = b, !.dirty = dirty]
  /\ Goto(IF found THEN steps ELSE <<>>)

setDirty == Flag("setDirty", 1, <<"mark">> \o RefreshSteps)
setClean == Flag("setClean", 0, <<"mark">> \o RefreshSteps \o <<"commit">>)
checkDirty == Flag("checkDirty", 0, <<>>)
setDirtyAfterSync ==
  \/ Flag("setDirtyAfterSync", 1, <<"mark", "afterSync">>)
  \/ /\ At("afterSync") /\ todo' = Rest /\ UNCHANGED cur /\ Aside
     /\ StoreIf(H("dirtyTail") = B("setPrev", cur.b), Up("dirtyTail", NULL, cur.b))

(* erase(radio, data, bCheckDirty): the record read longest ago, unless it *)
(* is dirty and the caller minds; a radio above the load returns at once.  *)
erase ==
  LET b == H("getTail") IN
  \/ /\ At("erase") /\ NoStore /\ Aside
     /\ \/ Goto(<<>>) /\ UNCHANGED cur
        \/ /\ b # NULL /\ H("usedChunk") # 0 /\ On(b)
           /\ Goto(IF cur.dirty = 1 /\ B("dirty", b) = 1 THEN <<"keepDirty", "toFront">>
                   ELSE EraseSteps)
  \/ /\ At("keepDirty") /\ todo' = Rest /\ UNCHANGED cur /\ Aside
     /\ StoreIf(H("dirtyTail") = NULL, Up("dirtyTail", NULL, b))
  \/ /\ At("toFront") /\ UNCHANGED cur /\ Aside
     /\ IF H("getHead") = b THEN NoStore /\ todo' = Rest
        ELSE /\ Goto(<<"commit">>)
             /\ update(When(H("backupTail") = b, Up("backupTail", NULL, B("getPrev", b)))
                       \o TailToHead(GetL, b))

(* sync() starts a round of writing back, sync(now, data) takes one record. *)
sync ==
  LET b == IF At("syncNext") THEN H("syncTail") ELSE cur.b IN
  /\ Aside
  /\ \/ At("sync") /\ Store(Up("syncTail", NULL, H("dirtyTail"))) /\ Goto(<<>>) /\ UNCHANGED cur
     \/ At("syncNext") /\ b = NULL /\ NoStore /\ Goto(<<>>) /\ UNCHANGED cur
     \/ /\ At("syncNext") /\ b # NULL /\ On(b) /\ Goto(<<"syncOne">>)
        /\ Store(Up("syncTail", NULL, B("setPrev", b)))
     \/ /\ At("syncOne") /\ UNCHANGED cur
        /\ \/ /\ B("dirty", b) = 0 \/ B("onlyKey", b) = 1 \/ ~Decodes(b, TRUE)
              /\ Goto(<<"pastDirty">>) /\ NoStore
           \/ /\ B("dirty", b) = 1 /\ B("onlyKey", b) = 0 /\ Decodes(b, TRUE)
              /\ \/ Goto(<<>>) /\ NoStore   \* not due yet
                 \/ Goto(<<"commit", "pastDirty">>) /\ update(setDirtyLog(b, 0))
     \/ /\ At("pastDirty") /\ todo' = Rest /\ UNCHANGED cur
        /\ StoreIf(H("dirtyTail") = b, Up("dirtyTail", NULL, B("setPrev", b)))

(* backup(force) starts a sweep over the list by time of get, backup(data) *)
(* hands out one record.                                                   *)
backup ==
  LET b == H("backupTail") IN
  /\ UNCHANGED <<mode, free, avail, calls, crashes>>
  /\ \/ /\ At("backup") /\ Goto(<<>>) /\ UNCHANGED cur
        /\ IF cur.dirty = 1 \/ b = NULL
           THEN Store(Up("backupTail", NULL, H("getTail"))) /\ missed' = Linked(mem)
           ELSE NoStore /\ UNCHANGED missed
     \/ At("backupNext") /\ b = NULL /\ NoStore /\ Goto(<<>>) /\ UNCHANGED <<cur, missed>>
     \/ /\ At("backupNext") /\ b # NULL /\ On(b) /\ Goto(<<"commit", "handed">>)
        /\ Store(Up("backupTail", NULL, B("getPrev", b))) /\ UNCHANGED missed
     \/ At("handed") /\ NoStore /\ todo' = Rest /\ missed' = missed \ {cur.b} /\ UNCHANGED cur

(* recover(i, true): erases what does not decode, one block at a time. *)
recover ==
  LET c == Chain(mem, Hash[cur.k])
      bad == FirstOf(c, {n \in DOMAIN c : ~Decodes(c[n], TRUE)})
  IN
  /\ At("recover") /\ NoStore /\ Aside
  /\ IF bad = NULL THEN Goto(<<>>) /\ UNCHANGED cur
     ELSE Goto(EraseSteps \o <<"recover">>) /\ On(bad)

(* The process dies inside an operation; a new one attaches (connect). *)
Die ==
  /\ todo # <<>> /\ crashes < mode.crashes
  /\ crashes' = crashes + 1
  /\ copied' = 0 /\ entered' = FALSE
  /\ todo' = <<>> /\ cur' = Idle /\ missed' = {}
  /\ UNCHANGED <<mem, log, status, mode, free, avail, calls>>

(* The bound on the calls is reached; the user may stop at any time. *)
Stop == todo = <<>> /\ calls = mode.calls /\ UNCHANGED vars

(* create() on fresh shared memory or a fresh file, which are zero: it does *)
(* not store _iOnlyKeyCount and the head of the log itself.                 *)
Init ==
  /\ mode \in Modes
  /\ mem = [a \in HashAddr |->
              IF a[1] \in HeadCounts \union {"listCount", "dirty", "onlyKey", "val"} THEN 0 ELSE NULL]
  /\ log = <<>> /\ status = 0 /\ copied = 0 /\ entered = FALSE
  /\ free \in {s \in [1..mode.size -> Blocks] : IsInjective(s)}
  /\ avail = mode.size
  /\ todo = <<>> /\ cur = Idle /\ calls = 0 /\ crashes = 0 /\ missed = {}

Next ==
  \/ \E op \in mode.ops : Call(op)
  \/ doUpdate \/ Leave \/ Release \/ Allocate \/ Evict \/ Alloc \/ Write \/ Mark \/ Refresh
  \/ get \/ set \/ del \/ setDirty \/ setClean \/ checkDirty \/ setDirtyAfterSync
  \/ erase \/ sync \/ backup \/ recover
  \/ Die \/ Stop

Spec == Init /\ [][Next]_vars

-----------------------------------------------------------------------------
(* Every word holds a value of its kind, with or without a pending log. *)
TypeOK ==
  /\ mem \in [HashAddr -> HashValue]
  /\ log \in Seq([addr : HashAddr, val : HashValue])
  /\ status \in 0..2 /\ copied \in 0..Len(log) /\ entered \in BOOLEAN
  /\ free \in Seq(Blocks) /\ avail \in 0..Cardinality(Blocks)
  /\ crashes \in 0..mode.crashes /\ missed \subseteq Blocks

(***************************************************************************)
(* Whenever the process dies, the operation that runs next finds both      *)
(* lists sound in both directions, with the same blocks in them as in the  *)
(* hash chains, every block in the chain of its bucket, and the counts of  *)
(* the elements and of each chain right.                                   *)
(***************************************************************************)
ListsSound ==
  LET m == Recovered
      Sound(l) ==
        LET s == Follow(m, l.next, m[<<l.head, NULL>>])
        IN  /\ Len(s) <= Cardinality(Blocks) /\ IsInjective(s)
            /\ Follow(m, l.prev, m[<<l.tail, NULL>>]) = Reverse(s)
            /\ ToSet(s) = Linked(m)
      chain == [i \in Buckets |-> Chain(m, i)]
  IN  /\ Sound(SetL) /\ Sound(GetL)
      /\ \A i \in Buckets :
           LET s == chain[i]
           IN  /\ IsInjective(s) /\ m[<<"listCount", i>>] = Len(s)
               /\ \A n \in DOMAIN s :
                    /\ m[<<"index", s[n]>>] = i
                    /\ m[<<"blockPrev", s[n]>>] = IF n = 1 THEN NULL ELSE s[n - 1]
      /\ UNION {ToSet(chain[i]) : i \in Buckets} = Linked(m)
      /\ m[<<"elementCount", NULL>>] = Cardinality(Linked(m))

(***************************************************************************)
(* A block that is linked is never on the allocator's free list, however   *)
(* the process died (a crash may lose a block, never lend it twice), and   *)
(* the allocator never counts more blocks than it has.                     *)
(***************************************************************************)
FreeApart ==
  /\ ToSet(free) \intersect Linked(Recovered) = {}
  /\ IsInjective(free) /\ avail <= Len(free)

(***************************************************************************)
(* The tails of the dirty list, of the write-back round and of the backup  *)
(* sweep never point at a block that was given back.                       *)
(***************************************************************************)
TailsListed ==
  LET m == Recovered IN
  \A t \in {"dirtyTail", "syncTail", "backupTail"} :
    m[<<t, NULL>>] \in Linked(m) \union {NULL}

(* No key has two records that can be decoded, after any crash. *)
KeyOnce ==
  LET m == Recovered IN
  \A b, c \in Linked(m) :
    b # c /\ m[<<"key", b>>] # NULL => m[<<"key", b>>] # m[<<"key", c>>]

(* The assertion of update(): the log of 20 entries is never filled. *)
LogFits == Len(log) < 20

(***************************************************************************)
(* Whatever store was the last one of a process, the next one finds a map: *)
(* lists, chains, tails and free blocks that fit together, a key once, and *)
(* room in the log.                                                        *)
(***************************************************************************)
MapSound == TypeOK /\ ListsSound /\ FreeApart /\ TailsListed /\ KeyOnce /\ LogFits

(***************************************************************************)
(* While the process has not died, every dirty record lies between the     *)
(* dirty tail and the head of the list by time of set, so that a round of  *)
(* sync reaches it. (A record marked again by setDirtyAfterSync may not:   *)
(* see the README.)                                                        *)
(***************************************************************************)
DirtyCovered ==
  todo = <<>> /\ crashes = 0 /\ "setDirtyAfterSync" \notin mode.ops =>
    \A b \in Linked(mem) :
      B("dirty", b) = 1 => b \in ToSet(Follow(mem, "setPrev", H("dirtyTail")))

(***************************************************************************)
(* The counts kept beside the flags (dirty records, records without a      *)
(* value, blocks in use) are exact while the process has not died, and     *)
(* each crash puts each of them off by at most one.                        *)
(***************************************************************************)
CountsDrift ==
  LET m == Recovered
      Off(count, S) ==
        \E d \in (0 - crashes)..crashes :
          (m[<<count, NULL>>] - Cardinality(S) - d) % (MaxCount + 1) = 0
  IN  todo = <<>> =>
        /\ Off("dirtyCount", {b \in Linked(m) : m[<<"dirty", b>>] = 1})
        /\ Off("onlyKeyCount", {b \in Linked(m) : m[<<"onlyKey", b>>] = 1})
        /\ Off("usedChunk", Linked(m))

(***************************************************************************)
(* While the process has not died, a backup sweep still has before it      *)
(* every record that was there when it began, is there now, and was not    *)
(* handed out, whatever was read, written, deleted or moved meanwhile.     *)
(***************************************************************************)
BackupCovers ==
  todo = <<>> /\ crashes = 0 =>
    missed \subseteq ToSet(Follow(mem, "getPrev", H("backupTail")))

(* The rounds of write-back and backup, which are interleaved with every   *)
(* other operation, leave no record out.                                   *)
RoundsCover == DirtyCovered /\ BackupCovers
=============================================================================
