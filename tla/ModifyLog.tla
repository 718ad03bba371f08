------------------------------ MODULE ModifyLog ------------------------------
(***************************************************************************)
(* The modify log at the head of a shared-memory container                 *)
(* (TC_HashMap::tagModifyHead, update and doUpdate; TC_MemQueue,           *)
(* TC_RBTree, TC_Multi_HashMap_Malloc and the compact maps keep the same   *)
(* one). An operation writes the words it wants to change into the log     *)
(* with update(), sets the status to 2 and copies the log to the memory;   *)
(* the next operation, perhaps of the next process, first calls doUpdate() *)
(* and so throws away a log that was never finished or copies a finished   *)
(* one again from the start.                                               *)
(*                                                                         *)
(* The memory survives a crash with the stores the process made before it  *)
(* in program order; only the loop index of doUpdate is lost.              *)
(***************************************************************************)
EXTENDS SharedWords

VARIABLES
  mem,      \* the container's words
  log,      \* _stModifyData[0 .. _iNowIndex - 1]
  status,   \* _cModifyStatus: 0 nobody modifies, 1 being gathered, 2 finished
  copied,   \* the loop index of doUpdate (not in the shared memory)
  entered   \* the operation under way has made its opening doUpdate()

logVars == <<mem, log, status, copied, entered>>

LogEntry == [addr : Addr, val : Value]

LogInit ==
  /\ mem \in [Addr -> Value]
  /\ log = <<>> /\ status = 0 /\ copied = 0 /\ entered = FALSE

(* update(), once or several times: an entry is written behind the others  *)
(* before the index covers it.                                             *)
update(es) ==
  /\ status' = 1
  /\ log' = log \o es
  /\ UNCHANGED <<mem, copied, entered>>

Gather ==
  /\ entered /\ status # 2
  /\ status' = 1
  /\ log' \in Seq(LogEntry)
  /\ Len(log) <= Len(log') /\ \A i \in 1..Len(log) : log'[i] = log[i]
  /\ UNCHANGED <<mem, copied, entered>>

(* doUpdate(true): the log is finished. *)
finish ==
  /\ status' = 2 /\ copied' = 0
  /\ UNCHANGED <<mem, log, entered>>

Finish == entered /\ status # 2 /\ finish

(* One turn of doUpdate's loop. *)
CopyOne ==
  /\ status = 2 /\ copied < Len(log)
  /\ mem' = [mem EXCEPT ![log[copied + 1].addr] = log[copied + 1].val]
  /\ copied' = copied + 1
  /\ UNCHANGED <<log, status, entered>>

CopyDone ==
  /\ status = 2 /\ copied = Len(log)
  /\ log' = <<>> /\ status' = 0 /\ copied' = 0
  /\ UNCHANGED <<mem, entered>>

DiscardRedoes ==   \* mutant of Discard: the unfinished log is taken for a finished one
  /\ ~entered /\ status = 1
  /\ status' = 2 /\ copied' = 0
  /\ UNCHANGED <<mem, log, entered>>

(* doUpdate() finds a log that was never finished. *)
Discard ==
  /\ ~entered /\ status = 1
  /\ log' = <<>> /\ status' = 0
  /\ UNCHANGED <<mem, copied, entered>>

(* The opening doUpdate() is over. *)
Enter ==
  /\ ~entered /\ status = 0
  /\ entered' = TRUE
  /\ UNCHANGED <<mem, log, status, copied>>

(* The operation returns; what it has gathered and not finished stays behind. *)
Return ==
  /\ entered /\ status # 2
  /\ entered' = FALSE
  /\ UNCHANGED <<mem, log, status, copied>>

(* A flag, a tail, the data of a record, or the words of a block that is   *)
(* in no list, are written past the log.                                   *)
DirectWrite ==
  /\ entered /\ status # 2
  /\ WrittenPast(log, mem, mem')
  /\ UNCHANGED <<log, status, copied, entered>>

(* The process dies: between two stores, in the middle of update(), or     *)
(* after doUpdate has set the index back and before it has set the status. *)
Crash ==
  /\ copied' = 0 /\ entered' = FALSE
  /\ \/ UNCHANGED <<log, status>>
     \/ /\ status # 2 /\ (entered \/ status = 1)
        /\ status' = 1 /\ log' \in Seq(LogEntry)
     \/ status = 2 /\ copied = Len(log) /\ log' = <<>> /\ UNCHANGED status
  /\ UNCHANGED mem

LogNext ==
  \/ Gather \/ Finish \/ CopyOne \/ CopyDone \/ Discard
  \/ Enter \/ Return \/ DirectWrite \/ Crash

(***************************************************************************)
(* The protocol of the log. TC_HashMap keeps it, wherever it dies: every   *)
(* operation opens with doUpdate(), gathers only behind that, and copies   *)
(* only a log it has finished.                                             *)
(***************************************************************************)
LogSpec == LogInit /\ [][LogNext]_logVars

-----------------------------------------------------------------------------
(* The words of the log, the last entry of each winning, over those of the memory. *)
Redone ==
  [a \in Addr |->
     IF \E i \in 1..Len(log) : log[i].addr = a
     THEN log[CHOOSE i \in 1..Len(log) :
                /\ log[i].addr = a
                /\ \A j \in 1..Len(log) : log[j].addr = a => j <= i].val
     ELSE mem[a]]

(* What a crash now, and the doUpdate() after it, make of the memory. *)
Recovered == IF status = 2 THEN Redone ELSE mem

(* What the operation under way may still commit. *)
Gathered == IF status = 1 /\ entered THEN log ELSE <<>>

A == INSTANCE AtomicWrites WITH contents <- Recovered, pending <- Gathered

(***************************************************************************)
(* Whatever the moment the process dies, and however often it dies again   *)
(* while doUpdate copies, the writes of one doUpdate(true) reach the       *)
(* memory all together or not at all, and a log an operation left          *)
(* unfinished never reaches it. No link, head or element count of the      *)
(* container changes in any other way: past the log go only the words of   *)
(* Groups and of blocks that nothing leads to, and none of them while a    *)
(* write to it is gathered.                                                *)
(***************************************************************************)
AllOrNothing == A!Spec
=============================================================================
