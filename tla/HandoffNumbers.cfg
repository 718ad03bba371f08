SPECIFICATION Spec
CONSTANTS
  Threads = {a, b, c}
  SyncThreads = {a, b}
  Seqs <- OneSeq
  MaxCalls = 1
  Limit = 1
  Throws = TRUE
  Terminates = TRUE
  NULL = NULL
CHECK_DEADLOCK FALSE
INVARIANTS
    NumbersExclusive
    HandlesLive
