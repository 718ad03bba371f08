SPECIFICATION FairSpec
CONSTANTS
  Threads = {a, b}
  SyncThreads = {a}
  Seqs <- TwoSeqs
  MaxCalls = 3
  Limit = 2
  Throws = FALSE
  Terminates = FALSE
  NULL = NULL
CHECK_DEADLOCK FALSE
INVARIANTS
    NoLostWakeup
    KeepsAll
PROPERTIES
    AcceptedIsTaken
    QuitDropsHandle
