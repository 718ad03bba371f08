SPECIFICATION FairSpec
CONSTANTS
    MaxReplies = 4
    MaxCloses = 1
    Size = 2
    BackPacketBuffLimit = 3
    BackPacketBuffMin = 1
    SlowChecks = 2
    GrowChecks = 3
    Timeouts = {0, 1}
INVARIANTS
    RepliesIntact
    NothingStranded
    CloseFlushes
    BacklogCounted
PROPERTIES
    AskedIsDone
CHECK_DEADLOCK FALSE
