SPECIFICATION FairSpec
CONSTANTS
    ConnNum = 3
    MaxConns = 2
    MaxRequests = 2
    HandleNum = 2
    Options <- ServerOptions
INVARIANTS
    ListExact
    QueueOrdered
    AnsweredOnce
    StaleFindsNobody
PROPERTIES
    QueuedIsHandled
    ClosedIsGone
    ShutdownCompletes
CHECK_DEADLOCK FALSE
