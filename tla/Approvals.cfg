SPECIFICATION FairSpec
CONSTANTS
    q1 = q1
    ann = ann
    sam = sam
    r1 = r1
    r2 = r2
    d1 = d1
    d2 = d2
    None = None
    Idle = Idle
    Quotes <- OneQuote
    People <- TwoPeople
    Cost <- Preparers
    Sales <- Approvers
    Requests <- TwoRequests
    Runs <- TwoRuns
    Cap = 2
    MaxVersions = 2
    MaxMoves = 3
    MayFail = TRUE
INVARIANTS
    TypeOK
    HistoryInOrder
    TrailTracksQuote
    DeliveredWasPosted
    RepeatHasCause
PROPERTIES
    OnlyTheCapDrops
    EveryoneIsTold
CHECK_DEADLOCK FALSE
