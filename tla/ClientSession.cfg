SPECIFICATION FairClientSessionSpec
CONSTANTS
    RoundBudget = 3
    ByteBudget = 12
    NoProgressRoundCap = 2
    YieldEveryNRounds = 2
    WallClockBudget = TRUE
    FrameBytes <- SmallFrames
    Items = {1, 2, 3}
    StartItems = {1, 2}
    Expiring = {1}
    Unservable = {}
    Refused = {1}
    Uploads = {8}
    MaxSummaryPreviewItems = 2
    MaxWantItems = 2
    MaxTransferObjects = 2
    MaxFrameObjects = 3
    Large = {2, 3}
    MaxTransferItems = 2
    MaxChunk = 2
    SendCapacity = 2
    PushOnIngest = TRUE
    MaxFaults = 1
INVARIANTS
    ClientSessionTypeOK
    AckedIsDelivered
    FatalOnlyAfterPush
PROPERTIES
    QueuedFramesFit
    QueuesDrain
\* Without a SilenceTimeout an idle session may be the end.
CHECK_DEADLOCK FALSE
