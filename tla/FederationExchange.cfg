SPECIFICATION FairFederationSpec
CONSTANTS
    a = a
    b = b
    c = c
    Relays = {a, b, c}
    Dialed <- Line
    Items = {1, 2}
    Sources <- AtEnds
    Expiring = {2}
    MaxSummaryPreviewItems = 2
    MaxWantItems = 2
    MaxTransferObjects = 1
    MaxFrameObjects = 2
    Large = {}
    MaxTransferItems = 2
    MaxFaults = 1
INVARIANTS
    FederationTypeOK
    RefusedOnlyAfterForward
    FramesAreBacked
PROPERTIES
    RenewedConnectionsSpreadItems
