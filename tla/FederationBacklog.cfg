SPECIFICATION FairFederationSpec
CONSTANTS
    a = a
    b = b
    c = c
    Relays = {a, b}
    Dialed <- Pair
    Items = {1, 2}
    Sources <- AtOne
    Expiring = {}
    MaxSummaryPreviewItems = 2
    MaxWantItems = 2
    MaxTransferObjects = 1
    MaxFrameObjects = 1
    Large = {}
    MaxTransferItems = 1
    MaxFaults = 0
PROPERTY
    RelayConnectionDrains
