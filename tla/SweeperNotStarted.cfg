SPECIFICATION FairMessageStoreSpec
CONSTANTS
    ItemIDs = {1, 2}
    Destinations = {"alice", "bob"}
    DestinationOf <- MCDestinationOf
    Expiries <- MCExpiries
    TicksPerSecond = 2
    LocalOffset = 0
    MaxTime = 4
    DeliveryIDs = {"phone"}
    BadPayload = {2}
    SweeperStarted = FALSE
PROPERTIES
    ExpiredMessageGoes
