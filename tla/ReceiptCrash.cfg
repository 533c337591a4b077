SPECIFICATION StoreForwardSpec
CONSTANTS
    phone = phone
    peer1 = peer1
    peer2 = peer2
    Client = client
    LocalRelay = local
    ItemIDs = {1}
    Destinations = {"alice"}
    DestinationOf <- MCDestinationOf
    Expiries <- MCExpiries
    TicksPerSecond = 1
    LocalOffset = 0
    MaxTime = 2
    DeliveryIDs = {"phone"}
    BadPayload = {}
    SweeperStarted = TRUE
    RelayIDs = {local, peer1, peer2}
    Sessions = {phone, peer1, peer2}
    SourceRelay <- MCSourceRelay
    Faults = {"crash"}
SYMMETRY Peers
INVARIANTS
    ReceiptedIsServable
