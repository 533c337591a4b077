SPECIFICATION FairEnvelopeStoreSpec
CONSTANTS
    ItemIDs = {1, 2}
    Destinations = {"alice", "bob"}
    DestinationOf <- MCDestinationOf
    Expiries <- MCExpiries
    TicksPerSecond = 2
    LocalOffset = 0
    MaxTime = 6
    RelayIDs = {"r1"}
INVARIANTS
    EnvelopeStoreTypeOK
    IndexesExact
PROPERTIES
    SweptEnvelopeIsDue
    ExpiredEnvelopeGoes
