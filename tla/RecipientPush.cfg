SPECIFICATION FairRecipientPushSpec
CONSTANTS
    c1 = c1
    c2 = c2
    Clients = {c1, c2}
    i1 = i1
    i2 = i2
    Items = {i1, i2}
    NoItem = NoItem
    SourceOf <- OwnItemFirst
    Elsewhere = Elsewhere
    SendCapacity = 1
CHECK_DEADLOCK FALSE
INVARIANTS
    RecipientPushTypeOK
    RegistryNeverPanics
    NoLostNudge
    ExclusionsEnd
    SessionIsReleased
PROPERTIES
    NudgesArrive
