SPECIFICATION FairPeerManagerSpec
CONSTANTS
    URLs = {u, v}
    Connections = {c1, c2, c3}
    Accepted = accepted
    MaxDialAttempts = 2
    ChannelCapacity = 1
    MaxFederationPeers = 1
    MaxFederationConns = 1
CHECK_DEADLOCK FALSE
INVARIANTS
    PeerManagerTypeOK
    EachURLOnce
    DeadPeersLeave
    OnlyUnheardStayOpen
    
PROPERTIES
    PeersAreRedialled
