--------------------------- MODULE MCStoreForward ---------------------------
EXTENDS StoreForward, TLC

CONSTANTS phone, peer1, peer2

MCDestinationOf == [i \in ItemIDs |-> "alice"]
MCExpiries      == [i \in ItemIDs |-> {2}]
MCTwoExpiries   == [i \in ItemIDs |-> {1, 2}]

\* A peer's session carries the name of its relay.
MCSourceRelay   == [s \in Sessions |-> IF s = phone THEN Client ELSE s]

Peers == Permutations({peer1, peer2})
=============================================================================
