--------------------------- MODULE MCMessageStore ---------------------------
(* Two items of different recipients, one a legacy row the scrub removes.   *)
(* Senders of the first disagree on its expiry, within a second and beyond. *)
EXTENDS MessageStore

MCDestinationOf == [i \in ItemIDs |-> IF i = 1 THEN "alice" ELSE "bob"]
MCExpiries == [i \in ItemIDs |-> IF i = 1 THEN {1, 2, 3} ELSE {2}]
=============================================================================
