-------------------------- MODULE MCEnvelopeStore --------------------------
(* Two items of different recipients.  Senders of the first disagree on the *)
(* half second it expires in and on the second; the other expires between.  *)
EXTENDS EnvelopeStore

MCDestinationOf == [i \in ItemIDs |-> IF i = 1 THEN "alice" ELSE "bob"]
MCExpiries == [i \in ItemIDs |-> IF i = 1 THEN {2, 3, 5} ELSE {4}]
=============================================================================
