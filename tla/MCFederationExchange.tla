------------------------ MODULE MCFederationExchange ------------------------
(***************************************************************************)
(* Relays in a line: the first dials the second, which dials the third.    *)
(* Item 1 enters at both ends, so that the second relay may be sent it     *)
(* twice at once; item 2 enters at one end.                                *)
(***************************************************************************)
EXTENDS FederationExchange

CONSTANTS a, b, c

Line   == {<<a, b>>, <<b, c>>}
Pair   == {<<a, b>>}
AtEnds == [i \in Items |-> IF i = 1 THEN {a, c} ELSE {c}]
AtOne  == [i \in Items |-> {a}]
=============================================================================
