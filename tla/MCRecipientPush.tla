--------------------------- MODULE MCRecipientPush ---------------------------
(***************************************************************************)
(* Two connections of the recipient.  The first also sends: i1, to its own *)
(* recipient.  i2 comes from elsewhere.                                    *)
(***************************************************************************)
EXTENDS RecipientPush

CONSTANTS c1, c2, i1, i2

OwnItemFirst == [i \in Items |-> IF i = i1 THEN c1 ELSE Elsewhere]
=============================================================================
