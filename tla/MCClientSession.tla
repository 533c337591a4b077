--------------------------- MODULE MCClientSession ---------------------------
(***************************************************************************)
(* Three items on pages of two, an upload, budgets so small that each of   *)
(* them is met.  The two items that cannot expire are too large for one    *)
(* frame.                                                                  *)
(***************************************************************************)
EXTENDS ClientSession

SmallFrames == [t \in FrameTypes |-> IF t = "TRANSFER" THEN 2 ELSE 1]

\* As in the protocol a page is no longer than a REQUEST (64 and 256 ids there); that the
\* device keeps to the limits is up to it.
ASSUME SmallLimitsFit == LimitsFit
=============================================================================
