----------------------------- MODULE RelayBase -----------------------------
(***************************************************************************)
(* What every relay module shares: item ids, the clock, and the texts the  *)
(* bbolt index keys are made of.                                           *)
(*                                                                         *)
(* An item id is the sha256 of the envelope bytes, so the destination      *)
(* inside those bytes is a function of the id.  Ids are naturals, ordered  *)
(* as their lowercase hex texts are.                                       *)
(*                                                                         *)
(* Time is counted in ticks, TicksPerSecond to the second.  The stores     *)
(* keep three forms of a time: whole seconds (the message codec), full     *)
(* precision (the envelope codec) and RFC3339Nano text (the index keys).   *)
(***************************************************************************)
EXTENDS Integers

CONSTANTS ItemIDs,         \* digests, in digest order
          Destinations,    \* wayfarer ids
          DestinationOf,   \* the To field of the item's envelope bytes
          Expiries,        \* the expiry_unix_ms values senders put on the item
          TicksPerSecond,
          LocalOffset,     \* ticks from UTC to the process's time.Local
          MaxTime          \* the clock stops here

Times == 0 .. MaxTime

ASSUME ItemAssumption == /\ ItemIDs \subseteq Nat
                         /\ DestinationOf \in [ItemIDs -> Destinations]
                         /\ Expiries \in [ItemIDs -> SUBSET Times]

\* No fraction of a second k/TicksPerSecond is a decimal prefix of another, so
\* the fractions sort as texts the way they sort as numbers.
ASSUME TimeAssumption == /\ TicksPerSecond \in {1, 2, 4, 5, 10}
                         /\ LocalOffset \in Int
                         /\ LocalOffset % TicksPerSecond = 0
                         /\ MaxTime \in Nat

VARIABLE now               \* time.Now(), in ticks

Tick == /\ now < MaxTime
        /\ now' = now + 1

-----------------------------------------------------------------------------
Second(t) == t \div TicksPerSecond

\* The second an expiry falls in has come.
Due(expires) == Second(expires) <= Second(now)

\* All senders of an item put expiries of one second on it.
ExpiriesAgree == \A i \in ItemIDs : \A a, b \in Expiries[i] : Second(a) = Second(b)

\* time.Unix() on the way in, time.Unix(sec, 0) on the way out.
TruncateToSecond(t) == Second(t) * TicksPerSecond

UTC == 0

(***************************************************************************)
(* t.In(zone).Format(time.RFC3339Nano).  Two texts are equal when the wall *)
(* clock and the offset are.                                               *)
(***************************************************************************)
Texts == [wall : Int, offset : {UTC, LocalOffset}]

RFC3339Nano(t, offset) == [wall |-> t + offset, offset |-> offset]

(***************************************************************************)
(* What follows the seconds decides between texts of one second.  The      *)
(* layout drops a zero fraction, so 'Z' or the sign of the zone stands     *)
(* where '.' stands in the others, and '+' and '-' < '.' < 'Z'.            *)
(***************************************************************************)
PlaceInSecond(text) ==
    LET fraction == text.wall % TicksPerSecond
        zulu     == text.offset = UTC
    IN  CASE fraction = 0 /\ zulu   -> 2 * TicksPerSecond
          [] fraction = 0 /\ ~zulu  -> 0
          [] fraction # 0           -> 2 * fraction + (IF zulu THEN 1 ELSE 0)

\* The second a text names has come.
TextDue(text) == Due(text.wall - text.offset)

TextAtMost(a, b) ==
    \/ Second(a.wall) < Second(b.wall)
    \/ /\ Second(a.wall) = Second(b.wall)
       /\ PlaceInSecond(a) <= PlaceInSecond(b)
=============================================================================
