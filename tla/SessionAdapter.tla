--------------------------- MODULE SessionAdapter ---------------------------
(***************************************************************************)
(* The frames of the gossip protocol and gossipv1.SessionAdapter, which    *)
(* turns inbound frames into events, as a value: whether a RECEIPT is      *)
(* awaited, and for which ids.                                             *)
(*                                                                         *)
(* Sizes are counted in small items; a large item takes the room of two.   *)
(***************************************************************************)
EXTENDS Integers, Sequences, FiniteSets

CONSTANTS MaxSummaryPreviewItems, MaxWantItems, MaxTransferItems,
          MaxTransferObjects,  \* small objects that fit in MaxTransferBytes
          MaxFrameObjects,     \* small objects that fit in MaxFrameBytes
          Large                \* the large items

ASSUME ProtocolAssumption ==
    /\ MaxSummaryPreviewItems \in Nat \ {0} /\ MaxWantItems \in Nat \ {0}
    /\ MaxTransferItems \in Nat \ {0}
    /\ MaxTransferObjects \in Nat \ {0} /\ MaxFrameObjects \in Nat \ {0}

FrameTypes == {"HELLO", "SUMMARY", "REQUEST", "TRANSFER", "RECEIPT"}

Frame(type, ids) == [type |-> type, ids |-> ids]

\* The first ids of a set in digest order.
FirstOf(ids, limit) == {i \in ids : Cardinality({j \in ids : j < i}) < limit}

-----------------------------------------------------------------------------
(***************************************************************************)
(* The limits of the codec.                                                *)
(***************************************************************************)
\* The room the objects of a TRANSFER take.
Room(ids) == Cardinality(ids) + Cardinality(ids \cap Large)

\* EncodeEnvelope refuses to build a frame that is too long.
Encodes(frame) == frame.type = "TRANSFER" => Room(frame.ids) <= MaxFrameObjects

ParsesSummary(preview) == Cardinality(preview) <= MaxSummaryPreviewItems

ParsesRequest(want) == Cardinality(want) <= MaxWantItems

\* MaxReceiptItems is MaxTransferItems.
ParsesReceipt(accepted) == Cardinality(accepted) <= MaxTransferItems

ParsesTransfer(objects) == Cardinality(objects) <= MaxTransferItems

\* Objects past the limit on bytes are rejected one by one; the others stand.
WithinTransferBytes(objects) ==
    {i \in objects : Room({j \in objects : j <= i}) <= MaxTransferObjects}

Parses(frame) ==
    CASE frame.type = "HELLO"    -> TRUE
      [] frame.type = "SUMMARY"  -> ParsesSummary(frame.ids)
      [] frame.type = "REQUEST"  -> ParsesRequest(frame.ids)
      [] frame.type = "TRANSFER" -> ParsesTransfer(frame.ids)
      [] frame.type = "RECEIPT"  -> ParsesReceipt(frame.ids)

\* The event of a frame that parses.
Event(frame) == IF frame.type = "TRANSFER"
                  THEN Frame("TRANSFER", WithinTransferBytes(frame.ids))
                  ELSE frame

-----------------------------------------------------------------------------
NewSessionAdapter == [awaiting |-> FALSE, expected |-> {}]

\* The ids of an earlier TRANSFER that is still unanswered are forgotten.
SetExpectedReceipt(ids) == [awaiting |-> TRUE, expected |-> ids]

Fatal == [type |-> "FATAL", ids |-> {}]

(***************************************************************************)
(* The frames of one inbound message are all parsed before the first is    *)
(* handled.  A RECEIPT is checked against the TRANSFER sent last and takes *)
(* the expectation with it, so a second one in the message is refused.     *)
(***************************************************************************)
RefusedReceipt(adapter, chunk, k) ==
    /\ chunk[k].type = "RECEIPT"
    /\ \/ ~adapter.awaiting
       \/ ~(chunk[k].ids \subseteq adapter.expected)
       \/ \E j \in 1 .. k - 1 : chunk[j].type = "RECEIPT"

PushInbound(adapter, chunk) ==
    LET events  == [k \in 1 .. Len(chunk) |-> Event(chunk[k])]
        refused == {k \in 1 .. Len(chunk) :
                       ~Parses(chunk[k]) \/ RefusedReceipt(adapter, chunk, k)}
        first   == CHOOSE k \in refused : \A j \in refused : k <= j
    IN  IF refused = {} THEN events ELSE Append(SubSeq(events, 1, first - 1), Fatal)

\* Mutant: any frame takes the expectation with it.
AfterInboundAny(adapter, chunk) == NewSessionAdapter

AfterInbound(adapter, chunk) ==
    IF \E k \in 1 .. Len(chunk) : chunk[k].type = "RECEIPT"
      THEN NewSessionAdapter
      ELSE adapter
=============================================================================
