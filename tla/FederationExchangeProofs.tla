---------------------- MODULE FederationExchangeProofs ----------------------
(***************************************************************************)
(* The exchange between relays, for any relays, connections, items and     *)
(* limits of the protocol.                                                 *)
(***************************************************************************)
EXTENDS FederationExchange, SessionAdapterProofs

-----------------------------------------------------------------------------
(***************************************************************************)
(* Ends, frames and the handlers' answers.                                 *)
(***************************************************************************)
Frames   == [type : FrameTypes, ids : SUBSET Items]
Adapters == [awaiting : BOOLEAN, expected : SUBSET Items]

LEMMA EndsFacts ==
    ASSUME NEW e \in Ends
    PROVE  /\ e[1] \in Relays /\ e[2] \in Relays
           /\ Back(e) \in Ends /\ Back(Back(e)) = e /\ Back(e) # e
           /\ Back(e)[1] = e[2] /\ Back(e)[2] = e[1]
  <1>1. PICK d \in Dialed : e = d \/ e = Back(d)
    BY DEF Ends
  <1>2. /\ d = <<d[1], d[2]>> /\ d[1] \in Relays /\ d[2] \in Relays
        /\ Back(d) \notin Dialed
    BY FederationAssumption
  <1>3. Back(d) = <<d[2], d[1]>> /\ Back(<<d[2], d[1]>>) = <<d[1], d[2]>>
    BY DEF Back
  <1> QED BY <1>1, <1>2, <1>3 DEF Ends, Back

\* Every set of items is finite and consists of naturals.
LEMMA ItemSets ==
    ASSUME NEW ids \in SUBSET Items
    PROVE  ids \in SUBSET Nat /\ IsFiniteSet(ids) /\ Cardinality(ids) \in Nat
  BY ZenonT(30), FederationAssumption, FS_Subset, FS_CardinalityType

LEMMA SmallerSets ==
    ASSUME NEW ids \in SUBSET Items, NEW part \in SUBSET ids
    PROVE  Cardinality(part) <= Cardinality(ids)
  BY ItemSets, FS_Subset

LEMMA FrameFacts ==
    ASSUME NEW type \in FrameTypes, NEW ids \in SUBSET Items
    PROVE  /\ Frame(type, ids) \in Frames
           /\ Frame(type, ids).type = type /\ Frame(type, ids).ids = ids
  BY DEF Frame, Frames

LEMMA EventFacts ==
    ASSUME NEW frame \in Frames
    PROVE  /\ Event(frame) \in Frames /\ Event(frame).type = frame.type
           /\ Event(frame).ids \subseteq frame.ids
           /\ frame.type # "TRANSFER" => Event(frame) = frame
  <1>1. frame.type \in FrameTypes /\ frame.ids \in SUBSET Items
    BY DEF Frames
  <1>2. WithinTransferBytes(frame.ids) \subseteq frame.ids
    BY DEF WithinTransferBytes
  <1>3. CASE frame.type = "TRANSFER"
    <2>1. Event(frame) = Frame("TRANSFER", WithinTransferBytes(frame.ids))
      BY <1>3 DEF Event
    <2> QED BY <1>1, <1>2, <1>3, <2>1, FrameFacts DEF FrameTypes
  <1>4. CASE frame.type # "TRANSFER"
    BY <1>4 DEF Event
  <1> QED BY <1>3, <1>4

LEMMA TupleFacts ==
    /\ <<>> \in Seq(Frames) /\ Range(<<>>) = {}
    /\ \A f \in Frames : <<f>> \in Seq(Frames) /\ Range(<<f>>) = {f}
    /\ \A f, g \in Frames : <<f, g>> \in Seq(Frames) /\ Range(<<f, g>>) = {f, g}
  <1>1. <<>> \in Seq(Frames) /\ Range(<<>>) = {}
    BY DEF Range
  <1>2. ASSUME NEW f \in Frames
        PROVE  <<f>> \in Seq(Frames) /\ Range(<<f>>) = {f}
    BY DEF Range
  <1>3. ASSUME NEW f \in Frames, NEW g \in Frames
        PROVE  <<f, g>> \in Seq(Frames) /\ Range(<<f, g>>) = {f, g}
    <2>1. DOMAIN <<f, g>> = {1, 2}
      OBVIOUS
    <2> QED BY <2>1 DEF Range
  <1> QED BY <1>1, <1>2, <1>3

\* A page of what a relay has, or is asked for, within the limit of its frame.
LEMMA PageFrame ==
    ASSUME NEW type \in {"SUMMARY", "REQUEST", "TRANSFER"}, NEW ids \in SUBSET Items,
           NEW limit \in Nat,
           /\ type = "SUMMARY" => limit = MaxSummaryPreviewItems
           /\ type = "REQUEST" => limit = MaxWantItems
           /\ type = "TRANSFER" => limit = MaxTransferItems
    PROVE  /\ Frame(type, FirstOf(ids, limit)) \in Frames
           /\ Frame(type, FirstOf(ids, limit)).type = type
           /\ Frame(type, FirstOf(ids, limit)).ids = FirstOf(ids, limit)
           /\ Parses(Frame(type, FirstOf(ids, limit)))
  <1> DEFINE frame == Frame(type, FirstOf(ids, limit))
  <1>1. FirstOf(ids, limit) \in SUBSET Items /\ Cardinality(FirstOf(ids, limit)) <= limit
    BY ZenonT(30), ItemSets, PageWithinLimit
  <1>2. frame \in Frames /\ frame.type = type /\ frame.ids = FirstOf(ids, limit)
    BY <1>1, FrameFacts DEF FrameTypes
  <1> HIDE DEF frame
  <1>3. Parses(frame)
    BY <1>1, <1>2, ParsesFacts
  <1> QED BY <1>2, <1>3 DEF frame

LEMMA SummaryFacts ==
    ASSUME NEW r
    PROVE  /\ Summary(r) \in Frames /\ Summary(r).type = "SUMMARY" /\ Parses(Summary(r))
           /\ Summary(r).ids \subseteq Listed(r)
  <1>1. Listed(r) \in SUBSET Items
    BY DEF Listed
  <1>2. FirstOf(Listed(r), MaxSummaryPreviewItems) \subseteq Listed(r)
    BY DEF FirstOf
  <1> QED BY <1>1, <1>2, PageFrame, ProtocolAssumption DEF Summary

LEMMA RequestFacts ==
    ASSUME NEW r, NEW preview \in SUBSET Items
    PROVE  /\ Frame("REQUEST", MissingWant(r, preview)) \in Frames
           /\ Frame("REQUEST", MissingWant(r, preview)).type = "REQUEST"
           /\ Frame("REQUEST", MissingWant(r, preview)).ids \subseteq preview
           /\ Parses(Frame("REQUEST", MissingWant(r, preview)))
  <1>1. preview \ Known(r) \in SUBSET Items
    OBVIOUS
  <1>2. FirstOf(preview \ Known(r), MaxWantItems) \subseteq preview
    BY DEF FirstOf
  <1> QED BY <1>1, <1>2, PageFrame, ProtocolAssumption DEF MissingWant

LEMMA TransferFacts ==
    ASSUME NEW r, NEW want \in SUBSET Items
    PROVE  /\ TransferObjects(r, want) \in SUBSET Items
           /\ TransferObjects(r, want) \subseteq Listed(r)
           /\ Frame("TRANSFER", TransferObjects(r, want)) \in Frames
           /\ Frame("TRANSFER", TransferObjects(r, want)).type = "TRANSFER"
           /\ Frame("TRANSFER", TransferObjects(r, want)).ids = TransferObjects(r, want)
           /\ Parses(Frame("TRANSFER", TransferObjects(r, want)))
  <1>1. PICK ids \in SUBSET Items : ids = want \cap Servable(r)
    BY ZenonT(30)
  <1>2. TransferObjects(r, want) = FirstOf(ids, MaxTransferItems)
    BY <1>1 DEF TransferObjects
  <1>3. FirstOf(ids, MaxTransferItems) \in SUBSET Items
    BY DEF FirstOf
  <1>4. MaxTransferItems \in Nat
    BY ProtocolAssumption
  <1>5. TransferObjects(r, want) \subseteq Listed(r)
    BY DEF TransferObjects, FirstOf, Servable, Listed
  <1> QED BY <1>2, <1>3, <1>4, <1>5, PageFrame

\* A RECEIPT for some of the objects of a TRANSFER that parsed.
LEMMA ReceiptFacts ==
    ASSUME NEW frame \in Frames, frame.type = "TRANSFER", Parses(frame),
           NEW ids \in SUBSET Event(frame).ids
    PROVE  /\ Frame("RECEIPT", ids) \in Frames
           /\ Frame("RECEIPT", ids).type = "RECEIPT" /\ Frame("RECEIPT", ids).ids = ids
           /\ Parses(Frame("RECEIPT", ids))
  <1>1. frame.ids \in SUBSET Items /\ ids \in SUBSET frame.ids
    BY EventFacts DEF Frames
  <1>2. /\ Frame("RECEIPT", ids) \in Frames
        /\ Frame("RECEIPT", ids).type = "RECEIPT" /\ Frame("RECEIPT", ids).ids = ids
    BY <1>1, FrameFacts DEF FrameTypes
  <1>3. /\ Cardinality(ids) <= Cardinality(frame.ids)
        /\ Cardinality(frame.ids) <= MaxTransferItems
        /\ Cardinality(ids) \in Nat /\ Cardinality(frame.ids) \in Nat
    BY <1>1, ItemSets, SmallerSets, ParsesFacts
  <1>4. Cardinality(ids) <= MaxTransferItems
    BY <1>3, ProtocolAssumption
  <1> QED BY <1>2, <1>4, ParsesFacts

LEMMA RepliesByType ==
    ASSUME NEW r, NEW phase, NEW frame \in Frames
    PROVE  /\ frame.type = "HELLO" /\ phase = "accepting" =>
                 Replies(r, phase, frame) = <<Frame("HELLO", {}), Summary(r)>>
           /\ frame.type = "HELLO" /\ phase # "accepting" =>
                 Replies(r, phase, frame) = <<Summary(r)>>
           /\ frame.type = "SUMMARY" =>
                 \/ Replies(r, phase, frame) = <<>>
                 \/ Replies(r, phase, frame) = <<Frame("REQUEST", MissingWant(r, frame.ids))>>
           /\ frame.type = "REQUEST" =>
                 Replies(r, phase, frame) = <<Frame("TRANSFER", TransferObjects(r, frame.ids))>>
           /\ frame.type = "TRANSFER" =>
                 Replies(r, phase, frame) = <<Frame("RECEIPT", frame.ids \ expired)>>
           /\ frame.type = "RECEIPT" => Replies(r, phase, frame) = <<>>
  BY DEF Replies

\* What a handler answers to a frame that parsed parses too.
LEMMA RepliesFacts ==
    ASSUME NEW r, NEW phase, NEW head \in Frames, Parses(head)
    PROVE  /\ Replies(r, phase, Event(head)) \in Seq(Frames)
           /\ \A f \in Range(Replies(r, phase, Event(head))) : Parses(f)
  <1>1. PICK frame \in Frames : frame = Event(head)
    BY EventFacts
  <1> DEFINE replies == Replies(r, phase, frame)
  <1> SUFFICES replies \in Seq(Frames) /\ \A f \in Range(replies) : Parses(f)
    BY <1>1
  <1>2. frame.type \in FrameTypes /\ frame.ids \in SUBSET Items /\ frame.type = head.type
    BY <1>1, EventFacts DEF Frames
  <1>3. CASE frame.type = "HELLO"
    <2>1. /\ Frame("HELLO", {}) \in Frames /\ Parses(Frame("HELLO", {}))
      BY FrameFacts, ParsesFacts DEF FrameTypes
    <2>2. replies = <<Frame("HELLO", {}), Summary(r)>> \/ replies = <<Summary(r)>>
      BY ZenonT(30), <1>3, RepliesByType
    <2>3. Summary(r) \in Frames /\ Parses(Summary(r))
      BY SummaryFacts
    <2> HIDE DEF replies
    <2>4. CASE replies = <<Frame("HELLO", {}), Summary(r)>>
      BY <2>1, <2>3, <2>4, TupleFacts
    <2>5. CASE replies = <<Summary(r)>>
      BY <2>3, <2>5, TupleFacts
    <2> QED BY <2>2, <2>4, <2>5
  <1>4. CASE frame.type = "SUMMARY"
    <2>1. replies = <<>> \/ replies = <<Frame("REQUEST", MissingWant(r, frame.ids))>>
      BY ZenonT(30), <1>4, RepliesByType
    <2>2. /\ Frame("REQUEST", MissingWant(r, frame.ids)) \in Frames
          /\ Parses(Frame("REQUEST", MissingWant(r, frame.ids)))
      BY <1>2, RequestFacts
    <2> HIDE DEF replies
    <2>3. CASE replies = <<>>
      BY <2>3, TupleFacts
    <2>4. CASE replies = <<Frame("REQUEST", MissingWant(r, frame.ids))>>
      BY <2>2, <2>4, TupleFacts
    <2> QED BY <2>1, <2>3, <2>4
  <1>5. CASE frame.type = "REQUEST"
    <2>1. replies = <<Frame("TRANSFER", TransferObjects(r, frame.ids))>>
      BY ZenonT(30), <1>5, RepliesByType
    <2>2. /\ Frame("TRANSFER", TransferObjects(r, frame.ids)) \in Frames
          /\ Parses(Frame("TRANSFER", TransferObjects(r, frame.ids)))
      BY <1>2, TransferFacts
    <2> HIDE DEF replies
    <2> QED BY <2>1, <2>2, TupleFacts
  <1>6. CASE frame.type = "TRANSFER"
    <2>1. replies = <<Frame("RECEIPT", frame.ids \ expired)>>
      BY <1>6, RepliesByType
    <2>2. /\ Frame("RECEIPT", frame.ids \ expired) \in Frames
          /\ Parses(Frame("RECEIPT", frame.ids \ expired))
      BY ZenonT(30), <1>1, <1>2, <1>6, ReceiptFacts
    <2> HIDE DEF replies
    <2> QED BY ZenonT(30), <2>1, <2>2, TupleFacts
  <1>7. CASE frame.type = "RECEIPT"
    <2>1. replies = <<>>
      BY ZenonT(30), <1>7, RepliesByType
    <2> HIDE DEF replies
    <2> QED BY <2>1, TupleFacts
  <1> QED BY <1>2, <1>3, <1>4, <1>5, <1>6, <1>7 DEF FrameTypes

\* Each type of frame answers one type of frame, with ids from there or from the store.
LEMMA ReplyTypes ==
    ASSUME NEW r, NEW phase, NEW frame \in Frames, NEW f \in Range(Replies(r, phase, frame))
    PROVE  \/ f.type = "HELLO" /\ frame.type = "HELLO" /\ phase = "accepting" /\ f.ids = {}
           \/ f.type = "SUMMARY" /\ frame.type = "HELLO" /\ f.ids \subseteq Listed(r)
           \/ f.type = "REQUEST" /\ frame.type = "SUMMARY" /\ f.ids \subseteq frame.ids
           \/ /\ f.type = "TRANSFER" /\ frame.type = "REQUEST"
              /\ f.ids = TransferObjects(r, frame.ids)
           \/ f.type = "RECEIPT" /\ frame.type = "TRANSFER" /\ f.ids = frame.ids \ expired
  <1>1. frame.type \in FrameTypes /\ frame.ids \in SUBSET Items
    BY DEF Frames
  <1>2. CASE frame.type = "HELLO"
    <2>1. /\ Frame("HELLO", {}) \in Frames /\ Frame("HELLO", {}).type = "HELLO"
          /\ Frame("HELLO", {}).ids = {}
      BY FrameFacts DEF FrameTypes
    <2>2. /\ Summary(r) \in Frames /\ Summary(r).type = "SUMMARY"
          /\ Summary(r).ids \subseteq Listed(r)
      BY SummaryFacts
    <2>3. CASE phase = "accepting"
      <3>1. Replies(r, phase, frame) = <<Frame("HELLO", {}), Summary(r)>>
        BY ZenonT(30), <1>2, <2>3, RepliesByType
      <3>2. Range(Replies(r, phase, frame)) = {Frame("HELLO", {}), Summary(r)}
        BY <2>1, <2>2, <3>1, TupleFacts
      <3> QED BY <1>2, <2>1, <2>2, <2>3, <3>2
    <2>4. CASE phase # "accepting"
      <3>1. Replies(r, phase, frame) = <<Summary(r)>>
        BY ZenonT(30), <1>2, <2>4, RepliesByType
      <3>2. Range(Replies(r, phase, frame)) = {Summary(r)}
        BY <2>2, <3>1, TupleFacts
      <3> QED BY <1>2, <2>2, <3>2
    <2> QED BY <2>3, <2>4
  <1>3. CASE frame.type = "SUMMARY"
    <2> DEFINE request == Frame("REQUEST", MissingWant(r, frame.ids))
    <2>1. request \in Frames /\ request.type = "REQUEST" /\ request.ids \subseteq frame.ids
      BY <1>1, RequestFacts
    <2>2. Replies(r, phase, frame) = <<>> \/ Replies(r, phase, frame) = <<request>>
      BY ZenonT(30), <1>3, RepliesByType
    <2> HIDE DEF request
    <2>3. f = request
      BY <2>1, <2>2, TupleFacts
    <2> QED BY <1>3, <2>1, <2>3
  <1>4. CASE frame.type = "REQUEST"
    <2> DEFINE transfer == Frame("TRANSFER", TransferObjects(r, frame.ids))
    <2>1. /\ transfer \in Frames /\ transfer.type = "TRANSFER"
          /\ transfer.ids = TransferObjects(r, frame.ids)
      BY <1>1, TransferFacts
    <2>2. Replies(r, phase, frame) = <<transfer>>
      BY ZenonT(30), <1>4, RepliesByType
    <2> HIDE DEF transfer
    <2>3. f = transfer
      BY <2>1, <2>2, TupleFacts
    <2> QED BY <1>4, <2>1, <2>3
  <1>5. CASE frame.type = "TRANSFER"
    <2> DEFINE receipt == Frame("RECEIPT", frame.ids \ expired)
    <2>1. /\ receipt \in Frames /\ receipt.type = "RECEIPT"
          /\ receipt.ids = frame.ids \ expired
      BY <1>1, FrameFacts DEF FrameTypes
    <2>2. Replies(r, phase, frame) = <<receipt>>
      BY <1>5, RepliesByType
    <2> HIDE DEF receipt
    <2>3. f = receipt
      BY <2>1, <2>2, TupleFacts
    <2> QED BY <1>5, <2>1, <2>3
  <1>6. CASE frame.type = "RECEIPT"
    <2>1. Replies(r, phase, frame) = <<>>
      BY ZenonT(30), <1>6, RepliesByType
    <2>2. Range(Replies(r, phase, frame)) = {}
      BY <2>1, TupleFacts
    <2> QED BY <2>2
  <1> QED BY <1>1, <1>2, <1>3, <1>4, <1>5, <1>6 DEF FrameTypes

LEMMA AdapterFacts ==
    ASSUME NEW r, NEW adapter \in Adapters, NEW frame \in Frames
    PROVE  AdapterAfter(r, adapter, frame) \in Adapters
  <1>1. frame.type = "REQUEST" =>
           AdapterAfter(r, adapter, frame) = SetExpectedReceipt(TransferObjects(r, frame.ids))
    BY DEF AdapterAfter
  <1>2. frame.type # "REQUEST" =>
           AdapterAfter(r, adapter, frame) \in {adapter, NewSessionAdapter}
    BY DEF AdapterAfter, AfterInbound
  <1>3. frame.ids \in SUBSET Items
    BY DEF Frames
  <1>4. NewSessionAdapter \in Adapters
    BY DEF NewSessionAdapter, Adapters
  <1>5. SetExpectedReceipt(TransferObjects(r, frame.ids)) \in Adapters
    BY <1>3, TransferFacts DEF SetExpectedReceipt, Adapters
  <1> QED BY <1>1, <1>2, <1>4, <1>5

\* A forwarded SUMMARY is of one of the signalled items.
LEMMA ForwardedFacts ==
    ASSUME NEW ids \in SUBSET Items
    PROVE  /\ ForwardedSummaries(ids) \in Seq(Frames)
           /\ \A f \in Range(ForwardedSummaries(ids)) :
                 f.type = "SUMMARY" /\ Parses(f) /\ f.ids \subseteq ids
  <1> DEFINE n == Cardinality(ids)
             forward(k) == Frame("SUMMARY", FirstOf(ids, k) \ FirstOf(ids, k - 1))
  <1>1. n \in Nat
    BY ItemSets
  <1>2. ASSUME NEW k \in 1 .. n
        PROVE  /\ forward(k) \in Frames /\ forward(k).type = "SUMMARY" /\ Parses(forward(k))
               /\ forward(k).ids \subseteq ids
    <2> DEFINE added == FirstOf(ids, k) \ FirstOf(ids, k - 1)
    <2>1. k \in Nat \ {0}
      BY <1>1
    <2>2. added \in SUBSET Items /\ Cardinality(added) <= 1
      BY <2>1, ItemSets, PageStep
    <2>5. added \subseteq ids
      BY DEF FirstOf
    <2> HIDE DEF added
    <2>3. Cardinality(added) <= MaxSummaryPreviewItems
      BY <2>2, ItemSets, ProtocolAssumption
    <2>4. /\ Frame("SUMMARY", added) \in Frames /\ Frame("SUMMARY", added).type = "SUMMARY"
          /\ Frame("SUMMARY", added).ids = added
      BY <2>2, FrameFacts DEF FrameTypes
    <2> QED BY ZenonT(30), <2>3, <2>4, <2>5, ParsesFacts DEF added
  <1>3. ForwardedSummaries(ids) = [k \in 1 .. n |-> forward(k)]
    BY DEF ForwardedSummaries
  <1> HIDE DEF n, forward
  <1>4. ForwardedSummaries(ids) \in [1 .. n -> Frames]
    BY <1>2, <1>3
  <1> QED BY <1>1, <1>2, <1>3, <1>4, SeqDef DEF Range

-----------------------------------------------------------------------------
(***************************************************************************)
(* Types.                                                                  *)
(***************************************************************************)
EndRecords == [phase : {"closed", "dialing", "accepting", "open"},
               adapter : Adapters, forwarded : BOOLEAN]

LEMMA TypeParts ==
    FederationTypeOK <=>
        /\ holding \in [Relays -> [Items -> Holdings]]
        /\ signalled \in [Relays -> SUBSET Items]
        /\ expired \subseteq Expiring
        /\ end \in [Ends -> EndRecords] /\ wire \in [Ends -> Seq(Frames)]
        /\ \A e \in Ends : end[e].phase = "closed" => wire[e] = <<>>
        /\ faults \in Nat
  BY DEF FederationTypeOK, EndRecords, Adapters, Frames

LEMMA TypePartsPrimed ==
    FederationTypeOK' <=>
        /\ holding' \in [Relays -> [Items -> Holdings]]
        /\ signalled' \in [Relays -> SUBSET Items]
        /\ expired' \subseteq Expiring
        /\ end' \in [Ends -> EndRecords] /\ wire' \in [Ends -> Seq(Frames)]
        /\ \A e \in Ends : end'[e].phase = "closed" => wire'[e] = <<>>
        /\ faults' \in Nat
  BY DEF FederationTypeOK, EndRecords, Adapters, Frames

LEMMA ClosedEndFacts ==
    ClosedEnd \in EndRecords /\ ClosedEnd.phase = "closed"
  BY DEF ClosedEnd, NewSessionAdapter, EndRecords, Adapters

\* A closed connection has both ends closed and nothing on its wires.
LEMMA CloseFacts ==
    ASSUME FederationTypeOK, NEW e \in Ends, Close(e)
    PROVE  /\ end' \in [Ends -> EndRecords] /\ wire' \in [Ends -> Seq(Frames)]
           /\ \A x \in {e, Back(e)} : end'[x] = ClosedEnd /\ wire'[x] = <<>>
           /\ \A x \in Ends \ {e, Back(e)} : end'[x] = end[x] /\ wire'[x] = wire[x]
  <1>1. end \in [Ends -> EndRecords] /\ wire \in [Ends -> Seq(Frames)]
    BY TypeParts
  <1>2. Back(e) \in Ends /\ Back(e) # e
    BY EndsFacts
  <1>3. <<>> \in Seq(Frames)
    BY TupleFacts
  <1> QED BY ZenonT(30), <1>1, <1>2, <1>3, ClosedEndFacts DEF Close

LEMMA DialFacts ==
    ASSUME FederationTypeOK, NEW e \in Dialed, Dial(e)
    PROVE  /\ e \in Ends
           /\ end' \in [Ends -> EndRecords] /\ wire' \in [Ends -> Seq(Frames)]
           /\ end'[e].phase = "dialing" /\ end'[Back(e)].phase = "accepting"
           /\ wire'[e] = <<Frame("HELLO", {})>> /\ wire'[Back(e)] = <<>>
           /\ \A x \in Ends \ {e, Back(e)} : end'[x] = end[x] /\ wire'[x] = wire[x]
  <1>1. /\ end \in [Ends -> EndRecords] /\ wire \in [Ends -> Seq(Frames)]
        /\ \A x \in Ends : end[x].phase = "closed" => wire[x] = <<>>
    BY TypeParts
  <1>2. e \in Ends /\ Back(e) \in Ends /\ Back(e) # e
    BY EndsFacts DEF Ends
  <1>3. <<Frame("HELLO", {})>> \in Seq(Frames)
    BY FrameFacts, TupleFacts DEF FrameTypes
  <1>4. /\ end' \in [Ends -> EndRecords]
        /\ end'[e].phase = "dialing" /\ end'[Back(e)].phase = "accepting"
        /\ \A x \in Ends \ {e, Back(e)} : end'[x] = end[x]
    BY ZenonT(30), <1>1, <1>2 DEF Dial, EndRecords
  <1>5. /\ wire' \in [Ends -> Seq(Frames)]
        /\ wire'[e] = <<Frame("HELLO", {})>> /\ wire'[Back(e)] = <<>>
        /\ \A x \in Ends \ {e, Back(e)} : wire'[x] = wire[x]
    BY <1>1, <1>2, <1>3 DEF Dial
  <1> QED BY <1>2, <1>4, <1>5

\* An exchange, end by end: the one it reads from, the one it answers on, the peers
\* that are sent a SUMMARY, and the rest.
Exchanged(e, replies, adapter, signals, peers) ==
    /\ peers \subseteq Ends \ {e, Back(e)} /\ \A x \in peers : x[1] = e[2]
    /\ wire'[e] = Tail(wire[e]) /\ end'[e] = end[e]
    /\ wire'[Back(e)] = wire[Back(e)] \o replies
    /\ end'[Back(e)].phase = "open" /\ end'[Back(e)].adapter = adapter
    /\ end'[Back(e)].forwarded = end[Back(e)].forwarded
    /\ \A x \in peers : /\ wire'[x] = wire[x] \o ForwardedSummaries(signals)
                        /\ end[x].phase = "open" /\ end'[x].phase = "open"
                        /\ end'[x].forwarded
    /\ \A x \in Ends \ (peers \cup {e, Back(e)}) : wire'[x] = wire[x] /\ end'[x] = end[x]

LEMMA ExchangeFacts ==
    ASSUME FederationTypeOK, NEW e \in Ends, wire[e] # <<>>, NEW replies \in Seq(Frames),
           NEW adapter \in Adapters, NEW signals \in SUBSET Items,
           Exchange(e, replies, adapter, signals)
    PROVE  /\ end' \in [Ends -> EndRecords] /\ wire' \in [Ends -> Seq(Frames)]
           /\ signalled' \in [Relays -> SUBSET Items]
           /\ \A x \in Ends : end'[x].phase = "closed" => wire'[x] = <<>>
           /\ \E peers : Exchanged(e, replies, adapter, signals, peers)
  <1>1. /\ end \in [Ends -> EndRecords] /\ wire \in [Ends -> Seq(Frames)]
        /\ signalled \in [Relays -> SUBSET Items]
        /\ \A x \in Ends : end[x].phase = "closed" => wire[x] = <<>>
    BY TypeParts
  <1>2. /\ Back(e) \in Ends /\ Back(e) # e /\ e[2] \in Relays /\ e[1] # e[2]
    BY EndsFacts DEF Back
  <1>3. PICK peers \in SUBSET OtherPeers(e) :
        /\ wire' = [x \in Ends |->
                       IF x = e THEN Tail(wire[e])
                       ELSE IF x = Back(e) THEN wire[x] \o replies
                       ELSE IF x \in peers THEN wire[x] \o ForwardedSummaries(signals)
                       ELSE wire[x]]
        /\ end' = [x \in Ends |->
                      IF x = Back(e) THEN [end[x] EXCEPT !.phase = "open", !.adapter = adapter]
                      ELSE IF x \in peers THEN [end[x] EXCEPT !.forwarded = TRUE]
                      ELSE end[x]]
        /\ signalled' = [signalled EXCEPT ![e[2]] = @ \cup signals]
    BY ZenonT(30) DEF Exchange
  <1>4. /\ peers \subseteq Ends \ {e, Back(e)}
        /\ \A x \in peers : x[1] = e[2] /\ end[x].phase = "open"
    BY ZenonT(30), <1>2, <1>3 DEF OtherPeers
  <1>5. ForwardedSummaries(signals) \in Seq(Frames)
    BY ForwardedFacts
  <1>6. Tail(wire[e]) \in Seq(Frames)
    BY <1>1, HeadTailProperties
  <1>7. \A x \in Ends : /\ wire[x] \o replies \in Seq(Frames)
                        /\ wire[x] \o ForwardedSummaries(signals) \in Seq(Frames)
    BY <1>1, <1>5, ConcatProperties
  <1>8. wire' \in [Ends -> Seq(Frames)]
    BY ZenonT(30), <1>1, <1>3, <1>6, <1>7
  <1>9. ASSUME NEW x \in Ends
        PROVE  /\ [end[x] EXCEPT !.phase = "open", !.adapter = adapter] \in EndRecords
               /\ [end[x] EXCEPT !.phase = "open", !.adapter = adapter].phase = "open"
               /\ [end[x] EXCEPT !.phase = "open", !.adapter = adapter].adapter = adapter
               /\ [end[x] EXCEPT !.phase = "open", !.adapter = adapter].forwarded = end[x].forwarded
               /\ [end[x] EXCEPT !.forwarded = TRUE] \in EndRecords
               /\ [end[x] EXCEPT !.forwarded = TRUE].phase = end[x].phase
               /\ [end[x] EXCEPT !.forwarded = TRUE].forwarded
    BY ZenonT(30), <1>1 DEF EndRecords
  <1>10. end' \in [Ends -> EndRecords]
    BY ZenonT(30), <1>1, <1>3, <1>9
  <1>11. Exchanged(e, replies, adapter, signals, peers)
    <2>1. wire'[e] = Tail(wire[e]) /\ end'[e] = end[e]
      BY ZenonT(30), <1>2, <1>3, <1>4
    <2>2. wire'[Back(e)] = wire[Back(e)] \o replies
      BY ZenonT(30), <1>2, <1>3
    <2>3. end'[Back(e)] = [end[Back(e)] EXCEPT !.phase = "open", !.adapter = adapter]
      BY ZenonT(30), <1>2, <1>3
    <2>4. \A x \in peers : /\ wire'[x] = wire[x] \o ForwardedSummaries(signals)
                           /\ end'[x] = [end[x] EXCEPT !.forwarded = TRUE]
      BY ZenonT(30), <1>3, <1>4
    <2>5. \A x \in Ends \ (peers \cup {e, Back(e)}) : wire'[x] = wire[x] /\ end'[x] = end[x]
      BY ZenonT(30), <1>3
    <2>6. \A x \in peers : end'[x].phase = "open" /\ end'[x].forwarded
      BY ZenonT(30), <1>4, <1>9, <2>4
    <2>7. /\ end'[Back(e)].phase = "open" /\ end'[Back(e)].adapter = adapter
          /\ end'[Back(e)].forwarded = end[Back(e)].forwarded
      BY ZenonT(30), <1>2, <1>9, <2>3
    <2> QED BY ZenonT(30), <1>4, <2>1, <2>2, <2>4, <2>5, <2>6, <2>7 DEF Exchanged
  <1>12. ASSUME NEW x \in Ends, end'[x].phase = "closed"
         PROVE  wire'[x] = <<>>
    <2>1. x # Back(e) /\ x \notin peers
      BY ZenonT(30), <1>11, <1>12 DEF Exchanged
    <2>2. x # e
      <3>1. end[e].phase # "closed"
        BY ZenonT(30), <1>1
      <3> QED BY ZenonT(30), <1>11, <1>12, <3>1 DEF Exchanged
    <2>3. wire'[x] = wire[x] /\ end'[x] = end[x]
      BY ZenonT(30), <1>11, <2>1, <2>2 DEF Exchanged
    <2> QED BY ZenonT(30), <1>1, <1>12, <2>3
  <1>13. signalled' \in [Relays -> SUBSET Items]
    BY ZenonT(30), <1>1, <1>2, <1>3
  <1> QED BY <1>8, <1>10, <1>11, <1>12, <1>13

\* The objects of a TRANSFER that get into the store, all store calls succeeding.
Stored(head) == IF head.type = "TRANSFER" THEN Event(head).ids \ expired ELSE {}

\* One message answered.
Answered(e, head) ==
    /\ Parses(head) /\ ~RefusedReceipt(end[Back(e)].adapter, wire[e], 1)
    /\ Exchange(e, Replies(e[2], end[Back(e)].phase, Event(head)),
                AdapterAfter(e[2], end[Back(e)].adapter, Event(head)),
                Stored(head) \ signalled[e[2]])
    /\ holding' = Ingested(e[2], Stored(head))
    /\ UNCHANGED <<expired, faults>>

LEMMA HeadFacts ==
    ASSUME FederationTypeOK, NEW e \in Ends, wire[e] # <<>>
    PROVE  /\ Head(wire[e]) \in Frames /\ Head(wire[e]) \in Range(wire[e])
           /\ Head(wire[e]) = wire[e][1] /\ Tail(wire[e]) \in Seq(Frames)
           /\ Range(Tail(wire[e])) \subseteq Range(wire[e])
  <1>1. PICK w \in Seq(Frames) : w = wire[e] /\ w # <<>>
    BY TypeParts
  <1>2. Len(w) \in Nat \ {0} /\ DOMAIN w = 1 .. Len(w)
    BY <1>1, EmptySeq, LenProperties
  <1>3. Head(w) = w[1] /\ Head(w) \in Frames /\ Tail(w) \in Seq(Frames)
    BY <1>1, HeadTailProperties
  <1>4. Head(w) \in Range(w)
    BY <1>2, <1>3 DEF Range
  <1>5. /\ DOMAIN Tail(w) = 1 .. Len(w) - 1
        /\ \A k \in 1 .. Len(w) - 1 : Tail(w)[k] = w[k + 1] /\ k + 1 \in DOMAIN w
    BY <1>1, <1>2, <1>3, HeadTailProperties, LenProperties
  <1>6. Range(Tail(w)) \subseteq Range(w)
    BY <1>5 DEF Range
  <1> QED BY <1>1, <1>3, <1>4, <1>6

LEMMA ReceiveFacts ==
    ASSUME FederationTypeOK, NEW e \in Ends, Receive(e)
    PROVE  /\ wire[e] # <<>>
           /\ \/ Close(e) /\ UNCHANGED <<holding, signalled, expired, faults>>
              \/ Answered(e, Head(wire[e]))
  <1>1. wire[e] # <<>>
    BY DEF Receive
  <1>2. Event(Head(wire[e])).type = Head(wire[e]).type
    BY <1>1, HeadFacts, EventFacts
  <1>3. CASE Refuses(e) \/ CannotAnswer(e)
    BY <1>1, <1>3 DEF Receive
  <1>4. CASE ~(Refuses(e) \/ CannotAnswer(e))
    BY ZenonT(30), <1>1, <1>2, <1>4 DEF Receive, Answered, Stored, Refuses
  <1> QED BY <1>1, <1>3, <1>4

\* A TRANSFER of which object i fails, reaching some holding, perhaps marked.
LEMMA ReceiveFailsFacts ==
    ASSUME FederationTypeOK, NEW e \in Ends, NEW i \in Items, ReceiveFails(e, i)
    PROVE  /\ wire[e] # <<>> /\ Head(wire[e]).type = "TRANSFER" /\ faults \in Nat
           /\ faults' = faults + 1 /\ UNCHANGED expired
           /\ \E stored \in SUBSET Event(Head(wire[e])).ids, marked \in SUBSET {i},
                 reached \in {"absent", "message", "unservable"} :
                 /\ i \notin stored /\ (marked # {} => reached = "unservable")
                 /\ Exchange(e, <<Frame("RECEIPT", stored)>>, end[Back(e)].adapter,
                             (stored \cup marked) \ signalled[e[2]])
                 /\ \E left \in FailedIngest(holding[e[2]][i], reached) :
                       holding' = [Ingested(e[2], stored) EXCEPT ![e[2]][i] = left]
  <1>1. wire[e] # <<>> /\ faults' = faults + 1 /\ UNCHANGED expired
    BY DEF ReceiveFails
  <1>2. faults \in Nat /\ Event(Head(wire[e])).type = Head(wire[e]).type
    BY <1>1, HeadFacts, EventFacts, TypeParts
  <1>3. PICK reached \in {"absent", "message", "unservable"} :
          /\ Event(Head(wire[e])).type = "TRANSFER"
          /\ \E stored \in {Event(Head(wire[e])).ids \ (expired \cup {i})},
                marked \in IF reached = "unservable" THEN {{}, {i}} ELSE {{}} :
                /\ Exchange(e, <<Frame("RECEIPT", stored)>>, end[Back(e)].adapter,
                            (stored \cup marked) \ signalled[e[2]])
                /\ \E left \in FailedIngest(holding[e[2]][i], reached) :
                      holding' = [Ingested(e[2], stored) EXCEPT ![e[2]][i] = left]
    BY ZenonT(30) DEF ReceiveFails
  <1> QED BY ZenonT(30), <1>1, <1>2, <1>3

-----------------------------------------------------------------------------
(***************************************************************************)
(* Holdings.  No step takes an envelope away: a failed ingest leaves one   *)
(* where there was one, if not the same.                                   *)
(***************************************************************************)
Enveloped(h) == h \in {"unservable", "held"}

EnvelopesStay ==
    \A r \in Relays, i \in Items : Enveloped(holding[r][i]) => Enveloped(holding'[r][i])

LEMMA IngestedFacts ==
    ASSUME holding \in [Relays -> [Items -> Holdings]], NEW r \in Relays,
           NEW ids \in SUBSET Items
    PROVE  /\ Ingested(r, ids) \in [Relays -> [Items -> Holdings]]
           /\ \A i \in ids : Enveloped(Ingested(r, ids)[r][i])
           /\ \A q \in Relays, i \in Items :
                 Enveloped(holding[q][i]) => Enveloped(Ingested(r, ids)[q][i])
  <1> DEFINE row == [i \in Items |-> IF i \in ids THEN "held" ELSE holding[r][i]]
  <1>1. row \in [Items -> Holdings]
    BY DEF Holdings
  <1>2. Ingested(r, ids) = [holding EXCEPT ![r] = row]
    BY DEF Ingested
  <1>3. /\ \A i \in ids : Enveloped(row[i])
        /\ \A i \in Items : Enveloped(holding[r][i]) => Enveloped(row[i])
    BY DEF Enveloped
  <1> HIDE DEF row
  <1> QED BY <1>1, <1>2, <1>3

LEMMA FailedFacts ==
    ASSUME holding \in [Relays -> [Items -> Holdings]], NEW r \in Relays,
           NEW ids \in SUBSET Items, NEW i \in Items, i \notin ids,
           NEW reached \in {"absent", "message", "unservable"},
           NEW left \in FailedIngest(holding[r][i], reached),
           holding' = [Ingested(r, ids) EXCEPT ![r][i] = left]
    PROVE  /\ holding' \in [Relays -> [Items -> Holdings]]
           /\ \A j \in ids : Enveloped(holding'[r][j])
           /\ reached = "unservable" => Enveloped(holding'[r][i])
           /\ EnvelopesStay
  <1>1. PICK h \in [Relays -> [Items -> Holdings]] : h = Ingested(r, ids)
    BY IngestedFacts
  <1>2. /\ \A j \in ids : Enveloped(h[r][j])
        /\ \A q \in Relays, j \in Items : Enveloped(holding[q][j]) => Enveloped(h[q][j])
    BY <1>1, IngestedFacts
  <1>3. /\ left \in Holdings
        /\ Enveloped(holding[r][i]) \/ reached = "unservable" => Enveloped(left)
    BY DEF FailedIngest, Holdings, Enveloped
  <1>4. holding' = [h EXCEPT ![r] = [h[r] EXCEPT ![i] = left]]
    BY <1>1
  <1>5. holding' \in [Relays -> [Items -> Holdings]]
    <2>1. [h[r] EXCEPT ![i] = left] \in [Items -> Holdings]
      BY <1>3
    <2> QED BY ZenonT(30), <1>4, <2>1
  <1>6. /\ holding'[r] = [h[r] EXCEPT ![i] = left]
        /\ \A q \in Relays \ {r} : holding'[q] = h[q]
    BY ZenonT(30), <1>4
  <1>7. /\ holding'[r][i] = left
        /\ \A j \in Items \ {i} : holding'[r][j] = h[r][j]
    BY <1>6
  <1>8. \A j \in ids : Enveloped(holding'[r][j])
    BY <1>2, <1>7
  <1>9. EnvelopesStay
    BY <1>2, <1>3, <1>6, <1>7 DEF EnvelopesStay
  <1> QED BY <1>3, <1>5, <1>7, <1>8, <1>9

(***************************************************************************)
(* A frame that relay x[1] has sent to x[2] is sound: it can be parsed,    *)
(* and the relay that has to have what it names has envelopes of it.       *)
(***************************************************************************)
Owner(x, f) == IF f.type = "REQUEST" THEN x[2] ELSE x[1]

Sound(x, f) ==
    Parses(f) /\ \A i \in f.ids \ expired : Enveloped(holding[Owner(x, f)][i])

SoundInv == FederationTypeOK /\ \A x \in Ends : \A f \in Range(wire[x]) : Sound(x, f)

LEMMA SoundStays ==
    ASSUME SoundInv, EnvelopesStay, expired \subseteq expired',
           NEW x \in Ends, NEW f \in Range(wire[x])
    PROVE  Sound(x, f)'
  <1>1. Sound(x, f)
    BY DEF SoundInv
  <1>2. wire[x] \in Seq(Frames)
    BY TypeParts DEF SoundInv
  <1>3. f \in Frames
    BY <1>2, RangeOfSeq
  <1>4. Owner(x, f) \in Relays /\ f.ids \subseteq Items
    BY <1>3, EndsFacts DEF Frames, Owner
  <1> QED BY <1>1, <1>4 DEF Sound, EnvelopesStay

\* An exchange keeps every wire sound when its replies and what it signals are.
LEMMA ExchangeKeepsSound ==
    ASSUME SoundInv, NEW e \in Ends, wire[e] # <<>>, NEW replies \in Seq(Frames),
           NEW adapter \in Adapters, NEW signals \in SUBSET Items,
           Exchange(e, replies, adapter, signals),
           \A f \in Range(replies) : Sound(Back(e), f)',
           \A i \in signals : Enveloped(holding'[e[2]][i]),
           holding' \in [Relays -> [Items -> Holdings]], EnvelopesStay,
           UNCHANGED expired, faults' \in Nat
    PROVE  SoundInv'
  <1>1. FederationTypeOK /\ wire \in [Ends -> Seq(Frames)] /\ expired \subseteq Expiring
    BY TypeParts DEF SoundInv
  <1>2. FederationTypeOK'
    <2>1. /\ end' \in [Ends -> EndRecords] /\ wire' \in [Ends -> Seq(Frames)]
          /\ signalled' \in [Relays -> SUBSET Items]
          /\ \A x \in Ends : end'[x].phase = "closed" => wire'[x] = <<>>
      BY <1>1, ExchangeFacts
    <2> QED BY <1>1, <2>1, TypePartsPrimed
  <1>3. PICK peers : Exchanged(e, replies, adapter, signals, peers)
    BY <1>1, ExchangeFacts
  <1>4. \A x \in Ends : \A f \in Range(wire[x]) : Sound(x, f)'
    BY SoundStays
  <1>5. /\ ForwardedSummaries(signals) \in Seq(Frames)
        /\ \A x : \A f \in Range(ForwardedSummaries(signals)) : x[1] = e[2] => Sound(x, f)'
    BY ForwardedFacts DEF Sound, Owner
  <1>6. ASSUME NEW x \in Ends
        PROVE  \A f \in Range(wire'[x]) : Sound(x, f)'
    <2>1. CASE x = e
      <3>1. Range(wire'[x]) \subseteq Range(wire[x])
        BY ZenonT(30), <1>1, <1>3, <2>1, HeadFacts DEF Exchanged
      <3> QED BY <1>4, <3>1
    <2>2. CASE x = Back(e)
      <3>1. wire'[x] = wire[x] \o replies
        BY ZenonT(30), <1>3, <2>2 DEF Exchanged
      <3>2. Range(wire'[x]) = Range(wire[x]) \cup Range(replies)
        BY <1>1, <3>1, RangeConcatenation
      <3> QED BY <1>4, <2>2, <3>2
    <2>3. CASE x \in peers
      <3>1. wire'[x] = wire[x] \o ForwardedSummaries(signals) /\ x[1] = e[2]
        BY ZenonT(30), <1>3, <2>3 DEF Exchanged
      <3>2. Range(wire'[x]) = Range(wire[x]) \cup Range(ForwardedSummaries(signals))
        BY <1>1, <1>5, <3>1, RangeConcatenation
      <3> QED BY <1>4, <1>5, <3>1, <3>2
    <2>4. CASE x \notin peers \cup {e, Back(e)}
      <3>1. wire'[x] = wire[x]
        BY ZenonT(30), <1>3, <2>4 DEF Exchanged
      <3> QED BY <1>4, <3>1
    <2> QED BY <2>1, <2>2, <2>3, <2>4
  <1> QED BY ZenonT(30), <1>2, <1>6 DEF SoundInv

LEMMA AnsweredKeepsSound ==
    ASSUME SoundInv, NEW e \in Ends, wire[e] # <<>>, Answered(e, Head(wire[e]))
    PROVE  SoundInv'
  <1>1. PICK head \in Frames : head = Head(wire[e])
    BY HeadFacts DEF SoundInv
  <1>2. /\ end[Back(e)] \in EndRecords /\ e[2] \in Relays /\ Back(e)[1] = e[2]
        /\ holding \in [Relays -> [Items -> Holdings]] /\ faults \in Nat
    BY EndsFacts, TypeParts DEF SoundInv
  <1>3. Stored(head) \in SUBSET Items /\ Event(head) \in Frames /\ Event(head).type = head.type
    BY EventFacts DEF Stored, Frames
  <1>4. /\ Parses(head) /\ holding' = Ingested(e[2], Stored(head)) /\ UNCHANGED <<expired, faults>>
        /\ Exchange(e, Replies(e[2], end[Back(e)].phase, Event(head)),
                    AdapterAfter(e[2], end[Back(e)].adapter, Event(head)),
                    Stored(head) \ signalled[e[2]])
    BY ZenonT(30), <1>1 DEF Answered
  <1>5. holding' \in [Relays -> [Items -> Holdings]] /\ EnvelopesStay
    BY ZenonT(30), <1>2, <1>3, <1>4, IngestedFacts DEF EnvelopesStay
  <1>6. \A i \in Stored(head) : Enveloped(holding'[e[2]][i])
    BY ZenonT(30), <1>2, <1>3, <1>4, IngestedFacts
  <1>7. PICK replies \in Seq(Frames) : /\ replies = Replies(e[2], end[Back(e)].phase, Event(head))
                                       /\ \A f \in Range(replies) : Parses(f)
    BY ZenonT(30), <1>4, RepliesFacts
  <1>8. AdapterAfter(e[2], end[Back(e)].adapter, Event(head)) \in Adapters
    BY <1>2, <1>3, AdapterFacts DEF EndRecords
  <1>9. ASSUME NEW f \in Range(replies)
        PROVE  Sound(Back(e), f)'
    <2>1. Parses(f) /\ (f.type = "REQUEST" => Owner(Back(e), f) = e[1])
          /\ (f.type # "REQUEST" => Owner(Back(e), f) = e[2])
      BY <1>7, EndsFacts DEF Owner
    <2>2. /\ e[1] \in Relays /\ e[2] \in Relays /\ UNCHANGED expired
          /\ \A r \in Relays : \A i \in Listed(r) : Enveloped(holding'[r][i])
      BY <1>4, <1>5, EndsFacts DEF EnvelopesStay, Listed, Enveloped
    <2>3. CASE f.ids = {}
      BY <2>1, <2>3 DEF Sound
    <2>4. CASE f.type # "REQUEST" /\ f.ids \subseteq Listed(e[2])
      BY <2>1, <2>2, <2>4 DEF Sound
    <2>5. CASE f.type = "REQUEST" /\ head.type = "SUMMARY" /\ f.ids \subseteq Event(head).ids
      <3>1. Event(head) = head
        BY <2>5, EventFacts
      <3>2. Sound(e, head)' /\ Owner(e, head) = e[1]
        BY <1>1, <1>5, <2>2, <2>5, SoundStays, HeadFacts DEF SoundInv, Owner
      <3> QED BY <2>1, <2>5, <3>1, <3>2 DEF Sound
    <2>6. CASE f.type # "REQUEST" /\ f.ids = Stored(head)
      BY <1>6, <2>1, <2>6 DEF Sound
    <2>7. \/ f.ids = {}
          \/ f.type # "REQUEST" /\ f.ids \subseteq Listed(e[2])
          \/ f.type = "REQUEST" /\ head.type = "SUMMARY" /\ f.ids \subseteq Event(head).ids
          \/ f.type # "REQUEST" /\ f.ids = Stored(head)
      <3>1. Event(head).ids \in SUBSET Items
        BY <1>3 DEF Frames
      <3>2. TransferObjects(e[2], Event(head).ids) \subseteq Listed(e[2])
        BY <3>1, TransferFacts
      <3> QED BY <1>3, <1>7, <3>2, ReplyTypes DEF Stored
    <2> QED BY <2>3, <2>4, <2>5, <2>6, <2>7
  <1>10. /\ \A f \in Range(replies) : Sound(Back(e), f)'
         /\ \A i \in Stored(head) \ signalled[e[2]] : Enveloped(holding'[e[2]][i])
    BY <1>6, <1>9
  <1>11. Exchange(e, replies, AdapterAfter(e[2], end[Back(e)].adapter, Event(head)),
                  Stored(head) \ signalled[e[2]])
    BY ZenonT(30), <1>4, <1>7
  <1>12. Stored(head) \ signalled[e[2]] \in SUBSET Items /\ faults' \in Nat /\ UNCHANGED expired
    BY ZenonT(30), <1>2, <1>3, <1>4
  <1> QED BY ZenonT(30), <1>5, <1>8, <1>10, <1>11, <1>12, ExchangeKeepsSound

LEMMA FailureKeepsSound ==
    ASSUME SoundInv, NEW e \in Ends, NEW i \in Items, ReceiveFails(e, i)
    PROVE  SoundInv'
  <1>1. FederationTypeOK
    BY DEF SoundInv
  <1>2. /\ wire[e] # <<>> /\ Head(wire[e]).type = "TRANSFER" /\ faults' \in Nat
        /\ UNCHANGED expired
    BY <1>1, ReceiveFailsFacts
  <1>3. PICK head \in Frames : head = Head(wire[e]) /\ head \in Range(wire[e])
    BY <1>1, <1>2, HeadFacts
  <1>4. PICK stored \in SUBSET Event(head).ids, marked \in SUBSET {i},
             reached \in {"absent", "message", "unservable"} :
          /\ i \notin stored /\ (marked # {} => reached = "unservable")
          /\ Exchange(e, <<Frame("RECEIPT", stored)>>, end[Back(e)].adapter,
                      (stored \cup marked) \ signalled[e[2]])
          /\ \E left \in FailedIngest(holding[e[2]][i], reached) :
                holding' = [Ingested(e[2], stored) EXCEPT ![e[2]][i] = left]
    BY ZenonT(30), <1>1, <1>3, ReceiveFailsFacts
  <1>5. /\ end[Back(e)].adapter \in Adapters /\ e[2] \in Relays /\ Back(e)[1] = e[2]
        /\ holding \in [Relays -> [Items -> Holdings]]
    BY <1>1, EndsFacts, TypeParts DEF EndRecords
  <1>6. stored \in SUBSET Items
    BY EventFacts DEF Frames
  <1>7. Parses(head)
    BY <1>3 DEF SoundInv, Sound
  <1>8. PICK receipt \in Frames : /\ receipt = Frame("RECEIPT", stored) /\ Parses(receipt)
                                  /\ receipt.type = "RECEIPT" /\ receipt.ids = stored
    BY <1>2, <1>3, <1>7, ReceiptFacts
  <1>9. /\ holding' \in [Relays -> [Items -> Holdings]] /\ EnvelopesStay
        /\ \A j \in stored : Enveloped(holding'[e[2]][j])
        /\ reached = "unservable" => Enveloped(holding'[e[2]][i])
    BY ZenonT(30), <1>4, <1>5, <1>6, FailedFacts
  <1>10. <<receipt>> \in Seq(Frames) /\ Range(<<receipt>>) = {receipt}
    BY TupleFacts
  <1>11. \A f \in Range(<<receipt>>) : Sound(Back(e), f)'
    <2>1. Owner(Back(e), receipt) = e[2]
      BY <1>5, <1>8 DEF Owner
    <2> QED BY <1>8, <1>9, <1>10, <2>1 DEF Sound
  <1>12. /\ (stored \cup marked) \ signalled[e[2]] \in SUBSET Items
         /\ \A j \in (stored \cup marked) \ signalled[e[2]] : Enveloped(holding'[e[2]][j])
    BY <1>4, <1>6, <1>9
  <1>13. Exchange(e, <<receipt>>, end[Back(e)].adapter, (stored \cup marked) \ signalled[e[2]])
    BY <1>4, <1>8
  <1> QED BY ZenonT(30), <1>2, <1>5, <1>9, <1>10, <1>11, <1>12, <1>13, ExchangeKeepsSound

\* Steps that send nothing, or only a HELLO.
LEMMA QuietKeepsSound ==
    ASSUME SoundInv, FederationTypeOK', EnvelopesStay, expired \subseteq expired',
           \A x \in Ends : \A f \in Range(wire'[x]) : f \in Range(wire[x]) \/ f = Frame("HELLO", {})
    PROVE  SoundInv'
  <1>1. \A x \in Ends : \A f \in Range(wire[x]) : Sound(x, f)'
    BY SoundStays
  <1>2. /\ Frame("HELLO", {}) \in Frames /\ Frame("HELLO", {}).type = "HELLO"
        /\ Parses(Frame("HELLO", {})) /\ Frame("HELLO", {}).ids = {}
    BY FrameFacts, ParsesFacts DEF FrameTypes
  <1>3. \A x \in Ends : Sound(x, Frame("HELLO", {}))'
    BY <1>2 DEF Sound
  <1>4. \A x \in Ends : \A f \in Range(wire'[x]) : Sound(x, f)'
    BY <1>1, <1>3
  <1> QED BY ZenonT(30), <1>4 DEF SoundInv

LEMMA CloseKeepsSound ==
    ASSUME SoundInv, NEW e \in Ends, Close(e), UNCHANGED <<holding, signalled, expired, faults>>
    PROVE  SoundInv'
  <1>1. FederationTypeOK
    BY DEF SoundInv
  <1>2. /\ end' \in [Ends -> EndRecords] /\ wire' \in [Ends -> Seq(Frames)]
        /\ \A x \in {e, Back(e)} : end'[x] = ClosedEnd /\ wire'[x] = <<>>
        /\ \A x \in Ends \ {e, Back(e)} : end'[x] = end[x] /\ wire'[x] = wire[x]
    BY <1>1, CloseFacts
  <1>3. /\ \A x \in Ends : end[x].phase = "closed" => wire[x] = <<>>
        /\ holding \in [Relays -> [Items -> Holdings]]
        /\ signalled \in [Relays -> SUBSET Items] /\ expired \subseteq Expiring /\ faults \in Nat
    BY <1>1, TypeParts
  <1>4. \A x \in Ends : end'[x].phase = "closed" => wire'[x] = <<>>
    BY ZenonT(30), <1>2, <1>3
  <1>5. FederationTypeOK'
    BY ZenonT(30), <1>2, <1>3, <1>4, TypePartsPrimed
  <1>6. \A x \in Ends : \A f \in Range(wire'[x]) : f \in Range(wire[x])
    BY ZenonT(30), <1>2, TupleFacts
  <1> QED BY <1>5, <1>6, QuietKeepsSound DEF EnvelopesStay

LEMMA DialKeepsSound ==
    ASSUME SoundInv, NEW e \in Dialed, Dial(e)
    PROVE  SoundInv'
  <1>1. FederationTypeOK
    BY DEF SoundInv
  <1>2. /\ end' \in [Ends -> EndRecords] /\ wire' \in [Ends -> Seq(Frames)]
        /\ end'[e].phase = "dialing" /\ end'[Back(e)].phase = "accepting"
        /\ wire'[e] = <<Frame("HELLO", {})>> /\ wire'[Back(e)] = <<>>
        /\ \A x \in Ends \ {e, Back(e)} : end'[x] = end[x] /\ wire'[x] = wire[x]
    BY ZenonT(30), <1>1, DialFacts
  <1>3. /\ \A x \in Ends : end[x].phase = "closed" => wire[x] = <<>>
        /\ holding \in [Relays -> [Items -> Holdings]]
        /\ signalled \in [Relays -> SUBSET Items] /\ expired \subseteq Expiring /\ faults \in Nat
    BY <1>1, TypeParts
  <1>4. UNCHANGED <<holding, signalled, expired, faults>>
    BY DEF Dial
  <1>5. \A x \in Ends : end'[x].phase = "closed" => wire'[x] = <<>>
    BY ZenonT(30), <1>2, <1>3
  <1>6. FederationTypeOK'
    BY ZenonT(30), <1>2, <1>3, <1>4, <1>5, TypePartsPrimed
  <1>7. /\ Range(<<Frame("HELLO", {})>>) = {Frame("HELLO", {})}
        /\ Range(<<>>) = {}
    BY FrameFacts, TupleFacts DEF FrameTypes
  <1>8. ASSUME NEW x \in Ends, NEW f \in Range(wire'[x])
        PROVE  f \in Range(wire[x]) \/ f = Frame("HELLO", {})
    <2>1. CASE x = e
      BY <1>2, <1>7, <1>8, <2>1
    <2>2. CASE x = Back(e)
      BY <1>2, <1>7, <1>8, <2>2
    <2>3. CASE x \notin {e, Back(e)}
      BY <1>2, <1>8, <2>3
    <2> QED BY <2>1, <2>2, <2>3
  <1> QED BY <1>4, <1>6, <1>8, QuietKeepsSound DEF EnvelopesStay

\* Steps of the stores alone.
LEMMA StoresKeepSound ==
    ASSUME SoundInv, UNCHANGED <<signalled, end, wire, faults>>,
           holding' \in [Relays -> [Items -> Holdings]], EnvelopesStay,
           expired \subseteq expired', expired' \subseteq Expiring
    PROVE  SoundInv'
  <1>1. FederationTypeOK'
    <2>1. /\ signalled \in [Relays -> SUBSET Items] /\ end \in [Ends -> EndRecords]
          /\ wire \in [Ends -> Seq(Frames)] /\ faults \in Nat
          /\ \A x \in Ends : end[x].phase = "closed" => wire[x] = <<>>
      BY TypeParts DEF SoundInv
    <2> QED BY <2>1, TypePartsPrimed
  <1> QED BY <1>1, QuietKeepsSound

LEMMA SoundNext == SoundInv /\ [FederationNext]_fxVars => SoundInv'
  <1> SUFFICES ASSUME SoundInv, [FederationNext]_fxVars PROVE SoundInv'
    OBVIOUS
  <1>0. /\ FederationTypeOK /\ holding \in [Relays -> [Items -> Holdings]]
        /\ expired \subseteq Expiring
    BY TypeParts DEF SoundInv
  <1>1. ASSUME NEW e \in Dialed, Dial(e)
        PROVE  SoundInv'
    BY <1>1, DialKeepsSound
  <1>2. ASSUME NEW e \in Dialed, Break(e)
        PROVE  SoundInv'
    <2>1. e \in Ends /\ Close(e) /\ UNCHANGED <<holding, signalled, expired, faults>>
      BY <1>2 DEF Break, Ends
    <2> QED BY <2>1, CloseKeepsSound
  <1>3. ASSUME NEW e \in Ends, Receive(e)
        PROVE  SoundInv'
    BY <1>0, <1>3, ReceiveFacts, CloseKeepsSound, AnsweredKeepsSound
  <1>4. ASSUME NEW e \in Ends, NEW i \in Items, ReceiveFails(e, i)
        PROVE  SoundInv'
    BY <1>4, FailureKeepsSound
  <1>5. ASSUME NEW i \in Items, Expire(i)
        PROVE  SoundInv'
    <2>1. /\ UNCHANGED <<holding, signalled, end, wire, faults>>
          /\ expired' = expired \cup {i} /\ i \in Expiring
      BY <1>5 DEF Expire
    <2>2. expired \subseteq expired' /\ expired' \subseteq Expiring /\ EnvelopesStay
      BY <1>0, <2>1 DEF EnvelopesStay
    <2> QED BY <1>0, <2>1, <2>2, StoresKeepSound
  <1>6. ASSUME NEW r \in Relays, NEW i \in Items, ClientTransfer(r, i)
        PROVE  SoundInv'
    <2>1. holding' = Ingested(r, {i}) /\ UNCHANGED <<signalled, expired, end, wire, faults>>
      BY <1>6 DEF ClientTransfer
    <2>2. holding' \in [Relays -> [Items -> Holdings]] /\ EnvelopesStay
      BY <1>0, <2>1, IngestedFacts DEF EnvelopesStay
    <2> QED BY ZenonT(30), <1>0, <2>1, <2>2, StoresKeepSound
  <1>7. CASE UNCHANGED fxVars
    <2>1. UNCHANGED <<holding, signalled, expired, end, wire, faults>>
      BY <1>7 DEF fxVars
    <2>2. EnvelopesStay
      BY <2>1 DEF EnvelopesStay
    <2> QED BY <1>0, <2>1, <2>2, StoresKeepSound
  <1> QED BY ZenonT(30), <1>1, <1>2, <1>3, <1>4, <1>5, <1>6, <1>7 DEF FederationNext

LEMMA SoundInitially == FederationInit => SoundInv
  <1> SUFFICES ASSUME FederationInit PROVE SoundInv
    OBVIOUS
  <1>1. FederationTypeOK
    BY ClosedEndFacts, TupleFacts, TypeParts DEF FederationInit, Holdings
  <1>2. \A x \in Ends : Range(wire[x]) = {}
    BY TupleFacts DEF FederationInit
  <1> QED BY <1>1, <1>2 DEF SoundInv

LEMMA SoundAlways == FederationSpec => []SoundInv
  BY SoundInitially, SoundNext, PTL DEF FederationSpec

(***************************************************************************)
(* Whatever relays send, refuse and lose, the state of every connection    *)
(* stays well formed and nothing is on the wire of a closed one.           *)
(***************************************************************************)
THEOREM FederationTypes == FederationSpec => []FederationTypeOK
  <1>1. SoundInv => FederationTypeOK
    BY DEF SoundInv
  <1> QED BY <1>1, SoundAlways, PTL

(***************************************************************************)
(* A relay lists, transfers and acknowledges only items of which it has    *)
(* written an envelope (handleHello, handleRequest, handleTransfer), and   *)
(* requests only what was listed to it (handleSummary): what every frame   *)
(* under way names is there, unless it has expired, with both directions   *)
(* of a connection served at once, ingests failing and overwriting each    *)
(* other's envelopes, and connections breaking.                            *)
(***************************************************************************)
THEOREM FramesTellTheTruth == FederationSpec => []FramesAreBacked
  <1>1. SoundInv => FramesAreBacked
    <2> SUFFICES ASSUME SoundInv, NEW e \in Ends, NEW k \in 1 .. Len(wire[e]),
                        NEW i \in wire[e][k].ids \ expired
                 PROVE  holding[IF wire[e][k].type = "REQUEST" THEN e[2] ELSE e[1]][i]
                           \in {"unservable", "held"}
      BY DEF FramesAreBacked
    <2>1. wire[e] \in Seq(Frames)
      BY TypeParts DEF SoundInv
    <2>2. PICK f \in Range(wire[e]) : f = wire[e][k]
      BY <2>1, LenProperties DEF Range
    <2>3. Sound(e, f)
      BY DEF SoundInv
    <2> QED BY <2>2, <2>3 DEF Sound, Owner, Enveloped
  <1> QED BY <1>1, SoundAlways, PTL

-----------------------------------------------------------------------------
(***************************************************************************)
(* Without a forwarded SUMMARY each direction of a connection is a round.  *)
(***************************************************************************)
\* While a relay waits for the HELLO of a relay that dialed it, that is all there is.
Greeting(x) ==
    end[x].phase = "accepting" => /\ end[Back(x)].phase = "dialing"
                                  /\ wire[x] = <<>> /\ wire[Back(x)] = <<Frame("HELLO", {})>>

RoundInv ==
    \A x \in Ends : /\ end[x].forwarded \/ Round(wire[x], wire[Back(x)], end[x].adapter)
                    /\ Greeting(x)

\* What has to be so of the replies to the first frame of wire[e], for the direction
\* in which the answering relay serves and for the other one.
Fitting(e, replies, adapter) ==
    /\ Once(replies, Offers) /\ Once(replies, Asks)
    /\ Has(replies, Offers) \/ adapter # end[Back(e)].adapter => Head(wire[e]).type \in Asks
    /\ \A f \in Range(replies) : f.type = "TRANSFER" => Expects(adapter, f.ids)
    /\ Has(replies, Asks) => \/ Head(wire[e]).type \in Offers
                             \/ ~Has(Tail(wire[e]), Offers) /\ ~Has(wire[Back(e)], Asks)
    /\ \A f \in Range(replies) : f.type = "RECEIPT" =>
          Head(wire[e]).type = "TRANSFER" /\ f.ids \subseteq Head(wire[e]).ids

LEMMA ExchangeKeepsRounds ==
    ASSUME FederationTypeOK, RoundInv, NEW e \in Ends, wire[e] # <<>>,
           NEW replies \in Seq(Frames), NEW adapter \in Adapters, NEW signals \in SUBSET Items,
           Exchange(e, replies, adapter, signals), Fitting(e, replies, adapter)
    PROVE  RoundInv'
  <1>1. PICK peers : Exchanged(e, replies, adapter, signals, peers)
    BY ZenonT(30), ExchangeFacts
  <1>2. wire \in [Ends -> Seq(Frames)]
    BY TypeParts
  <1>3. /\ ForwardedSummaries(signals) \in Seq(Frames)
        /\ \A f \in Range(ForwardedSummaries(signals)) : f.type = "SUMMARY"
    BY ForwardedFacts
  <1>4. Back(e) \in Ends /\ Back(Back(e)) = e /\ Back(e) # e
    BY EndsFacts
  <1>5. end'[Back(e)].forwarded \/ Round(wire'[Back(e)], wire'[e], end'[Back(e)].adapter)
    <2>1. CASE end[Back(e)].forwarded
      BY ZenonT(30), <1>1, <2>1 DEF Exchanged
    <2>2. CASE Round(wire[Back(e)], wire[e], end[Back(e)].adapter)
      <3>1. Round(wire[Back(e)] \o replies, Tail(wire[e]), adapter)
        BY ZenonT(30), <1>2, <1>4, <2>2, RoundServes DEF Fitting
      <3> QED BY ZenonT(30), <1>1, <3>1 DEF Exchanged
    <2> QED BY ZenonT(30), <1>4, <2>1, <2>2 DEF RoundInv
  <1>6. end'[e].forwarded \/ Round(wire'[e], wire'[Back(e)], end'[e].adapter)
    <2>1. CASE end[e].forwarded
      BY ZenonT(30), <1>1, <2>1 DEF Exchanged
    <2>2. CASE Round(wire[e], wire[Back(e)], end[e].adapter)
      <3>1. Round(Tail(wire[e]), wire[Back(e)] \o replies, end[e].adapter)
        BY ZenonT(30), <1>2, <1>4, <2>2, RoundAsks DEF Fitting
      <3> QED BY ZenonT(30), <1>1, <3>1 DEF Exchanged
    <2> QED BY ZenonT(30), <2>1, <2>2 DEF RoundInv
  <1>7. ASSUME NEW x \in Ends \ {e, Back(e)}
        PROVE  end'[x].forwarded \/ Round(wire'[x], wire'[Back(x)], end'[x].adapter)
    <2>1. CASE x \in peers
      BY ZenonT(30), <1>1, <2>1 DEF Exchanged
    <2>2. CASE x \notin peers
      <3>1. wire'[x] = wire[x] /\ end'[x] = end[x]
        BY ZenonT(30), <1>1, <2>2 DEF Exchanged
      <3>2. Back(x) \in Ends \ {e, Back(e)}
        BY ZenonT(30), <1>4, EndsFacts
      <3>3. CASE Back(x) \in peers
        <4>1. wire'[Back(x)] = wire[Back(x)] \o ForwardedSummaries(signals)
          BY ZenonT(30), <1>1, <3>3 DEF Exchanged
        <4>2. end[x].forwarded \/ Round(wire[x], wire[Back(x)], end[x].adapter)
          BY ZenonT(30) DEF RoundInv
        <4>3. Round(wire[x], wire[Back(x)], end[x].adapter) =>
                Round(wire[x], wire[Back(x)] \o ForwardedSummaries(signals), end[x].adapter)
          BY <1>2, <1>3, <3>2, RoundForwards
        <4> QED BY ZenonT(30), <3>1, <4>1, <4>2, <4>3
      <3>4. CASE Back(x) \notin peers
        <4>1. wire'[Back(x)] = wire[Back(x)]
          BY ZenonT(30), <1>1, <3>2, <3>4 DEF Exchanged
        <4> QED BY ZenonT(30), <3>1, <4>1 DEF RoundInv
      <3> QED BY ZenonT(30), <3>3, <3>4
    <2> QED BY ZenonT(30), <2>1, <2>2
  <1>8. ASSUME NEW x \in Ends
        PROVE  Greeting(x)'
    <2> SUFFICES ASSUME end'[x].phase = "accepting"
                 PROVE  /\ end'[Back(x)].phase = "dialing"
                        /\ wire'[x] = <<>> /\ wire'[Back(x)] = <<Frame("HELLO", {})>>
      BY ZenonT(30) DEF Greeting
    <2>1. x # Back(e) /\ x \notin peers
      BY ZenonT(30), <1>1 DEF Exchanged
    <2>2. end'[x] = end[x]
      BY ZenonT(30), <1>1, <2>1 DEF Exchanged
    <2>3. /\ end[Back(x)].phase = "dialing"
          /\ wire[x] = <<>> /\ wire[Back(x)] = <<Frame("HELLO", {})>>
      BY ZenonT(30), <2>2 DEF RoundInv, Greeting
    <2>4. x # e /\ Back(x) \in Ends \ {e, Back(e)}
      BY ZenonT(30), <1>4, <2>1, <2>3, EndsFacts
    <2>5. Back(x) \notin peers
      BY ZenonT(30), <1>1, <2>3 DEF Exchanged
    <2> QED BY ZenonT(30), <1>1, <2>1, <2>3, <2>4, <2>5 DEF Exchanged
  <1>9. ASSUME NEW x \in Ends
        PROVE  end'[x].forwarded \/ Round(wire'[x], wire'[Back(x)], end'[x].adapter)
    BY ZenonT(30), <1>4, <1>5, <1>6, <1>7
  <1> QED BY ZenonT(30), <1>8, <1>9 DEF RoundInv

LEMMA RepliesOnce ==
    ASSUME NEW r, NEW phase, NEW frame \in Frames
    PROVE  /\ Once(Replies(r, phase, frame), Offers)
           /\ Once(Replies(r, phase, frame), Asks)
  <1>1. frame.type \in FrameTypes
    BY DEF Frames
  <1>2. /\ Summary(r).type \notin Asks
        /\ Frame("HELLO", {}).type \notin Offers
    BY ZenonT(30), SummaryFacts, FrameFacts DEF Asks, Offers, FrameTypes
  <1>3. \/ Replies(r, phase, frame) = <<>>
        \/ \E f : Replies(r, phase, frame) = <<f>>
        \/ Replies(r, phase, frame) = <<Frame("HELLO", {}), Summary(r)>>
    BY ZenonT(30), <1>1, RepliesByType DEF FrameTypes
  <1> QED BY ZenonT(30), <1>2, <1>3, TupleOnce

LEMMA AdapterByType ==
    ASSUME NEW r, NEW adapter, NEW frame
    PROVE  /\ frame.type = "REQUEST" =>
                 Expects(AdapterAfter(r, adapter, frame), TransferObjects(r, frame.ids))
           /\ AdapterAfter(r, adapter, frame) # adapter => frame.type \in {"REQUEST", "RECEIPT"}
  <1>1. frame.type = "REQUEST" =>
           Expects(AdapterAfter(r, adapter, frame), TransferObjects(r, frame.ids))
    BY DEF AdapterAfter, SetExpectedReceipt, Expects
  <1>2. frame.type \notin {"REQUEST", "RECEIPT"} => AdapterAfter(r, adapter, frame) = adapter
    BY DEF AdapterAfter, AfterInbound
  <1> QED BY <1>1, <1>2

LEMMA AnsweredKeepsRounds ==
    ASSUME FederationTypeOK, RoundInv, NEW e \in Ends, wire[e] # <<>>,
           Answered(e, Head(wire[e]))
    PROVE  RoundInv'
  <1>1. PICK head \in Frames : head = Head(wire[e])
    BY HeadFacts
  <1>2. /\ end[Back(e)] \in EndRecords /\ Back(e) \in Ends /\ Back(Back(e)) = e
        /\ signalled \in [Relays -> SUBSET Items] /\ wire[e] \in Seq(Frames)
    BY ZenonT(30), EndsFacts, TypeParts
  <1> DEFINE phase == end[Back(e)].phase
             before == end[Back(e)].adapter
  <1>3. PICK frame \in Frames : /\ frame = Event(head) /\ frame.type = head.type
                                /\ frame.ids \subseteq head.ids
    BY EventFacts
  <1>4. PICK replies \in Seq(Frames) : replies = Replies(e[2], phase, frame)
    BY ZenonT(30), <1>1, <1>3, RepliesFacts DEF Answered
  <1>5. PICK adapter \in Adapters : adapter = AdapterAfter(e[2], before, frame)
    BY ZenonT(30), <1>2, AdapterFacts DEF EndRecords
  <1>6. PICK signals \in SUBSET Items : signals = Stored(head) \ signalled[e[2]]
    BY ZenonT(30), EventFacts DEF Stored, Frames
  <1>7. Exchange(e, replies, adapter, signals)
    BY ZenonT(30), <1>1, <1>3, <1>4, <1>5, <1>6 DEF Answered
  <1>8. Once(replies, Offers) /\ Once(replies, Asks)
    BY ZenonT(30), <1>4, RepliesOnce
  <1>9. ASSUME NEW f \in Range(replies)
        PROVE  \/ f.type = "HELLO" /\ head.type = "HELLO" /\ phase = "accepting"
               \/ f.type = "SUMMARY" /\ head.type = "HELLO"
               \/ f.type = "REQUEST" /\ head.type = "SUMMARY"
               \/ /\ f.type = "TRANSFER" /\ head.type = "REQUEST"
                  /\ f.ids = TransferObjects(e[2], frame.ids)
               \/ f.type = "RECEIPT" /\ head.type = "TRANSFER" /\ f.ids = frame.ids \ expired
    BY <1>3, <1>4, <1>9, ReplyTypes
  <1> HIDE DEF phase, before
  <1>10. Has(replies, Offers) => head.type \in Asks
    BY ZenonT(30), <1>9 DEF Has, Offers, Asks
  <1>11. adapter # before => head.type \in Asks
    BY ZenonT(30), <1>3, <1>5, AdapterByType DEF Asks
  <1>12. \A f \in Range(replies) : f.type = "TRANSFER" => Expects(adapter, f.ids)
    BY <1>3, <1>5, <1>9, AdapterByType
  <1>13. \A f \in Range(replies) : f.type = "RECEIPT" =>
            head.type = "TRANSFER" /\ f.ids \subseteq head.ids
    BY ZenonT(30), <1>3, <1>9
  <1>14. Has(replies, Asks) => \/ head.type \in Offers
                               \/ ~Has(Tail(wire[e]), Offers) /\ ~Has(wire[Back(e)], Asks)
    <2>1. CASE phase = "accepting"
      <3>1. wire[Back(e)] = <<>> /\ wire[e] = <<Frame("HELLO", {})>>
        BY ZenonT(30), <1>2, <2>1 DEF RoundInv, Greeting, phase
      <3>2. Tail(wire[e]) = <<>>
        BY <3>1
      <3> QED BY <3>1, <3>2, TupleFacts DEF Has
    <2>2. CASE phase # "accepting"
      BY ZenonT(30), <1>9, <2>2 DEF Has, Asks, Offers
    <2> QED BY ZenonT(30), <2>1, <2>2
  <1>15. Fitting(e, replies, adapter)
    BY ZenonT(30), <1>1, <1>8, <1>10, <1>11, <1>12, <1>13, <1>14 DEF Fitting, before
  <1> QED BY ZenonT(30), <1>7, <1>15, ExchangeKeepsRounds

LEMMA FailureKeepsRounds ==
    ASSUME FederationTypeOK, RoundInv, NEW e \in Ends, NEW i \in Items, ReceiveFails(e, i)
    PROVE  RoundInv'
  <1>1. wire[e] # <<>> /\ Head(wire[e]).type = "TRANSFER"
    BY ZenonT(30), ReceiveFailsFacts
  <1>2. PICK head \in Frames : head = Head(wire[e])
    BY <1>1, HeadFacts
  <1>3. PICK stored \in SUBSET Event(head).ids, marked \in SUBSET {i} :
          Exchange(e, <<Frame("RECEIPT", stored)>>, end[Back(e)].adapter,
                   (stored \cup marked) \ signalled[e[2]])
    BY ZenonT(30), <1>2, ReceiveFailsFacts
  <1>4. /\ end[Back(e)].adapter \in Adapters
        /\ stored \in SUBSET Items /\ stored \subseteq head.ids
    BY ZenonT(30), EndsFacts, EventFacts, TypeParts DEF EndRecords, Frames
  <1>5. PICK receipt \in Frames : /\ receipt = Frame("RECEIPT", stored)
                                  /\ receipt.type = "RECEIPT" /\ receipt.ids = stored
    BY ZenonT(30), <1>4, FrameFacts DEF FrameTypes
  <1>6. <<receipt>> \in Seq(Frames) /\ Range(<<receipt>>) = {receipt}
    BY ZenonT(30), TupleFacts
  <1>7. ~Has(<<receipt>>, Offers)
    BY <1>5, <1>6 DEF Has, Offers
  <1>8. Once(<<receipt>>, Offers) /\ Once(<<receipt>>, Asks)
    BY ZenonT(30), TupleOnce
  <1>9. Head(wire[e]).type \in Offers
    BY <1>1 DEF Offers
  <1>10. \A f \in Range(<<receipt>>) : f.type = "RECEIPT" /\ f.ids \subseteq Head(wire[e]).ids
    BY ZenonT(30), <1>2, <1>4, <1>5, <1>6
  <1>11. \A f \in Range(<<receipt>>) : f.type # "TRANSFER"
    BY <1>10
  <1>12. Fitting(e, <<receipt>>, end[Back(e)].adapter)
    BY ZenonT(30), <1>1, <1>7, <1>8, <1>9, <1>10, <1>11 DEF Fitting
  <1>13. (stored \cup marked) \ signalled[e[2]] \in SUBSET Items
    BY ZenonT(30), <1>4
  <1>14. Exchange(e, <<receipt>>, end[Back(e)].adapter, (stored \cup marked) \ signalled[e[2]])
    BY ZenonT(30), <1>3, <1>5
  <1> QED BY ZenonT(30), <1>1, <1>4, <1>6, <1>12, <1>13, <1>14, ExchangeKeepsRounds

\* A connection with nothing under way, or with the HELLO of the relay that dialed.
LEMMA FreshRounds ==
    ASSUME NEW adapter
    PROVE  /\ Round(<<>>, <<>>, adapter)
           /\ Round(<<Frame("HELLO", {})>>, <<>>, adapter)
           /\ Round(<<>>, <<Frame("HELLO", {})>>, adapter)
  <1>1. PICK hello \in Frames : hello = Frame("HELLO", {}) /\ hello.type = "HELLO"
    BY FrameFacts DEF FrameTypes
  <1>2. Range(<<hello>>) = {hello} /\ Range(<<>>) = {}
    BY TupleFacts
  <1>3. /\ \A types : ~Has(<<>>, types)
        /\ ~Has(<<hello>>, Offers)
        /\ \A f \in Range(<<hello>>) : f.type \notin {"TRANSFER", "RECEIPT"}
    BY <1>1, <1>2 DEF Has, Offers
  <1>4. /\ Once(<<>>, Offers) /\ Once(<<>>, Asks)
        /\ Once(<<hello>>, Offers) /\ Once(<<hello>>, Asks)
    BY TupleOnce
  <1> QED BY ZenonT(30), <1>1, <1>2, <1>3, <1>4 DEF Round

LEMMA CloseKeepsRounds ==
    ASSUME FederationTypeOK, RoundInv, NEW e \in Ends, Close(e)
    PROVE  RoundInv'
  <1>1. /\ \A x \in {e, Back(e)} : end'[x] = ClosedEnd /\ wire'[x] = <<>>
        /\ \A x \in Ends \ {e, Back(e)} : end'[x] = end[x] /\ wire'[x] = wire[x]
    BY ZenonT(30), CloseFacts
  <1>2. Back(e) \in Ends /\ Back(Back(e)) = e
    BY EndsFacts
  <1>3. ASSUME NEW x \in {e, Back(e)}
        PROVE  Round(wire'[x], wire'[Back(x)], end'[x].adapter) /\ Greeting(x)'
    <2>1. wire'[x] = <<>> /\ wire'[Back(x)] = <<>> /\ end'[x].phase # "accepting"
      BY <1>1, <1>2, <1>3, ClosedEndFacts
    <2> QED BY <2>1, FreshRounds DEF Greeting
  <1>4. ASSUME NEW x \in Ends \ {e, Back(e)}
        PROVE  /\ end'[x].forwarded \/ Round(wire'[x], wire'[Back(x)], end'[x].adapter)
               /\ Greeting(x)'
    <2>1. Back(x) \in Ends \ {e, Back(e)}
      BY <1>2, EndsFacts
    <2>2. /\ end'[x] = end[x] /\ wire'[x] = wire[x]
          /\ end'[Back(x)] = end[Back(x)] /\ wire'[Back(x)] = wire[Back(x)]
      BY <1>1, <2>1
    <2> QED BY ZenonT(30), <2>2 DEF RoundInv, Greeting
  <1> QED BY ZenonT(30), <1>3, <1>4 DEF RoundInv

LEMMA DialKeepsRounds ==
    ASSUME FederationTypeOK, RoundInv, NEW e \in Dialed, Dial(e)
    PROVE  RoundInv'
  <1>1. /\ e \in Ends
        /\ end'[e].phase = "dialing" /\ end'[Back(e)].phase = "accepting"
        /\ wire'[e] = <<Frame("HELLO", {})>> /\ wire'[Back(e)] = <<>>
        /\ \A x \in Ends \ {e, Back(e)} : end'[x] = end[x] /\ wire'[x] = wire[x]
    BY ZenonT(30), DialFacts
  <1>2. Back(e) \in Ends /\ Back(Back(e)) = e /\ Back(e) # e
    BY ZenonT(30), <1>1, EndsFacts
  <1>3. /\ Round(wire'[e], wire'[Back(e)], end'[e].adapter)
        /\ Round(wire'[Back(e)], wire'[e], end'[Back(e)].adapter)
    BY ZenonT(30), <1>1, FreshRounds
  <1>4. Greeting(e)' /\ Greeting(Back(e))'
    BY ZenonT(30), <1>1, <1>2 DEF Greeting
  <1>5. ASSUME NEW x \in Ends \ {e, Back(e)}
        PROVE  /\ end'[x].forwarded \/ Round(wire'[x], wire'[Back(x)], end'[x].adapter)
               /\ Greeting(x)'
    <2>1. Back(x) \in Ends \ {e, Back(e)}
      BY <1>2, EndsFacts
    <2>2. /\ end'[x] = end[x] /\ wire'[x] = wire[x]
          /\ end'[Back(x)] = end[Back(x)] /\ wire'[Back(x)] = wire[Back(x)]
      BY ZenonT(30), <1>1, <2>1
    <2> QED BY ZenonT(30), <2>2 DEF RoundInv, Greeting
  <1> QED BY ZenonT(30), <1>2, <1>3, <1>4, <1>5 DEF RoundInv

LEMMA RoundNext == FederationTypeOK /\ RoundInv /\ [FederationNext]_fxVars => RoundInv'
  <1> SUFFICES ASSUME FederationTypeOK, RoundInv, [FederationNext]_fxVars PROVE RoundInv'
    OBVIOUS
  <1>1. ASSUME NEW e \in Dialed, Dial(e)
        PROVE  RoundInv'
    BY <1>1, DialKeepsRounds
  <1>2. ASSUME NEW e \in Dialed, Break(e)
        PROVE  RoundInv'
    <2>1. e \in Ends /\ Close(e)
      BY <1>2 DEF Break, Ends
    <2> QED BY <2>1, CloseKeepsRounds
  <1>3. ASSUME NEW e \in Ends, Receive(e)
        PROVE  RoundInv'
    BY <1>3, ReceiveFacts, CloseKeepsRounds, AnsweredKeepsRounds
  <1>4. ASSUME NEW e \in Ends, NEW i \in Items, ReceiveFails(e, i)
        PROVE  RoundInv'
    BY <1>4, FailureKeepsRounds
  <1>5. ASSUME UNCHANGED <<end, wire>>
        PROVE  RoundInv'
    BY ZenonT(30), <1>5 DEF RoundInv, Greeting
  <1>6. ASSUME NEW i \in Items, Expire(i)
        PROVE  RoundInv'
    BY <1>5, <1>6 DEF Expire
  <1>7. ASSUME NEW r \in Relays, NEW i \in Items, ClientTransfer(r, i)
        PROVE  RoundInv'
    BY <1>5, <1>7 DEF ClientTransfer
  <1>8. CASE UNCHANGED fxVars
    BY <1>5, <1>8 DEF fxVars
  <1> QED BY ZenonT(30), <1>1, <1>2, <1>3, <1>4, <1>6, <1>7, <1>8 DEF FederationNext

LEMMA RoundInitially == FederationInit => RoundInv
  <1> SUFFICES ASSUME FederationInit, NEW x \in Ends
               PROVE  Round(wire[x], wire[Back(x)], end[x].adapter) /\ Greeting(x)
    BY DEF RoundInv
  <1>1. wire[x] = <<>> /\ wire[Back(x)] = <<>> /\ end[x] = ClosedEnd
    BY EndsFacts DEF FederationInit
  <1> QED BY ZenonT(30), <1>1, FreshRounds, ClosedEndFacts DEF Greeting

(***************************************************************************)
(* PushInbound never makes a frame of another relay fatal on a connection  *)
(* on which no ingest signal was forwarded: pages, wants and transfers     *)
(* stay within the limits the codec enforces on the other side, and the    *)
(* RECEIPT that comes back is expected, with both relays serving at once,  *)
(* objects expiring and store calls failing.                               *)
(***************************************************************************)
THEOREM RelaysAgreeOnFrames == FederationSpec => []RefusedOnlyAfterForward
  <1>1. SoundInv /\ RoundInv => RefusedOnlyAfterForward
    <2> SUFFICES ASSUME SoundInv, RoundInv, NEW e \in Ends, wire[e] # <<>>,
                        ~end[Back(e)].forwarded
                 PROVE  ~Refuses(e)
      BY DEF RefusedOnlyAfterForward
    <2>1. FederationTypeOK
      BY DEF SoundInv
    <2>2. /\ Head(wire[e]) \in Range(wire[e]) /\ Head(wire[e]) = wire[e][1]
      BY <2>1, HeadFacts
    <2>3. Parses(Head(wire[e]))
      BY <2>2 DEF SoundInv, Sound
    <2>4. Round(wire[Back(e)], wire[e], end[Back(e)].adapter)
      BY ZenonT(30), EndsFacts DEF RoundInv
    <2>5. wire[e][1].type = "RECEIPT" => Expects(end[Back(e)].adapter, wire[e][1].ids)
      BY ZenonT(30), <2>2, <2>4 DEF Round
    <2>6. ~RefusedReceipt(end[Back(e)].adapter, wire[e], 1)
      BY <2>5 DEF RefusedReceipt, Expects
    <2> QED BY <2>3, <2>6 DEF Refuses
  <1>2. SoundInv => FederationTypeOK
    BY DEF SoundInv
  <1> QED BY <1>1, <1>2, SoundAlways, RoundInitially, RoundNext, PTL DEF FederationSpec
=============================================================================
