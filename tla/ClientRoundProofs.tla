-------------------------- MODULE ClientRoundProofs --------------------------
(***************************************************************************)
(* A device that follows the protocol is not dropped for breaking it.      *)
(***************************************************************************)
EXTENDS ClientSessionProofs

(***************************************************************************)
(* The budgets never make a session protocol_fatal.                        *)
(***************************************************************************)
Sound(d) == d.reason # "protocol_fatal"

LEMMA ChecksAreSound ==
    ASSUME NEW d \in DrainStates, Sound(d)
    PROVE  /\ Sound(CheckBudgets(d)) /\ Sound(CanStartAnotherRound(d))
           /\ \A p : Sound(CompleteRound(d, p))
  <1> DEFINE e == CheckBudgets(d)
  <1>1. e \in DrainStates
    BY CheckBudgetsFacts
  <1>2. Sound(e)
    BY DEF Sound, CheckBudgets, DrainStates, None
  <1>3. \E r \in {e.reason, "repeated_no_progress", "fairness_yield", None} :
           CanStartAnotherRound(d) = [e EXCEPT !.reason = r]
    BY ZenonT(30) DEF CanStartAnotherRound
  <1> HIDE DEF e
  <1>4. Sound(CanStartAnotherRound(d))
    BY <1>1, <1>2, <1>3 DEF Sound, DrainStates, None
  <1>5. \A p : Sound(CompleteRound(d, p))
    BY DEF Sound, CompleteRound, DrainStates
  <1> QED BY <1>2, <1>4, <1>5 DEF e

LEMMA BytesAreSound ==
    ASSUME NEW d \in DrainStates, Sound(d), NEW n \in Nat
    PROVE  Sound(RecordBytes(d, n)) /\ Sound(CanSendBytes(d, n))
  <1> DEFINE counted == [d EXCEPT !.bytes = @ + n]
             e == CheckBudgets(d)
  <1>1. counted \in DrainStates /\ Sound(counted)
    BY DEF DrainStates, Sound
  <1>2. RecordBytes(d, n) = CheckBudgets(counted)
    BY DEF RecordBytes
  <1> HIDE DEF counted
  <1>3. Sound(RecordBytes(d, n))
    BY <1>1, <1>2, ChecksAreSound
  <1>4. e \in DrainStates /\ Sound(e)
    BY CheckBudgetsFacts, ChecksAreSound
  <1>5. CanSendBytes(d, n) \in {e, [e EXCEPT !.reason = "byte_budget"]}
    BY ZenonT(30) DEF CanSendBytes
  <1> HIDE DEF e
  <1>6. Sound(CanSendBytes(d, n))
    BY <1>4, <1>5 DEF Sound, DrainStates
  <1> QED BY <1>3, <1>6

-----------------------------------------------------------------------------
(***************************************************************************)
(* The handlers.  What a handler makes of an open session x: it goes on    *)
(* with r sent and the adapter a, or has stopped, not as protocol_fatal    *)
(* unless what was asked for is too large to send.                         *)
(***************************************************************************)
Kept(x) == x.oversize \/ Sound(x.drain)

Replies(x, y, r, a) ==
    /\ y.pushed = x.pushed /\ Kept(y)
    /\ y.drain.reason = None =>
          /\ y.send = x.send \o r /\ y.adapter = a
          /\ y.events = x.events /\ y.phase = "open"

\* x and y differ at most in their counts and in the cursor.
Counts(x, y) ==
    /\ y \in Sessions /\ Sound(y.drain)
    /\ y.send = x.send /\ y.events = x.events /\ y.phase = x.phase
    /\ y.adapter = x.adapter /\ y.pushed = x.pushed

LEMMA CountsReplies ==
    ASSUME NEW x \in Sessions, NEW y, Counts(x, y), x.phase = "open"
    PROVE  Replies(x, y, <<>>, x.adapter)
  <1>1. x.send \o <<>> = x.send
    BY SessionParts, ConcatEmptySeq
  <1> QED BY ZenonT(30), <1>1 DEF Counts, Replies, Kept

LEMMA CountsThenReplies ==
    ASSUME NEW x, NEW y, Counts(x, y), NEW z, NEW r, NEW a, Replies(y, z, r, a)
    PROVE  Replies(x, z, r, a)
  BY ZenonT(30) DEF Counts, Replies

LEMMA DrainCounts ==
    ASSUME NEW x \in Sessions, NEW d \in DrainStates, Sound(d),
           NEW y, y = [x EXCEPT !.drain = d]
    PROVE  Counts(x, y) /\ y.drain = d
  BY ZenonT(30) DEF Sessions, Counts

LEMMA RoundCounts ==
    ASSUME NEW x \in Sessions, Sound(x.drain)
    PROVE  /\ Counts(x, [x EXCEPT !.drain = CanStartAnotherRound(@)])
           /\ \A p \in BOOLEAN : Counts(x, [x EXCEPT !.drain = CompleteRound(@, p)])
           /\ Counts(x, NoProgress(x))
  <1>1. x.drain \in DrainStates
    BY SessionParts
  <1>2. Counts(x, [x EXCEPT !.drain = CanStartAnotherRound(@)])
    <2> DEFINE d == CanStartAnotherRound(x.drain)
    <2>1. d \in DrainStates /\ Sound(d)
      BY <1>1, CanStartAnotherRoundFacts, ChecksAreSound
    <2> HIDE DEF d
    <2>2. Counts(x, [x EXCEPT !.drain = d])
      BY <2>1, DrainCounts
    <2> QED BY <2>2 DEF d
  <1>3. ASSUME NEW p \in BOOLEAN
        PROVE  Counts(x, [x EXCEPT !.drain = CompleteRound(@, p)])
    <2> DEFINE d == CompleteRound(x.drain, p)
    <2>1. d \in DrainStates /\ Sound(d)
      BY <1>1, CompleteRoundFacts, ChecksAreSound
    <2> HIDE DEF d
    <2>2. Counts(x, [x EXCEPT !.drain = d])
      BY <2>1, DrainCounts
    <2> QED BY <2>2 DEF d
  <1>4. Counts(x, NoProgress(x))
    BY ZenonT(30), <1>3 DEF NoProgress
  <1> QED BY <1>2, <1>3, <1>4

LEMMA SendReplies ==
    ASSUME NEW x \in Sessions, Sound(x.drain), x.phase = "open",
           NEW frame \in Outbound, Encodes(frame)
    PROVE  Replies(x, SendEnvelope(x, frame), <<frame>>, x.adapter)
  <1> DEFINE size == FrameBytes[frame.type]
             allowed == CanSendBytes(x.drain, size)
             recorded == RecordBytes(allowed, size)
             slow == Stop(allowed, "transport_backpressure")
  <1>1. x.drain \in DrainStates /\ x.send \in Seq(Outbound)
    BY SessionParts
  <1>2. size \in Nat
    BY LimitAssumption DEF Outbound, Frames
  <1>3. SendEnvelope(x, frame) =
          IF allowed.reason # None THEN [x EXCEPT !.drain = allowed]
          ELSE IF Len(x.send) >= SendCapacity THEN [x EXCEPT !.drain = slow]
          ELSE [x EXCEPT !.send = Append(x.send, frame), !.drain = recorded]
    BY DEF SendEnvelope
  <1> HIDE DEF size
  <1>4. allowed \in DrainStates /\ Sound(allowed)
    BY <1>1, <1>2, CanSendBytesFacts, BytesAreSound
  <1> HIDE DEF allowed
  <1>5. CASE allowed.reason # None
    <2>1. Counts(x, [x EXCEPT !.drain = allowed]) /\ [x EXCEPT !.drain = allowed].drain = allowed
      BY <1>4, DrainCounts
    <2> QED BY <1>3, <1>5, <2>1 DEF Replies, Counts, Kept
  <1>6. CASE allowed.reason = None /\ Len(x.send) >= SendCapacity
    <2>1. slow \in DrainStates /\ slow.reason = "transport_backpressure"
      BY <1>4, <1>6 DEF Stop, DrainStates, StopReasons
    <2> HIDE DEF slow
    <2>2. Sound(slow) /\ slow.reason # None
      BY <2>1 DEF Sound, None
    <2>3. Counts(x, [x EXCEPT !.drain = slow]) /\ [x EXCEPT !.drain = slow].drain = slow
      BY <2>1, <2>2, DrainCounts
    <2> QED BY <1>3, <1>6, <2>2, <2>3 DEF Replies, Counts, Kept
  <1>7. CASE allowed.reason = None /\ ~(Len(x.send) >= SendCapacity)
    <2> DEFINE sent == Append(x.send, frame)
               y == [x EXCEPT !.send = sent, !.drain = recorded]
    <2>1. sent = x.send \o <<frame>>
      BY <1>1, AppendIsConcat
    <2>2. recorded \in DrainStates /\ Sound(recorded)
      BY <1>2, <1>4, RecordBytesFacts, BytesAreSound
    <2>3. SendEnvelope(x, frame) = y
      BY <1>3, <1>7
    <2> HIDE DEF sent, recorded
    <2>4. /\ y.send = sent /\ y.drain = recorded /\ y.adapter = x.adapter
          /\ y.events = x.events /\ y.phase = x.phase /\ y.pushed = x.pushed
      BY ZenonT(30) DEF Sessions
    <2> HIDE DEF y
    <2> QED BY <2>1, <2>2, <2>3, <2>4 DEF Replies, Kept
  <1> QED BY <1>5, <1>6, <1>7

\* A frame that is too large stops the session, which is marked.
LEMMA OversizeReplies ==
    ASSUME NEW x \in Sessions, x.drain.reason = None, NEW frame, ~Encodes(frame), NEW r, NEW a
    PROVE  Replies(x, SendEnvelope(x, frame), r, a)
  <1> DEFINE d == Stop(x.drain, "protocol_fatal")
             y == [x EXCEPT !.drain = d, !.oversize = TRUE]
  <1>1. SendEnvelope(x, frame) = y
    BY DEF SendEnvelope
  <1>2. x.drain \in DrainStates /\ "protocol_fatal" \in StopReasons \ {None}
    BY SessionParts DEF StopReasons, None
  <1>3. d.reason # None
    BY ZenonT(30), <1>2, StopFacts
  <1> HIDE DEF d
  <1>4. y.oversize = TRUE /\ y.drain = d /\ y.pushed = x.pushed
    BY ZenonT(30) DEF Sessions
  <1> HIDE DEF y
  <1> QED BY ZenonT(30), <1>1, <1>3, <1>4 DEF Replies, Kept

LEMMA SendDrainSummaryReplies ==
    ASSUME NEW x \in Sessions, Sound(x.drain), x.phase = "open", listed \subseteq Items,
           NEW ackedNow
    PROVE  \E ids : /\ Frame("SUMMARY", ids) \in Outbound
                    /\ Replies(x, SendDrainSummary(x, ackedNow), <<Frame("SUMMARY", ids)>>,
                               x.adapter)
  <1> DEFINE ready    == [x EXCEPT !.drain = CanStartAnotherRound(@)]
             eligible == listed \ ackedNow
             preview  == Preview(eligible, x.cursor)
             d        == IF eligible = {} THEN CompleteRound(ready.drain, FALSE) ELSE ready.drain
             k        == LastOf(preview)
             turned   == [ready EXCEPT !.cursor = k, !.drain = d]
             f        == Frame("SUMMARY", preview)
  <1>1. SendDrainSummary(x, ackedNow) =
          IF ready.drain.reason # None THEN ready ELSE SendEnvelope(turned, f)
    BY DEF SendDrainSummary
  <1>2. Counts(x, ready)
    BY RoundCounts
  <1>3. preview \in SUBSET Items /\ f \in Outbound
    BY PreviewFacts
  <1>4. Encodes(f)
    BY DEF Encodes, Frame
  <1> HIDE DEF preview
  <1>5. k \in Cursors
    BY <1>3 DEF Cursors
  <1> HIDE DEF ready, f
  <1>6. ready \in Sessions /\ ready.drain \in DrainStates /\ Sound(ready.drain)
    BY <1>2, SessionParts DEF Counts
  <1>7. d \in DrainStates /\ Sound(d)
    BY ZenonT(30), <1>6, CompleteRoundFacts, ChecksAreSound
  <1> HIDE DEF k, d
  <1>8. /\ turned \in Sessions /\ turned.drain = d /\ turned.send = ready.send
        /\ turned.events = ready.events /\ turned.phase = ready.phase
        /\ turned.adapter = ready.adapter /\ turned.pushed = ready.pushed
    BY ZenonT(30), <1>5, <1>6, <1>7 DEF Sessions
  <1> HIDE DEF turned
  <1>9. Counts(x, turned) /\ turned.phase = "open" /\ turned.adapter = x.adapter
    BY ZenonT(30), <1>2, <1>7, <1>8 DEF Counts
  <1>10. Replies(turned, SendEnvelope(turned, f), <<f>>, x.adapter)
    <2>1. Replies(turned, SendEnvelope(turned, f), <<f>>, turned.adapter)
      BY <1>3, <1>4, <1>7, <1>8, <1>9, SendReplies
    <2> QED BY ZenonT(30), <1>9, <2>1
  <1>11. Replies(x, SendEnvelope(turned, f), <<f>>, x.adapter)
    BY ZenonT(30), <1>9, <1>10, CountsThenReplies
  <1>12. ready.drain.reason # None => Replies(x, ready, <<f>>, x.adapter)
    BY ZenonT(30), <1>2 DEF Counts, Replies, Kept
  <1>13. Replies(x, SendDrainSummary(x, ackedNow), <<f>>, x.adapter)
    BY ZenonT(30), <1>1, <1>11, <1>12
  <1> QED BY <1>3, <1>13 DEF f

\* What the relay sends in answer to an event, and the adapter it then has, as a round
\* wants it.
Serves(event, adapter, r, a) ==
    /\ r \in Seq(Outbound) /\ a \in Adapters /\ Once(r, Offers)
    /\ Has(r, Offers) \/ a # adapter => event.type \in Asks
    /\ \A f \in Range(r) : f.type = "TRANSFER" => Expects(a, f.ids)

LEMMA NothingServes ==
    ASSUME NEW event, NEW adapter \in Adapters
    PROVE  Serves(event, adapter, <<>>, adapter)
  <1>1. <<>> \in Seq(Outbound) /\ Range(<<>>) = {}
    BY DEF Range
  <1>2. Once(<<>>, Offers)
    BY TupleOnce
  <1> QED BY ZenonT(30), <1>1, <1>2 DEF Serves, Has

LEMMA FrameServes ==
    ASSUME NEW event, NEW adapter, NEW f \in Outbound, NEW a \in Adapters,
           f.type \in Offers \/ a # adapter => event.type \in Asks,
           f.type = "TRANSFER" => Expects(a, f.ids)
    PROVE  Serves(event, adapter, <<f>>, a)
  <1>1. <<f>> \in Seq(Outbound) /\ Range(<<f>>) = {f}
    BY DEF Range
  <1>2. Once(<<f>>, Offers)
    BY ZenonT(30), TupleOnce
  <1> QED BY ZenonT(30), <1>1, <1>2 DEF Serves, Has

LEMMA SummaryServes ==
    ASSUME NEW event, event.type \in Asks, NEW adapter \in Adapters, NEW ids,
           Frame("SUMMARY", ids) \in Outbound
    PROVE  Serves(event, adapter, <<Frame("SUMMARY", ids)>>, adapter)
  <1>1. Frame("SUMMARY", ids).type = "SUMMARY"
    BY DEF Frame
  <1> QED BY <1>1, FrameServes

LEMMA HandleHelloReplies ==
    ASSUME NEW x \in Sessions, Sound(x.drain), x.phase = "greeting", listed \subseteq Items,
           NEW event, event.type = "HELLO"
    PROVE  \E r, a : Serves(event, x.adapter, r, a) /\ Replies(x, HandleHello(x), r, a)
  <1> DEFINE y == [x EXCEPT !.phase = "open"]
  <1>1. HandleHello(x) = SendDrainSummary(y, acked)
    BY DEF HandleHello
  <1>2. /\ y \in Sessions /\ y.drain = x.drain /\ y.send = x.send /\ y.events = x.events
        /\ y.phase = "open" /\ y.adapter = x.adapter /\ y.pushed = x.pushed
        /\ x.adapter \in Adapters
    BY ZenonT(30) DEF Sessions, Phases
  <1> HIDE DEF y
  <1>3. PICK ids : /\ Frame("SUMMARY", ids) \in Outbound
                   /\ Replies(y, HandleHello(x), <<Frame("SUMMARY", ids)>>, x.adapter)
    BY <1>1, <1>2, SendDrainSummaryReplies
  <1>4. Replies(x, HandleHello(x), <<Frame("SUMMARY", ids)>>, x.adapter)
    BY ZenonT(30), <1>2, <1>3 DEF Replies
  <1>5. Serves(event, x.adapter, <<Frame("SUMMARY", ids)>>, x.adapter)
    BY <1>2, <1>3, SummaryServes DEF Asks
  <1> QED BY ZenonT(30), <1>4, <1>5

LEMMA HandleSummaryReplies ==
    ASSUME NEW x \in Sessions, Sound(x.drain), x.phase = "open",
           NEW event, NEW ids \in SUBSET Uploads
    PROVE  \E r, a : Serves(event, x.adapter, r, a) /\ Replies(x, HandleSummary(x, ids), r, a)
  <1> DEFINE want == MissingWant(ids)
             y == IF want = {} THEN NoProgress(x) ELSE x
             f == Frame("REQUEST", want)
  <1>1. HandleSummary(x, ids) = SendEnvelope(y, f)
    BY DEF HandleSummary
  <1>2. want \in SUBSET Uploads
    BY FirstOfFacts DEF MissingWant
  <1> HIDE DEF want
  <1>3. f \in Outbound /\ f.type = "REQUEST" /\ Encodes(f)
    BY <1>2, OutboundFacts DEF Frame, Encodes
  <1> HIDE DEF f
  <1>4. Counts(x, y)
    BY ZenonT(30), RoundCounts DEF Counts
  <1> HIDE DEF y
  <1>5. y \in Sessions /\ Sound(y.drain) /\ y.phase = "open" /\ y.adapter = x.adapter
    BY ZenonT(30), <1>4 DEF Counts
  <1>6. Replies(x, HandleSummary(x, ids), <<f>>, x.adapter)
    <2>1. Replies(y, SendEnvelope(y, f), <<f>>, x.adapter)
      BY <1>3, <1>5, SendReplies
    <2> QED BY ZenonT(30), <1>1, <1>4, <2>1, CountsThenReplies
  <1>7. Serves(event, x.adapter, <<f>>, x.adapter)
    BY <1>3, SessionParts, FrameServes DEF Offers
  <1> QED BY ZenonT(30), <1>6, <1>7

\* The objects of a TRANSFER are items within the limit on their number.
LEMMA TransferableFacts ==
    ASSUME NEW want, listed \subseteq Items
    PROVE  /\ Transferable(want) \in SUBSET Items
           /\ Cardinality(Transferable(want)) \in Nat
           /\ Cardinality(Transferable(want)) <= MaxTransferItems
  <1> DEFINE ids == (want \cap listed) \ Unservable
  <1>1. ids \in SUBSET Nat /\ IsFiniteSet(ids) /\ ids \subseteq Items
    BY ItemSets
  <1>2. Transferable(want) = FirstOf(ids, MaxTransferItems)
    BY DEF Transferable
  <1> HIDE DEF ids
  <1>3. MaxTransferItems \in Nat
    BY ProtocolAssumption
  <1>4. /\ Transferable(want) \subseteq ids
        /\ Cardinality(Transferable(want)) <= MaxTransferItems
    BY ZenonT(30), <1>1, <1>2, <1>3, PageWithinLimit
  <1>5. Transferable(want) \subseteq Items
    BY ZenonT(30), <1>1, <1>4
  <1> QED BY ZenonT(30), <1>4, <1>5, ItemSets

LEMMA HandleRequestReplies ==
    ASSUME NEW x \in Sessions, Sound(x.drain), x.phase = "open", listed \subseteq Items,
           NEW event, event.type = "REQUEST", NEW want
    PROVE  \E r, a : Serves(event, x.adapter, r, a) /\ Replies(x, HandleRequest(x, want), r, a)
  <1> DEFINE ready   == [x EXCEPT !.drain = CanStartAnotherRound(@)]
             objects == Transferable(want)
             a       == SetExpectedReceipt(objects)
             y       == [ready EXCEPT !.adapter = a]
             f       == Frame("TRANSFER", objects)
  <1>1. HandleRequest(x, want) =
          IF want = {} THEN NoProgress(x)
          ELSE IF ready.drain.reason # None THEN ready
          ELSE IF objects = {} THEN NoProgress(ready)
          ELSE SendEnvelope(y, f)
    BY DEF HandleRequest
  <1>2. Counts(x, ready) /\ Counts(x, NoProgress(x))
    BY RoundCounts
  <1>3. /\ objects \in SUBSET Items /\ Cardinality(objects) \in Nat
        /\ Cardinality(objects) <= MaxTransferItems
    BY TransferableFacts
  <1> HIDE DEF ready, objects
  <1>4. f \in Outbound /\ f.type = "TRANSFER" /\ f.ids = objects
    BY <1>3, OutboundFacts DEF Frame
  <1>6. a \in Adapters /\ Expects(a, f.ids)
    BY <1>3, <1>4 DEF SetExpectedReceipt, Adapters, Expects
  <1> HIDE DEF a, f
  <1>7. ready \in Sessions /\ Sound(ready.drain) /\ ready.phase = "open"
    BY ZenonT(30), <1>2 DEF Counts
  <1>8. Counts(x, NoProgress(ready))
    <2>1. Counts(ready, NoProgress(ready))
      BY ZenonT(30), <1>7, RoundCounts
    <2> QED BY ZenonT(30), <1>2, <2>1 DEF Counts
  <1>9. /\ y \in Sessions /\ y.drain = ready.drain /\ y.send = ready.send /\ y.adapter = a
        /\ y.events = ready.events /\ y.phase = ready.phase /\ y.pushed = ready.pushed
    BY ZenonT(30), <1>6, <1>7 DEF Sessions
  <1> HIDE DEF y
  <1>10. ASSUME ready.drain.reason = None
         PROVE  Replies(x, SendEnvelope(y, f), <<f>>, a) /\ Serves(event, x.adapter, <<f>>, a)
    <2>1. Replies(y, SendEnvelope(y, f), <<f>>, a)
      <3>1. CASE Encodes(f)
        BY <1>4, <1>7, <1>9, <3>1, SendReplies
      <3>2. CASE ~Encodes(f)
        BY ZenonT(30), <1>9, <1>10, <3>2, OversizeReplies
      <3> QED BY <3>1, <3>2
    <2>2. y.send = x.send /\ y.events = x.events /\ y.pushed = x.pushed
      BY ZenonT(30), <1>2, <1>9 DEF Counts
    <2>3. Replies(x, SendEnvelope(y, f), <<f>>, a)
      BY ZenonT(30), <2>1, <2>2 DEF Replies
    <2>4. Serves(event, x.adapter, <<f>>, a)
      BY <1>4, <1>6, FrameServes DEF Asks
    <2> QED BY <2>3, <2>4
  <1>11. Serves(event, x.adapter, <<>>, x.adapter)
    BY ZenonT(30), SessionParts, NothingServes
  <1>12. \A z : Counts(x, z) => Replies(x, z, <<>>, x.adapter)
    BY ZenonT(30), CountsReplies
  <1> QED BY ZenonT(30), <1>1, <1>2, <1>8, <1>10, <1>11, <1>12

LEMMA HandleTransferReplies ==
    ASSUME NEW x \in Sessions, Sound(x.drain), x.phase = "open",
           NEW event, NEW ids \in SUBSET (Items \cup Uploads)
    PROVE  \E r, a : Serves(event, x.adapter, r, a) /\ Replies(x, HandleTransfer(x, ids), r, a)
  <1> DEFINE y == [x EXCEPT !.drain = CompleteRound(@, ids # {})]
             f == Frame("RECEIPT", ids)
  <1>1. HandleTransfer(x, ids) = SendEnvelope(y, f)
    BY DEF HandleTransfer
  <1>2. Counts(x, y)
    BY ZenonT(30), RoundCounts
  <1> HIDE DEF y
  <1>3. f \in Outbound /\ f.type = "RECEIPT" /\ Encodes(f)
    BY OutboundFacts DEF Frame, Encodes
  <1> HIDE DEF f
  <1>4. y \in Sessions /\ Sound(y.drain) /\ y.phase = "open" /\ y.adapter = x.adapter
    BY ZenonT(30), <1>2 DEF Counts
  <1>5. Replies(x, HandleTransfer(x, ids), <<f>>, x.adapter)
    <2>1. Replies(y, SendEnvelope(y, f), <<f>>, x.adapter)
      BY <1>3, <1>4, SendReplies
    <2> QED BY ZenonT(30), <1>1, <1>2, <2>1, CountsThenReplies
  <1>6. Serves(event, x.adapter, <<f>>, x.adapter)
    BY <1>3, SessionParts, FrameServes DEF Offers
  <1> QED BY ZenonT(30), <1>5, <1>6

LEMMA HandleReceiptReplies ==
    ASSUME NEW x \in Sessions, Sound(x.drain), x.phase = "open", listed \subseteq Items,
           NEW event, event.type = "RECEIPT", NEW ids
    PROVE  \E r, a : Serves(event, x.adapter, r, a) /\ Replies(x, HandleReceipt(x, ids), r, a)
  <1> DEFINE transitioned == ids \ acked
             done == [x EXCEPT !.drain = CompleteRound(@, transitioned # {})]
             y == [done EXCEPT !.drain = CanStartAnotherRound(@)]
  <1>1. HandleReceipt(x, ids) = IF transitioned = {} THEN y ELSE SendDrainSummary(done, acked \cup ids)
    BY DEF HandleReceipt
  <1>2. Counts(x, done)
    BY ZenonT(30), RoundCounts
  <1> HIDE DEF done
  <1>3. done \in Sessions /\ Sound(done.drain) /\ done.phase = "open" /\ done.adapter = x.adapter
    BY ZenonT(30), <1>2 DEF Counts
  <1>4. Counts(x, y)
    <2>1. Counts(done, y)
      BY <1>3, RoundCounts
    <2> HIDE DEF y
    <2> QED BY ZenonT(30), <1>2, <2>1 DEF Counts
  <1> HIDE DEF y
  <1>5. Replies(x, y, <<>>, x.adapter) /\ Serves(event, x.adapter, <<>>, x.adapter)
    BY ZenonT(30), <1>4, CountsReplies, SessionParts, NothingServes
  <1>6. PICK shown : /\ Frame("SUMMARY", shown) \in Outbound
                     /\ Replies(done, SendDrainSummary(done, acked \cup ids),
                                <<Frame("SUMMARY", shown)>>, x.adapter)
    BY <1>3, SendDrainSummaryReplies
  <1>7. Replies(x, SendDrainSummary(done, acked \cup ids), <<Frame("SUMMARY", shown)>>, x.adapter)
    BY ZenonT(30), <1>2, <1>6, CountsThenReplies
  <1>8. Serves(event, x.adapter, <<Frame("SUMMARY", shown)>>, x.adapter)
    BY <1>6, SessionParts, SummaryServes DEF Asks
  <1> QED BY ZenonT(30), <1>1, <1>5, <1>7, <1>8

\* An event that is due is answered.
LEMMA HandleEventReplies ==
    ASSUME NEW x \in Sessions, Sound(x.drain), listed \subseteq Items,
           NEW event \in Frames, event.type = "SUMMARY" => event.ids \subseteq Uploads,
           \/ x.phase = "greeting" /\ event.type = "HELLO"
           \/ x.phase = "open" /\ event.type # "HELLO"
    PROVE  \E r, a : Serves(event, x.adapter, r, a) /\ Replies(x, HandleEvent(x, event), r, a)
  <1>1. event.type \in FrameTypes /\ event.ids \in SUBSET (Items \cup Uploads)
    BY DEF Frames
  <1>2. CASE event.type = "HELLO"
    <2>1. HandleEvent(x, event) = HandleHello(x)
      BY <1>2 DEF HandleEvent
    <2> QED BY <1>2, <2>1, HandleHelloReplies
  <1>3. CASE event.type = "SUMMARY"
    <2>1. HandleEvent(x, event) = HandleSummary(x, event.ids)
      BY <1>3 DEF HandleEvent
    <2> QED BY <1>3, <2>1, HandleSummaryReplies
  <1>4. CASE event.type = "REQUEST"
    <2>1. HandleEvent(x, event) = HandleRequest(x, event.ids)
      BY <1>4 DEF HandleEvent
    <2> QED BY <1>4, <2>1, HandleRequestReplies
  <1>5. CASE event.type = "TRANSFER"
    <2>1. HandleEvent(x, event) = HandleTransfer(x, event.ids)
      BY <1>5 DEF HandleEvent
    <2> QED BY <1>1, <1>5, <2>1, HandleTransferReplies
  <1>6. CASE event.type = "RECEIPT"
    <2>1. HandleEvent(x, event) = HandleReceipt(x, event.ids)
      BY <1>6 DEF HandleEvent
    <2> QED BY <1>6, <2>1, HandleReceiptReplies
  <1> QED BY <1>1, <1>2, <1>3, <1>4, <1>5, <1>6 DEF FrameTypes

-----------------------------------------------------------------------------
(***************************************************************************)
(* A session that conforms, with w on its way to the relay: every event is *)
(* a frame, the relay serves the device in rounds, and the HELLO comes     *)
(* first.  Once a RECEIPT is parsed the adapter no longer expects it, and  *)
(* the round is that of the adapter before.                                *)
(***************************************************************************)
InRound(x, w) ==
    \E a \in Adapters : /\ Round(x.send, x.events \o w, a)
                        /\ a = x.adapter \/ Has(x.events, {"RECEIPT"})

HelloFirst(x, w) ==
    /\ x.phase = "greeting" => x.events \o w # <<>> /\ Head(x.events \o w).type = "HELLO"
    /\ x.phase = "open" => ~Has(x.events \o w, {"HELLO"})

Conforms(x, w) == /\ \A f \in Range(x.events) : f.type # "FATAL"
                  /\ InRound(x, w) /\ HelloFirst(x, w)

Any == Frames \cup {Fatal}

LEMMA AnySeqs ==
    /\ Seq(Outbound) \subseteq Seq(Any)
    /\ \A h : Seq(Backed(h)) \subseteq Seq(Any) /\ Seq(Events(h)) \subseteq Seq(Any)
  <1>1. Outbound \subseteq Any /\ \A h : Backed(h) \subseteq Any /\ Events(h) \subseteq Any
    BY DEF Outbound, Backed, Events, Any
  <1>2. ASSUME NEW T, T \subseteq Any
        PROVE  Seq(T) \subseteq Seq(Any)
    BY <1>2, SeqMonotonic
  <1> QED BY ZenonT(30), <1>1, <1>2

\* With limits that fit, what the device sends parses.
LEMMA BackedParses ==
    ASSUME LimitsFit, NEW h, NEW f \in Backed(h)
    PROVE  Parses(f)
  <1>1. f.type \in FrameTypes
    BY DEF Backed, Frames
  <1>2. CASE f.type = "HELLO"
    BY <1>2, ParsesFacts
  <1>3. CASE f.type = "REQUEST"
    <2>1. f.ids \subseteq Items \cup Uploads /\ Cardinality(f.ids) <= MaxSummaryPreviewItems
      BY <1>3 DEF Backed, Frames
    <2>2. Cardinality(f.ids) \in Nat
      <3>1. IsFiniteSet(Items \cup Uploads)
        BY ZenonT(30), SessionAssumption, FS_Union
      <3> QED BY ZenonT(30), <2>1, <3>1, FS_Subset, FS_CardinalityType
    <2>3. Cardinality(f.ids) <= MaxWantItems
      BY <2>1, <2>2, ProtocolAssumption DEF LimitsFit
    <2> QED BY <1>3, <2>3, ParsesFacts
  <1>4. CASE f.type \in {"SUMMARY", "TRANSFER"}
    <2>1. f.ids \subseteq Uploads
      BY <1>4 DEF Backed
    <2>2. Cardinality(f.ids) \in Nat /\ Cardinality(Uploads) \in Nat
      BY ZenonT(30), <2>1, ItemSets
    <2>3. Cardinality(f.ids) <= Cardinality(Uploads)
      BY ZenonT(30), <2>1, SessionAssumption, FS_Subset
    <2>4. /\ Cardinality(f.ids) <= MaxSummaryPreviewItems
          /\ Cardinality(f.ids) <= MaxTransferItems
      BY <2>2, <2>3, ProtocolAssumption DEF LimitsFit
    <2> QED BY <1>4, <2>4, ParsesFacts
  <1>5. CASE f.type = "RECEIPT"
    BY <1>5, ParsesFacts DEF Backed
  <1> QED BY <1>1, <1>2, <1>3, <1>4, <1>5 DEF FrameTypes

\* No frame of a chunk is refused.
Accepted(e, h, w, k) == /\ e \in Seq(Backed(h)) /\ Len(e) = k
                        /\ \A i \in 1 .. k : e[i] = Event(w[i])

LEMMA ChunkAccepted ==
    ASSUME LimitsFit, NEW h, NEW w \in Seq(Backed(h)), NEW k \in {1, 2}, k <= Len(w),
           NEW send, NEW adapter, Round(send, w, adapter)
    PROVE  Accepted(PushInbound(adapter, SubSeq(w, 1, k)), h, w, k)
  <1> DEFINE chunk == SubSeq(w, 1, k)
             events == [i \in 1 .. Len(chunk) |-> Event(chunk[i])]
             refused == {i \in 1 .. Len(chunk) :
                           ~Parses(chunk[i]) \/ RefusedReceipt(adapter, chunk, i)}
  <1>1. Len(w) \in Nat /\ DOMAIN w = 1 .. Len(w) /\ \A i \in 1 .. k : i \in 1 .. Len(w)
    BY LenProperties
  <1>2. \A i \in 1 .. k : w[i] \in Backed(h)
    BY <1>1, ElementOfSeq
  <1>3. Len(chunk) = k /\ \A i \in 1 .. k : chunk[i] = w[i]
    <2>1. k \in Int /\ 1 \in Int /\ 1 <= k /\ k - 1 + 1 = k /\ \A i \in 1 .. k : 1 + i - 1 = i
      OBVIOUS
    <2> QED BY <1>2, <2>1, SubSeqProperties
  <1> HIDE DEF chunk
  <1>4. ASSUME NEW i \in 1 .. k
        PROVE  Parses(chunk[i]) /\ ~RefusedReceipt(adapter, chunk, i)
    <2>1. Parses(chunk[i])
      BY <1>2, <1>3, BackedParses
    <2>2. CASE w[i].type # "RECEIPT"
      BY <1>3, <2>1, <2>2 DEF RefusedReceipt
    <2>3. CASE w[i].type = "RECEIPT"
      <3>1. w[i] \in Range(w)
        BY <1>1 DEF Range
      <3>2. Expects(adapter, w[i].ids)
        BY <2>3, <3>1 DEF Round
      <3>3. \A j \in 1 .. i - 1 : j \in 1 .. k /\ j # i
        OBVIOUS
      <3>4. \A j \in 1 .. i - 1 : w[j].type # "RECEIPT"
        BY <1>1, <2>3, <3>3 DEF Round, Once, Asks
      <3>5. \A j \in 1 .. i - 1 : chunk[j].type # "RECEIPT"
        BY <1>3, <3>3, <3>4
      <3> QED BY <1>3, <2>1, <3>2, <3>5 DEF RefusedReceipt, Expects
    <2> QED BY <2>2, <2>3
  <1>5. refused = {}
    BY <1>3, <1>4
  <1>6. PushInbound(adapter, chunk) = events
    BY <1>5 DEF PushInbound
  <1>7. \A i \in 1 .. k : Event(chunk[i]) \in Backed(h)
    BY <1>2, <1>3, EventFacts
  <1>8. events \in Seq(Backed(h)) /\ Len(events) = k
    BY <1>3, <1>7, IsASeq
  <1>9. \A i \in 1 .. k : events[i] = Event(w[i])
    BY <1>3
  <1> QED BY <1>6, <1>8, <1>9 DEF chunk, Accepted

\* The relay reads a message of k frames.
Reads(x, w, k, y) == /\ x.events = <<>> /\ y.send = x.send /\ y.phase = x.phase
                     /\ y.events = PushInbound(x.adapter, SubSeq(w, 1, k))
                     /\ y.adapter = AfterInbound(x.adapter, SubSeq(w, 1, k))

LEMMA ReadingConforms ==
    ASSUME LimitsFit, NEW h, NEW w \in Seq(Backed(h)), NEW k \in {1, 2}, k <= Len(w),
           NEW x \in Sessions, Conforms(x, w), NEW y, Reads(x, w, k, y)
    PROVE  Conforms(y, SubSeq(w, k + 1, Len(w)))
  <1> DEFINE rest == SubSeq(w, k + 1, Len(w))
             chunk == SubSeq(w, 1, k)
             e == y.events
  <1>0. /\ x.events = <<>> /\ y.send = x.send /\ y.phase = x.phase
        /\ y.events = PushInbound(x.adapter, chunk) /\ y.adapter = AfterInbound(x.adapter, chunk)
    BY DEF Reads
  <1> HIDE DEF chunk
  <1>1. /\ Len(w) \in Nat /\ DOMAIN w = 1 .. Len(w) /\ w \in Seq(Any)
        /\ \A i \in 1 .. Len(w) : w[i] \in Backed(h)
    BY LenProperties, ElementOfSeq, AnySeqs
  <1>2. <<>> \o w = w
    BY ConcatEmptySeq
  <1>3. Round(x.send, w, x.adapter) /\ x.adapter \in Adapters
    <2>1. ~Has(<<>>, {"RECEIPT"})
      BY DEF Has, Range
    <2> QED BY ZenonT(30), <1>0, <1>2, <2>1 DEF Conforms, InRound
  <1>4. /\ e \in Seq(Backed(h)) /\ Len(e) = k
        /\ \A i \in 1 .. k : e[i] = Event(w[i])
    <2> HIDE DEF e
    <2>1. Accepted(PushInbound(x.adapter, SubSeq(w, 1, k)), h, w, k)
      BY <1>3, ChunkAccepted
    <2>2. e = PushInbound(x.adapter, SubSeq(w, 1, k))
      BY <1>0 DEF e, chunk
    <2> QED BY <2>1, <2>2 DEF Accepted
  <1> HIDE DEF e
  <1>5. \A i \in 1 .. Len(w) : /\ Event(w[i]).type = w[i].type
                               /\ w[i].type = "RECEIPT" => Event(w[i]).ids = w[i].ids
                               /\ w[i].type # "FATAL"
    <2>1. \A f \in Frames : f.type # "FATAL"
      BY DEF Frames, FrameTypes
    <2>2. \A f : Event(f).type = f.type /\ (f.type = "RECEIPT" => Event(f).ids = f.ids)
      BY DEF Event, Frame
    <2> QED BY <1>1, <2>1, <2>2 DEF Backed
  <1>6. /\ rest \in Seq(Backed(h)) /\ Len(rest) = Len(w) - k
        /\ \A i \in 1 .. Len(w) - k : rest[i] = w[k + i]
    <2>1. \A i \in k + 1 .. Len(w) : w[i] \in Backed(h)
      BY <1>1
    <2>2. k + 1 \in Int /\ Len(w) \in Int
      BY <1>1
    <2>3. /\ rest \in Seq(Backed(h))
          /\ \A i \in 1 .. Len(w) - (k + 1) + 1 : rest[i] = w[(k + 1) + i - 1]
      BY <2>1, <2>2, SubSeqProperties
    <2>4. Len(rest) = Len(w) - k
      <3>1. Len(rest) = IF k + 1 <= Len(w) THEN Len(w) - (k + 1) + 1 ELSE 0
        BY <2>1, <2>2, SubSeqProperties
      <3> DEFINE n == Len(w)
                 m == Len(rest)
      <3>2. n \in Nat /\ k <= n /\ m = IF k + 1 <= n THEN n - (k + 1) + 1 ELSE 0
        BY <1>1, <3>1
      <3> HIDE DEF n, m
      <3>3. m = n - k
        BY <3>2
      <3> QED BY <3>3 DEF n, m
    <2> HIDE DEF rest
    <2>5. ASSUME NEW i \in 1 .. Len(w) - k
          PROVE  rest[i] = w[k + i]
      <3>1. i \in 1 .. Len(w) - (k + 1) + 1 /\ (k + 1) + i - 1 = k + i
        BY <1>1
      <3> QED BY ZenonT(30), <2>3, <3>1
    <2> QED BY <2>3, <2>4, <2>5
  <1> HIDE DEF rest
  <1>7. /\ e \o rest \in Seq(Backed(h)) /\ Len(e \o rest) = Len(w)
        /\ \A i \in 1 .. Len(w) : (e \o rest)[i] = IF i <= k THEN Event(w[i]) ELSE w[i]
    <2>1. /\ e \o rest \in Seq(Backed(h)) /\ Len(e \o rest) = k + (Len(w) - k)
          /\ \A i \in 1 .. k + (Len(w) - k) :
                (e \o rest)[i] = IF i <= k THEN e[i] ELSE rest[i - k]
      BY <1>4, <1>6, ConcatProperties
    <2>2. k + (Len(w) - k) = Len(w)
      BY <1>1
    <2>3. ASSUME NEW i \in 1 .. Len(w)
          PROVE  (e \o rest)[i] = IF i <= k THEN Event(w[i]) ELSE w[i]
      <3>1. CASE i <= k
        BY <1>4, <2>1, <2>2, <3>1
      <3>2. CASE ~(i <= k)
        <4>1. i - k \in 1 .. Len(w) - k /\ k + (i - k) = i
          BY <1>1, <3>2
        <4> QED BY <1>6, <2>1, <2>2, <3>2, <4>1
      <3> QED BY ZenonT(30), <3>1, <3>2
    <2> QED BY <2>1, <2>2, <2>3
  <1>8. /\ \A types : Has(e \o rest, types) <=> Has(w, types)
        /\ Round(x.send, w, x.adapter) => Round(x.send, e \o rest, x.adapter)
    <2> DEFINE v == e \o rest
    <2>1. v \in Seq(Any) /\ Len(w) = Len(v)
      BY <1>7, AnySeqs
    <2>2. \A i \in 1 .. Len(w) : /\ v[i].type = w[i].type
                                 /\ w[i].type = "RECEIPT" => v[i].ids = w[i].ids
      BY ZenonT(30), <1>5, <1>7
    <2> HIDE DEF v
    <2>3. /\ \A types : Has(v, types) <=> Has(w, types)
          /\ \A u, adapter : Round(u, w, adapter) => Round(u, v, adapter)
      BY ZenonT(30), <1>1, <2>1, <2>2, RoundOfTypes
    <2> QED BY <2>3 DEF v
  <1>9. x.adapter = y.adapter \/ Has(e, {"RECEIPT"})
    <2>1. CASE \E i \in 1 .. k : w[i].type = "RECEIPT"
      <3>1. PICK i \in 1 .. k : w[i].type = "RECEIPT"
        BY <2>1
      <3>2. e[i].type = "RECEIPT" /\ i \in DOMAIN e
        BY <1>1, <1>4, <1>5, <3>1, LenProperties
      <3> QED BY ZenonT(30), <3>2 DEF Has, Range
    <2>2. CASE \A i \in 1 .. k : w[i].type # "RECEIPT"
      <3>1. Len(chunk) = k /\ \A i \in 1 .. k : chunk[i] = w[i]
        <4>1. /\ k \in Int /\ 1 \in Int /\ 1 <= k /\ k - 1 + 1 = k
              /\ \A i \in 1 .. k : 1 + i - 1 = i /\ w[i] \in Backed(h)
          BY <1>1
        <4> QED BY <4>1, SubSeqProperties DEF chunk
      <3>2. ~\E i \in 1 .. Len(chunk) : chunk[i].type = "RECEIPT"
        BY <2>2, <3>1
      <3> QED BY <1>0, <3>2 DEF AfterInbound
    <2> QED BY <2>1, <2>2
  <1>10. InRound(y, rest)
    <2>1. Round(y.send, y.events \o rest, x.adapter)
      BY ZenonT(30), <1>0, <1>3, <1>8 DEF e
    <2>2. x.adapter = y.adapter \/ Has(y.events, {"RECEIPT"})
      BY <1>9 DEF e
    <2> QED BY ZenonT(30), <1>3, <2>1, <2>2 DEF InRound
  <1>11. \A f \in Range(e) : f.type # "FATAL"
    <2>1. DOMAIN e = 1 .. k
      BY <1>4, LenProperties
    <2> QED BY <1>1, <1>4, <1>5, <2>1 DEF Range
  <1>12. HelloFirst(y, rest)
    <2>1. ASSUME x.phase = "greeting"
          PROVE  e \o rest # <<>> /\ Head(e \o rest).type = "HELLO"
      <3>1. w # <<>> /\ w[1].type = "HELLO"
        BY <1>0, <1>2, <2>1 DEF Conforms, HelloFirst
      <3>2. (e \o rest)[1] = Event(w[1]) /\ Len(e \o rest) > 0
        BY <1>1, <1>7
      <3>3. Event(w[1]).type = "HELLO"
        BY <1>1, <1>5, <3>1
      <3> DEFINE v == e \o rest
      <3>4. v \in Seq(Backed(h)) /\ Len(v) > 0 /\ v[1].type = "HELLO"
        BY <1>7, <3>2, <3>3
      <3> HIDE DEF v
      <3>5. v # <<>> /\ Head(v) = v[1]
        BY <3>4
      <3> QED BY <3>4, <3>5 DEF v
    <2>2. x.phase = "open" => ~Has(e \o rest, {"HELLO"})
      BY ZenonT(30), <1>0, <1>2, <1>8 DEF Conforms, HelloFirst
    <2> QED BY ZenonT(30), <1>0, <2>1, <2>2 DEF HelloFirst, e
  <1> QED BY ZenonT(30), <1>10, <1>11, <1>12 DEF Conforms, rest, e

LEMMA HasInTail ==
    ASSUME NEW S, NEW s \in Seq(S), s # <<>>, NEW types, Has(s, types), Head(s).type \notin types
    PROVE  Has(Tail(s), types)
  <1>1. Len(s) \in Nat \ {0} /\ DOMAIN s = 1 .. Len(s) /\ Head(s) = s[1]
    BY EmptySeq, LenProperties
  <1>2. /\ Tail(s) \in Seq(S) /\ Len(Tail(s)) = Len(s) - 1
        /\ \A i \in 1 .. Len(s) - 1 : Tail(s)[i] = s[i + 1]
    BY HeadTailProperties
  <1>3. DOMAIN Tail(s) = 1 .. Len(s) - 1
    BY <1>2, LenProperties
  <1>4. PICK i \in 1 .. Len(s) : s[i].type \in types
    BY <1>1 DEF Has, Range
  <1>5. i - 1 \in 1 .. Len(s) - 1 /\ (i - 1) + 1 = i
    BY <1>1, <1>4
  <1>6. Tail(s)[i - 1].type \in types
    BY <1>2, <1>4, <1>5
  <1> QED BY ZenonT(30), <1>3, <1>5, <1>6 DEF Has, Range

\* What a handler makes of a session whose next event is due.
LEMMA HandlingConforms ==
    ASSUME listed \subseteq Items, NEW h, NEW w \in Seq(Backed(h)),
           NEW x \in Sessions, x.events \in Seq(Events(h)), x.events # <<>>,
           Live(x), Sound(x.drain), Conforms(x, w),
           NEW y, y = [x EXCEPT !.events = Tail(@)]
    PROVE  LET z == HandleEvent(y, Head(x.events))
           IN  z.pushed = x.pushed /\ Kept(z) /\ (z.drain.reason = None => Conforms(z, w))
  <1> DEFINE event == Head(x.events)
             rest == Tail(x.events)
             v == x.events \o w
             z == HandleEvent(y, event)
  <1>1. x.events \in Seq(Any) /\ w \in Seq(Any) /\ x.send \in Seq(Any) /\ x.adapter \in Adapters
    BY ZenonT(30), AnySeqs, SessionParts
  <1>2. v \in Seq(Any) /\ v # <<>> /\ Head(v) = event /\ Tail(v) = rest \o w
    BY ZenonT(30), <1>1, HeadOfConcat
  <1>3. /\ event \in Events(h) /\ rest \in Seq(Any) /\ event \in Range(x.events)
        /\ Range(rest) \subseteq Range(x.events)
    BY ZenonT(30), <1>1, HeadTailProperties, TailRange
  <1>4. event \in Range(v) /\ Range(Tail(v)) \subseteq Range(v)
    BY ZenonT(30), <1>2, TailRange
  <1>5. event \in Frames /\ (event.type = "SUMMARY" => event.ids \subseteq Uploads)
    <2>1. event.type # "FATAL"
      BY ZenonT(30), <1>3 DEF Conforms
    <2>2. event \in Backed(h)
      BY <1>3, <2>1 DEF Events, Fatal
    <2> QED BY <2>2 DEF Backed
  <1>6. \/ x.phase = "greeting" /\ event.type = "HELLO"
        \/ x.phase = "open" /\ event.type # "HELLO" /\ ~Has(v, {"HELLO"})
    <2>1. x.phase = "greeting" \/ x.phase = "open"
      BY DEF Live
    <2>2. x.phase = "greeting" => event.type = "HELLO"
      BY ZenonT(30), <1>2 DEF Conforms, HelloFirst
    <2>3. x.phase = "open" => ~Has(v, {"HELLO"})
      BY ZenonT(30) DEF Conforms, HelloFirst
    <2>4. x.phase = "open" => event.type # "HELLO"
      BY ZenonT(30), <1>4, <2>3 DEF Has
    <2> QED BY ZenonT(30), <2>1, <2>2, <2>3, <2>4
  <1>7. PICK b \in Adapters : Round(x.send, v, b) /\ (b = x.adapter \/ Has(x.events, {"RECEIPT"}))
    BY ZenonT(30) DEF Conforms, InRound
  <1> HIDE DEF event, rest, v
  <1>8. /\ y \in Sessions /\ y.events = rest /\ y.drain = x.drain /\ y.send = x.send
        /\ y.phase = x.phase /\ y.adapter = x.adapter /\ y.pushed = x.pushed
    <2>1. y = [x EXCEPT !.events = rest] /\ rest \in Seq(Frames \cup {Fatal})
      BY <1>3 DEF rest, Any
    <2> QED BY ZenonT(30), <2>1 DEF Sessions
  <1>9. PICK r, a : Serves(event, y.adapter, r, a) /\ Replies(y, z, r, a)
    BY ZenonT(30), <1>5, <1>6, <1>8, HandleEventReplies
  <1> HIDE DEF z
  <1>10. z.pushed = x.pushed /\ Kept(z)
    BY ZenonT(30), <1>8, <1>9 DEF Replies
  <1>11. ASSUME z.drain.reason = None
         PROVE  Conforms(z, w)
    <2> DEFINE after == IF event.type \in Asks THEN a ELSE b
    <2>1. /\ z.send = x.send \o r /\ z.adapter = a /\ z.events = rest /\ z.phase = "open"
      BY ZenonT(30), <1>8, <1>9, <1>11 DEF Replies
    <2>2. /\ r \in Seq(Any) /\ a \in Adapters /\ Once(r, Offers)
          /\ Has(r, Offers) \/ a # x.adapter => event.type \in Asks
          /\ \A f \in Range(r) : f.type = "TRANSFER" => Expects(a, f.ids)
      BY ZenonT(30), <1>8, <1>9, AnySeqs DEF Serves
    <2>3. event.type \notin Asks => \A f \in Range(r) : f.type # "TRANSFER"
      BY <2>2 DEF Has, Offers
    <2>4. /\ after \in Adapters
          /\ Has(r, Offers) \/ after # b => Head(v).type \in Asks
          /\ \A f \in Range(r) : f.type = "TRANSFER" => Expects(after, f.ids)
      BY ZenonT(30), <1>2, <1>7, <2>2, <2>3
    <2>5. after = z.adapter \/ Has(rest, {"RECEIPT"})
      <3>1. CASE event.type \in Asks
        BY <2>1, <3>1
      <3>2. CASE event.type \notin Asks
        <4>1. a = x.adapter /\ event.type \notin {"RECEIPT"}
          BY <2>2, <3>2 DEF Asks
        <4>2. Has(x.events, {"RECEIPT"}) => Has(rest, {"RECEIPT"})
          BY ZenonT(30), <1>1, <4>1, HasInTail DEF event, rest
        <4> QED BY ZenonT(30), <1>7, <2>1, <3>2, <4>1, <4>2
      <3> QED BY <3>1, <3>2
    <2> HIDE DEF after
    <2>6. Round(z.send, Tail(v), after)
      BY <1>1, <1>2, <1>7, <2>1, <2>2, <2>4, RoundServes
    <2>7. InRound(z, w)
      BY ZenonT(30), <1>2, <2>1, <2>4, <2>5, <2>6 DEF InRound
    <2>8. ~Has(Tail(v), {"HELLO"})
      <3>1. CASE event.type = "HELLO"
        <4>1. ~Has(Tail(v), Asks)
          BY <1>2, <1>7, <3>1, TailOnce DEF Round, Asks
        <4> QED BY <4>1 DEF Has, Asks
      <3>2. CASE event.type # "HELLO"
        BY ZenonT(30), <1>4, <1>6, <3>2 DEF Has
      <3> QED BY <3>1, <3>2
    <2>9. HelloFirst(z, w)
      <3>1. ~Has(z.events \o w, {"HELLO"}) /\ z.phase # "greeting"
        BY ZenonT(30), <1>2, <2>1, <2>8
      <3> QED BY ZenonT(30), <3>1 DEF HelloFirst
    <2>10. \A f \in Range(z.events) : f.type # "FATAL"
      BY ZenonT(30), <1>3, <2>1 DEF Conforms
    <2> QED BY ZenonT(30), <2>7, <2>9, <2>10 DEF Conforms
  <1> QED BY <1>10, <1>11 DEF z, event

\* Frames handled, in flight and sent next, read in either grouping.
LEMMA AnyAssociative ==
    ASSUME NEW e \in Seq(Any), NEW w \in Seq(Any), NEW r \in Seq(Any)
    PROVE  e \o w \in Seq(Any) /\ (e \o w) \o r = e \o (w \o r)
  BY ConcatProperties, ConcatAssociative

\* Frames sent later do not change which frame is first.
LEMMA FirstStays ==
    ASSUME NEW v \in Seq(Any), v # <<>>, NEW r \in Seq(Any)
    PROVE  v \o r # <<>> /\ Head(v \o r) = Head(v)
  BY HeadOfConcat

\* More frames on their way, none of them a HELLO.
LEMMA HelloStaysFirst ==
    ASSUME NEW e \in Seq(Any), NEW w \in Seq(Any), NEW r \in Seq(Any), ~Has(r, {"HELLO"}),
           NEW x, NEW y, x.events = e, HelloFirst(x, w), y.events = e, y.phase = x.phase
    PROVE  HelloFirst(y, w \o r)
  <1> DEFINE v == e \o w
  <1>1. v \in Seq(Any) /\ v \o r = e \o (w \o r)
    BY ZenonT(30), AnyAssociative
  <1>2. y.phase = "greeting" => v # <<>> /\ Head(v).type = "HELLO"
    BY ZenonT(30) DEF HelloFirst
  <1>3. y.phase = "open" => ~Has(v, {"HELLO"})
    BY ZenonT(30) DEF HelloFirst
  <1> HIDE DEF v
  <1>4. ASSUME y.phase = "greeting"
        PROVE  v \o r # <<>> /\ Head(v \o r).type = "HELLO"
    <2>1. v # <<>> /\ Head(v).type = "HELLO"
      BY <1>2, <1>4
    <2>2. v \o r # <<>> /\ Head(v \o r) = Head(v)
      BY ZenonT(30), <1>1, <2>1, FirstStays
    <2> QED BY ZenonT(30), <2>1, <2>2
  <1>5. y.phase = "open" => ~Has(v \o r, {"HELLO"})
    BY ZenonT(30), <1>1, <1>3, ConcatHas
  <1>6. HelloFirst(y, w \o r)
    BY ZenonT(30), <1>1, <1>4, <1>5 DEF HelloFirst
  <1> QED BY <1>6

\* The device asks when it was offered something, and acknowledges what it was sent.
LEMMA AnswerAsks ==
    ASSUME NEW frame \in Outbound
    PROVE  /\ Answer(frame) \in Seq(Any) /\ Once(Answer(frame), Asks)
           /\ ~Has(Answer(frame), {"HELLO"})
           /\ Has(Answer(frame), Asks) => frame.type \in Offers
           /\ \A f \in Range(Answer(frame)) : f.type = "RECEIPT" =>
                 frame.type = "TRANSFER" /\ f.ids \subseteq frame.ids
  <1>1. frame.type \in FrameTypes
    BY DEF Outbound, Frames
  <1>2. Answer(frame) \in Seq(Any)
    <2>1. Answer(frame) \in Seq(Backed(frame.ids \ Refused))
      BY AnswerFacts
    <2> QED BY ZenonT(30), <2>1, AnySeqs
  <1>3. Answer(frame) = <<>> \/ \E f : Answer(frame) = <<f>>
    BY <1>1 DEF Answer, FrameTypes
  <1>4. Once(Answer(frame), Asks)
    BY ZenonT(30), <1>3, TupleOnce
  <1>5. Range(<<>>) = {} /\ \A f : Range(<<f>>) = {f}
    BY DEF Range
  <1>6. ASSUME NEW f \in Range(Answer(frame))
        PROVE  \/ frame.type = "SUMMARY" /\ f.type = "REQUEST"
               \/ f.type = "TRANSFER"
               \/ frame.type = "TRANSFER" /\ f.type = "RECEIPT" /\ f.ids \subseteq frame.ids
    <2>1. CASE frame.type \in {"HELLO", "RECEIPT"}
      <3>1. Answer(frame) = <<>>
        BY <2>1 DEF Answer
      <3> QED BY <1>5, <1>6, <3>1
    <2>2. CASE frame.type = "SUMMARY"
      <3>1. Answer(frame) = <<Frame("REQUEST", frame.ids)>>
        BY <2>2 DEF Answer
      <3>2. f = Frame("REQUEST", frame.ids)
        BY <1>5, <1>6, <3>1
      <3> QED BY <2>2, <3>2 DEF Frame
    <2>3. CASE frame.type = "REQUEST"
      <3>1. Answer(frame) = <<>> \/ Answer(frame) = <<Frame("TRANSFER", frame.ids)>>
        BY <2>3 DEF Answer
      <3>2. f = Frame("TRANSFER", frame.ids)
        BY <1>5, <1>6, <3>1
      <3> QED BY <3>2 DEF Frame
    <2>4. CASE frame.type = "TRANSFER"
      <3>1. Answer(frame) = <<Frame("RECEIPT", frame.ids \ Refused)>>
        BY <2>4 DEF Answer
      <3>2. f = Frame("RECEIPT", frame.ids \ Refused)
        BY ZenonT(30), <1>5, <1>6, <3>1
      <3> QED BY <2>4, <3>2 DEF Frame
    <2> QED BY ZenonT(30), <1>1, <2>1, <2>2, <2>3, <2>4 DEF FrameTypes
  <1> QED BY <1>2, <1>4, <1>6 DEF Has, Asks, Offers

\* The device reads a frame and answers it.
LEMMA AnsweringConforms ==
    ASSUME NEW h, NEW w \in Seq(Backed(h)), NEW x \in Sessions, x.events \in Seq(Events(h)),
           x.send # <<>>, Conforms(x, w), NEW y, y.send = Tail(x.send), y.events = x.events,
           y.adapter = x.adapter, y.phase = x.phase
    PROVE  Conforms(y, w \o Answer(Head(x.send)))
  <1> DEFINE frame == Head(x.send)
             r == Answer(frame)
             v == x.events \o w
  <1>1. /\ x.events \in Seq(Any) /\ w \in Seq(Any) /\ x.send \in Seq(Any)
        /\ frame \in Outbound
    BY ZenonT(30), AnySeqs, SessionParts, HeadTailProperties
  <1>2. v \in Seq(Any)
    BY <1>1, ConcatProperties
  <1> HIDE DEF frame
  <1>3. /\ r \in Seq(Any) /\ Once(r, Asks) /\ ~Has(r, {"HELLO"})
        /\ Has(r, Asks) => frame.type \in Offers
        /\ \A f \in Range(r) : f.type = "RECEIPT" =>
              frame.type = "TRANSFER" /\ f.ids \subseteq frame.ids
    BY ZenonT(30), <1>1, AnswerAsks
  <1> HIDE DEF r
  <1>4. HelloFirst(y, w \o r) /\ v \o r = y.events \o (w \o r)
    <2>1. HelloFirst(x, w)
      BY DEF Conforms
    <2>2. HelloFirst(y, w \o r)
      BY ZenonT(30), <1>1, <1>3, <2>1, HelloStaysFirst
    <2>3. PICK e \in Seq(Any) : e = x.events
      BY ZenonT(30), <1>1
    <2>4. (e \o w) \o r = e \o (w \o r)
      BY ZenonT(30), <1>1, <1>3, AnyAssociative
    <2> QED BY ZenonT(30), <2>2, <2>3, <2>4
  <1>5. PICK a \in Adapters : Round(x.send, v, a) /\ (a = x.adapter \/ Has(x.events, {"RECEIPT"}))
    BY ZenonT(30) DEF Conforms, InRound
  <1> HIDE DEF v
  <1>6. Round(Tail(x.send), v \o r, a)
    BY ZenonT(30), <1>1, <1>2, <1>3, <1>5, RoundAsks DEF frame
  <1>7. InRound(y, w \o r)
    BY ZenonT(30), <1>4, <1>5, <1>6 DEF InRound
  <1>8. \A f \in Range(y.events) : f.type # "FATAL"
    BY ZenonT(30) DEF Conforms
  <1> QED BY ZenonT(30), <1>4, <1>7, <1>8 DEF Conforms, r, frame

\* The device offers its uploads.
LEMMA OfferingConforms ==
    ASSUME NEW h, NEW w \in Seq(Backed(h)), NEW x \in Sessions, x.events \in Seq(Events(h)),
           Conforms(x, w)
    PROVE  Conforms(x, Append(w, Frame("SUMMARY", Uploads)))
  <1> DEFINE f == Frame("SUMMARY", Uploads)
             r == <<f>>
             v == x.events \o w
  <1>1. f \in Any /\ f.type = "SUMMARY"
    BY DEF Frame, Frames, FrameTypes, Any
  <1>2. x.events \in Seq(Any) /\ w \in Seq(Any) /\ x.send \in Seq(Any)
    BY ZenonT(30), AnySeqs, SessionParts
  <1> HIDE DEF f
  <1>3. r \in Seq(Any) /\ Append(w, f) = w \o r /\ Range(r) = {f}
    BY <1>1, <1>2, AppendIsConcat DEF Range
  <1>4. v \in Seq(Any)
    BY <1>2, ConcatProperties
  <1> HIDE DEF r
  <1>5. ~Has(r, {"HELLO"}) /\ \A g \in Range(r) : g.type = "SUMMARY"
    BY <1>1, <1>3 DEF Has
  <1>6. HelloFirst(x, w \o r) /\ v \o r = x.events \o (w \o r)
    <2>1. HelloFirst(x, w)
      BY DEF Conforms
    <2>2. HelloFirst(x, w \o r)
      BY ZenonT(30), <1>2, <1>3, <1>5, <2>1, HelloStaysFirst
    <2>3. PICK e \in Seq(Any) : e = x.events
      BY ZenonT(30), <1>2
    <2>4. (e \o w) \o r = e \o (w \o r)
      BY ZenonT(30), <1>2, <1>3, AnyAssociative
    <2> QED BY ZenonT(30), <2>2, <2>3, <2>4
  <1>7. PICK a \in Adapters : Round(x.send, v, a) /\ (a = x.adapter \/ Has(x.events, {"RECEIPT"}))
    BY ZenonT(30) DEF Conforms, InRound
  <1> HIDE DEF v
  <1>8. Round(x.send, v \o r, a)
    BY <1>2, <1>3, <1>4, <1>5, <1>7, RoundForwards
  <1>9. InRound(x, w \o r)
    BY ZenonT(30), <1>6, <1>7, <1>8 DEF InRound
  <1> QED BY ZenonT(30), <1>3, <1>6, <1>9 DEF Conforms, f

-----------------------------------------------------------------------------
(***************************************************************************)
(* As long as nothing was pushed into the session and nothing has failed,  *)
(* a session that goes on conforms, and one that has stopped as            *)
(* protocol_fatal has done so at a frame that is too large.                *)
(***************************************************************************)
Strict == faults = 0 /\ ~session.pushed

ConformInv == Strict => /\ Kept(session)
                        /\ Live(session) => Conforms(session, wire)

LEMMA EndingKeeps ==
    ASSUME NEW x \in Sessions
    PROVE  /\ EndIfStopped(x).drain = x.drain /\ EndIfStopped(x).pushed = x.pushed
           /\ EndIfStopped(x).oversize = x.oversize
  BY ZenonT(30) DEF EndIfStopped, Sessions

LEMMA ConformAfter ==
    ASSUME Strict' => /\ Kept(session')
                      /\ Live(session') => Conforms(session', wire')
    PROVE  ConformInv'
  BY ZenonT(30) DEF ConformInv, Strict, Conforms, InRound, HelloFirst, Kept, Sound, Live

LEMMA ConformInit == ClientSessionInit => ConformInv
  <1> SUFFICES ASSUME ClientSessionInit PROVE ConformInv
    OBVIOUS
  <1>1. session = NoSession
    BY DEF ClientSessionInit
  <1>2. Sound(session.drain) /\ ~Live(session)
    BY <1>1, NoSessionFacts, NewDrainSessionFacts DEF Sound, None, Live
  <1> QED BY <1>2 DEF ConformInv, Kept

LEMMA ConnectConforms == Connect => ConformInv'
  <1> SUFFICES ASSUME Connect PROVE ConformInv'
    OBVIOUS
  <1> DEFINE drain == RecordBytes(NewDrainSession, FrameBytes["HELLO"])
             fresh == [NoSession EXCEPT !.phase = "greeting", !.drain = drain]
             f == Frame("HELLO", {})
             hello == <<f>>
             greeted == [fresh EXCEPT !.send = hello]
  <1>1. session' = (IF drain.reason # None THEN EndIfStopped(fresh) ELSE greeted) /\ wire' = hello
    BY DEF Connect
  <1>2. drain \in DrainStates /\ Sound(drain)
    <2>1. FrameBytes["HELLO"] \in Nat
      BY LimitAssumption DEF FrameTypes
    <2>2. Sound(NewDrainSession)
      BY NewDrainSessionFacts DEF Sound, None
    <2> QED BY <2>1, <2>2, NewDrainSessionFacts, RecordBytesFacts, BytesAreSound
  <1>3. f \in Any /\ f \in Outbound /\ f.type = "HELLO"
    BY FrameFacts, OutboundFacts DEF FrameTypes, Frame, Any
  <1> HIDE DEF drain, f
  <1>4. hello \in Seq(Outbound) /\ hello \in Seq(Any) /\ Range(hello) = {f} /\ hello # <<>>
        /\ Head(hello) = f
    BY <1>3 DEF Range
  <1>5. Once(hello, Offers) /\ Once(hello, Asks)
    BY ZenonT(30), TupleOnce
  <1> HIDE DEF hello
  <1>6. /\ fresh \in Sessions /\ fresh.drain = drain /\ fresh.events = <<>>
        /\ fresh.adapter = NoSession.adapter /\ fresh.phase = "greeting"
    BY ZenonT(30), <1>2, NoSessionFacts DEF Sessions, Phases
  <1> HIDE DEF fresh
  <1>7. /\ greeted \in Sessions /\ greeted.drain = drain /\ greeted.events = <<>>
        /\ greeted.phase = "greeting" /\ greeted.send = hello /\ greeted.adapter \in Adapters
    BY ZenonT(30), <1>4, <1>6 DEF Sessions
  <1> HIDE DEF greeted
  <1>8. Conforms(greeted, hello)
    <2>1. <<>> \o hello = hello
      BY <1>4, ConcatEmptySeq
    <2>2. ~Has(hello, Offers)
      BY <1>3, <1>4 DEF Has, Offers
    <2>3. Round(hello, hello, greeted.adapter)
      BY <1>3, <1>4, <1>5, <2>2 DEF Round
    <2>4. InRound(greeted, hello)
      BY ZenonT(30), <1>7, <2>1, <2>3 DEF InRound
    <2>5. HelloFirst(greeted, hello)
      BY <1>3, <1>4, <1>7, <2>1 DEF HelloFirst
    <2>6. Range(greeted.events) = {}
      BY <1>7 DEF Range
    <2> QED BY ZenonT(30), <2>4, <2>5, <2>6 DEF Conforms
  <1>9. CASE drain.reason # None
    <2>1. session'.drain = drain /\ ~Live(session')
      BY ZenonT(30), <1>1, <1>6, <1>9, EndIfStoppedFacts
    <2> QED BY <1>2, <2>1, ConformAfter DEF Kept
  <1>10. CASE drain.reason = None
    <2>1. session' = greeted /\ wire' = hello
      BY <1>1, <1>10
    <2>2. Sound(session'.drain) /\ Conforms(session', wire')
      BY ZenonT(30), <1>2, <1>7, <1>8, <2>1
    <2> QED BY <2>2, ConformAfter DEF Kept
  <1> QED BY <1>9, <1>10

LEMMA ReadMessageConforms ==
    ASSUME LimitsFit, SessionInv, ConformInv, ReadMessage
    PROVE  ConformInv'
  <1>1. PICK k \in 1 .. MaxChunk :
          /\ k <= Len(wire)
          /\ LET chunk == SubSeq(wire, 1, k)
                 size  == ChunkBytes(chunk)
                 drain == RecordBytes(session.drain, size)
                 read  == [session EXCEPT !.drain = drain]
             IN  session' = IF drain.reason # None THEN EndIfStopped(read)
                            ELSE [read EXCEPT
                                    !.events  = PushInbound(session.adapter, chunk),
                                    !.adapter = AfterInbound(session.adapter, chunk)]
          /\ wire' = SubSeq(wire, k + 1, Len(wire))
    BY ZenonT(30) DEF ReadMessage
  <1> DEFINE chunk == SubSeq(wire, 1, k)
             size  == ChunkBytes(chunk)
             drain == RecordBytes(session.drain, size)
             read  == [session EXCEPT !.drain = drain]
             events == PushInbound(session.adapter, chunk)
             adapter == AfterInbound(session.adapter, chunk)
             parsed == [read EXCEPT !.events = events, !.adapter = adapter]
  <1>2. /\ session' = IF drain.reason # None THEN EndIfStopped(read) ELSE parsed
        /\ wire' = SubSeq(wire, k + 1, Len(wire)) /\ k <= Len(wire)
    BY <1>1
  <1>3. faults' = faults /\ Live(session) /\ session.events = <<>>
    BY DEF ReadMessage
  <1>4. /\ wire \in Seq(Backed(has)) /\ session \in Sessions
        /\ session.drain \in DrainStates /\ Sound(session.drain)
    BY <1>3, SessionParts DEF SessionInv, SessionOK, Sound, None
  <1>5. k \in {1, 2}
    BY SessionAssumption
  <1>6. size \in Nat
    <2>1. Len(wire) \in Nat /\ \A i \in 1 .. k : wire[i] \in Frames
      BY <1>2, <1>4, <1>5, LenProperties, ElementOfSeq DEF Backed
    <2>2. Len(chunk) = k /\ \A i \in 1 .. k : chunk[i] = wire[i]
      <3>1. k \in Int /\ 1 \in Int /\ 1 <= k /\ k - 1 + 1 = k /\ \A i \in 1 .. k : 1 + i - 1 = i
        BY <1>5
      <3> QED BY <2>1, <3>1, SubSeqProperties
    <2> HIDE DEF chunk
    <2>3. \A f \in Frames : FrameBytes[f.type] \in Nat
      BY LimitAssumption DEF Frames
    <2>4. chunk[1] \in Frames /\ (k = 2 => chunk[2] \in Frames)
      BY <1>5, <2>1, <2>2
    <2> QED BY <2>2, <2>3, <2>4 DEF ChunkBytes
  <1> HIDE DEF size
  <1>7. drain \in DrainStates /\ Sound(drain)
    BY ZenonT(30), <1>4, <1>6, RecordBytesFacts, BytesAreSound
  <1> HIDE DEF drain
  <1>8. Counts(session, read) /\ read.drain = drain
    BY ZenonT(30), <1>4, <1>7, DrainCounts
  <1> HIDE DEF read
  <1>9. read \in Sessions /\ read.pushed = session.pushed
    BY ZenonT(30), <1>8 DEF Counts
  <1>10. CASE drain.reason # None
    <2>1. session'.drain = drain /\ ~Live(session')
      BY <1>2, <1>8, <1>9, <1>10, EndIfStoppedFacts
    <2> QED BY <1>7, <2>1, ConformAfter DEF Kept
  <1>11. CASE drain.reason = None
    <2> HIDE DEF events, adapter
    <2>1. session' = parsed
      BY <1>2, <1>11
    <2>2. /\ parsed.drain = drain /\ parsed.send = read.send /\ parsed.phase = read.phase
          /\ parsed.events = events /\ parsed.adapter = adapter /\ parsed.pushed = read.pushed
      BY ZenonT(30), <1>8, <1>9 DEF Sessions
    <2> HIDE DEF parsed
    <2>3. Reads(session, wire, k, parsed)
      BY ZenonT(30), <1>3, <1>8, <2>2 DEF Reads, Counts, events, adapter, chunk
    <2>4. ASSUME Strict'
          PROVE  Conforms(session', wire')
      <3>1. Strict
        BY <1>3, <1>9, <2>1, <2>2, <2>4 DEF Strict
      <3>2. Conforms(session, wire)
        BY <1>3, <3>1 DEF ConformInv
      <3>3. Conforms(parsed, SubSeq(wire, k + 1, Len(wire)))
        BY <1>2, <1>4, <1>5, <2>3, <3>2, ReadingConforms
      <3> QED BY ZenonT(30), <1>2, <2>1, <3>3
    <2> QED BY ZenonT(30), <1>7, <2>1, <2>2, <2>4, ConformAfter DEF Kept
  <1> QED BY <1>10, <1>11

(***************************************************************************)
(* Whatever a handler does, whether a summary was pushed stays the same.   *)
(***************************************************************************)
Marked(x, p) == "pushed" \in DOMAIN x /\ x.pushed = p

LEMMA UpdateMarked ==
    ASSUME NEW x, NEW p, Marked(x, p), NEW v
    PROVE  /\ Marked([x EXCEPT !.drain = v], p) /\ Marked([x EXCEPT !.phase = v], p)
           /\ Marked([x EXCEPT !.events = v], p) /\ Marked([x EXCEPT !.send = v], p)
           /\ Marked([x EXCEPT !.adapter = v], p) /\ Marked([x EXCEPT !.cursor = v], p)
  BY DEF Marked

LEMMA SendMarked ==
    ASSUME NEW x, NEW p, Marked(x, p), NEW frame
    PROVE  Marked(SendEnvelope(x, frame), p)
  <1>1. \A d, s : /\ Marked([x EXCEPT !.send = s, !.drain = d], p)
                   /\ Marked([x EXCEPT !.drain = d, !.oversize = s], p)
    BY DEF Marked
  <1> QED BY ZenonT(30), <1>1, UpdateMarked DEF SendEnvelope

LEMMA SendDrainSummaryMarked ==
    ASSUME NEW x, NEW p, Marked(x, p), NEW done
    PROVE  Marked(SendDrainSummary(x, done), p)
  <1> DEFINE ready == [x EXCEPT !.drain = CanStartAnotherRound(@)]
  <1>1. Marked(ready, p)
    BY ZenonT(30), UpdateMarked
  <1> HIDE DEF ready
  <1>2. \A d, c, f : Marked(SendEnvelope([ready EXCEPT !.cursor = c, !.drain = d], f), p)
    <2>1. \A d, c : Marked([ready EXCEPT !.cursor = c, !.drain = d], p)
      BY <1>1 DEF Marked
    <2> QED BY ZenonT(30), <2>1, SendMarked
  <1> QED BY ZenonT(30), <1>1, <1>2 DEF SendDrainSummary, ready

LEMMA EndMarked ==
    ASSUME NEW x, NEW p, Marked(x, p), NEW r
    PROVE  Marked(End(x, r), p)
  BY DEF Marked, End, EndIfStopped

LEMMA HandleEventMarked ==
    ASSUME NEW x, NEW p, Marked(x, p), NEW event, event.type \in FrameTypes \cup {"FATAL"}
    PROVE  Marked(HandleEvent(x, event), p)
  <1>1. Marked(HandleHello(x), p)
    BY ZenonT(30), UpdateMarked, EndMarked, SendDrainSummaryMarked DEF HandleHello
  <1>2. Marked(NoProgress(x), p)
    BY ZenonT(30), UpdateMarked DEF NoProgress
  <1>3. Marked(HandleSummary(x, event.ids), p)
    BY <1>2, SendMarked DEF HandleSummary
  <1>4. Marked(HandleTransfer(x, event.ids), p)
    BY ZenonT(30), UpdateMarked, SendMarked DEF HandleTransfer
  <1>5. Marked(HandleReceipt(x, event.ids), p)
    BY ZenonT(30), UpdateMarked, SendDrainSummaryMarked DEF HandleReceipt
  <1>6. Marked(HandleRequest(x, event.ids), p)
    <2> DEFINE ready == [x EXCEPT !.drain = CanStartAnotherRound(@)]
    <2>1. Marked(ready, p)
      BY ZenonT(30), UpdateMarked
    <2> HIDE DEF ready
    <2>2. \A a, f : Marked(SendEnvelope([ready EXCEPT !.adapter = a], f), p)
      BY ZenonT(30), <2>1, UpdateMarked, SendMarked
    <2>3. Marked(NoProgress(ready), p)
      BY ZenonT(30), <2>1, UpdateMarked DEF NoProgress
    <2> QED BY ZenonT(30), <1>2, <2>1, <2>2, <2>3 DEF HandleRequest, ready
  <1> QED BY <1>1, <1>3, <1>4, <1>5, <1>6, EndMarked DEF HandleEvent, FrameTypes

LEMMA ProcessEventConforms ==
    ASSUME SessionInv, PlainInv, ConformInv, ProcessEvent
    PROVE  ConformInv'
  <1> DEFINE event == Head(session.events)
             rest == Tail(session.events)
             y == [session EXCEPT !.events = Tail(@)]
             z == HandleEvent(y, event)
  <1>1. /\ session' = EndIfStopped(z) /\ wire' = wire /\ faults' \in {faults, faults + 1}
        /\ Live(session) /\ session.events # <<>>
    BY ZenonT(30) DEF ProcessEvent, deviceVars
  <1>2. /\ session \in Sessions /\ session.events \in Seq(Events(has))
        /\ wire \in Seq(Backed(has)) /\ listed \subseteq Items /\ Sound(session.drain)
    BY <1>1 DEF SessionInv, SessionOK, Sound, None
  <1>3. event \in Events(has) /\ rest \in Seq(Events(has))
    BY <1>1, <1>2, HeadTailProperties
  <1>4. /\ event \in Frames \cup {Fatal} /\ rest \in Seq(Frames \cup {Fatal})
        /\ event.type = "SUMMARY" => event.ids \subseteq Uploads
    BY <1>3, BackedFacts
  <1>5. y \in Sessions
    <2>1. y = [session EXCEPT !.events = rest]
      OBVIOUS
    <2> HIDE DEF rest
    <2> QED BY ZenonT(30), <1>2, <1>4, <2>1 DEF Sessions
  <1>6. z \in Sessions
    BY ZenonT(30), <1>2, <1>4, <1>5, HandleEventFacts DEF Follows
  <1>7. z.pushed = session.pushed
    <2>1. Marked(y, session.pushed)
      BY <1>2 DEF Marked, Sessions
    <2>2. event.type \in FrameTypes \cup {"FATAL"}
      BY <1>4 DEF Frames, Fatal
    <2>3. Marked(z, session.pushed)
      BY <2>1, <2>2, HandleEventMarked
    <2> QED BY <2>3 DEF Marked
  <1>8. ASSUME Strict
        PROVE  Kept(z) /\ (z.drain.reason = None => Conforms(z, wire))
    <2>1. Conforms(session, wire)
      BY <1>1, <1>8 DEF ConformInv
    <2>2. PICK x : x = [session EXCEPT !.events = Tail(@)]
      BY ZenonT(30)
    <2>3. LET v == HandleEvent(x, Head(session.events))
          IN  v.pushed = session.pushed /\ Kept(v) /\ (v.drain.reason = None => Conforms(v, wire))
      BY ZenonT(30), <1>1, <1>2, <2>1, <2>2, HandlingConforms
    <2> QED BY ZenonT(30), <2>2, <2>3
  <1> HIDE DEF z
  <1>9. /\ session'.drain = z.drain /\ session'.pushed = z.pushed
        /\ session'.oversize = z.oversize
    BY <1>1, <1>6, EndingKeeps
  <1>10. faults' = 0 => faults = 0
    BY <1>1 DEF PlainInv
  <1>11. ASSUME Strict'
         PROVE  Kept(session') /\ (Live(session') => Conforms(session', wire'))
    <2>1. Strict
      BY <1>7, <1>9, <1>10, <1>11 DEF Strict
    <2>2. CASE z.drain.reason = None
      <3>1. session' = z
        BY ZenonT(30), <1>1, <1>6, <2>2, EndIfStoppedFacts
      <3> QED BY ZenonT(30), <1>1, <1>8, <2>1, <2>2, <3>1
    <2>3. CASE z.drain.reason # None
      <3>1. ~Live(session')
        BY <1>1, <1>6, <2>3, EndIfStoppedFacts
      <3> QED BY ZenonT(30), <1>8, <1>9, <2>1, <3>1 DEF Kept
    <2> QED BY <2>2, <2>3
  <1> QED BY <1>11, ConformAfter

LEMMA ReadErrorOrSilenceConforms ==
    ASSUME SessionInv, ReadError \/ Silence
    PROVE  ConformInv'
  <1>1. PICK r \in {"client_disconnect", "client_silence"} : session' = End(session, r)
    BY DEF ReadError, Silence
  <1>2. /\ session \in Sessions /\ session.drain \in DrainStates
        /\ session.drain.reason = None /\ r \in StopReasons \ {None}
    BY ZenonT(30), SessionParts
       DEF SessionInv, SessionOK, ReadError, Silence, Idle, StopReasons, None
  <1> DEFINE d == Stop(session.drain, r)
             y == [session EXCEPT !.drain = d]
  <1>3. d \in DrainStates /\ d.reason = r
    BY <1>2, StopFacts DEF Stop, DrainStates
  <1>4. session' = EndIfStopped(y)
    BY <1>1 DEF End
  <1> HIDE DEF d
  <1>5. y \in Sessions /\ y.drain = d
    BY ZenonT(30), <1>2, <1>3 DEF Sessions
  <1> HIDE DEF y
  <1>6. session'.drain = d
    BY <1>4, <1>5, EndingKeeps
  <1>7. Sound(session'.drain)
    BY <1>1, <1>3, <1>6 DEF Sound
  <1>8. ~Live(session')
    BY <1>1, <1>2, EndFacts
  <1> QED BY <1>7, <1>8, ConformAfter DEF Kept

LEMMA HangUpConforms == HangUp => ConformInv'
  <1> SUFFICES ASSUME HangUp PROVE ConformInv'
    OBVIOUS
  <1>1. session' = NoSession
    BY DEF HangUp
  <1>2. Sound(session'.drain) /\ ~Live(session')
    BY <1>1, NoSessionFacts, NewDrainSessionFacts DEF Sound, None, Live
  <1> QED BY <1>2, ConformAfter DEF Kept

\* A fault ends what ConformInv says; a push does too, and neither is taken back.
LEMMA FaultsConform ==
    ASSUME PlainInv, HandlerFails \/ TransferFails \/ TimeUp \/ Disconnect
    PROVE  ConformInv'
  <1>1. faults' = faults + 1
    BY DEF HandlerFails, TransferFails, TimeUp, Disconnect
  <1>2. faults' # 0
    BY <1>1 DEF PlainInv
  <1> QED BY <1>2, ConformAfter DEF Strict

LEMMA PushConforms ==
    ASSUME SessionInv, ConformInv, FlushPush
    PROVE  ConformInv'
  <1>1. faults' = faults /\ wire' = wire
    BY DEF FlushPush, deviceVars
  <1> DEFINE send == Append(session.send, Frame("SUMMARY", Preview(listed \ acked, 0)))
  <1>2. session' \in {session, [session EXCEPT !.missed = TRUE],
                     [session EXCEPT !.send = send, !.pushed = TRUE]}
    BY ZenonT(30) DEF FlushPush
  <1> HIDE DEF send
  <1>3. CASE session' \in {session, [session EXCEPT !.missed = TRUE]}
    <2>1. /\ session'.send = session.send /\ session'.events = session.events
          /\ session'.adapter = session.adapter /\ session'.phase = session.phase
          /\ session'.drain = session.drain /\ session'.pushed = session.pushed
          /\ session'.oversize = session.oversize
      BY ZenonT(30), <1>3 DEF SessionInv, SessionOK, Sessions
    <2>2. Conforms(session, wire) => Conforms(session', wire')
      BY ZenonT(30), <1>1, <2>1 DEF Conforms, InRound, HelloFirst
    <2> QED BY ZenonT(30), <1>1, <2>1, <2>2, ConformAfter DEF ConformInv, Strict, Kept, Live
  <1>4. CASE session' = [session EXCEPT !.send = send, !.pushed = TRUE]
    <2>1. session'.pushed
      BY ZenonT(30), <1>4 DEF SessionInv, SessionOK, Sessions
    <2> QED BY <2>1, ConformAfter DEF Strict
  <1> QED BY ZenonT(30), <1>2, <1>3, <1>4

LEMMA DeviceReceivesConforms ==
    ASSUME SessionInv, ConformInv, DeviceReceives
    PROVE  ConformInv'
  <1>1. /\ faults' = faults /\ session.send # <<>>
        /\ wire' = wire \o Answer(Head(session.send))
        /\ session' = [session EXCEPT !.send = Tail(@)]
    BY DEF DeviceReceives
  <1>2. /\ session \in Sessions /\ session.events \in Seq(Events(has)) /\ wire \in Seq(Backed(has))
    BY DEF SessionInv, SessionOK
  <1>3. /\ session'.send = Tail(session.send) /\ session'.events = session.events
        /\ session'.adapter = session.adapter /\ session'.phase = session.phase
        /\ session'.drain = session.drain /\ session'.pushed = session.pushed
        /\ session'.oversize = session.oversize
    BY ZenonT(30), <1>1, <1>2 DEF Sessions
  <1>4. ASSUME Conforms(session, wire)
        PROVE  Conforms(session', wire')
    <2>1. PICK y : y = session'
      OBVIOUS
    <2>2. /\ y.send = Tail(session.send) /\ y.events = session.events
          /\ y.adapter = session.adapter /\ y.phase = session.phase
      BY ZenonT(30), <1>3, <2>1
    <2>3. Conforms(y, wire \o Answer(Head(session.send)))
      BY ZenonT(30), <1>1, <1>2, <1>4, <2>2, AnsweringConforms
    <2> QED BY ZenonT(30), <1>1, <2>1, <2>3
  <1>5. (Strict' => Strict) /\ (Live(session') => Live(session))
    BY <1>1, <1>3 DEF Strict, Live
  <1> QED BY <1>3, <1>4, <1>5, ConformAfter DEF ConformInv, Kept

LEMMA DeviceOffersConforms ==
    ASSUME SessionInv, ConformInv, DeviceOffers
    PROVE  ConformInv'
  <1>1. /\ faults' = faults /\ session' = session
        /\ wire' = Append(wire, Frame("SUMMARY", Uploads))
    BY DEF DeviceOffers, relayVars
  <1>2. /\ session \in Sessions /\ session.events \in Seq(Events(has)) /\ wire \in Seq(Backed(has))
    BY DEF SessionInv, SessionOK
  <1>3. Conforms(session, wire) => Conforms(session, Append(wire, Frame("SUMMARY", Uploads)))
    BY <1>2, OfferingConforms
  <1>4. Conforms(session, wire) => Conforms(session', wire')
    BY ZenonT(30), <1>1, <1>3
  <1>5. Strict' => Strict
    BY <1>1 DEF Strict
  <1> QED BY <1>1, <1>4, <1>5, ConformAfter DEF ConformInv

LEMMA ConformNext ==
    ASSUME LimitsFit, SessionInv, PlainInv, ConformInv, [ClientSessionNext]_csVars
    PROVE  ConformInv'
  <1>1. CASE SessionStep
    BY <1>1, ConnectConforms, ReadMessageConforms, ProcessEventConforms,
       ReadErrorOrSilenceConforms, HangUpConforms DEF SessionStep
  <1>2. CASE HandlerFails \/ TransferFails \/ TimeUp \/ Disconnect
    BY <1>2, FaultsConform
  <1>3. ASSUME UNCHANGED <<session, wire, faults>>
        PROVE  ConformInv'
    BY <1>3, ConformAfter DEF ConformInv, Strict
  <1>4. ASSUME NEW i \in Items, Ingest(i) \/ Expire(i)
        PROVE  ConformInv'
    BY <1>3, <1>4 DEF Ingest, Expire, deviceVars
  <1>5. CASE FlushPush
    BY <1>5, PushConforms
  <1>6. CASE DeviceReceives \/ DeviceOffers
    BY <1>6, DeviceReceivesConforms, DeviceOffersConforms
  <1>7. CASE UNCHANGED csVars
    BY <1>3, <1>7 DEF csVars, relayVars, deviceVars
  <1> QED BY ZenonT(30), <1>1, <1>2, <1>4, <1>5, <1>6, <1>7 DEF ClientSessionNext

\* With limits that fit, whatever the stores hold and however the frames are cut into
\* messages, processEvents drops no device that follows the protocol as one that breaks
\* it, unless a push went into the session, a store call failed, or the items it asked
\* for are too large for one frame.  How large items are is not limited.
THEOREM ConformingDevicesAreServed ==
    ASSUME LimitsFit
    PROVE  ClientSessionSpec => []FatalOnlyAfterPush
  <1>1. SessionInv /\ PlainInv /\ ConformInv /\ [ClientSessionNext]_csVars
          => (SessionInv /\ PlainInv /\ ConformInv)'
    BY SessionNext, PlainNext, ConformNext
  <1>2. PlainInv /\ ConformInv => FatalOnlyAfterPush
    <2>1. ASSUME PlainInv, faults # 0
          PROVE  faults > 0
      BY <2>1 DEF PlainInv
    <2> QED BY ZenonT(30), <2>1 DEF ConformInv, Strict, Kept, Sound, FatalOnlyAfterPush
  <1> QED BY <1>1, <1>2, SessionInit, PlainInit, ConformInit, PTL DEF ClientSessionSpec
=============================================================================
