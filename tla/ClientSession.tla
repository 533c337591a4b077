---------------------------- MODULE ClientSession ----------------------------
(***************************************************************************)
(* The sessions of one device of a recipient with the relay: WSHandler's   *)
(* read loop and frame handlers, with their drain session and adapter, and *)
(* the device at the other end, which is external.  Over its sessions the  *)
(* device fetches what is stored for it and uploads what it has to send.   *)
(*                                                                         *)
(* A handler is one step.  What a TRANSFER goes through on its way into    *)
(* the stores is the subject of StoreForward and one step here.            *)
(***************************************************************************)
EXTENDS DrainSession

CONSTANTS Items,               \* digests of the items for this recipient, in digest order
          StartItems,          \* those stored from the start
          Expiring,            \* those that may expire
          Unservable,          \* stored with bytes that do not hash to the id
          Refused,             \* items the device does not import
          Uploads,             \* digests of items the device has for others
          MaxChunk,            \* frames in one inbound message
          SendCapacity,        \* of the Send channel
          PushOnIngest,
          MaxFaults            \* broken connections, failed store calls, expired clocks

ASSUME SessionAssumption ==
    /\ Items \subseteq Nat \ {0} /\ Uploads \subseteq Nat \ {0}
    /\ IsFiniteSet(Items) /\ IsFiniteSet(Uploads) /\ Items \cap Uploads = {}
    /\ StartItems \subseteq Items /\ Expiring \subseteq Items
    /\ MaxChunk \in {1, 2} /\ SendCapacity \in Nat \ {0}
    /\ PushOnIngest \in BOOLEAN
    /\ MaxFaults \in Nat

VARIABLES arriving,            \* items other senders have still to transfer
          listed,              \* items with an unexpired envelope for the recipient
          acked,               \* items acknowledged by the device (ackState)
          stored,              \* uploads that reached the relay's stores
          session,             \* the relay's clientSession
          online,              \* does the device think it is connected?
          wire,                \* frames from the device the relay has not read
          has,                 \* items the device has imported
          offered,             \* has the device offered its uploads in this session?
          pushDue,             \* a summary push is scheduled
          silenceTimeout,      \* is SilenceTimeout above 0?  Its default, 0, is none.
          faults

relayVars  == <<arriving, listed, acked, stored, session, pushDue, silenceTimeout>>
deviceVars == <<online, wire, has, offered>>
csVars     == <<relayVars, deviceVars, faults>>

Frames == [type : FrameTypes, ids : SUBSET (Items \cup Uploads)]

(***************************************************************************)
(* The session, with what has happened to it: a summary was pushed into it *)
(* (pushed); a push was dropped or an upload could not be stored, of which *)
(* the device is not told (missed); a TRANSFER was too large for a frame   *)
(* (oversize).                                                             *)
(***************************************************************************)
NoSession ==
    [phase |-> "none", drain |-> NewDrainSession, adapter |-> NewSessionAdapter,
     cursor |-> 0, send |-> <<>>, events |-> <<>>,
     pushed |-> FALSE, missed |-> FALSE, oversize |-> FALSE]

ClientSessionInit ==
    /\ arriving = Items \ StartItems
    /\ listed = StartItems
    /\ acked = {} /\ stored = {}
    /\ session = NoSession
    /\ online = FALSE /\ wire = <<>> /\ has = {} /\ offered = FALSE
    /\ pushDue = FALSE
    /\ silenceTimeout \in BOOLEAN
    /\ faults = 0

-----------------------------------------------------------------------------
(***************************************************************************)
(* What the handlers are made of.  A session that has a stop reason after  *)
(* a handler has ended: readPump returns.                                  *)
(***************************************************************************)
Live(x) == x.phase \in {"greeting", "open"}

\* Mutant: a session that should yield goes on.
EndUnlessYield(x) ==
    IF x.drain.reason \in {None, "fairness_yield"} THEN x
    ELSE [x EXCEPT !.phase = "ended", !.events = <<>>]

EndIfStopped(x) ==
    IF x.drain.reason = None THEN x ELSE [x EXCEPT !.phase = "ended", !.events = <<>>]

End(x, reason) == EndIfStopped([x EXCEPT !.drain = Stop(@, reason)])

\* A frame that cannot be encoded is an error of the handler.  sendBinary gives up on a
\* channel that stays full.
SendEnvelope(x, frame) ==
    LET size    == FrameBytes[frame.type]
        allowed == CanSendBytes(x.drain, size)
    IN  IF ~Encodes(frame)
          THEN [x EXCEPT !.drain = Stop(@, "protocol_fatal"), !.oversize = TRUE]
        ELSE IF allowed.reason # None THEN [x EXCEPT !.drain = allowed]
        ELSE IF Len(x.send) >= SendCapacity
          THEN [x EXCEPT !.drain = Stop(allowed, "transport_backpressure")]
          ELSE [x EXCEPT !.send = Append(@, frame), !.drain = RecordBytes(allowed, size)]

\* The cursor after a preview: its last id, 0 for "".
LastOf(ids) == IF ids = {} THEN 0 ELSE CHOOSE i \in ids : \A j \in ids : j <= i

\* The preview of buildRecipientSummary: the next page after the cursor, or the
\* first one again when nothing is left behind it.
Preview(eligible, cursor) ==
    LET behind == {i \in eligible : i > cursor}
    IN  FirstOf(IF behind = {} THEN eligible ELSE behind, MaxSummaryPreviewItems)

SendDrainSummary(x, ackedNow) ==
    LET ready    == [x EXCEPT !.drain = CanStartAnotherRound(@)]
        eligible == listed \ ackedNow
        preview  == Preview(eligible, x.cursor)
        turned   == [ready EXCEPT !.cursor = LastOf(preview),
                                  !.drain = IF eligible = {} THEN CompleteRound(@, FALSE)
                                            ELSE @]
    IN  IF ready.drain.reason # None THEN ready
        ELSE SendEnvelope(turned, Frame("SUMMARY", preview))

NoProgress(x) == [x EXCEPT !.drain = CompleteRound(@, FALSE)]

-----------------------------------------------------------------------------
(***************************************************************************)
(* The handlers, as what becomes of the session.                           *)
(***************************************************************************)
HandleHello(x) ==
    IF x.phase = "open" THEN End(x, "protocol_fatal")
    ELSE SendDrainSummary([x EXCEPT !.phase = "open"], acked)

\* computeMissingWant over the preview of a device's summary, without candidates.
MissingWant(preview) == FirstOf(preview \ stored, MaxWantItems)

HandleSummary(x, ids) ==
    LET want == MissingWant(ids)
    IN  SendEnvelope(IF want = {} THEN NoProgress(x) ELSE x, Frame("REQUEST", want))

\* What of a REQUEST can be sent: bytes that hash to the id, for this recipient.
Transferable(want) == FirstOf((want \cap listed) \ Unservable, MaxTransferItems)

HandleRequest(x, want) ==
    LET ready   == [x EXCEPT !.drain = CanStartAnotherRound(@)]
        objects == Transferable(want)
    IN  IF want = {} THEN NoProgress(x)
        ELSE IF ready.drain.reason # None THEN ready
        ELSE IF objects = {} THEN NoProgress(ready)
        ELSE SendEnvelope([ready EXCEPT !.adapter = SetExpectedReceipt(objects)],
                          Frame("TRANSFER", objects))

HandleTransfer(x, ids) ==
    SendEnvelope([x EXCEPT !.drain = CompleteRound(@, ids # {})], Frame("RECEIPT", ids))

\* Only a receipt that acknowledged something new is followed by another summary.
HandleReceipt(x, ids) ==
    LET transitioned == ids \ acked
        done == [x EXCEPT !.drain = CompleteRound(@, transitioned # {})]
    IN  IF transitioned = {} THEN [done EXCEPT !.drain = CanStartAnotherRound(@)]
        ELSE SendDrainSummary(done, acked \cup ids)

\* Mutant: what is sent counts as acknowledged.
AckedAfterSent(x, event) ==
    IF event.type = "REQUEST" /\ x.phase = "open" THEN acked \cup Transferable(event.ids)
    ELSE acked

\* What the RECEIPT lists is acknowledged, in one transaction.
AckedAfter(x, event) ==
    IF event.type = "RECEIPT" /\ x.phase = "open" THEN acked \cup event.ids ELSE acked

HandleEvent(x, event) ==
    CASE event.type = "FATAL"                              -> End(x, "protocol_fatal")
      [] event.type = "HELLO"                              -> HandleHello(x)
      [] event.type \notin {"FATAL", "HELLO"} /\ x.phase # "open" -> End(x, "protocol_fatal")
      [] event.type = "SUMMARY"  /\ x.phase = "open"       -> HandleSummary(x, event.ids)
      [] event.type = "REQUEST"  /\ x.phase = "open"       -> HandleRequest(x, event.ids)
      [] event.type = "TRANSFER" /\ x.phase = "open"       -> HandleTransfer(x, event.ids)
      [] event.type = "RECEIPT"  /\ x.phase = "open"       -> HandleReceipt(x, event.ids)

-----------------------------------------------------------------------------
(***************************************************************************)
(* The relay's steps.                                                      *)
(***************************************************************************)
\* HandleWebSocket and the start of readPump; the device sends its HELLO at once.
Connect ==
    /\ session.phase = "none"
    /\ LET drain == RecordBytes(NewDrainSession, FrameBytes["HELLO"])
           fresh == [NoSession EXCEPT !.phase = "greeting", !.drain = drain]
       IN  session' = IF drain.reason # None THEN EndIfStopped(fresh)
                      ELSE [fresh EXCEPT !.send = <<Frame("HELLO", {})>>]
    /\ online' = TRUE
    /\ wire' = <<Frame("HELLO", {})>>
    /\ offered' = FALSE
    /\ UNCHANGED <<arriving, listed, acked, stored, has, pushDue, silenceTimeout, faults>>

ChunkBytes(chunk) ==
    FrameBytes[chunk[1].type] + (IF Len(chunk) = 2 THEN FrameBytes[chunk[2].type] ELSE 0)

\* ReadMessage: one inbound message of one or more frames is counted and parsed.
ReadMessage ==
    /\ Live(session)
    /\ session.events = <<>>
    /\ \E k \in 1 .. MaxChunk :
          /\ k <= Len(wire)
          /\ LET chunk == SubSeq(wire, 1, k)
                 size  == ChunkBytes(chunk)
                 drain == RecordBytes(session.drain, size)
                 read  == [session EXCEPT !.drain = drain]
             IN  session' = IF drain.reason # None THEN EndIfStopped(read)
                            ELSE [read EXCEPT
                                    !.events  = PushInbound(session.adapter, chunk),
                                    !.adapter = AfterInbound(session.adapter, chunk)]
          /\ wire' = SubSeq(wire, k + 1, Len(wire))
    /\ UNCHANGED <<arriving, listed, acked, stored, pushDue, silenceTimeout,
                   online, has, offered, faults>>

\* One turn of processEvents.  While the device reads, the timeout of sendBinary
\* counts as a fault: a handler waits for room in Send.
ProcessEvent ==
    /\ Live(session)
    /\ session.events # <<>>
    /\ \E event \in {Head(session.events)}, x \in {[session EXCEPT !.events = Tail(@)]} :
       \E y \in {EndIfStopped(HandleEvent(x, event))} :
       LET timedOut == y.drain.reason = "transport_backpressure"
       IN  /\ timedOut /\ online => faults < MaxFaults
           /\ faults' = IF timedOut /\ online THEN faults + 1 ELSE faults
           /\ session' = y
           /\ acked' = AckedAfter(x, event)
           /\ stored' = IF event.type = "TRANSFER" /\ x.phase = "open"
                          THEN stored \cup event.ids ELSE stored
    /\ UNCHANGED <<arriving, listed, pushDue, silenceTimeout, deviceVars>>

\* A store call of the handler fails.  A lookup for a REQUEST that fails is an
\* ordinary error to processEvents and so protocol_fatal; a RECEIPT may fail after
\* its marks are written, at the summary.
HandlerFails ==
    /\ Live(session)
    /\ session.events # <<>>
    /\ faults < MaxFaults
    /\ LET event == Head(session.events)
       IN  /\ \/ event.type = "HELLO" /\ session.phase = "greeting"
              \/ event.type \in {"SUMMARY", "REQUEST", "RECEIPT"} /\ session.phase = "open"
           /\ session' = End(session, IF event.type = "REQUEST" THEN "protocol_fatal"
                                     ELSE "storage_error")
           /\ \/ UNCHANGED acked
              \/ event.type = "RECEIPT" /\ acked' = acked \cup event.ids
    /\ faults' = faults + 1
    /\ UNCHANGED <<arriving, listed, stored, pushDue, silenceTimeout, deviceVars>>

(***************************************************************************)
(* Store calls of handleTransfer fail.  When it is the lookup of an object *)
(* the handler returns, with earlier objects stored and no RECEIPT; when   *)
(* it is a write, the object is left out of the RECEIPT, and hasObjectID   *)
(* may find what was written of it.                                        *)
(***************************************************************************)
TransferFails ==
    /\ session.phase = "open"
    /\ session.events # <<>>
    /\ faults < MaxFaults
    /\ \E event \in {Head(session.events)}, x \in {[session EXCEPT !.events = Tail(@)]} :
          /\ event.type = "TRANSFER"
          /\ \E accepted \in SUBSET event.ids \ {event.ids} :
                \/ /\ session' = End(x, "protocol_fatal")
                   /\ stored' = stored \cup accepted
                \/ /\ session' = EndIfStopped(HandleTransfer([x EXCEPT !.missed = TRUE], accepted))
                   /\ \E written \in SUBSET event.ids :
                         stored' = stored \cup accepted \cup written
    /\ faults' = faults + 1
    /\ UNCHANGED <<arriving, listed, acked, pushDue, silenceTimeout, deviceVars>>

\* The connection is gone and everything that came over it has been read.
ReadError ==
    /\ Live(session)
    /\ session.events = <<>> /\ wire = <<>>
    /\ ~online
    /\ session' = End(session, "client_disconnect")
    /\ UNCHANGED <<arriving, listed, acked, stored, pushDue, silenceTimeout, deviceVars, faults>>

\* Everything is handled, and the device has nothing to answer and nothing to say.
Idle ==
    /\ Live(session)
    /\ session.events = <<>> /\ wire = <<>> /\ session.send = <<>>
    /\ online
    /\ offered \/ Uploads = {}

\* The read deadline passes; readPump sets one only for a SilenceTimeout above 0.
Silence ==
    /\ silenceTimeout
    /\ Idle
    /\ session' = End(session, "client_silence")
    /\ UNCHANGED <<arriving, listed, acked, stored, pushDue, silenceTimeout, deviceVars, faults>>

\* The goroutines of an ended session are done: what is still queued is not sent.
HangUp ==
    /\ session.phase = "ended"
    /\ session' = NoSession
    /\ online' = FALSE
    /\ wire' = <<>>
    /\ UNCHANGED <<arriving, listed, acked, stored, pushDue, silenceTimeout, has, offered, faults>>

\* The session's wall clock budget is used up.
TimeUp ==
    /\ WallClockBudget
    /\ Live(session)
    /\ ~session.drain.timeUp
    /\ faults < MaxFaults
    /\ session' = [session EXCEPT !.drain.timeUp = TRUE]
    /\ faults' = faults + 1
    /\ UNCHANGED <<arriving, listed, acked, stored, pushDue, silenceTimeout, deviceVars>>

\* Another session's TRANSFER brings an item for the recipient.
Ingest(i) ==
    /\ i \in arriving
    /\ arriving' = arriving \ {i}
    /\ listed' = listed \cup {i}
    /\ pushDue' = (pushDue \/ PushOnIngest)
    /\ UNCHANGED <<acked, stored, session, silenceTimeout, deviceVars, faults>>

Expire(i) ==
    /\ i \in listed \cap Expiring
    /\ listed' = listed \ {i}
    /\ UNCHANGED <<arriving, acked, stored, session, pushDue, silenceTimeout, deviceVars, faults>>

(***************************************************************************)
(* pushSummaryToOnlineRecipient: from the first page, past the budgets and *)
(* without moving the session's cursor; dropped when Send is full.         *)
(***************************************************************************)
FlushPush ==
    /\ pushDue
    /\ pushDue' = FALSE
    /\ session' =
          IF session.phase # "open" \/ listed \ acked = {} THEN session
          ELSE IF Len(session.send) >= SendCapacity THEN [session EXCEPT !.missed = TRUE]
          ELSE [session EXCEPT !.send = Append(@, Frame("SUMMARY", Preview(listed \ acked, 0))),
                               !.pushed = TRUE]
    /\ UNCHANGED <<arriving, listed, acked, stored, silenceTimeout, deviceVars, faults>>

-----------------------------------------------------------------------------
(***************************************************************************)
(* The device (external).  It answers each frame as the relay itself does: *)
(* a SUMMARY with a REQUEST, a REQUEST with a TRANSFER, a TRANSFER with a  *)
(* RECEIPT for what it imported.  It asks for every item previewed, also   *)
(* one it has: the relay cannot know of a RECEIPT that was lost.           *)
(***************************************************************************)
Answer(frame) ==
    CASE frame.type = "SUMMARY"  -> <<Frame("REQUEST", frame.ids)>>
      [] frame.type = "REQUEST"  -> IF frame.ids = {} THEN <<>>
                                    ELSE <<Frame("TRANSFER", frame.ids)>>
      [] frame.type = "TRANSFER" -> <<Frame("RECEIPT", frame.ids \ Refused)>>
      [] frame.type \in {"HELLO", "RECEIPT"} -> <<>>

DeviceReceives ==
    /\ online
    /\ session.send # <<>>
    /\ LET frame == Head(session.send)
       IN  /\ has' = IF frame.type = "TRANSFER" THEN has \cup (frame.ids \ Refused) ELSE has
           /\ wire' = wire \o Answer(frame)
    /\ session' = [session EXCEPT !.send = Tail(@)]
    /\ UNCHANGED <<arriving, listed, acked, stored, pushDue, silenceTimeout,
                   online, offered, faults>>

DeviceOffers ==
    /\ online
    /\ Uploads # {} /\ ~offered
    /\ offered' = TRUE
    /\ wire' = Append(wire, Frame("SUMMARY", Uploads))
    /\ UNCHANGED <<relayVars, online, has, faults>>

\* The connection breaks; some of what the device sent may still arrive.
Disconnect ==
    /\ online
    /\ faults < MaxFaults
    /\ online' = FALSE
    /\ \E k \in 0 .. Len(wire) : wire' = SubSeq(wire, 1, k)
    /\ faults' = faults + 1
    /\ UNCHANGED <<relayVars, has, offered>>

-----------------------------------------------------------------------------
\* The session's reading goroutine; at most one of its steps can be next.
SessionStep == \/ Connect \/ ReadMessage \/ ProcessEvent
               \/ ReadError \/ Silence \/ HangUp

ClientSessionNext ==
    \/ SessionStep
    \/ HandlerFails \/ TransferFails \/ TimeUp
    \/ \E i \in Items : Ingest(i) \/ Expire(i)
    \/ FlushPush
    \/ DeviceReceives \/ DeviceOffers \/ Disconnect

ClientSessionSpec == ClientSessionInit /\ [][ClientSessionNext]_csVars

(***************************************************************************)
(* The goroutines of a session run, a read deadline fires where there is   *)
(* one, a push timer fires, and the device reads, offers and connects      *)
(* again.  Nothing makes items arrive or expire, and nothing ends a        *)
(* session without a deadline that has gone idle.                          *)
(***************************************************************************)
ClientSessionFairness ==
    /\ WF_csVars(SessionStep) /\ WF_csVars(FlushPush)
    /\ WF_csVars(DeviceReceives) /\ WF_csVars(DeviceOffers)

FairClientSessionSpec == ClientSessionSpec /\ ClientSessionFairness

-----------------------------------------------------------------------------
(***************************************************************************)
(* Properties.                                                             *)
(***************************************************************************)
\* The session's parts are well formed; a session that is live has no stop reason
\* and one that has ended has.
ClientSessionTypeOK ==
    /\ arriving \subseteq Items /\ listed \subseteq Items
    /\ acked \subseteq Items /\ stored \subseteq Uploads
    /\ session.phase \in {"none", "greeting", "open", "ended"}
    /\ session.drain \in DrainStates
    /\ session.adapter \in [awaiting : BOOLEAN, expected : SUBSET Items]
    /\ session.cursor \in Items \cup {0}
    /\ session.send \in Seq(Frames) /\ session.events \in Seq(Frames \cup {Fatal})
    /\ {session.pushed, session.missed, session.oversize} \subseteq BOOLEAN
    /\ Live(session) => session.drain.reason = None
    /\ session.phase = "ended" => session.drain.reason # None
    /\ online \in BOOLEAN /\ wire \in Seq(Frames)
    /\ has \subseteq Items /\ offered \in BOOLEAN
    /\ pushDue \in BOOLEAN /\ silenceTimeout \in BOOLEAN /\ faults \in Nat

(***************************************************************************)
(* No delivery is lost: an item the relay no longer offers a device,       *)
(* because it counts as acknowledged, is an item the device has imported,  *)
(* whatever TRANSFERs and RECEIPTs were cut off by a stop, a break or a    *)
(* failed store call, or overtaken by a pushed summary.                    *)
(***************************************************************************)
AckedIsDelivered == acked \subseteq has

(***************************************************************************)
(* The check before a send and the counts after it agree at the limit: no  *)
(* frame is queued that brings the bytes of the session, sent and          *)
(* received, to their budget, or after the last round or past the time of  *)
(* the session.  A pushed summary is not the session's own and heeds the   *)
(* byte budget only in that a session past it has ended.                   *)
(***************************************************************************)
QueuedFramesFit ==
    [][Len(session'.send) > Len(session.send) =>
          /\ ByteBudget > 0 => session'.drain.bytes < ByteBudget
          /\ \/ pushDue /\ ~pushDue'
             \/ /\ RoundBudget > 0 => session'.drain.rounds < RoundBudget
                /\ ~session'.drain.timeUp]_csVars

(***************************************************************************)
(* What one side may put into a frame the other side accepts: a page may   *)
(* be asked for, and the device previews and transfers no more than the    *)
(* protocol's limits.  Nothing limits the size of what the relay sends.    *)
(***************************************************************************)
LimitsFit ==
    /\ MaxSummaryPreviewItems <= MaxWantItems
    /\ Cardinality(Uploads) <= MaxSummaryPreviewItems
    /\ Cardinality(Uploads) <= MaxTransferItems

(***************************************************************************)
(* A device that follows the protocol is not dropped for breaking it,      *)
(* unless a summary was pushed into the session (its answer may overlap    *)
(* with the round in progress, and then the second RECEIPT finds nothing   *)
(* expected), the items it asked for are too large for one frame           *)
(* (handleRequest limits their number only), or a store lookup failed.     *)
(***************************************************************************)
FatalOnlyAfterPush ==
    session.drain.reason = "protocol_fatal" =>
        session.pushed \/ session.oversize \/ faults > 0

Drained == /\ listed \ (Unservable \cup Refused) \subseteq acked
           /\ Uploads \subseteq stored

\* The first page a session offers cannot be sent: every session ends at it.
Jammed == ~Encodes(Frame("TRANSFER", Transferable(Preview(listed \ acked, 0))))

\* A session that nothing ends, and whose device was not told of something.
Stranded == ~silenceTimeout /\ Idle /\ session.missed

(***************************************************************************)
(* Queues drain over sessions: time and again the device has acknowledged  *)
(* everything that is stored for it, can be served and is not refused by   *)
(* it, and what it has to send has reached the stores, in spite of yields, *)
(* budgets, pages, and finitely many faults.  Two things stop it: a first  *)
(* page too large for a frame, and, when no SilenceTimeout is set (the     *)
(* default), a session that goes idle after a push was dropped or an       *)
(* upload was left out of its RECEIPT.  With a timeout only the first.     *)
(***************************************************************************)
QueuesDrain == []<>(Drained \/ Jammed \/ Stranded)
=============================================================================
