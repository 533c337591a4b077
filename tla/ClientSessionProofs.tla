------------------------- MODULE ClientSessionProofs -------------------------
(***************************************************************************)
(* The sessions of a device, for any limits, budgets and sets of items.    *)
(***************************************************************************)
EXTENDS ClientSession, SessionAdapterProofs, WellFoundedInduction

(***************************************************************************)
(* The drain session.  A reason stays, and a check that finds none says    *)
(* that every budget has something left.                                   *)
(***************************************************************************)
BytesLeft(d)  == ByteBudget > 0 => d.bytes < ByteBudget
RoundsLeft(d) == RoundBudget > 0 => d.rounds < RoundBudget
TimeLeft(d)   == ~(WallClockBudget /\ d.timeUp)

SameCounts(d, e) == e.rounds = d.rounds /\ e.streak = d.streak
                    /\ e.bytes = d.bytes /\ e.timeUp = d.timeUp

LEMMA WithReason ==
    ASSUME NEW d \in DrainStates, NEW r \in StopReasons
    PROVE  /\ [d EXCEPT !.reason = r] \in DrainStates
           /\ [d EXCEPT !.reason = r].reason = r
           /\ SameCounts(d, [d EXCEPT !.reason = r])
  BY DEF DrainStates, SameCounts

LEMMA CheckBudgetsFacts ==
    ASSUME NEW d \in DrainStates
    PROVE  /\ CheckBudgets(d) \in DrainStates
           /\ SameCounts(d, CheckBudgets(d))
           /\ d.reason # None => CheckBudgets(d).reason = d.reason
           /\ CheckBudgets(d).reason = None => BytesLeft(d) /\ RoundsLeft(d) /\ TimeLeft(d)
  <1> DEFINE exceeded == IF RoundBudget > 0 /\ d.rounds >= RoundBudget    THEN "round_budget"
                         ELSE IF WallClockBudget /\ d.timeUp              THEN "time_budget"
                         ELSE IF ByteBudget > 0 /\ d.bytes >= ByteBudget  THEN "byte_budget"
                         ELSE None
  <1> DEFINE r == IF d.reason = None THEN exceeded ELSE d.reason
  <1>1. d.rounds \in Nat /\ d.bytes \in Nat /\ d.reason \in StopReasons
    BY DEF DrainStates
  <1>2. /\ r \in StopReasons
        /\ d.reason # None => r = d.reason
        /\ r = None => BytesLeft(d) /\ RoundsLeft(d) /\ TimeLeft(d)
    BY <1>1, LimitAssumption DEF StopReasons, None, BytesLeft, RoundsLeft, TimeLeft
  <1>3. CheckBudgets(d) = [d EXCEPT !.reason = r]
    BY DEF CheckBudgets
  <1> HIDE DEF r
  <1> QED BY <1>2, <1>3, WithReason

LEMMA RecordBytesFacts ==
    ASSUME NEW d \in DrainStates, NEW n \in Nat
    PROVE  /\ RecordBytes(d, n) \in DrainStates
           /\ RecordBytes(d, n).bytes = d.bytes + n
           /\ RecordBytes(d, n).rounds = d.rounds /\ RecordBytes(d, n).timeUp = d.timeUp
           /\ RecordBytes(d, n).reason = None =>
                 /\ d.reason = None
                 /\ BytesLeft(RecordBytes(d, n)) /\ RoundsLeft(d) /\ TimeLeft(d)
  <1> DEFINE e == [d EXCEPT !.bytes = @ + n]
  <1>1. /\ e \in DrainStates /\ e.bytes = d.bytes + n /\ e.rounds = d.rounds
        /\ e.timeUp = d.timeUp /\ e.reason = d.reason
    BY DEF DrainStates
  <1>2. RecordBytes(d, n) = CheckBudgets(e)
    BY DEF RecordBytes
  <1> HIDE DEF e
  <1> QED BY <1>1, <1>2, CheckBudgetsFacts DEF SameCounts, BytesLeft, RoundsLeft, TimeLeft

LEMMA CanSendBytesFacts ==
    ASSUME NEW d \in DrainStates, NEW n \in Nat
    PROVE  /\ CanSendBytes(d, n) \in DrainStates
           /\ SameCounts(d, CanSendBytes(d, n))
           /\ d.reason # None => CanSendBytes(d, n).reason = d.reason
           /\ CanSendBytes(d, n).reason = None =>
                 /\ BytesLeft(d) /\ RoundsLeft(d) /\ TimeLeft(d)
                 /\ ByteBudget > 0 => d.bytes + n < ByteBudget
  <1> DEFINE checked == CheckBudgets(d)
  <1>1. /\ checked \in DrainStates /\ SameCounts(d, checked)
        /\ d.reason # None => checked.reason = d.reason
        /\ checked.reason = None => BytesLeft(d) /\ RoundsLeft(d) /\ TimeLeft(d)
    BY CheckBudgetsFacts
  <1>2. d.bytes \in Nat /\ "byte_budget" \in StopReasons /\ "byte_budget" # None
    BY DEF DrainStates, StopReasons, None
  <1>3. CanSendBytes(d, n) = IF checked.reason = None /\ ByteBudget > 0 /\ d.bytes + n >= ByteBudget
                               THEN [checked EXCEPT !.reason = "byte_budget"]
                               ELSE checked
    BY DEF CanSendBytes
  <1> HIDE DEF checked
  <1>4. CASE checked.reason = None /\ ByteBudget > 0 /\ d.bytes + n >= ByteBudget
    BY <1>1, <1>2, <1>3, <1>4, WithReason DEF SameCounts
  <1>5. CASE ~(checked.reason = None /\ ByteBudget > 0 /\ d.bytes + n >= ByteBudget)
    BY <1>1, <1>2, <1>3, <1>5, LimitAssumption
  <1> QED BY <1>4, <1>5

LEMMA CompleteRoundFacts ==
    ASSUME NEW d \in DrainStates, NEW p \in BOOLEAN
    PROVE  /\ CompleteRound(d, p) \in DrainStates
           /\ CompleteRound(d, p).bytes = d.bytes /\ CompleteRound(d, p).timeUp = d.timeUp
           /\ CompleteRound(d, p).reason = d.reason
  <1> DEFINE s == IF p THEN 0 ELSE d.streak + 1
  <1>1. s \in Nat /\ d.rounds + 1 \in Nat
    BY DEF DrainStates
  <1>2. CompleteRound(d, p) = [d EXCEPT !.rounds = d.rounds + 1, !.streak = s]
    BY DEF CompleteRound
  <1> HIDE DEF s
  <1> QED BY ZenonT(30), <1>1, <1>2 DEF DrainStates

LEMMA CanStartAnotherRoundFacts ==
    ASSUME NEW d \in DrainStates
    PROVE  /\ CanStartAnotherRound(d) \in DrainStates
           /\ SameCounts(d, CanStartAnotherRound(d))
           /\ d.reason # None => CanStartAnotherRound(d).reason = d.reason
  <1> DEFINE checked == CheckBudgets(d)
             stalled == NoProgressRoundCap > 0 /\ d.streak >= NoProgressRoundCap
             yields  == /\ YieldEveryNRounds > 0
                        /\ d.rounds > 0
                        /\ d.rounds % YieldEveryNRounds = 0
             r == IF checked.reason # None THEN checked.reason
                  ELSE IF stalled THEN "repeated_no_progress"
                  ELSE IF yields  THEN "fairness_yield"
                  ELSE None
  <1>1. /\ checked \in DrainStates /\ SameCounts(d, checked)
        /\ d.reason # None => checked.reason = d.reason
    BY CheckBudgetsFacts
  <1>2. CanStartAnotherRound(d) = [checked EXCEPT !.reason = r]
    BY DEF CanStartAnotherRound
  <1> HIDE DEF checked, stalled, yields
  <1>3. r \in StopReasons /\ (d.reason # None => r = d.reason)
    BY <1>1 DEF DrainStates, StopReasons, None
  <1> HIDE DEF r
  <1> QED BY <1>1, <1>2, <1>3, WithReason DEF SameCounts

LEMMA StopFacts ==
    ASSUME NEW d \in DrainStates, NEW r \in StopReasons \ {None}
    PROVE  /\ Stop(d, r) \in DrainStates /\ Stop(d, r).reason # None
           /\ SameCounts(d, Stop(d, r))
           /\ d.reason # None => Stop(d, r).reason = d.reason
  <1>1. CASE d.reason = None
    BY <1>1, WithReason DEF Stop
  <1>2. CASE d.reason # None
    BY <1>2 DEF Stop, SameCounts
  <1> QED BY <1>1, <1>2

LEMMA NewDrainSessionFacts ==
    /\ NewDrainSession \in DrainStates /\ NewDrainSession.reason = None
    /\ NewDrainSession.bytes = 0 /\ NewDrainSession.rounds = 0 /\ ~NewDrainSession.timeUp
  BY DEF NewDrainSession, DrainStates, StopReasons, None

-----------------------------------------------------------------------------
(***************************************************************************)
(* Sessions.                                                               *)
(***************************************************************************)
Adapters == [awaiting : BOOLEAN, expected : SUBSET Items]
Cursors  == {LastOf(ids) : ids \in SUBSET Items}
Phases   == {"none", "greeting", "open", "ended"}

\* What the relay sends: previews and objects are items, on a page, and it asks for uploads.
Outbound == {f \in Frames :
                /\ f.type = "SUMMARY" => /\ f.ids \subseteq Items
                                         /\ Cardinality(f.ids) <= MaxSummaryPreviewItems
                /\ f.type = "TRANSFER" => /\ f.ids \subseteq Items
                                          /\ Cardinality(f.ids) <= MaxTransferItems
                /\ f.type = "REQUEST" => f.ids \subseteq Uploads}

Sessions == [phase : Phases, drain : DrainStates, adapter : Adapters, cursor : Cursors,
             send : Seq(Outbound), events : Seq(Frames \cup {Fatal}),
             pushed : BOOLEAN, missed : BOOLEAN, oversize : BOOLEAN]

\* x and y differ at most in what a handler does before it sends.
Prepares(x, y) == /\ y \in Sessions
                  /\ y.send = x.send /\ y.events = x.events /\ y.phase \in {x.phase, "open"}
                  /\ y.drain.bytes = x.drain.bytes /\ y.drain.timeUp = x.drain.timeUp
                  /\ x.drain.reason # None => y.drain.reason # None

\* What is true of a session y that a handler makes of x: a frame is queued only within
\* the budgets, and a session that may go on has bytes left.
Follows(x, y) == /\ y \in Sessions
                 /\ y.events \in {x.events, <<>>}
                 /\ y.phase = "ended" => x.phase = "ended" \/ y.drain.reason # None
                 /\ y.drain.timeUp = x.drain.timeUp
                 /\ y.drain.reason = None /\ BytesLeft(x.drain) => BytesLeft(y.drain)
                 /\ \/ y.send = x.send
                    \/ BytesLeft(y.drain) /\ RoundsLeft(y.drain) /\ TimeLeft(y.drain)

LEMMA SessionParts ==
    ASSUME NEW x \in Sessions
    PROVE  /\ x.phase \in Phases /\ x.drain \in DrainStates /\ x.adapter \in Adapters
           /\ x.cursor \in Cursors /\ x.send \in Seq(Outbound)
           /\ x.events \in Seq(Frames \cup {Fatal})
           /\ x.pushed \in BOOLEAN /\ x.missed \in BOOLEAN /\ x.oversize \in BOOLEAN
  BY DEF Sessions

LEMMA WithDrain ==
    ASSUME NEW x \in Sessions, NEW d \in DrainStates, NEW y, y = [x EXCEPT !.drain = d]
    PROVE  /\ y \in Sessions /\ y.drain = d /\ y.send = x.send /\ y.events = x.events
           /\ y.phase = x.phase
  BY DEF Sessions

LEMMA PreparedFollows ==
    ASSUME NEW x \in Sessions, NEW y, Prepares(x, y)
    PROVE  Follows(x, y)
  BY DEF Prepares, Follows, BytesLeft

LEMMA PreparedThenFollows ==
    ASSUME NEW x \in Sessions, NEW y, NEW z, Prepares(x, y), Follows(y, z)
    PROVE  Follows(x, z)
  BY DEF Prepares, Follows, BytesLeft

LEMMA CountedPrepares ==
    ASSUME NEW x \in Sessions, NEW d \in DrainStates, NEW y, y = [x EXCEPT !.drain = d],
           d.bytes = x.drain.bytes, d.timeUp = x.drain.timeUp,
           x.drain.reason # None => d.reason # None
    PROVE  Prepares(x, y)
  BY WithDrain DEF Prepares

LEMMA NoSessionFacts ==
    /\ NoSession \in Sessions /\ NoSession.drain = NewDrainSession
    /\ NoSession.send = <<>> /\ NoSession.events = <<>> /\ NoSession.phase = "none"
  <1>1. NewSessionAdapter \in Adapters
    BY DEF NewSessionAdapter, Adapters
  <1>2. 0 \in Cursors
    <2>1. LastOf({}) = 0
      BY DEF LastOf
    <2> QED BY <2>1 DEF Cursors
  <1>3. <<>> \in Seq(Outbound) /\ <<>> \in Seq(Frames \cup {Fatal})
    OBVIOUS
  <1> QED BY <1>1, <1>2, <1>3, NewDrainSessionFacts DEF NoSession, Sessions, Phases

LEMMA EndIfStoppedFacts ==
    ASSUME NEW x \in Sessions
    PROVE  /\ Follows(x, EndIfStopped(x))
           /\ EndIfStopped(x).drain = x.drain /\ EndIfStopped(x).send = x.send
           /\ Live(EndIfStopped(x)) => x.drain.reason = None
           /\ x.drain.reason = None => EndIfStopped(x) = x
  <1>1. CASE x.drain.reason = None
    BY <1>1 DEF EndIfStopped, Follows, BytesLeft
  <1>2. CASE x.drain.reason # None
    <2> DEFINE y == [x EXCEPT !.phase = "ended", !.events = <<>>]
    <2>1. EndIfStopped(x) = y
      BY <1>2 DEF EndIfStopped
    <2>2. /\ y \in Sessions /\ y.phase = "ended" /\ y.events = <<>> /\ y.drain = x.drain
          /\ y.send = x.send
      <3>1. "ended" \in Phases
        BY DEF Phases
      <3>2. PICK none \in Seq(Frames \cup {Fatal}) : none = <<>>
        BY ZenonT(30), EmptySeq
      <3>3. y = [x EXCEPT !.phase = "ended", !.events = none]
        BY <3>2
      <3> HIDE DEF y
      <3>4. /\ y \in Sessions /\ y.phase = "ended" /\ y.events = none /\ y.drain = x.drain
            /\ y.send = x.send
        BY ZenonT(30), <3>1, <3>3 DEF Sessions
      <3> QED BY <3>2, <3>4
    <2> HIDE DEF y
    <2> QED BY <1>2, <2>1, <2>2 DEF Follows, BytesLeft, Live
  <1> QED BY <1>1, <1>2

LEMMA EndFacts ==
    ASSUME NEW x \in Sessions, NEW r \in StopReasons \ {None}
    PROVE  Follows(x, End(x, r)) /\ ~Live(End(x, r)) /\ End(x, r).send = x.send
  <1> DEFINE d == Stop(x.drain, r)
             y == [x EXCEPT !.drain = d]
  <1>1. d \in DrainStates /\ d.reason # None /\ SameCounts(x.drain, d)
    BY SessionParts, StopFacts
  <1>2. End(x, r) = EndIfStopped(y)
    BY DEF End
  <1> HIDE DEF d
  <1>3. y \in Sessions /\ y.drain = d /\ y.send = x.send /\ Prepares(x, y)
    BY <1>1, WithDrain, CountedPrepares DEF SameCounts
  <1> HIDE DEF y
  <1>4. Follows(y, EndIfStopped(y)) /\ EndIfStopped(y).send = y.send
        /\ ~Live(EndIfStopped(y))
    BY <1>1, <1>3, EndIfStoppedFacts
  <1> QED BY <1>2, <1>3, <1>4, PreparedThenFollows

LEMMA SendEnvelopeFacts ==
    ASSUME NEW x \in Sessions, NEW frame \in Outbound
    PROVE  Follows(x, SendEnvelope(x, frame))
  <1> DEFINE size == FrameBytes[frame.type]
             allowed == CanSendBytes(x.drain, size)
             recorded == RecordBytes(allowed, size)
             refused == Stop(x.drain, "protocol_fatal")
             slow == Stop(allowed, "transport_backpressure")
  <1>0. x.drain \in DrainStates /\ x.send \in Seq(Outbound)
    BY SessionParts
  <1>1. size \in Nat
    BY LimitAssumption DEF Outbound, Frames
  <1>2. SendEnvelope(x, frame) =
          IF ~Encodes(frame) THEN [x EXCEPT !.drain = refused, !.oversize = TRUE]
          ELSE IF allowed.reason # None THEN [x EXCEPT !.drain = allowed]
          ELSE IF Len(x.send) >= SendCapacity THEN [x EXCEPT !.drain = slow]
          ELSE [x EXCEPT !.send = Append(x.send, frame), !.drain = recorded]
    BY DEF SendEnvelope
  <1> HIDE DEF size
  <1>3. /\ allowed \in DrainStates /\ SameCounts(x.drain, allowed)
        /\ x.drain.reason # None => allowed.reason = x.drain.reason
        /\ allowed.reason = None =>
              /\ BytesLeft(x.drain) /\ RoundsLeft(x.drain) /\ TimeLeft(x.drain)
              /\ ByteBudget > 0 => x.drain.bytes + size < ByteBudget
    BY <1>0, <1>1, CanSendBytesFacts
  <1> HIDE DEF allowed
  <1>4. /\ "protocol_fatal" \in StopReasons \ {None}
        /\ "transport_backpressure" \in StopReasons \ {None}
    BY DEF StopReasons, None
  <1>5. CASE ~Encodes(frame)
    <2>1. refused \in DrainStates /\ SameCounts(x.drain, refused) /\ refused.reason # None
      BY <1>0, <1>4, StopFacts
    <2> HIDE DEF refused
    <2>2. PICK y : y = [x EXCEPT !.drain = refused, !.oversize = TRUE]
      OBVIOUS
    <2>3. /\ y \in Sessions /\ y.send = x.send /\ y.events = x.events /\ y.drain = refused
          /\ y.phase = x.phase
      BY ZenonT(30), <2>1, <2>2 DEF Sessions
    <2>4. Prepares(x, y)
      BY <2>1, <2>3 DEF SameCounts, Prepares
    <2> QED BY <1>2, <1>5, <2>2, <2>4, PreparedFollows
  <1>6. CASE Encodes(frame) /\ allowed.reason # None
    <2>1. Prepares(x, [x EXCEPT !.drain = allowed])
      BY <1>3, <1>6, CountedPrepares DEF SameCounts
    <2> QED BY <1>2, <1>6, <2>1, PreparedFollows
  <1>7. CASE Encodes(frame) /\ allowed.reason = None /\ Len(x.send) >= SendCapacity
    <2>1. slow \in DrainStates /\ SameCounts(allowed, slow) /\ slow.reason # None
      BY <1>3, <1>4, StopFacts
    <2> HIDE DEF slow
    <2>2. Prepares(x, [x EXCEPT !.drain = slow])
      BY <1>3, <2>1, CountedPrepares DEF SameCounts
    <2> QED BY <1>2, <1>7, <2>2, PreparedFollows
  <1>8. CASE Encodes(frame) /\ allowed.reason = None /\ ~(Len(x.send) >= SendCapacity)
    <2> DEFINE sent == Append(x.send, frame)
               y == [x EXCEPT !.send = sent, !.drain = recorded]
    <2>1. sent \in Seq(Outbound)
      BY <1>0, AppendProperties
    <2>2. /\ recorded \in DrainStates /\ recorded.bytes = x.drain.bytes + size
          /\ recorded.rounds = x.drain.rounds /\ recorded.timeUp = x.drain.timeUp
      BY <1>1, <1>3, RecordBytesFacts DEF SameCounts
    <2>3. BytesLeft(recorded) /\ RoundsLeft(recorded) /\ TimeLeft(recorded)
      BY <1>3, <1>8, <2>2 DEF BytesLeft, RoundsLeft, TimeLeft
    <2> HIDE DEF sent, recorded
    <2>4. y \in Sessions /\ y.drain = recorded /\ y.events = x.events /\ y.phase = x.phase
      BY ZenonT(30), <2>1, <2>2 DEF Sessions
    <2>5. SendEnvelope(x, frame) = y
      BY <1>2, <1>8 DEF sent
    <2> HIDE DEF y
    <2> QED BY <2>2, <2>3, <2>4, <2>5 DEF Follows
  <1> QED BY <1>5, <1>6, <1>7, <1>8

-----------------------------------------------------------------------------
(***************************************************************************)
(* The handlers.                                                           *)
(***************************************************************************)
LEMMA FrameFacts ==
    ASSUME NEW type \in FrameTypes, NEW ids \in SUBSET (Items \cup Uploads)
    PROVE  Frame(type, ids) \in Frames
  BY DEF Frame, Frames

LEMMA OutboundFacts ==
    /\ \A type \in {"HELLO", "RECEIPT"}, ids \in SUBSET (Items \cup Uploads) :
          Frame(type, ids) \in Outbound
    /\ \A ids \in SUBSET Items :
          Cardinality(ids) <= MaxSummaryPreviewItems => Frame("SUMMARY", ids) \in Outbound
    /\ \A ids \in SUBSET Items :
          Cardinality(ids) <= MaxTransferItems => Frame("TRANSFER", ids) \in Outbound
    /\ \A ids \in SUBSET Uploads : Frame("REQUEST", ids) \in Outbound
  <1>1. \A type \in FrameTypes, ids \in SUBSET (Items \cup Uploads) :
           /\ Frame(type, ids) \in Frames
           /\ Frame(type, ids).type = type /\ Frame(type, ids).ids = ids
    BY DEF Frame, Frames
  <1> QED BY <1>1 DEF Outbound, FrameTypes

\* Every set of items or uploads is finite and consists of naturals.
LEMMA ItemSets ==
    ASSUME NEW ids, ids \subseteq Items \/ ids \subseteq Uploads
    PROVE  ids \in SUBSET Nat /\ IsFiniteSet(ids) /\ Cardinality(ids) \in Nat
  <1>1. ids \subseteq Nat
    BY ZenonT(30), SessionAssumption
  <1>2. IsFiniteSet(ids)
    BY ZenonT(30), SessionAssumption, FS_Subset
  <1> QED BY ZenonT(30), <1>1, <1>2, FS_CardinalityType

LEMMA PreviewFacts ==
    ASSUME NEW eligible \in SUBSET Items, NEW cursor
    PROVE  /\ Preview(eligible, cursor) \in SUBSET eligible
           /\ Frame("SUMMARY", Preview(eligible, cursor)) \in Outbound
  <1> DEFINE behind == {i \in eligible : i > cursor}
             ids == IF behind = {} THEN eligible ELSE behind
  <1>1. Preview(eligible, cursor) = FirstOf(ids, MaxSummaryPreviewItems) /\ ids \subseteq eligible
    BY DEF Preview
  <1> HIDE DEF ids
  <1>2. /\ FirstOf(ids, MaxSummaryPreviewItems) \subseteq ids
        /\ Cardinality(FirstOf(ids, MaxSummaryPreviewItems)) <= MaxSummaryPreviewItems
    <2>1. ids \in SUBSET Nat /\ IsFiniteSet(ids) /\ MaxSummaryPreviewItems \in Nat
      BY ZenonT(30), <1>1, ItemSets, ProtocolAssumption
    <2> QED BY ZenonT(30), <2>1, PageWithinLimit
  <1> QED BY ZenonT(30), <1>1, <1>2, OutboundFacts

LEMMA FirstOfFacts == \A ids, limit : FirstOf(ids, limit) \subseteq ids
  BY DEF FirstOf

LEMMA NoProgressFacts ==
    ASSUME NEW x \in Sessions
    PROVE  Prepares(x, NoProgress(x))
  <1> DEFINE d == CompleteRound(x.drain, FALSE)
  <1>1. /\ d \in DrainStates /\ d.bytes = x.drain.bytes /\ d.timeUp = x.drain.timeUp
        /\ d.reason = x.drain.reason
    BY ZenonT(30), SessionParts, CompleteRoundFacts
  <1>2. NoProgress(x) = [x EXCEPT !.drain = d]
    BY DEF NoProgress
  <1> HIDE DEF d
  <1> QED BY <1>1, <1>2, CountedPrepares

LEMMA RoundChecked ==
    ASSUME NEW x \in Sessions, NEW y, y = [x EXCEPT !.drain = CanStartAnotherRound(@)]
    PROVE  Prepares(x, y)
  <1> DEFINE d == CanStartAnotherRound(x.drain)
  <1>1. d \in DrainStates /\ SameCounts(x.drain, d) /\ (x.drain.reason # None => d.reason # None)
    BY SessionParts, CanStartAnotherRoundFacts
  <1>2. y = [x EXCEPT !.drain = d]
    OBVIOUS
  <1> HIDE DEF d
  <1> QED BY <1>1, <1>2, CountedPrepares DEF SameCounts

LEMMA RoundCompleted ==
    ASSUME NEW x \in Sessions, NEW p \in BOOLEAN, NEW y, y = [x EXCEPT !.drain = CompleteRound(@, p)]
    PROVE  Prepares(x, y)
  <1> DEFINE d == CompleteRound(x.drain, p)
  <1>1. /\ d \in DrainStates /\ d.bytes = x.drain.bytes /\ d.timeUp = x.drain.timeUp
        /\ d.reason = x.drain.reason
    BY SessionParts, CompleteRoundFacts
  <1>2. y = [x EXCEPT !.drain = d]
    OBVIOUS
  <1> HIDE DEF d
  <1> QED BY <1>1, <1>2, CountedPrepares

LEMMA PreparesTwice ==
    ASSUME NEW x, NEW y, NEW z, Prepares(x, y), Prepares(y, z)
    PROVE  Prepares(x, z)
  BY DEF Prepares

LEMMA WithCursorAndDrain ==
    ASSUME NEW x \in Sessions, NEW k \in Cursors, NEW d \in DrainStates,
           d.bytes = x.drain.bytes, d.timeUp = x.drain.timeUp, d.reason = x.drain.reason,
           NEW y, y = [x EXCEPT !.cursor = k, !.drain = d]
    PROVE  Prepares(x, y)
  <1>1. /\ y \in Sessions /\ y.send = x.send /\ y.events = x.events /\ y.drain = d
        /\ y.phase = x.phase
    BY ZenonT(30) DEF Sessions
  <1> QED BY <1>1 DEF Prepares

LEMMA SendDrainSummaryFacts ==
    ASSUME NEW x \in Sessions, NEW ackedNow, listed \subseteq Items
    PROVE  Follows(x, SendDrainSummary(x, ackedNow))
  <1> DEFINE ready    == [x EXCEPT !.drain = CanStartAnotherRound(@)]
             eligible == listed \ ackedNow
             preview  == Preview(eligible, x.cursor)
             d        == IF eligible = {} THEN CompleteRound(ready.drain, FALSE) ELSE ready.drain
             k        == LastOf(preview)
             turned   == [ready EXCEPT !.cursor = k, !.drain = d]
  <1>1. SendDrainSummary(x, ackedNow) =
          IF ready.drain.reason # None THEN ready
          ELSE SendEnvelope(turned, Frame("SUMMARY", preview))
    BY DEF SendDrainSummary
  <1>2. Prepares(x, ready)
    BY RoundChecked
  <1>3. preview \subseteq Items /\ Frame("SUMMARY", preview) \in Outbound
    BY PreviewFacts
  <1> HIDE DEF preview
  <1>4. k \in Cursors
    BY <1>3 DEF Cursors
  <1> HIDE DEF ready
  <1>5. ready \in Sessions /\ ready.drain \in DrainStates
    BY <1>2, SessionParts DEF Prepares
  <1>6. /\ d \in DrainStates /\ d.bytes = ready.drain.bytes /\ d.timeUp = ready.drain.timeUp
        /\ d.reason = ready.drain.reason
    BY ZenonT(30), <1>5, CompleteRoundFacts
  <1> HIDE DEF k, d
  <1>7. Prepares(ready, turned)
    BY ZenonT(30), <1>4, <1>5, <1>6, WithCursorAndDrain
  <1> HIDE DEF turned
  <1>8. Prepares(x, turned) /\ turned \in Sessions
    BY <1>2, <1>7, PreparesTwice DEF Prepares
  <1>9. Follows(x, SendEnvelope(turned, Frame("SUMMARY", preview)))
    BY <1>3, <1>8, SendEnvelopeFacts, PreparedThenFollows
  <1> QED BY <1>1, <1>2, <1>9, PreparedFollows

LEMMA HandleHelloFacts ==
    ASSUME NEW x \in Sessions, listed \subseteq Items
    PROVE  Follows(x, HandleHello(x))
  <1>1. CASE x.phase = "open"
    <2>1. "protocol_fatal" \in StopReasons \ {None}
      BY DEF StopReasons, None
    <2> QED BY <1>1, <2>1, EndFacts DEF HandleHello
  <1>2. CASE x.phase # "open"
    <2> DEFINE y == [x EXCEPT !.phase = "open"]
    <2>1. HandleHello(x) = SendDrainSummary(y, acked)
      BY <1>2 DEF HandleHello
    <2>2. /\ y \in Sessions /\ y.drain = x.drain /\ y.send = x.send /\ y.events = x.events
          /\ y.phase = "open"
      BY ZenonT(30) DEF Sessions, Phases
    <2> HIDE DEF y
    <2>3. Prepares(x, y)
      BY <2>2 DEF Prepares
    <2> QED BY <2>1, <2>2, <2>3, SendDrainSummaryFacts, PreparedThenFollows
  <1> QED BY <1>1, <1>2

LEMMA HandleSummaryFacts ==
    ASSUME NEW x \in Sessions, NEW ids \in SUBSET Uploads
    PROVE  Follows(x, HandleSummary(x, ids))
  <1> DEFINE want == MissingWant(ids)
             y == IF want = {} THEN NoProgress(x) ELSE x
  <1>1. HandleSummary(x, ids) = SendEnvelope(y, Frame("REQUEST", want))
    BY DEF HandleSummary
  <1>2. want \in SUBSET Uploads
    BY FirstOfFacts DEF MissingWant
  <1> HIDE DEF want
  <1>3. Frame("REQUEST", want) \in Outbound
    BY <1>2, OutboundFacts
  <1>4. Prepares(x, y) /\ y \in Sessions
    BY NoProgressFacts DEF Prepares
  <1> HIDE DEF y
  <1> QED BY <1>1, <1>3, <1>4, SendEnvelopeFacts, PreparedThenFollows

LEMMA HandleRequestFacts ==
    ASSUME NEW x \in Sessions, NEW want, listed \subseteq Items
    PROVE  Follows(x, HandleRequest(x, want))
  <1> DEFINE ready   == [x EXCEPT !.drain = CanStartAnotherRound(@)]
             objects == Transferable(want)
             a       == SetExpectedReceipt(objects)
             y       == [ready EXCEPT !.adapter = a]
  <1>1. HandleRequest(x, want) =
          IF want = {} THEN NoProgress(x)
          ELSE IF ready.drain.reason # None THEN ready
          ELSE IF objects = {} THEN NoProgress(ready)
          ELSE SendEnvelope(y, Frame("TRANSFER", objects))
    BY DEF HandleRequest
  <1>2. Prepares(x, ready) /\ ready \in Sessions
    BY ZenonT(30), RoundChecked DEF Prepares
  <1>3. objects \in SUBSET Items /\ Frame("TRANSFER", objects) \in Outbound
    <2> DEFINE ids == (want \cap listed) \ Unservable
    <2>1. ids \in SUBSET Nat /\ IsFiniteSet(ids) /\ ids \subseteq Items
      BY ItemSets
    <2>2. objects = FirstOf(ids, MaxTransferItems)
      BY DEF Transferable
    <2> HIDE DEF ids
    <2>3. MaxTransferItems \in Nat
      BY ProtocolAssumption
    <2>4. objects \subseteq ids /\ Cardinality(objects) <= MaxTransferItems
      BY ZenonT(30), <2>1, <2>2, <2>3, PageWithinLimit
    <2> QED BY ZenonT(30), <2>1, <2>4, OutboundFacts
  <1> HIDE DEF ready, objects
  <1>4. a \in Adapters
    BY <1>3 DEF SetExpectedReceipt, Adapters
  <1> HIDE DEF a
  <1>5. /\ y \in Sessions /\ y.drain = ready.drain /\ y.send = ready.send
        /\ y.events = ready.events /\ y.phase = ready.phase
    BY ZenonT(30), <1>2, <1>4 DEF Sessions
  <1> HIDE DEF y
  <1>6. Prepares(ready, y)
    BY <1>5 DEF Prepares
  <1>7. Prepares(x, y) /\ Prepares(x, NoProgress(ready)) /\ Prepares(x, NoProgress(x))
    BY <1>2, <1>6, PreparesTwice, NoProgressFacts
  <1>8. Follows(x, SendEnvelope(y, Frame("TRANSFER", objects)))
    BY <1>3, <1>5, <1>7, SendEnvelopeFacts, PreparedThenFollows
  <1> QED BY <1>1, <1>2, <1>7, <1>8, PreparedFollows

LEMMA HandleTransferFacts ==
    ASSUME NEW x \in Sessions, NEW ids \in SUBSET (Items \cup Uploads)
    PROVE  Follows(x, HandleTransfer(x, ids))
  <1> DEFINE y == [x EXCEPT !.drain = CompleteRound(@, ids # {})]
  <1>1. HandleTransfer(x, ids) = SendEnvelope(y, Frame("RECEIPT", ids))
    BY DEF HandleTransfer
  <1>2. Prepares(x, y) /\ y \in Sessions
    BY ZenonT(30), RoundCompleted DEF Prepares
  <1> HIDE DEF y
  <1>3. Frame("RECEIPT", ids) \in Outbound
    BY OutboundFacts
  <1> QED BY <1>1, <1>2, <1>3, SendEnvelopeFacts, PreparedThenFollows

LEMMA HandleReceiptFacts ==
    ASSUME NEW x \in Sessions, NEW ids, listed \subseteq Items
    PROVE  Follows(x, HandleReceipt(x, ids))
  <1> DEFINE transitioned == ids \ acked
             done == [x EXCEPT !.drain = CompleteRound(@, transitioned # {})]
             y == [done EXCEPT !.drain = CanStartAnotherRound(@)]
  <1>1. HandleReceipt(x, ids) = IF transitioned = {} THEN y ELSE SendDrainSummary(done, acked \cup ids)
    BY DEF HandleReceipt
  <1>2. Prepares(x, done) /\ done \in Sessions
    BY ZenonT(30), RoundCompleted DEF Prepares
  <1> HIDE DEF done
  <1>3. Prepares(x, y)
    BY <1>2, RoundChecked, PreparesTwice
  <1> HIDE DEF y
  <1>4. Follows(x, SendDrainSummary(done, acked \cup ids))
    BY <1>2, SendDrainSummaryFacts, PreparedThenFollows
  <1> QED BY <1>1, <1>3, <1>4, PreparedFollows

LEMMA HandleEventFacts ==
    ASSUME NEW x \in Sessions, NEW event \in Frames \cup {Fatal}, listed \subseteq Items,
           event.type = "SUMMARY" => event.ids \subseteq Uploads
    PROVE  Follows(x, HandleEvent(x, event))
  <1>1. "protocol_fatal" \in StopReasons \ {None}
    BY DEF StopReasons, None
  <1>2. Follows(x, End(x, "protocol_fatal"))
    BY <1>1, EndFacts
  <1>3. /\ event.type \in FrameTypes \cup {"FATAL"}
        /\ event.ids \in SUBSET (Items \cup Uploads)
    BY DEF Frames, Fatal
  <1>4. CASE event.type = "FATAL"
    BY <1>2, <1>4 DEF HandleEvent
  <1>5. CASE event.type = "HELLO"
    BY <1>5, HandleHelloFacts DEF HandleEvent
  <1>6. CASE event.type \notin {"FATAL", "HELLO"} /\ x.phase # "open"
    BY <1>2, <1>6 DEF HandleEvent
  <1>7. CASE event.type = "SUMMARY" /\ x.phase = "open"
    BY <1>3, <1>7, HandleSummaryFacts DEF HandleEvent
  <1>8. CASE event.type = "REQUEST" /\ x.phase = "open"
    BY <1>3, <1>8, HandleRequestFacts DEF HandleEvent
  <1>9. CASE event.type = "TRANSFER" /\ x.phase = "open"
    BY <1>3, <1>9, HandleTransferFacts DEF HandleEvent
  <1>10. CASE event.type = "RECEIPT" /\ x.phase = "open"
    BY <1>3, <1>10, HandleReceiptFacts DEF HandleEvent
  <1> QED BY <1>3, <1>4, <1>5, <1>6, <1>7, <1>8, <1>9, <1>10 DEF FrameTypes

-----------------------------------------------------------------------------
(***************************************************************************)
(* The invariant.  A RECEIPT on its way, unread or parsed, lists what the  *)
(* device has imported, and as many items as a TRANSFER may have; a        *)
(* REQUEST asks for a page; a SUMMARY or TRANSFER is of uploads.  A        *)
(* session that goes on has bytes left.                                    *)
(***************************************************************************)
Backed(h) == {f \in Frames :
                 /\ f.type = "RECEIPT" => /\ f.ids \subseteq h
                                          /\ Cardinality(f.ids) <= MaxTransferItems
                 /\ f.type = "REQUEST" => Cardinality(f.ids) <= MaxSummaryPreviewItems
                 /\ f.type \in {"SUMMARY", "TRANSFER"} => f.ids \subseteq Uploads}

Events(h) == Backed(h) \cup {Fatal}

SessionOK(x) == /\ x \in Sessions
                /\ Live(x) => x.drain.reason = None /\ BytesLeft(x.drain)
                /\ x.phase = "ended" => x.drain.reason # None
                /\ x.drain.timeUp => WallClockBudget

SessionInv == /\ SessionOK(session)
              /\ listed \subseteq Items
              /\ wire \in Seq(Backed(has)) /\ session.events \in Seq(Events(has))
              /\ acked \subseteq has

LEMMA FollowsOK ==
    ASSUME NEW x, SessionOK(x), Live(x), BytesLeft(x.drain),
           NEW y, Follows(x, y), Live(y) => y.drain.reason = None
    PROVE  SessionOK(y)
  BY DEF SessionOK, Follows, Live

LEMMA BackedFacts ==
    ASSUME NEW h
    PROVE  /\ \A f \in Events(h) :
                 /\ f \in Frames \cup {Fatal}
                 /\ f.type = "RECEIPT" => f.ids \subseteq h
                 /\ f.type \in {"SUMMARY", "TRANSFER"} => f.ids \subseteq Uploads
           /\ \A f \in Frames : f.type = "HELLO" => f \in Backed(h)
           /\ <<>> \in Seq(Backed(h)) /\ <<>> \in Seq(Events(h))
           /\ Seq(Events(h)) \subseteq Seq(Frames \cup {Fatal})
  <1>1. Fatal.type = "FATAL"
    BY DEF Fatal
  <1>2. <<>> \in Seq(Backed(h)) /\ <<>> \in Seq(Events(h))
    BY EmptySeq
  <1>3. Events(h) \subseteq Frames \cup {Fatal}
    BY DEF Backed, Events
  <1>4. Seq(Events(h)) \subseteq Seq(Frames \cup {Fatal})
    BY <1>3, SeqMonotonic
  <1> QED BY <1>1, <1>2, <1>4 DEF Backed, Events

LEMMA BackedGrows ==
    ASSUME NEW h, NEW g, h \subseteq g
    PROVE  Seq(Backed(h)) \subseteq Seq(Backed(g)) /\ Seq(Events(h)) \subseteq Seq(Events(g))
  <1>1. Backed(h) \subseteq Backed(g) /\ Events(h) \subseteq Events(g)
    BY DEF Backed, Events
  <1> QED BY <1>1, SeqMonotonic

\* A frame that parses makes an event of its type.
LEMMA EventFacts ==
    ASSUME NEW h, NEW f \in Backed(h)
    PROVE  Event(f) \in Backed(h)
  <1>1. CASE f.type = "TRANSFER"
    <2>1. f.ids \subseteq Uploads
      BY <1>1 DEF Backed
    <2> DEFINE ids == WithinTransferBytes(f.ids)
    <2>2. ids \in SUBSET Uploads
      BY <2>1 DEF WithinTransferBytes
    <2>3. Event(f) = Frame("TRANSFER", ids)
      BY <1>1 DEF Event
    <2> HIDE DEF ids
    <2>4. /\ Frame("TRANSFER", ids) \in Frames /\ Frame("TRANSFER", ids).type = "TRANSFER"
          /\ Frame("TRANSFER", ids).ids = ids
      BY <2>2, FrameFacts DEF FrameTypes, Frame
    <2> QED BY <2>2, <2>3, <2>4 DEF Backed
  <1>2. CASE f.type # "TRANSFER"
    BY <1>2 DEF Event
  <1> QED BY <1>1, <1>2

LEMMA PushInboundFacts ==
    ASSUME NEW h, NEW adapter, NEW chunk \in Seq(Backed(h)), Len(chunk) \in {1, 2}
    PROVE  PushInbound(adapter, chunk) \in Seq(Events(h))
  <1> DEFINE events  == [k \in 1 .. Len(chunk) |-> Event(chunk[k])]
             refused == {k \in 1 .. Len(chunk) :
                           ~Parses(chunk[k]) \/ RefusedReceipt(adapter, chunk, k)}
             first   == CHOOSE k \in refused : \A j \in refused : k <= j
  <1>1. PushInbound(adapter, chunk) =
          IF refused = {} THEN events ELSE Append(SubSeq(events, 1, first - 1), Fatal)
    BY DEF PushInbound
  <1>2. \A k \in 1 .. Len(chunk) : chunk[k] \in Backed(h)
    BY ElementOfSeq
  <1>3. \A k \in 1 .. Len(chunk) : Event(chunk[k]) \in Events(h)
    BY <1>2, EventFacts DEF Events
  <1>4. events \in Seq(Events(h)) /\ \A k \in 1 .. Len(chunk) : events[k] \in Events(h)
    BY <1>3, IsASeq
  <1>5. refused \subseteq 1 .. Len(chunk)
    OBVIOUS
  <1> HIDE DEF events, refused
  <1>6. ASSUME refused # {}
        PROVE  Append(SubSeq(events, 1, first - 1), Fatal) \in Seq(Events(h))
    <2>0. refused \subseteq {1, 2}
      <3>1. CASE Len(chunk) = 1
        BY <1>5, <3>1
      <3>2. CASE Len(chunk) = 2
        BY <1>5, <3>2
      <3> QED BY <3>1, <3>2
    <2>1. \E k \in refused : \A j \in refused : k <= j
      <3>1. CASE 1 \in refused
        BY <2>0, <3>1
      <3>2. CASE 1 \notin refused
        <4>1. refused = {2}
          BY ZenonT(30), <1>6, <2>0, <3>2
        <4> QED BY <4>1
      <3> QED BY <3>1, <3>2
    <2>2. first \in refused
      BY <2>1
    <2> HIDE DEF first
    <2>3. first - 1 \in Int /\ \A i \in 1 .. first - 1 : i \in 1 .. Len(chunk)
      BY <1>5, <2>2
    <2>4. SubSeq(events, 1, first - 1) \in Seq(Events(h))
      BY <1>4, <2>3, SubSeqProperties
    <2> QED BY <2>4, AppendProperties DEF Events
  <1> QED BY <1>1, <1>4, <1>6

-----------------------------------------------------------------------------
LEMMA SessionInit == ClientSessionInit => SessionInv
  <1> SUFFICES ASSUME ClientSessionInit PROVE SessionInv
    OBVIOUS
  <1>1. session = NoSession /\ wire = <<>> /\ acked = {} /\ listed \subseteq Items
    BY SessionAssumption DEF ClientSessionInit
  <1>2. SessionOK(NoSession)
    BY NoSessionFacts, NewDrainSessionFacts DEF SessionOK, Live
  <1>3. NoSession.events \in Seq(Events(has)) /\ <<>> \in Seq(Backed(has))
    BY NoSessionFacts, BackedFacts
  <1> QED BY <1>1, <1>2, <1>3 DEF SessionInv

(***************************************************************************)
(* What QueuedFramesFit says of a step.                                    *)
(***************************************************************************)
QueueStep == Len(session'.send) > Len(session.send) =>
                /\ ByteBudget > 0 => session'.drain.bytes < ByteBudget
                /\ \/ pushDue /\ ~pushDue'
                   \/ /\ RoundBudget > 0 => session'.drain.rounds < RoundBudget
                      /\ ~session'.drain.timeUp

LEMMA ShorterQueue ==
    ASSUME session.send \in Seq(Outbound), session'.send \in {session.send, <<>>}
    PROVE  QueueStep
  BY DEF QueueStep

LEMMA ConnectStep == SessionInv /\ Connect => SessionInv' /\ QueueStep
  <1> SUFFICES ASSUME SessionInv, Connect PROVE SessionInv' /\ QueueStep
    OBVIOUS
  <1> DEFINE drain == RecordBytes(NewDrainSession, FrameBytes["HELLO"])
             fresh == [NoSession EXCEPT !.phase = "greeting", !.drain = drain]
             hello == <<Frame("HELLO", {})>>
             greeted == [fresh EXCEPT !.send = hello]
  <1>1. /\ session' = IF drain.reason # None THEN EndIfStopped(fresh) ELSE greeted
        /\ wire' = hello /\ has' = has /\ acked' = acked /\ listed' = listed
    BY DEF Connect
  <1>2. FrameBytes["HELLO"] \in Nat
    BY LimitAssumption DEF FrameTypes
  <1>3. /\ drain \in DrainStates /\ ~drain.timeUp
        /\ drain.reason = None => BytesLeft(drain) /\ RoundsLeft(drain)
    BY <1>2, NewDrainSessionFacts, RecordBytesFacts DEF RoundsLeft
  <1>4. /\ Frame("HELLO", {}) \in Frames /\ Frame("HELLO", {}).type = "HELLO"
        /\ Frame("HELLO", {}) \in Outbound
    BY FrameFacts, OutboundFacts DEF FrameTypes, Frame
  <1>5. hello \in Seq(Outbound) /\ hello \in Seq(Backed(has))
    BY <1>4, BackedFacts
  <1> HIDE DEF drain, hello
  <1>6. /\ fresh \in Sessions /\ fresh.drain = drain /\ fresh.events = <<>> /\ fresh.send = <<>>
        /\ fresh.phase = "greeting"
    BY ZenonT(30), <1>3, NoSessionFacts DEF Sessions, Phases
  <1> HIDE DEF fresh
  <1>7. /\ greeted \in Sessions /\ greeted.drain = drain /\ greeted.events = <<>>
        /\ greeted.phase = "greeting"
    BY <1>5, <1>6 DEF Sessions
  <1> HIDE DEF greeted
  <1>8. SessionOK(session') /\ session'.events = <<>>
    <2>1. CASE drain.reason # None
      BY ZenonT(30), <1>1, <1>3, <1>6, <2>1, EndIfStoppedFacts DEF SessionOK, Follows
    <2>2. CASE drain.reason = None
      BY <1>1, <1>3, <1>7, <2>2 DEF SessionOK
    <2> QED BY <2>1, <2>2
  <1>9. session'.events \in Seq(Events(has))
    BY <1>8, BackedFacts
  <1>10. QueueStep
    <2>1. CASE drain.reason # None
      <3>1. session'.send = <<>>
        BY <1>1, <1>6, <2>1, EndIfStoppedFacts
      <3> QED BY <3>1, ShorterQueue, SessionParts DEF SessionInv, SessionOK
    <2>2. CASE drain.reason = None
      BY <1>1, <1>3, <1>7, <2>2 DEF QueueStep, BytesLeft, RoundsLeft
    <2> QED BY <2>1, <2>2
  <1> QED BY ZenonT(30), <1>1, <1>5, <1>8, <1>9, <1>10 DEF SessionInv, SessionOK, BytesLeft

LEMMA ReadMessageStep == SessionInv /\ ReadMessage => SessionInv' /\ QueueStep
  <1> SUFFICES ASSUME SessionInv, ReadMessage PROVE SessionInv' /\ QueueStep
    OBVIOUS
  <1>1. PICK k \in 1 .. MaxChunk :
          /\ k <= Len(wire)
          /\ LET chunk == SubSeq(wire, 1, k)
                 size  == ChunkBytes(chunk)
                 drain == RecordBytes(session.drain, size)
                 read  == [session EXCEPT !.drain = drain]
             IN  session' = IF drain.reason # None THEN EndIfStopped(read)
                            ELSE [read EXCEPT
                                    !.events  = PushInbound(session.adapter, chunk),
                                    !.adapter = AfterInbound(session.adapter, chunk)]
          /\ wire' = SubSeq(wire, k + 1, Len(wire))
    BY ZenonT(30) DEF ReadMessage
  <1> DEFINE chunk == SubSeq(wire, 1, k)
             size  == ChunkBytes(chunk)
             drain == RecordBytes(session.drain, size)
             read  == [session EXCEPT !.drain = drain]
             events == PushInbound(session.adapter, chunk)
             adapter == AfterInbound(session.adapter, chunk)
             parsed == [read EXCEPT !.events = events, !.adapter = adapter]
  <1>2. /\ session' = IF drain.reason # None THEN EndIfStopped(read) ELSE parsed
        /\ wire' = SubSeq(wire, k + 1, Len(wire)) /\ k <= Len(wire)
    BY <1>1
  <1>3. has' = has /\ acked' = acked /\ listed' = listed /\ session.phase # "ended"
    BY DEF ReadMessage, Live
  <1>4. /\ wire \in Seq(Backed(has)) /\ session \in Sessions /\ Len(wire) \in Nat
        /\ \A i \in 1 .. Len(wire) : wire[i] \in Backed(has)
    BY ElementOfSeq, LenProperties DEF SessionInv, SessionOK
  <1>5. k \in {1, 2}
    BY SessionAssumption
  <1>6. wire' \in Seq(Backed(has))
    <2>1. \A i \in k + 1 .. Len(wire) : wire[i] \in Backed(has)
      BY <1>4, <1>5
    <2>2. k + 1 \in Int /\ Len(wire) \in Int
      BY <1>4, <1>5
    <2> QED BY <1>2, <2>1, <2>2, SubSeqProperties
  <1>7. chunk \in Seq(Backed(has)) /\ Len(chunk) = k
    <2>1. \A i \in 1 .. k : wire[i] \in Backed(has)
      BY <1>2, <1>4, <1>5
    <2>2. k \in Int /\ 1 \in Int /\ 1 <= k /\ k - 1 + 1 = k
      BY <1>5
    <2> QED BY <2>1, <2>2, SubSeqProperties
  <1> HIDE DEF chunk
  <1>8. size \in Nat
    <2>1. chunk[1] \in Frames /\ (Len(chunk) = 2 => chunk[2] \in Frames)
      BY <1>5, <1>7, ElementOfSeq DEF Backed
    <2>2. \A f \in Frames : FrameBytes[f.type] \in Nat
      BY LimitAssumption DEF Frames
    <2> QED BY <2>1, <2>2 DEF ChunkBytes
  <1>9. events \in Seq(Events(has)) /\ events \in Seq(Frames \cup {Fatal})
    BY ZenonT(30), <1>5, <1>7, PushInboundFacts, BackedFacts
  <1>10. adapter \in Adapters
    BY <1>4, SessionParts DEF AfterInbound, NewSessionAdapter, Adapters
  <1> HIDE DEF size, events, adapter
  <1>11. /\ drain \in DrainStates /\ drain.timeUp = session.drain.timeUp
         /\ drain.reason = None => BytesLeft(drain)
    BY ZenonT(30), <1>4, <1>8, SessionParts, RecordBytesFacts
  <1> HIDE DEF drain
  <1>12. /\ read \in Sessions /\ read.drain = drain /\ read.events = session.events
         /\ read.send = session.send /\ read.phase = session.phase
    BY <1>4, <1>11, WithDrain
  <1> HIDE DEF read
  <1>13. /\ parsed \in Sessions /\ parsed.drain = drain /\ parsed.events = events
         /\ parsed.send = session.send /\ parsed.phase = session.phase
    BY ZenonT(30), <1>9, <1>10, <1>12 DEF Sessions
  <1> HIDE DEF parsed
  <1>14. SessionOK(session') /\ session'.events \in Seq(Events(has))
    <2>1. CASE drain.reason # None
      <3>1. /\ Follows(read, session') /\ session'.drain = drain
            /\ ~Live(session')
        BY <1>2, <1>12, <2>1, EndIfStoppedFacts
      <3>2. session'.events = session.events \/ session'.events = <<>>
        BY ZenonT(30), <1>12, <3>1 DEF Follows
      <3>3. session'.events \in Seq(Events(has))
        BY ZenonT(30), <3>2, BackedFacts DEF SessionInv
      <3> QED BY ZenonT(30), <1>11, <2>1, <3>1, <3>3 DEF SessionOK, SessionInv, Follows
    <2>2. CASE drain.reason = None
      BY <1>2, <1>3, <1>9, <1>11, <1>13, <2>2 DEF SessionOK, SessionInv
    <2> QED BY <2>1, <2>2
  <1>15. session'.send = session.send
    BY <1>2, <1>12, <1>13, EndIfStoppedFacts
  <1> QED BY <1>3, <1>6, <1>14, <1>15 DEF SessionInv, SessionOK, BytesLeft, QueueStep

LEMMA EndedFollows ==
    ASSUME NEW x, NEW z, Follows(x, z)
    PROVE  Follows(x, EndIfStopped(z)) /\ (Live(EndIfStopped(z)) => EndIfStopped(z).drain.reason = None)
  <1> DEFINE y == EndIfStopped(z)
  <1>1. /\ Follows(z, y) /\ y.drain = z.drain /\ y.send = z.send
        /\ Live(y) => z.drain.reason = None
    BY ZenonT(30), EndIfStoppedFacts DEF Follows
  <1> HIDE DEF y
  <1>2. y.events = z.events \/ y.events = <<>>
    BY ZenonT(30), <1>1 DEF Follows
  <1>3. Follows(x, y)
    BY ZenonT(30), <1>1, <1>2 DEF Follows
  <1> QED BY <1>1, <1>3 DEF y

\* The relay handles an event or ends the session, and what the device has stays.
LEMMA FollowingStep ==
    ASSUME SessionInv, NEW x, SessionOK(x), Live(x), BytesLeft(x.drain), x.events \in Seq(Events(has)),
           Follows(x, session'), Live(session') => session'.drain.reason = None,
           has' = has, wire' = wire, listed' = listed, acked' \subseteq has
    PROVE  SessionInv'
  <1>1. SessionOK(session')
    BY FollowsOK
  <1>2. session'.events = x.events \/ session'.events = <<>>
    BY DEF Follows
  <1>3. session'.events \in Seq(Events(has))
    BY ZenonT(30), <1>2, BackedFacts
  <1> QED BY <1>1, <1>3 DEF SessionInv, SessionOK, BytesLeft

LEMMA FollowingQueue ==
    ASSUME NEW x, SessionOK(x), x.send = session.send, Follows(x, session')
    PROVE  QueueStep
  <1>1. CASE session'.send = session.send
    BY <1>1 DEF QueueStep
  <1>2. CASE session'.send # session.send
    <2>1. /\ BytesLeft(session'.drain) /\ RoundsLeft(session'.drain) /\ TimeLeft(session'.drain)
          /\ session'.drain.timeUp => WallClockBudget
      BY ZenonT(30), <1>2 DEF Follows, SessionOK
    <2> QED BY <2>1 DEF QueueStep, BytesLeft, RoundsLeft, TimeLeft
  <1> QED BY <1>1, <1>2

LEMMA ProcessEventStep == SessionInv /\ ProcessEvent => SessionInv' /\ QueueStep
  <1> SUFFICES ASSUME SessionInv, ProcessEvent PROVE SessionInv' /\ QueueStep
    OBVIOUS
  <1> DEFINE event == Head(session.events)
             rest  == Tail(session.events)
             x     == [session EXCEPT !.events = rest]
             z     == HandleEvent(x, event)
  <1>1. /\ session' = EndIfStopped(z) /\ acked' = AckedAfter(x, event)
        /\ has' = has /\ wire' = wire /\ listed' = listed
        /\ Live(session) /\ session.events # <<>>
    BY DEF ProcessEvent, deviceVars
  <1>2. event \in Events(has) /\ rest \in Seq(Events(has))
    BY <1>1, HeadTailProperties DEF SessionInv
  <1>3. /\ event \in Frames \cup {Fatal} /\ rest \in Seq(Frames \cup {Fatal})
        /\ event.type = "RECEIPT" => event.ids \subseteq has
        /\ event.type = "SUMMARY" => event.ids \subseteq Uploads
    BY <1>2, BackedFacts
  <1> HIDE DEF event, rest
  <1>4. /\ x \in Sessions /\ x.events = rest /\ x.drain = session.drain /\ x.send = session.send
        /\ x.phase = session.phase
    BY ZenonT(30), <1>3 DEF Sessions, SessionInv, SessionOK
  <1> HIDE DEF x
  <1>5. SessionOK(x) /\ Live(x) /\ BytesLeft(x.drain)
    BY <1>1, <1>4 DEF SessionInv, SessionOK, Live
  <1>6. Follows(x, z)
    BY <1>3, <1>4, HandleEventFacts DEF SessionInv
  <1> HIDE DEF z
  <1>7. Follows(x, session') /\ (Live(session') => session'.drain.reason = None)
    BY <1>1, <1>6, EndedFollows
  <1>8. acked' \subseteq has
    BY <1>1, <1>3 DEF AckedAfter, SessionInv
  <1>9. SessionInv'
    BY ZenonT(30), <1>1, <1>2, <1>4, <1>5, <1>7, <1>8, FollowingStep
  <1>10. QueueStep
    BY ZenonT(30), <1>4, <1>5, <1>7, FollowingQueue
  <1> QED BY <1>9, <1>10

LEMMA EndingStep ==
    ASSUME SessionInv, Live(session), NEW r \in StopReasons \ {None}, session' = End(session, r),
           has' = has, wire' = wire, listed' = listed, acked' \subseteq has
    PROVE  SessionInv' /\ QueueStep
  <1>1. session \in Sessions /\ SessionOK(session) /\ BytesLeft(session.drain)
    BY DEF SessionInv, SessionOK
  <1>2. Follows(session, session') /\ ~Live(session') /\ session'.send = session.send
    BY <1>1, EndFacts
  <1>3. session.events \in Seq(Events(has))
    BY DEF SessionInv
  <1>4. SessionInv'
    BY <1>1, <1>2, <1>3, FollowingStep
  <1> QED BY <1>2, <1>4 DEF QueueStep

LEMMA HandlerFailsStep == SessionInv /\ HandlerFails => SessionInv' /\ QueueStep
  <1> SUFFICES ASSUME SessionInv, HandlerFails PROVE SessionInv' /\ QueueStep
    OBVIOUS
  <1> DEFINE event == Head(session.events)
             r == IF event.type = "REQUEST" THEN "protocol_fatal" ELSE "storage_error"
  <1>1. /\ Live(session) /\ session.events # <<>> /\ session' = End(session, r)
        /\ acked' = acked \/ (event.type = "RECEIPT" /\ acked' = acked \cup event.ids)
        /\ has' = has /\ wire' = wire /\ listed' = listed
    BY ZenonT(30) DEF HandlerFails, deviceVars
  <1>2. r \in StopReasons \ {None}
    BY DEF StopReasons, None
  <1>3. event \in Events(has)
    BY ZenonT(30), <1>1, HeadTailProperties DEF SessionInv
  <1> HIDE DEF event, r
  <1>4. acked' \subseteq has
    BY <1>1, <1>3, BackedFacts DEF SessionInv
  <1> QED BY ZenonT(30), <1>1, <1>2, <1>4, EndingStep

LEMMA TransferFailsStep == SessionInv /\ TransferFails => SessionInv' /\ QueueStep
  <1> SUFFICES ASSUME SessionInv, TransferFails PROVE SessionInv' /\ QueueStep
    OBVIOUS
  <1> DEFINE event == Head(session.events)
             rest  == Tail(session.events)
             x     == [session EXCEPT !.events = rest]
             m     == [x EXCEPT !.missed = TRUE]
  <1>1. /\ session.phase = "open" /\ session.events # <<>> /\ event.type = "TRANSFER"
        /\ \E accepted \in SUBSET event.ids :
              \/ session' = End(x, "protocol_fatal")
              \/ session' = EndIfStopped(HandleTransfer(m, accepted))
        /\ has' = has /\ wire' = wire /\ listed' = listed /\ acked' = acked
    BY DEF TransferFails, deviceVars
  <1>2. event \in Events(has) /\ rest \in Seq(Events(has))
    BY <1>1, HeadTailProperties DEF SessionInv
  <1>3. rest \in Seq(Frames \cup {Fatal}) /\ event.ids \subseteq Uploads
    BY <1>1, <1>2, BackedFacts
  <1> HIDE DEF event, rest
  <1>4. /\ x \in Sessions /\ x.events = rest /\ x.drain = session.drain /\ x.send = session.send
        /\ x.phase = session.phase
    BY ZenonT(30), <1>3 DEF Sessions, SessionInv, SessionOK
  <1> HIDE DEF x
  <1>5. /\ m \in Sessions /\ m.events = x.events /\ m.drain = x.drain /\ m.send = x.send
        /\ m.phase = x.phase
    BY ZenonT(30), <1>4 DEF Sessions
  <1> HIDE DEF m
  <1>6. /\ SessionOK(x) /\ Live(x) /\ BytesLeft(x.drain)
        /\ SessionOK(m) /\ Live(m) /\ BytesLeft(m.drain)
    BY <1>1, <1>4, <1>5 DEF SessionInv, SessionOK, Live
  <1>7. acked' \subseteq has
    BY <1>1 DEF SessionInv
  <1>8. PICK accepted \in SUBSET event.ids :
           \/ session' = End(x, "protocol_fatal")
           \/ session' = EndIfStopped(HandleTransfer(m, accepted))
    BY <1>1
  <1>9. CASE session' = End(x, "protocol_fatal")
    <2>1. "protocol_fatal" \in StopReasons \ {None}
      BY DEF StopReasons, None
    <2>2. Follows(x, session') /\ ~Live(session')
      BY ZenonT(30), <1>4, <1>9, <2>1, EndFacts
    <2>3. SessionInv'
      BY ZenonT(30), <1>1, <1>2, <1>4, <1>6, <1>7, <2>2, FollowingStep
    <2> QED BY ZenonT(30), <1>4, <1>6, <2>2, <2>3, FollowingQueue
  <1>10. CASE session' = EndIfStopped(HandleTransfer(m, accepted))
    <2>1. Follows(m, HandleTransfer(m, accepted))
      BY <1>3, <1>5, <1>8, HandleTransferFacts
    <2>2. Follows(m, session') /\ (Live(session') => session'.drain.reason = None)
      BY <1>10, <2>1, EndedFollows
    <2>3. SessionInv'
      BY ZenonT(30), <1>1, <1>2, <1>4, <1>5, <1>6, <1>7, <2>2, FollowingStep
    <2>4. QueueStep
      BY ZenonT(30), <1>4, <1>5, <1>6, <2>2, FollowingQueue
    <2> QED BY <2>3, <2>4
  <1> QED BY <1>8, <1>9, <1>10

LEMMA ReadErrorOrSilenceStep == SessionInv /\ (ReadError \/ Silence) => SessionInv' /\ QueueStep
  <1> SUFFICES ASSUME SessionInv, ReadError \/ Silence PROVE SessionInv' /\ QueueStep
    OBVIOUS
  <1>1. /\ Live(session) /\ acked' \subseteq has
        /\ has' = has /\ wire' = wire /\ listed' = listed
        /\ \E r \in {"client_disconnect", "client_silence"} : session' = End(session, r)
    BY ZenonT(30) DEF ReadError, Silence, Idle, deviceVars, SessionInv
  <1>2. {"client_disconnect", "client_silence"} \subseteq StopReasons \ {None}
    BY DEF StopReasons, None
  <1> QED BY <1>1, <1>2, EndingStep

LEMMA HangUpStep == SessionInv /\ HangUp => SessionInv' /\ QueueStep
  <1> SUFFICES ASSUME SessionInv, HangUp PROVE SessionInv' /\ QueueStep
    OBVIOUS
  <1>1. session' = NoSession /\ wire' = <<>> /\ has' = has /\ acked' = acked /\ listed' = listed
    BY DEF HangUp
  <1>2. SessionOK(session') /\ session'.events = <<>> /\ session'.send = <<>>
    BY <1>1, NoSessionFacts, NewDrainSessionFacts DEF SessionOK, Live
  <1>3. session'.events \in Seq(Events(has)) /\ wire' \in Seq(Backed(has))
    BY ZenonT(30), <1>1, <1>2, BackedFacts
  <1>4. QueueStep
    BY ZenonT(30), <1>2, ShorterQueue, SessionParts DEF SessionInv, SessionOK
  <1> QED BY ZenonT(30), <1>1, <1>2, <1>3, <1>4 DEF SessionInv, SessionOK, BytesLeft

LEMMA TimeUpStep == SessionInv /\ TimeUp => SessionInv' /\ QueueStep
  <1> SUFFICES ASSUME SessionInv, TimeUp PROVE SessionInv' /\ QueueStep
    OBVIOUS
  <1> DEFINE d == [session.drain EXCEPT !.timeUp = TRUE]
  <1>1. /\ WallClockBudget /\ session' = [session EXCEPT !.drain = d]
        /\ wire' = wire /\ has' = has /\ acked' = acked /\ listed' = listed
    BY DEF TimeUp, deviceVars
  <1>2. session \in Sessions /\ session.drain \in DrainStates
    BY SessionParts DEF SessionInv, SessionOK
  <1>3. d \in DrainStates /\ d.reason = session.drain.reason /\ d.bytes = session.drain.bytes
    BY ZenonT(30), <1>2 DEF DrainStates
  <1> HIDE DEF d
  <1>4. /\ session' \in Sessions /\ session'.drain = d /\ session'.send = session.send
        /\ session'.events = session.events /\ session'.phase = session.phase
    BY <1>1, <1>2, <1>3, WithDrain
  <1> QED BY <1>1, <1>3, <1>4 DEF SessionInv, SessionOK, BytesLeft, Live, QueueStep

LEMMA FlushPushStep == SessionInv /\ FlushPush => SessionInv' /\ QueueStep
  <1> SUFFICES ASSUME SessionInv, FlushPush PROVE SessionInv' /\ QueueStep
    OBVIOUS
  <1> DEFINE preview == Preview(listed \ acked, 0)
             sent == Append(session.send, Frame("SUMMARY", preview))
             pushed == [session EXCEPT !.send = sent, !.pushed = TRUE]
             dropped == [session EXCEPT !.missed = TRUE]
  <1>1. /\ pushDue /\ ~pushDue'
        /\ \/ session' = session \/ session' = dropped
           \/ session.phase = "open" /\ session' = pushed
        /\ wire' = wire /\ has' = has /\ acked' = acked /\ listed' = listed
    BY DEF FlushPush, deviceVars
  <1>2. CASE session' = session
    BY <1>1, <1>2 DEF SessionInv, QueueStep
  <1>3. CASE session.phase = "open" /\ session' = pushed
    <2>1. listed \ acked \in SUBSET Items
      BY DEF SessionInv
    <2>2. session \in Sessions /\ session.send \in Seq(Outbound)
      BY SessionParts DEF SessionInv, SessionOK
    <2>3. Frame("SUMMARY", preview) \in Outbound
      BY <2>1, PreviewFacts
    <2> HIDE DEF preview
    <2>4. sent \in Seq(Outbound)
      BY <2>2, <2>3, AppendProperties
    <2> HIDE DEF sent
    <2>5. /\ pushed \in Sessions /\ pushed.drain = session.drain /\ pushed.events = session.events
          /\ pushed.phase = session.phase
      BY ZenonT(30), <2>2, <2>4 DEF Sessions
    <2> HIDE DEF pushed
    <2>6. BytesLeft(session.drain)
      BY <1>3 DEF SessionInv, SessionOK, Live
    <2> QED BY ZenonT(30), <1>1, <1>3, <2>5, <2>6 DEF SessionInv, SessionOK, Live, BytesLeft, QueueStep
  <1>4. CASE session' = dropped
    <2>1. /\ session' \in Sessions /\ session'.drain = session.drain
          /\ session'.events = session.events /\ session'.phase = session.phase
          /\ session'.send = session.send
      BY ZenonT(30), <1>4 DEF SessionInv, SessionOK, Sessions
    <2> QED BY <1>1, <2>1 DEF SessionInv, SessionOK, Live, BytesLeft, QueueStep
  <1> QED BY <1>1, <1>2, <1>3, <1>4

\* What the device answers is backed by what it then has.
LEMMA AnswerFacts ==
    ASSUME NEW frame \in Outbound, NEW h,
           frame.type = "TRANSFER" => frame.ids \ Refused \subseteq h
    PROVE  Answer(frame) \in Seq(Backed(h))
  <1>1. /\ frame.type \in FrameTypes /\ frame.ids \in SUBSET (Items \cup Uploads)
        /\ frame.ids \ Refused \in SUBSET (Items \cup Uploads)
    BY DEF Outbound, Frames
  <1>2. \A f : f \in Backed(h) => <<f>> \in Seq(Backed(h))
    OBVIOUS
  <1>3. \A type \in FrameTypes, ids \in SUBSET (Items \cup Uploads) :
           /\ Frame(type, ids) \in Frames
           /\ Frame(type, ids).type = type /\ Frame(type, ids).ids = ids
    BY DEF Frame, Frames
  <1>4. CASE frame.type \in {"HELLO", "RECEIPT"}
    BY <1>4, BackedFacts DEF Answer
  <1>5. CASE frame.type = "SUMMARY"
    <2>1. Cardinality(frame.ids) <= MaxSummaryPreviewItems
      BY <1>5 DEF Outbound
    <2>2. Frame("REQUEST", frame.ids) \in Backed(h)
      BY <1>1, <1>3, <2>1 DEF Backed, FrameTypes
    <2>3. Answer(frame) = <<Frame("REQUEST", frame.ids)>>
      BY <1>5 DEF Answer
    <2> QED BY <1>2, <2>2, <2>3
  <1>6. CASE frame.type = "REQUEST"
    <2>1. frame.ids \subseteq Uploads
      BY <1>6 DEF Outbound
    <2>2. Frame("TRANSFER", frame.ids) \in Backed(h)
      BY <1>1, <1>3, <2>1 DEF Backed, FrameTypes
    <2>3. Answer(frame) = IF frame.ids = {} THEN <<>> ELSE <<Frame("TRANSFER", frame.ids)>>
      BY <1>6 DEF Answer
    <2> QED BY <1>2, <2>2, <2>3, BackedFacts
  <1>7. CASE frame.type = "TRANSFER"
    <2>1. frame.ids \subseteq Items /\ Cardinality(frame.ids) <= MaxTransferItems
      BY <1>7 DEF Outbound
    <2>2. IsFiniteSet(frame.ids) /\ Cardinality(frame.ids) \in Nat
      BY ZenonT(30), <2>1, ItemSets
    <2>3. frame.ids \ Refused \in SUBSET frame.ids
      OBVIOUS
    <2>4. /\ Cardinality(frame.ids \ Refused) <= Cardinality(frame.ids)
          /\ Cardinality(frame.ids \ Refused) \in Nat
      BY ZenonT(30), <2>2, <2>3, FS_Subset, FS_CardinalityType
    <2>5. Cardinality(frame.ids \ Refused) <= MaxTransferItems
      BY <2>1, <2>2, <2>4, ProtocolAssumption
    <2>6. Frame("RECEIPT", frame.ids \ Refused) \in Backed(h)
      BY <1>1, <1>3, <1>7, <2>5 DEF Backed, FrameTypes
    <2>7. Answer(frame) = <<Frame("RECEIPT", frame.ids \ Refused)>>
      BY <1>7 DEF Answer
    <2> QED BY <1>2, <2>6, <2>7
  <1> QED BY <1>1, <1>4, <1>5, <1>6, <1>7 DEF FrameTypes

LEMMA DeviceReceivesStep == SessionInv /\ DeviceReceives => SessionInv' /\ QueueStep
  <1> SUFFICES ASSUME SessionInv, DeviceReceives PROVE SessionInv' /\ QueueStep
    OBVIOUS
  <1> DEFINE frame == Head(session.send)
             rest == Tail(session.send)
  <1>1. /\ session.send # <<>>
        /\ has' = IF frame.type = "TRANSFER" THEN has \cup (frame.ids \ Refused) ELSE has
        /\ wire' = wire \o Answer(frame)
        /\ session' = [session EXCEPT !.send = rest]
        /\ acked' = acked /\ listed' = listed
    BY DEF DeviceReceives
  <1>2. session \in Sessions /\ session.send \in Seq(Outbound)
    BY SessionParts DEF SessionInv, SessionOK
  <1>3. frame \in Outbound /\ rest \in Seq(Outbound) /\ Len(rest) = Len(session.send) - 1
        /\ Len(session.send) \in Nat
    BY <1>1, <1>2, HeadTailProperties, LenProperties
  <1> HIDE DEF frame, rest
  <1>4. /\ session' \in Sessions /\ session'.send = rest /\ session'.drain = session.drain
        /\ session'.events = session.events /\ session'.phase = session.phase
    BY ZenonT(30), <1>1, <1>2, <1>3 DEF Sessions
  <1>5. has \subseteq has'
    BY <1>1
  <1>6. wire \in Seq(Backed(has')) /\ session.events \in Seq(Events(has'))
    BY ZenonT(30), <1>5, BackedGrows DEF SessionInv
  <1>7. Answer(frame) \in Seq(Backed(has'))
    BY ZenonT(30), <1>1, <1>3, AnswerFacts
  <1>8. wire' \in Seq(Backed(has'))
    BY <1>1, <1>6, <1>7, ConcatProperties
  <1>9. acked' \subseteq has'
    BY <1>1, <1>5 DEF SessionInv
  <1>10. QueueStep
    BY <1>3, <1>4 DEF QueueStep
  <1> QED BY <1>1, <1>4, <1>6, <1>8, <1>9, <1>10 DEF SessionInv, SessionOK, BytesLeft, Live

LEMMA DeviceOffersStep == SessionInv /\ DeviceOffers => SessionInv' /\ QueueStep
  <1> SUFFICES ASSUME SessionInv, DeviceOffers PROVE SessionInv' /\ QueueStep
    OBVIOUS
  <1> DEFINE f == Frame("SUMMARY", Uploads)
  <1>1. /\ wire' = Append(wire, f) /\ session' = session
        /\ has' = has /\ acked' = acked /\ listed' = listed
    BY DEF DeviceOffers, relayVars
  <1>2. f \in Frames /\ f.type = "SUMMARY" /\ f.ids = Uploads
    BY FrameFacts DEF FrameTypes, Frame
  <1>3. f \in Backed(has)
    BY <1>2 DEF Backed
  <1> HIDE DEF f
  <1>4. wire' \in Seq(Backed(has))
    BY <1>1, <1>3, AppendProperties DEF SessionInv
  <1> QED BY <1>1, <1>4 DEF SessionInv, QueueStep

LEMMA DisconnectStep == SessionInv /\ Disconnect => SessionInv' /\ QueueStep
  <1> SUFFICES ASSUME SessionInv, Disconnect PROVE SessionInv' /\ QueueStep
    OBVIOUS
  <1>1. PICK k \in 0 .. Len(wire) : wire' = SubSeq(wire, 1, k)
    BY DEF Disconnect
  <1>2. session' = session /\ has' = has /\ acked' = acked /\ listed' = listed
    BY DEF Disconnect, relayVars
  <1>3. \A i \in 1 .. k : wire[i] \in Backed(has)
    BY ElementOfSeq, LenProperties DEF SessionInv
  <1>4. wire' \in Seq(Backed(has))
    BY <1>1, <1>3, SubSeqProperties
  <1> QED BY <1>2, <1>4 DEF SessionInv, QueueStep

LEMMA SessionNext == SessionInv /\ [ClientSessionNext]_csVars => SessionInv' /\ (QueueStep \/ UNCHANGED csVars)
  <1> SUFFICES ASSUME SessionInv, [ClientSessionNext]_csVars
               PROVE  SessionInv' /\ (QueueStep \/ UNCHANGED csVars)
    OBVIOUS
  <1>1. CASE SessionStep
    BY <1>1, ConnectStep, ReadMessageStep, ProcessEventStep, ReadErrorOrSilenceStep, HangUpStep
       DEF SessionStep
  <1>2. CASE HandlerFails \/ TransferFails \/ TimeUp \/ FlushPush
    BY <1>2, HandlerFailsStep, TransferFailsStep, TimeUpStep, FlushPushStep
  <1>3. ASSUME NEW i \in Items, Ingest(i) \/ Expire(i)
        PROVE  SessionInv' /\ QueueStep
    BY <1>3 DEF Ingest, Expire, deviceVars, SessionInv, QueueStep
  <1>4. CASE DeviceReceives \/ DeviceOffers \/ Disconnect
    BY <1>4, DeviceReceivesStep, DeviceOffersStep, DisconnectStep
  <1>5. CASE UNCHANGED csVars
    BY <1>5 DEF csVars, relayVars, deviceVars, SessionInv
  <1> QED BY <1>1, <1>2, <1>3, <1>4, <1>5 DEF ClientSessionNext

-----------------------------------------------------------------------------
(***************************************************************************)
(* A cursor is an item or 0: a preview that is not empty has a last id.    *)
(* The ids that come after it are counted; the last one has fewest.        *)
(***************************************************************************)
After(ids, i) == {j \in ids : j > i}

LEMMA AfterDecreases ==
    ASSUME NEW ids \in SUBSET Nat, IsFiniteSet(ids), NEW i \in ids
    PROVE  /\ Cardinality(After(ids, i)) \in Nat
           /\ \A k \in ids : k > i => Cardinality(After(ids, k)) < Cardinality(After(ids, i))
  <1>1. \A k \in ids : After(ids, k) \in SUBSET ids /\ IsFiniteSet(After(ids, k))
    <2>1. \A k \in ids : After(ids, k) \in SUBSET ids
      BY DEF After
    <2> QED BY ZenonT(30), <2>1, FS_Subset
  <1>2. \A k \in ids : Cardinality(After(ids, k)) \in Nat
    BY <1>1, FS_CardinalityType
  <1>3. ASSUME NEW k \in ids, k > i
        PROVE  Cardinality(After(ids, k)) < Cardinality(After(ids, i))
    <2>1. After(ids, k) \subseteq After(ids, i) /\ k \in After(ids, i) /\ k \notin After(ids, k)
      <3>1. i \in Nat /\ k \in Nat /\ \A j \in ids : j \in Nat
        OBVIOUS
      <3>2. (\A j \in ids : j > k => j > i) /\ ~(k > k)
        BY <1>3, <3>1
      <3> QED BY ZenonT(30), <1>3, <3>2 DEF After
    <2>2. After(ids, k) \in SUBSET After(ids, i) /\ After(ids, k) # After(ids, i)
      BY <2>1
    <2>3. /\ Cardinality(After(ids, k)) <= Cardinality(After(ids, i))
          /\ Cardinality(After(ids, k)) # Cardinality(After(ids, i))
      BY ZenonT(30), <1>1, <2>2, FS_Subset
    <2> QED BY <1>2, <2>3
  <1> QED BY <1>2, <1>3

LEMMA LastExists ==
    ASSUME NEW ids \in SUBSET Nat, IsFiniteSet(ids), ids # {}
    PROVE  \E i \in ids : \A j \in ids : j <= i
  <1> DEFINE counts == {Cardinality(After(ids, i)) : i \in ids}
             R == OpToRel(<, Nat)
  <1>1. counts \subseteq Nat /\ counts # {}
    BY AfterDecreases
  <1>2. IsWellFoundedOn(R, Nat)
    BY NatLessThanWellFounded
  <1>3. \A m, n \in Nat : m < n => <<m, n>> \in R
    BY DEF OpToRel
  <1> HIDE DEF R
  <1>4. PICK c \in counts : \A d \in counts : ~(<<d, c>> \in R)
    BY ZenonT(30), <1>1, <1>2, WFMin
  <1>5. PICK i \in ids : c = Cardinality(After(ids, i))
    OBVIOUS
  <1>6. \A j \in ids : Cardinality(After(ids, j)) \in counts
    OBVIOUS
  <1>7. \A j \in ids : ~(Cardinality(After(ids, j)) < Cardinality(After(ids, i)))
    BY ZenonT(30), <1>1, <1>3, <1>4, <1>5, <1>6
  <1>8. \A j \in ids : ~(j > i)
    BY <1>7, AfterDecreases
  <1> QED BY <1>8

LEMMA CursorFacts == Cursors \subseteq Items \cup {0}
  <1> SUFFICES ASSUME NEW ids \in SUBSET Items PROVE LastOf(ids) \in Items \cup {0}
    BY DEF Cursors
  <1>1. CASE ids = {}
    BY <1>1 DEF LastOf
  <1>2. CASE ids # {}
    <2>1. ids \in SUBSET Nat /\ IsFiniteSet(ids)
      BY ZenonT(30), ItemSets
    <2>2. \E i \in ids : \A j \in ids : j <= i
      BY <1>2, <2>1, LastExists
    <2>3. LastOf(ids) = CHOOSE i \in ids : \A j \in ids : j <= i
      BY <1>2 DEF LastOf
    <2>4. LastOf(ids) \in ids
      BY <2>2, <2>3
    <2> QED BY <2>4
  <1> QED BY <1>1, <1>2

(***************************************************************************)
(* The variables SessionInv says nothing of.                               *)
(***************************************************************************)
PlainInv == /\ arriving \subseteq Items /\ stored \subseteq Uploads /\ has \subseteq Items
            /\ online \in BOOLEAN /\ offered \in BOOLEAN /\ pushDue \in BOOLEAN
            /\ silenceTimeout \in BOOLEAN /\ faults \in Nat

LEMMA PlainInit == ClientSessionInit => PlainInv
  <1>1. 0 \in Nat
    OBVIOUS
  <1> QED BY ZenonT(30), <1>1 DEF ClientSessionInit, PlainInv

LEMMA PlainNext == SessionInv /\ PlainInv /\ [ClientSessionNext]_csVars => PlainInv'
  <1> SUFFICES ASSUME SessionInv, PlainInv, [ClientSessionNext]_csVars PROVE PlainInv'
    OBVIOUS
  <1>1. CASE Connect \/ ReadError \/ Silence \/ HangUp
    BY ZenonT(30), <1>1 DEF Connect, ReadError, Silence, HangUp, deviceVars, PlainInv
  <1>2. CASE ReadMessage
    BY <1>2 DEF ReadMessage, PlainInv
  <1>3. CASE ProcessEvent
    <2> DEFINE event == Head(session.events)
    <2>1. /\ faults' \in {faults, faults + 1}
          /\ stored' \in {stored, stored \cup event.ids}
          /\ event.type # "TRANSFER" => stored' = stored
          /\ session.events # <<>>
          /\ UNCHANGED <<arriving, pushDue, silenceTimeout, online, offered, has>>
      BY <1>3 DEF ProcessEvent, deviceVars
    <2>2. event \in Events(has)
      BY <2>1, HeadTailProperties DEF SessionInv
    <2> HIDE DEF event
    <2>3. stored' \subseteq Uploads
      BY <2>1, <2>2, BackedFacts DEF PlainInv
    <2> QED BY <2>1, <2>3 DEF PlainInv
  <1>4. CASE HandlerFails \/ TimeUp
    BY <1>4 DEF HandlerFails, TimeUp, deviceVars, PlainInv
  <1>5. ASSUME NEW i \in Items, Ingest(i) \/ Expire(i)
        PROVE  PlainInv'
    BY ZenonT(30), <1>5 DEF Ingest, Expire, deviceVars, PlainInv
  <1>6. CASE FlushPush
    BY ZenonT(30), <1>6 DEF FlushPush, deviceVars, PlainInv
  <1>7. CASE DeviceReceives
    <2> DEFINE frame == Head(session.send)
    <2>1. /\ has' = IF frame.type = "TRANSFER" THEN has \cup (frame.ids \ Refused) ELSE has
          /\ session.send # <<>>
          /\ UNCHANGED <<arriving, stored, pushDue, silenceTimeout, online, offered, faults>>
      BY <1>7 DEF DeviceReceives
    <2>2. frame \in Outbound
      BY <2>1, SessionParts, HeadTailProperties DEF SessionInv, SessionOK
    <2> HIDE DEF frame
    <2>3. has' \subseteq Items
      BY <2>1, <2>2 DEF Outbound, PlainInv
    <2> QED BY <2>1, <2>3 DEF PlainInv
  <1>8. CASE DeviceOffers \/ Disconnect
    <2>1. /\ faults' \in {faults, faults + 1} /\ online' \in {online, FALSE}
          /\ offered' \in {offered, TRUE}
          /\ UNCHANGED <<arriving, stored, has, pushDue, silenceTimeout>>
      BY ZenonT(30), <1>8 DEF DeviceOffers, Disconnect, relayVars
    <2>2. faults' \in Nat
      BY <2>1 DEF PlainInv
    <2> QED BY ZenonT(30), <2>1, <2>2 DEF PlainInv
  <1>9. CASE UNCHANGED csVars
    BY <1>9 DEF csVars, relayVars, deviceVars, PlainInv
  <1>10. CASE TransferFails
    <2> DEFINE event == Head(session.events)
    <2>1. /\ faults' = faults + 1 /\ event.type = "TRANSFER" /\ session.events # <<>>
          /\ stored' \subseteq stored \cup event.ids
          /\ UNCHANGED <<arriving, pushDue, silenceTimeout, online, offered, has>>
      BY <1>10 DEF TransferFails, deviceVars
    <2>2. event \in Events(has)
      BY <2>1, HeadTailProperties DEF SessionInv
    <2> HIDE DEF event
    <2>3. stored' \subseteq Uploads
      BY <2>1, <2>2, BackedFacts DEF PlainInv
    <2> QED BY <2>1, <2>3 DEF PlainInv
  <1> QED BY <1>1, <1>2, <1>3, <1>4, <1>5, <1>6, <1>7, <1>8, <1>9, <1>10
          DEF ClientSessionNext, SessionStep

LEMMA TypesFollow == SessionInv /\ PlainInv => ClientSessionTypeOK
  <1> SUFFICES ASSUME SessionInv, PlainInv PROVE ClientSessionTypeOK
    OBVIOUS
  <1>1. /\ session.phase \in Phases /\ session.drain \in DrainStates
        /\ session.adapter \in Adapters /\ session.cursor \in Items \cup {0}
        /\ {session.pushed, session.missed, session.oversize} \subseteq BOOLEAN
        /\ session.send \in Seq(Outbound) /\ session.events \in Seq(Frames \cup {Fatal})
    BY ZenonT(30), SessionParts, CursorFacts DEF SessionInv, SessionOK
  <1>2. Outbound \subseteq Frames /\ Backed(has) \subseteq Frames
    BY DEF Outbound, Backed
  <1>3. session.send \in Seq(Frames) /\ wire \in Seq(Frames)
    BY ZenonT(30), <1>1, <1>2, SeqMonotonic DEF SessionInv
  <1>4. acked \subseteq Items
    BY ZenonT(30) DEF SessionInv, PlainInv
  <1> QED BY ZenonT(30), <1>1, <1>3, <1>4
          DEF SessionInv, SessionOK, PlainInv, ClientSessionTypeOK, Phases, Adapters

\* Whatever the limits, the relay's sessions and the device's state keep their form: a
\* live session has no stop reason and one that has ended has, a cursor is the last id
\* of a preview, what is sent and what arrives are frames of the protocol.
THEOREM ClientSessionTypes == ClientSessionSpec => []ClientSessionTypeOK
  <1>1. SessionInv /\ PlainInv /\ [ClientSessionNext]_csVars => (SessionInv /\ PlainInv)'
    BY SessionNext, PlainNext
  <1> QED BY <1>1, SessionInit, PlainInit, TypesFollow, PTL DEF ClientSessionSpec

\* A device has imported whatever handleReceipt marked as acknowledged for it: a RECEIPT
\* lists only what the device imported, and neither a stop, a break nor a failed store
\* call makes another one of it.
THEOREM AcknowledgedIsDelivered == ClientSessionSpec => []AckedIsDelivered
  <1>1. SessionInv => AckedIsDelivered
    BY DEF SessionInv, AckedIsDelivered
  <1>2. SessionInv /\ [ClientSessionNext]_csVars => SessionInv'
    BY SessionNext
  <1> QED BY <1>1, <1>2, SessionInit, PTL DEF ClientSessionSpec

\* Whatever the limits, sendEnvelope queues no frame that brings the session to its byte
\* budget, after its last round or past its time, and a push finds bytes left.
THEOREM BudgetsAreKept == ClientSessionSpec => QueuedFramesFit
  <1>1. SessionInv /\ [ClientSessionNext]_csVars => SessionInv'
    BY SessionNext
  <1>2. SessionInv /\ [ClientSessionNext]_csVars => [QueueStep]_csVars
    BY SessionNext
  <1>3. ClientSessionSpec => [][QueueStep]_csVars
    BY <1>1, <1>2, SessionInit, PTL DEF ClientSessionSpec
  <1> QED BY <1>3 DEF QueueStep, QueuedFramesFit
=============================================================================
