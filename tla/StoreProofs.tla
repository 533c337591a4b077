----------------------------- MODULE StoreProofs -----------------------------
(***************************************************************************)
(* The two stores, for any items, expiries, tick rate, zone and clock      *)
(* bound.  The message store keeps its types, strands no message and keeps *)
(* no mark without its message.  The envelope store keeps its types, and   *)
(* in a process that runs in UTC its indexes are exactly those of its      *)
(* envelopes, and each sweeper goes by keys that are due: only what has    *)
(* been stored again under another expiry goes before its time.  The       *)
(* sessions that bring items in keep the types of what they carry.         *)
(***************************************************************************)
EXTENDS StoreForward, TLAPS

-----------------------------------------------------------------------------
(***************************************************************************)
(* Facts about the clock, about whole seconds and about the order of       *)
(* RFC3339Nano texts that the proofs about both stores rest on.  Division  *)
(* is by one of the five tick rates, so each fact is split on the rate.    *)
(***************************************************************************)
\* A later time is in the same second or in a later one.
LEMMA SecondMonotone ==
    ASSUME NEW a \in Int, NEW b \in Int, a <= b
    PROVE  Second(a) <= Second(b)
  <1>1. CASE TicksPerSecond = 1  BY <1>1 DEF Second
  <1>2. CASE TicksPerSecond = 2  BY <1>2 DEF Second
  <1>3. CASE TicksPerSecond = 4  BY <1>3 DEF Second
  <1>4. CASE TicksPerSecond = 5  BY <1>4 DEF Second
  <1>5. CASE TicksPerSecond = 10 BY <1>5 DEF Second
  <1> QED BY <1>1, <1>2, <1>3, <1>4, <1>5, TimeAssumption

\* The second of a clock time is a number, so seconds compare as numbers do.
LEMMA SecondType ==
    ASSUME NEW t \in Int
    PROVE  Second(t) \in Int
  BY TimeAssumption DEF Second

\* Truncation to whole seconds, the message codec's, keeps the time in range ...
LEMMA TruncateType ==
    ASSUME NEW t \in Times
    PROVE  TruncateToSecond(t) \in Times
  <1> USE TimeAssumption DEF TruncateToSecond, Second, Times
  <1>1. CASE TicksPerSecond = 1  BY <1>1
  <1>2. CASE TicksPerSecond = 2  BY <1>2
  <1>3. CASE TicksPerSecond = 4  BY <1>3
  <1>4. CASE TicksPerSecond = 5  BY <1>4
  <1>5. CASE TicksPerSecond = 10 BY <1>5
  <1> QED BY <1>1, <1>2, <1>3, <1>4, <1>5

\* ... and in its second.
LEMMA TruncateSecond ==
    ASSUME NEW t \in Times
    PROVE  Second(TruncateToSecond(t)) = Second(t)
  <1> USE TimeAssumption DEF TruncateToSecond, Second, Times
  <1>1. CASE TicksPerSecond = 1  BY <1>1
  <1>2. CASE TicksPerSecond = 2  BY <1>2
  <1>3. CASE TicksPerSecond = 4  BY <1>3
  <1>4. CASE TicksPerSecond = 5  BY <1>4
  <1>5. CASE TicksPerSecond = 10 BY <1>5
  <1> QED BY <1>1, <1>2, <1>3, <1>4, <1>5

\* A text made in one of the two zones is a text.
LEMMA TextType ==
    ASSUME NEW t \in Int, NEW offset \in {UTC, LocalOffset}
    PROVE  RFC3339Nano(t, offset) \in Texts
  BY TimeAssumption DEF RFC3339Nano, Texts, UTC

(***************************************************************************)
(* In the UTC zone the text order of the index keys never runs ahead of    *)
(* time by a second or more: it may misplace times within a second only.   *)
(***************************************************************************)
LEMMA TextOrderSecond ==
    ASSUME NEW a \in Int, NEW b \in Int,
           TextAtMost(RFC3339Nano(a, UTC), RFC3339Nano(b, UTC))
    PROVE  Second(a) <= Second(b)
  BY SecondType DEF TextAtMost, RFC3339Nano, UTC

\* The clock does not run backwards, so what is due stays due.
LEMMA DueStays ==
    ASSUME now \in Times, NEW expires \in Times, Due(expires), Tick
    PROVE  Due(expires)'
  <1>1. now \in Int /\ now' \in Int /\ now <= now'
    BY DEF Tick, Times
  <1>2. Second(now) <= Second(now')
    BY <1>1, SecondMonotone
  <1>3. Second(now) \in Int /\ Second(now') \in Int /\ Second(expires) \in Int
    BY <1>1, SecondType DEF Times
  <1>4. Second(expires)' = Second(expires)
    BY DEF Second
  <1> QED BY <1>2, <1>3, <1>4 DEF Due, Second

LEMMA TextDueStays ==
    ASSUME now \in Times, NEW text \in Texts, TextDue(text), Tick
    PROVE  TextDue(text)'
  <1>1. PICK t \in Int : t = text.wall - text.offset
    BY TimeAssumption DEF Texts, UTC
  <1>2. now \in Int /\ now' \in Int /\ now <= now'
    BY DEF Tick, Times
  <1>3. Second(now) <= Second(now')
    BY <1>2, SecondMonotone
  <1>4. Second(now) \in Int /\ Second(now') \in Int /\ Second(t) \in Int
    BY <1>2, SecondType
  <1> QED BY <1>1, <1>3, <1>4 DEF TextDue, Due, Second

\* In UTC a key that sorts at or before the text of the clock names a second that has come.
LEMMA ListedTextIsDue ==
    ASSUME LocalOffset = UTC, now \in Times, NEW text \in Texts,
           TextAtMost(text, RFC3339Nano(now, LocalOffset))
    PROVE  TextDue(text)
  <1>1. text.wall \in Int /\ text.offset = UTC /\ now \in Int
    BY DEF Texts, Times
  <1>2. Second(text.wall) <= Second(now)
    BY <1>1, SecondType DEF TextAtMost, RFC3339Nano, UTC
  <1>3. text.wall - text.offset = text.wall
    BY <1>1 DEF UTC
  <1> QED BY <1>2, <1>3 DEF TextDue, Due

-----------------------------------------------------------------------------
(***************************************************************************)
(* The store.                                                              *)
(***************************************************************************)
\* A key the codec builds from a time in range is a key of its bucket.
LEMMA KeyTypes ==
    ASSUME NEW i \in ItemIDs, NEW t \in Times, NEW offset \in {UTC, LocalOffset}
    PROVE  /\ QueueKey(i, t, offset) \in QueueKeys
           /\ ExpiryKey(i, t, offset) \in ExpiryKeys
  <1>1. RFC3339Nano(t, offset) \in Texts
    BY TextType DEF Times
  <1>2. DestinationOf[i] \in Destinations
    BY ItemAssumption
  <1> QED BY <1>1, <1>2 DEF QueueKey, ExpiryKey, QueueKeys, ExpiryKeys

\* A write keeps the buckets typed and makes the message findable.
LEMMA PersistKeepsBuckets ==
    ASSUME MessageStoreTypeOK,
           NEW id \in ItemIDs, NEW created \in Times, NEW expires \in Times,
           PersistMessage(id, created, expires), UNCHANGED <<ttlSweep, now>>
    PROVE  /\ MessageStoreTypeOK'
           /\ IndexesCoverMessages => IndexesCoverMessages'
           /\ DeliveredIsStored => DeliveredIsStored'
  <1> DEFINE queueKey  == QueueKey(id, created, UTC)
             expiryKey == ExpiryKey(id, expires, UTC)
             record    == StoredMessage(created, expires)
  <1>1. record \in MessageRecords
    BY TruncateType DEF StoredMessage, MessageRecords
  <1>2. queueKey \in QueueKeys /\ expiryKey \in ExpiryKeys
    BY KeyTypes
  <1>3. /\ DOMAIN messages' = DOMAIN messages \cup {id}
        /\ messages'[id] = record
        /\ \A i \in DOMAIN messages \ {id} : messages'[i] = messages[i]
    BY DEF PersistMessage
  <1>4. /\ queueByRecipient' = queueByRecipient \cup {queueKey}
        /\ expiryIndex' = expiryIndex \cup {expiryKey}
        /\ UNCHANGED <<deliveryState, ackState>>
    BY DEF PersistMessage
  <1>5. messages' \in [DOMAIN messages' -> MessageRecords]
    <2>1. \A i \in DOMAIN messages' : messages'[i] \in MessageRecords
      BY <1>1, <1>3 DEF MessageStoreTypeOK
    <2> QED BY <2>1 DEF PersistMessage
  <1>6. MessageStoreTypeOK'
    BY <1>2, <1>3, <1>4, <1>5 DEF MessageStoreTypeOK
  <1>7. ASSUME IndexesCoverMessages
        PROVE  IndexesCoverMessages'
    <2> SUFFICES ASSUME NEW i \in DOMAIN messages'
                 PROVE  /\ \E key \in queueByRecipient' :
                              /\ key.id = i
                              /\ key.to = DestinationOf[i]
                              /\ TruncateToSecond(key.created.wall) = messages'[i].created
                        /\ \E key \in expiryIndex' :
                              /\ key.id = i
                              /\ TruncateToSecond(key.expires.wall) = messages'[i].expires
      BY DEF IndexesCoverMessages, TruncateToSecond, Second
    <2>1. CASE i = id
      <3>1. /\ queueKey.id = i /\ queueKey.to = DestinationOf[i]
            /\ queueKey.created.wall = created
            /\ expiryKey.id = i /\ expiryKey.expires.wall = expires
        BY <2>1 DEF QueueKey, ExpiryKey, RFC3339Nano, UTC, Times
      <3>2. /\ record.created = TruncateToSecond(created)
            /\ record.expires = TruncateToSecond(expires)
        BY DEF StoredMessage
      <3> HIDE DEF queueKey, expiryKey, record
      <3> QED BY <2>1, <1>3, <1>4, <3>1, <3>2
    <2>2. CASE i # id
      <3>1. i \in DOMAIN messages /\ messages'[i] = messages[i]
        BY <1>3, <2>2
      <3> QED BY <1>4, <1>7, <3>1 DEF IndexesCoverMessages
    <2> QED BY <2>1, <2>2
  <1>8. ASSUME DeliveredIsStored
        PROVE  DeliveredIsStored'
    BY <1>3, <1>4, <1>8 DEF DeliveredIsStored
  <1> QED BY <1>6, <1>7, <1>8

\* A removal deletes index keys of the removed ids only, and all of their marks.
LEMMA RemoveKeepsBuckets ==
    ASSUME MessageStoreTypeOK, NEW ids, RemoveMessages(ids),
           ttlSweep' \subseteq ttlSweep, UNCHANGED now
    PROVE  /\ MessageStoreTypeOK'
           /\ IndexesCoverMessages => IndexesCoverMessages'
           /\ DeliveredIsStored => DeliveredIsStored'
  <1>1. /\ DOMAIN messages' = DOMAIN messages \ ids
        /\ messages' = [i \in DOMAIN messages \ ids |-> messages[i]]
        /\ \A i \in DOMAIN messages' : messages'[i] = messages[i]
    BY DEF RemoveMessages
  <1>2. /\ queueByRecipient' \subseteq queueByRecipient
        /\ expiryIndex' \subseteq expiryIndex
        /\ deliveryState' \subseteq deliveryState
        /\ ackState' \subseteq ackState
    BY DEF RemoveMessages
  <1>3. /\ \A key \in queueByRecipient : key.id \notin ids => key \in queueByRecipient'
        /\ \A key \in expiryIndex : key.id \notin ids => key \in expiryIndex'
    BY DEF RemoveMessages, QueueKey, ExpiryKey
  <1>4. messages' \in [DOMAIN messages' -> MessageRecords]
    BY <1>1 DEF MessageStoreTypeOK
  <1>5. MessageStoreTypeOK'
    BY <1>1, <1>2, <1>4 DEF MessageStoreTypeOK
  <1>6. IndexesCoverMessages => IndexesCoverMessages'
    BY <1>1, <1>3 DEF IndexesCoverMessages, TruncateToSecond, Second
  <1>7. DeliveredIsStored => DeliveredIsStored'
    <2>1. \A mark \in deliveryState' : mark \in deliveryState /\ mark[1] \notin ids
      BY DEF RemoveMessages
    <2> QED BY <1>1, <2>1 DEF DeliveredIsStored
  <1> QED BY <1>5, <1>6, <1>7

-----------------------------------------------------------------------------
\* The three invariants are inductive together.
MessageStoreInv == MessageStoreTypeOK /\ IndexesCoverMessages /\ DeliveredIsStored

LEMMA MessageStoreInitial == MessageStoreInit => MessageStoreInv
  <1> SUFFICES ASSUME MessageStoreInit PROVE MessageStoreInv
    OBVIOUS
  <1>1. DOMAIN messages = {} /\ messages \in [DOMAIN messages -> MessageRecords]
    BY DEF MessageStoreInit
  <1>2. now \in Times
    BY TimeAssumption DEF MessageStoreInit, Times
  <1> QED BY <1>1, <1>2
          DEF MessageStoreInit, MessageStoreInv, MessageStoreTypeOK, IndexesCoverMessages,
              DeliveredIsStored

LEMMA MessageStoreStep == MessageStoreInv /\ [MessageStoreNext]_msgVars => MessageStoreInv'
  <1> SUFFICES ASSUME MessageStoreInv, [MessageStoreNext]_msgVars
               PROVE  MessageStoreInv'
    OBVIOUS
  <1> USE DEF MessageStoreInv
  <1>1. CASE ClientPersists
    <2> PICK id \in ItemIDs : \E expires \in Expiries[id] :
              PersistMessage(id, now, expires) /\ UNCHANGED <<ttlSweep, now>>
      BY <1>1 DEF ClientPersists
    <2> PICK expires \in Expiries[id] :
              PersistMessage(id, now, expires) /\ UNCHANGED <<ttlSweep, now>>
      OBVIOUS
    <2>1. now \in Times /\ expires \in Times
      BY ItemAssumption DEF MessageStoreTypeOK
    <2> QED BY <2>1, PersistKeepsBuckets
  <1>2. CASE ClientDelivers
    BY <1>2 DEF ClientDelivers, MarkDelivered, MessageStoreTypeOK, IndexesCoverMessages,
                DeliveredIsStored
  <1>3. CASE ClientAcks
    BY <1>3 DEF ClientAcks, MarkAckedBatch, MessageStoreTypeOK, IndexesCoverMessages,
                DeliveredIsStored
  <1>4. CASE TTLSweepRead
    BY <1>4 DEF TTLSweepRead, GetExpiredMessages, msgBuckets, MessageStoreTypeOK,
                IndexesCoverMessages, DeliveredIsStored
  <1>5. ASSUME NEW key \in ttlSweep, TTLSweepRemove(key)
        PROVE  MessageStoreInv'
    BY <1>5, RemoveKeepsBuckets DEF TTLSweepRemove
  <1>6. ASSUME NEW key \in ttlSweep, TTLSweepSkip(key)
        PROVE  MessageStoreInv'
    BY <1>6 DEF TTLSweepSkip, msgBuckets, MessageStoreTypeOK, IndexesCoverMessages,
                DeliveredIsStored
  <1>7. CASE RestartMessageStore
    <2>1. PICK ids : RemoveMessages(ids) /\ ttlSweep' \subseteq ttlSweep /\ UNCHANGED now
      BY <1>7 DEF RestartMessageStore
    <2> QED BY <2>1, RemoveKeepsBuckets
  <1>8. CASE MessageClock
    BY <1>8, TimeAssumption
       DEF MessageClock, Tick, Times, msgBuckets, MessageStoreTypeOK, IndexesCoverMessages,
           DeliveredIsStored
  <1>9. CASE UNCHANGED msgVars
    BY <1>9 DEF msgVars, MessageStoreTypeOK, IndexesCoverMessages, DeliveredIsStored
  <1> QED BY <1>1, <1>2, <1>3, <1>4, <1>5, <1>6, <1>7, <1>8, <1>9 DEF MessageStoreNext

LEMMA MessageStoreInvariant == MessageStoreSpec => []MessageStoreInv
  BY MessageStoreInitial, MessageStoreStep, PTL DEF MessageStoreSpec

(***************************************************************************)
(* BBoltStore's buckets and the sweeper's list hold entries of their kind. *)
(***************************************************************************)
THEOREM MessageStoreTypes == MessageStoreSpec => []MessageStoreTypeOK
  <1>1. MessageStoreInv => MessageStoreTypeOK
    BY DEF MessageStoreInv
  <1> QED BY <1>1, MessageStoreInvariant, PTL

(***************************************************************************)
(* PersistMessage and RemoveMessage leave no message without a queue key   *)
(* and an expiry key of its own, whatever zone, tick rate and expiries.    *)
(***************************************************************************)
THEOREM MessagesAreIndexed == MessageStoreSpec => []IndexesCoverMessages
  <1>1. MessageStoreInv => IndexesCoverMessages
    BY DEF MessageStoreInv
  <1> QED BY <1>1, MessageStoreInvariant, PTL

(***************************************************************************)
(* MarkDelivered's check and RemoveMessage's deletions leave no delivery   *)
(* mark behind.                                                            *)
(***************************************************************************)
THEOREM MarksHaveMessages == MessageStoreSpec => []DeliveredIsStored
  <1>1. MessageStoreInv => DeliveredIsStored
    BY DEF MessageStoreInv
  <1> QED BY <1>1, MessageStoreInvariant, PTL

-----------------------------------------------------------------------------
(***************************************************************************)
(* For the sweeper: the keys the running sweep has listed are due, and     *)
(* stay so.                                                                *)
(***************************************************************************)
TTLSweepInv == \A key \in ttlSweep : TextDue(key.expires)

LEMMA TTLSweepStep ==
    ASSUME LocalOffset = UTC,
           MessageStoreTypeOK, TTLSweepInv, [MessageStoreNext]_msgVars
    PROVE  TTLSweepInv'
  <1>1. ASSUME UNCHANGED now, ttlSweep' \subseteq ttlSweep
        PROVE  TTLSweepInv'
    BY <1>1 DEF TTLSweepInv, TextDue, Due, Second
  <1>2. CASE TTLSweepRead
    <2>1. \A key \in ttlSweep' : TextDue(key.expires)
      BY <1>2, ListedTextIsDue
         DEF TTLSweepRead, GetExpiredMessages, MessageStoreTypeOK, ExpiryKeys
    <2> QED BY <1>2, <2>1 DEF TTLSweepRead, TTLSweepInv, TextDue, Due, Second
  <1>3. CASE MessageClock
    <2>1. \A key \in ttlSweep : TextDue(key.expires)'
      BY <1>3, TextDueStays DEF MessageClock, MessageStoreTypeOK, ExpiryKeys, TTLSweepInv
    <2> QED BY <1>3, <2>1 DEF MessageClock, TTLSweepInv
  <1>4. CASE ~TTLSweepRead /\ ~MessageClock
    <2>1. UNCHANGED now /\ ttlSweep' \subseteq ttlSweep
      BY <1>4 DEF MessageStoreNext, ClientPersists, ClientDelivers, ClientAcks, TTLSweepRemove,
                  TTLSweepSkip, RestartMessageStore, msgVars
    <2> QED BY <1>1, <2>1
  <1> QED BY <1>2, <1>3, <1>4

(***************************************************************************)
(* The TTL sweeper, in a process that runs in UTC, takes a message only by *)
(* a key of its id whose second has come, however many keys re-persists    *)
(* and removals have left behind.  A zone east of UTC makes `before` sort  *)
(* after its time.                                                         *)
(***************************************************************************)
THEOREM SweptMessagesAreDue ==
    ASSUME LocalOffset = UTC
    PROVE  MessageStoreSpec => SweptMessageIsDue
  <1> DEFINE Taken == \A i \in (DOMAIN messages \ DOMAIN messages') \ BadPayload :
                          \E key \in ttlSweep \ ttlSweep' : key.id = i /\ TextDue(key.expires)
  <1>1. MessageStoreInit => TTLSweepInv
    BY DEF MessageStoreInit, TTLSweepInv
  <1>2. MessageStoreTypeOK /\ TTLSweepInv /\ [MessageStoreNext]_msgVars => TTLSweepInv'
    BY TTLSweepStep
  <1>3. MessageStoreTypeOK /\ TTLSweepInv /\ [MessageStoreNext]_msgVars => [Taken]_msgVars
    <2> SUFFICES ASSUME MessageStoreTypeOK, TTLSweepInv, MessageStoreNext,
                        NEW i \in (DOMAIN messages \ DOMAIN messages') \ BadPayload
                 PROVE  \E key \in ttlSweep \ ttlSweep' : key.id = i /\ TextDue(key.expires)
      OBVIOUS
    <2>1. PICK key \in ttlSweep : key.id = i /\ TTLSweepRemove(key)
      <3>1. CASE ClientPersists
        BY <3>1 DEF ClientPersists, PersistMessage
      <3>2. CASE RestartMessageStore
        BY <3>2 DEF RestartMessageStore, RemoveMessages, Scrubbed
      <3>3. ASSUME NEW key \in ttlSweep, TTLSweepRemove(key)
            PROVE  key.id = i
        BY <3>3 DEF TTLSweepRemove, RemoveMessages
      <3>4. ~UNCHANGED messages
        OBVIOUS
      <3> QED BY <3>1, <3>2, <3>3, <3>4
              DEF MessageStoreNext, ClientDelivers, MarkDelivered, ClientAcks, MarkAckedBatch,
                  TTLSweepRead, TTLSweepSkip, MessageClock, msgBuckets
    <2>2. key \notin ttlSweep'
      BY <2>1 DEF TTLSweepRemove
    <2> QED BY <2>1, <2>2 DEF TTLSweepInv
  <1> QED BY <1>1, <1>2, <1>3, MessageStoreTypes, PTL DEF MessageStoreSpec, SweptMessageIsDue

-----------------------------------------------------------------------------
(***************************************************************************)
(* The envelope store.                                                     *)
(***************************************************************************)

\* Keys of different items differ.
LEMMA KeysTellItemsApart ==
    ASSUME NEW i, NEW j, NEW a, NEW b, NEW z,
           \/ DestinationKey(i) = DestinationKey(j)
           \/ EnvelopeExpiryKey(i, a, z) = EnvelopeExpiryKey(j, b, z)
    PROVE  i = j
  BY DEF DestinationKey, EnvelopeExpiryKey

LEMMA EnvelopeKeyTypes ==
    ASSUME NEW i \in ItemIDs, NEW t \in Times, NEW offset \in {UTC, LocalOffset}
    PROVE  /\ DestinationKey(i) \in Destinations \X ItemIDs
           /\ EnvelopeExpiryKey(i, t, offset) \in Texts \X ItemIDs
  BY TextType, ItemAssumption DEF DestinationKey, EnvelopeExpiryKey, Times

-----------------------------------------------------------------------------
LEMMA PersistKeepsTypes ==
    ASSUME EnvelopeStoreTypeOK,
           NEW id \in ItemIDs, NEW env \in Envelopes, NEW offset \in {UTC, LocalOffset},
           PersistEnvelope(id, env, offset), UNCHANGED <<envSweep, now>>
    PROVE  EnvelopeStoreTypeOK'
  <1>1. env.expires \in Times
    BY DEF Envelopes
  <1>2. /\ DOMAIN envelopes' \subseteq ItemIDs
        /\ envelopes' \in [DOMAIN envelopes' -> Envelopes]
    BY DEF Put, PersistEnvelope, EnvelopeStoreTypeOK
  <1>3. /\ DOMAIN envelopeExpiry' \subseteq ItemIDs
        /\ envelopeExpiry' \in [DOMAIN envelopeExpiry' -> Times]
    BY <1>1 DEF Put, PersistEnvelope, EnvelopeStoreTypeOK
  <1>4. /\ byDestination' \subseteq Destinations \X ItemIDs
        /\ byExpiry' \subseteq Texts \X ItemIDs
    BY <1>1, EnvelopeKeyTypes DEF PersistEnvelope, EnvelopeStoreTypeOK
  <1> QED BY <1>2, <1>3, <1>4 DEF PersistEnvelope, EnvelopeStoreTypeOK

LEMMA RemoveKeepsTypes ==
    ASSUME EnvelopeStoreTypeOK, NEW id, RemoveEnvelope(id),
           envSweep' \subseteq envSweep, UNCHANGED now
    PROVE  EnvelopeStoreTypeOK'
  <1>1. /\ DOMAIN envelopes' \subseteq ItemIDs
        /\ envelopes' \in [DOMAIN envelopes' -> Envelopes]
    BY DEF Delete, RemoveEnvelope, EnvelopeStoreTypeOK
  <1>2. /\ DOMAIN envelopeExpiry' \subseteq ItemIDs
        /\ envelopeExpiry' \in [DOMAIN envelopeExpiry' -> Times]
    BY DEF Delete, RemoveEnvelope, EnvelopeStoreTypeOK
  <1>3. byDestination' \subseteq byDestination /\ byExpiry' \subseteq byExpiry
    BY DEF RemoveEnvelope
  <1> QED BY <1>1, <1>2, <1>3 DEF RemoveEnvelope, EnvelopeStoreTypeOK

LEMMA MarkKeepsTypes ==
    ASSUME EnvelopeStoreTypeOK,
           NEW id \in ItemIDs, NEW relays \in SUBSET RelayIDs,
           MarkSeenAndRelayIngestEmitted(id, relays), UNCHANGED <<envSweep, now>>
    PROVE  EnvelopeStoreTypeOK'
  BY DEF MarkSeenAndRelayIngestEmitted, indexBuckets, EnvelopeStoreTypeOK

LEMMA RestartKeepsTypes ==
    ASSUME EnvelopeStoreTypeOK, RestartEnvelopeStore
    PROVE  EnvelopeStoreTypeOK'
  <1>1. /\ DOMAIN envelopeExpiry' \subseteq ItemIDs
        /\ envelopeExpiry' \in [DOMAIN envelopeExpiry' -> Times]
    BY DEF RestartEnvelopeStore, BackfilledExpiry, EnvelopeStoreTypeOK, Envelopes
  <1> QED BY <1>1 DEF RestartEnvelopeStore, EnvelopeStoreTypeOK

LEMMA SweepReadKeepsTypes ==
    ASSUME EnvelopeStoreTypeOK, EnvSweepRead
    PROVE  EnvelopeStoreTypeOK'
  BY DEF EnvSweepRead, GetExpiredEnvelopes, envBuckets, EnvelopeStoreTypeOK

-----------------------------------------------------------------------------
\* An upsert deletes the one key its item had and puts the one it has now.
LEMMA PersistKeepsIndexes ==
    ASSUME LocalOffset = UTC, IndexesExact,
           NEW id, NEW env, PersistEnvelope(id, env, UTC)
    PROVE  IndexesExact'
  <1> DEFINE KeyOf(i) == EnvelopeExpiryKey(i, envelopes[i].expires, UTC)
             new      == EnvelopeExpiryKey(id, env.expires, UTC)
  <1>1. /\ DOMAIN envelopes' = DOMAIN envelopes \cup {id}
        /\ envelopes'[id] = env
        /\ \A i \in DOMAIN envelopes \ {id} : envelopes'[i] = envelopes[i]
    BY DEF Put, PersistEnvelope
  <1>2. byDestination' = {DestinationKey(i) : i \in DOMAIN envelopes'}
    BY <1>1 DEF PersistEnvelope, IndexesExact
  <1>3. byExpiry' = {EnvelopeExpiryKey(i, envelopes'[i].expires, UTC) :
                        i \in DOMAIN envelopes'}
    <2>1. byExpiry = {KeyOf(i) : i \in DOMAIN envelopes}
      BY DEF IndexesExact
    <2>2. \A i \in DOMAIN envelopes \ {id} : KeyOf(i) # KeyOf(id)
      BY KeysTellItemsApart
    <2>3. byExpiry' = {KeyOf(i) : i \in DOMAIN envelopes \ {id}} \cup {new}
      <3>1. CASE id \in DOMAIN envelopes
        <4>1. byExpiry' = (byExpiry \ {KeyOf(id)}) \cup {new}
          BY <3>1 DEF PersistEnvelope
        <4> HIDE DEF KeyOf, new
        <4> QED BY <4>1, <2>1, <2>2
      <3>2. CASE id \notin DOMAIN envelopes
        <4>1. byExpiry' = byExpiry \cup {new}
          BY <3>2 DEF PersistEnvelope
        <4> HIDE DEF KeyOf, new
        <4> QED BY <4>1, <2>1, <3>2
      <3> QED BY <3>1, <3>2
    <2> QED BY <1>1, <2>3
  <1>4. envelopeExpiry' = [i \in DOMAIN envelopes' |-> envelopes'[i].expires]
    BY <1>1 DEF PersistEnvelope, IndexesExact, Put
  <1> QED BY <1>2, <1>3, <1>4
          DEF IndexesExact, DestinationKey, EnvelopeExpiryKey, RFC3339Nano

\* A removal deletes the keys of the removed envelope and no others.
LEMMA RemoveKeepsIndexes ==
    ASSUME LocalOffset = UTC, IndexesExact, NEW id, RemoveEnvelope(id)
    PROVE  IndexesExact'
  <1> DEFINE KeyOf(i) == EnvelopeExpiryKey(i, envelopes[i].expires, UTC)
  <1>1. /\ DOMAIN envelopes' = DOMAIN envelopes \ {id}
        /\ \A i \in DOMAIN envelopes' : envelopes'[i] = envelopes[i]
    BY DEF Delete, RemoveEnvelope
  <1>2. byDestination' = {DestinationKey(i) : i \in DOMAIN envelopes'}
    BY <1>1, KeysTellItemsApart DEF RemoveEnvelope, IndexesExact
  <1>3. byExpiry' = {EnvelopeExpiryKey(i, envelopes'[i].expires, UTC) :
                        i \in DOMAIN envelopes'}
    <2>1. byExpiry = {KeyOf(i) : i \in DOMAIN envelopes}
      BY DEF IndexesExact
    <2>2. \A i \in DOMAIN envelopes \ {id} : KeyOf(i) # KeyOf(id)
      BY KeysTellItemsApart
    <2>3. byExpiry' = IF id \in DOMAIN envelopes THEN byExpiry \ {KeyOf(id)} ELSE byExpiry
      BY DEF RemoveEnvelope
    <2>4. byExpiry' = {KeyOf(i) : i \in DOMAIN envelopes'}
      <3> HIDE DEF KeyOf
      <3> QED BY <1>1, <2>1, <2>2, <2>3
    <2> QED BY <1>1, <2>4
  <1>4. envelopeExpiry' = [i \in DOMAIN envelopes' |-> envelopes'[i].expires]
    BY <1>1 DEF RemoveEnvelope, IndexesExact, Delete
  <1> QED BY <1>2, <1>3, <1>4
          DEF IndexesExact, DestinationKey, EnvelopeExpiryKey, RFC3339Nano

\* With exact indexes a restart has nothing to backfill.
LEMMA RestartKeepsIndexes ==
    ASSUME IndexesExact, RestartEnvelopeStore
    PROVE  IndexesExact'
  <1>1. envelopeExpiry' = envelopeExpiry
    BY DEF RestartEnvelopeStore, BackfilledExpiry, IndexesExact
  <1> QED BY <1>1 DEF RestartEnvelopeStore, IndexesExact, DestinationKey, EnvelopeExpiryKey,
                      RFC3339Nano

-----------------------------------------------------------------------------
(***************************************************************************)
(* For the sweeper: envelopes carry expiries some sender gave, and what    *)
(* the running sweep has listed was due when it was listed.                *)
(***************************************************************************)
EnvSweepInv ==
    /\ \A i \in DOMAIN envelopes : envelopes[i].expires \in Expiries[i]
    /\ \A key \in envSweep : \E e \in Expiries[key[2]] : Due(e)

\* The keys GetExpiredEnvelopes lists are due, in a process that runs in UTC.
LEMMA ListedEnvelopesAreDue ==
    ASSUME LocalOffset = UTC, EnvelopeStoreTypeOK, IndexesExact, EnvSweepInv,
           NEW key \in GetExpiredEnvelopes(now)
    PROVE  \E e \in Expiries[key[2]] : Due(e)
  <1>1. PICK i \in DOMAIN envelopes :
            key = EnvelopeExpiryKey(i, envelopes[i].expires, UTC)
    BY DEF GetExpiredEnvelopes, IndexesExact
  <1>2. /\ key[2] = i /\ key[1] = RFC3339Nano(envelopes[i].expires, UTC)
        /\ envelopes[i].expires \in Expiries[i]
    BY <1>1 DEF EnvelopeExpiryKey, EnvSweepInv
  <1>3. now \in Int /\ envelopes[i].expires \in Int
    BY <1>1 DEF EnvelopeStoreTypeOK, Envelopes, Times
  <1>4. TextAtMost(RFC3339Nano(envelopes[i].expires, UTC), RFC3339Nano(now, UTC))
    BY <1>2 DEF GetExpiredEnvelopes
  <1>5. Second(envelopes[i].expires) <= Second(now)
    BY <1>3, <1>4, TextOrderSecond
  <1> QED BY <1>2, <1>5 DEF Due

\* What an item in the sweep's list is due by, every sender's expiry is.
LEMMA ListedItemIsDue ==
    ASSUME ExpiriesAgree, EnvelopeStoreTypeOK, EnvSweepInv,
           NEW key \in envSweep, NEW e \in Expiries[key[2]]
    PROVE  Due(e)
  <1>1. key[2] \in ItemIDs
    BY DEF EnvelopeStoreTypeOK
  <1>2. PICK f \in Expiries[key[2]] : Due(f)
    BY DEF EnvSweepInv
  <1>3. Second(e) = Second(f)
    BY <1>1 DEF ExpiriesAgree
  <1> QED BY <1>2, <1>3 DEF Due

\* How the steps the store is used by act on that invariant.
LEMMA EnvSweepInvPersist ==
    ASSUME EnvSweepInv, NEW id, NEW env, NEW offset, env.expires \in Expiries[id],
           PersistEnvelope(id, env, offset), UNCHANGED <<envSweep, now>>
    PROVE  EnvSweepInv'
  BY DEF PersistEnvelope, Put, EnvSweepInv, Due, Second

LEMMA EnvSweepInvShrink ==
    ASSUME EnvSweepInv, UNCHANGED now, envSweep' \subseteq envSweep,
           DOMAIN envelopes' \subseteq DOMAIN envelopes,
           \A i \in DOMAIN envelopes' : envelopes'[i] = envelopes[i]
    PROVE  EnvSweepInv'
  BY DEF EnvSweepInv, Due, Second

LEMMA EnvSweepInvRead ==
    ASSUME LocalOffset = UTC, EnvelopeStoreTypeOK, IndexesExact, EnvSweepInv, EnvSweepRead
    PROVE  EnvSweepInv'
  <1>1. \A key \in envSweep' : \E e \in Expiries[key[2]] : Due(e)
    BY ListedEnvelopesAreDue DEF EnvSweepRead
  <1> QED BY <1>1 DEF EnvSweepRead, envBuckets, EnvSweepInv, Due, Second

LEMMA EnvSweepInvTick ==
    ASSUME EnvelopeStoreTypeOK, EnvSweepInv, Tick, UNCHANGED <<envelopes, envSweep>>
    PROVE  EnvSweepInv'
  <1>1. \A key \in envSweep : \A e \in Expiries[key[2]] : Due(e) => Due(e)'
    BY DueStays, ItemAssumption DEF EnvelopeStoreTypeOK
  <1> QED BY <1>1 DEF EnvSweepInv

-----------------------------------------------------------------------------
(***************************************************************************)
(* The store's buckets and the sweeper's list hold entries of their kind.  *)
(***************************************************************************)
THEOREM EnvelopeStoreTypes == EnvelopeStoreSpec => []EnvelopeStoreTypeOK
  <1>1. EnvelopeStoreInit => EnvelopeStoreTypeOK
    BY TimeAssumption DEF EnvelopeStoreInit, EnvelopeStoreTypeOK, Times
  <1>2. EnvelopeStoreTypeOK /\ [EnvelopeStoreNext]_envVars => EnvelopeStoreTypeOK'
    <2> SUFFICES ASSUME EnvelopeStoreTypeOK, [EnvelopeStoreNext]_envVars
                 PROVE  EnvelopeStoreTypeOK'
      OBVIOUS
    <2>1. CASE TransferPersists
      <3> PICK id \in ItemIDs, payload \in {"envelope", "payload"} :
              \E expires \in Expiries[id] :
                 /\ PersistEnvelope(id, [payload |-> payload, expires |-> expires], UTC)
                 /\ UNCHANGED <<envSweep, now>>
        BY <2>1 DEF TransferPersists
      <3> PICK expires \in Expiries[id] :
                 /\ PersistEnvelope(id, [payload |-> payload, expires |-> expires], UTC)
                 /\ UNCHANGED <<envSweep, now>>
        OBVIOUS
      <3>1. [payload |-> payload, expires |-> expires] \in Envelopes
        BY ItemAssumption DEF Envelopes
      <3> QED BY <3>1, PersistKeepsTypes
    <2>2. CASE StateRewritten
      <3> PICK id \in DOMAIN envelopes :
              PersistEnvelope(id, envelopes[id], LocalOffset) /\ UNCHANGED <<envSweep, now>>
        BY <2>2 DEF StateRewritten
      <3>1. id \in ItemIDs /\ envelopes[id] \in Envelopes
        BY DEF EnvelopeStoreTypeOK
      <3> QED BY <3>1, PersistKeepsTypes
    <2>3. CASE RelayMarks
      BY <2>3, MarkKeepsTypes DEF RelayMarks
    <2>4. CASE EnvSweepRead
      BY <2>4, SweepReadKeepsTypes
    <2>5. ASSUME NEW key \in envSweep, EnvSweepRemove(key)
          PROVE  EnvelopeStoreTypeOK'
      BY <2>5, RemoveKeepsTypes DEF EnvSweepRemove
    <2>6. ASSUME NEW key \in envSweep, EnvSweepSkip(key)
          PROVE  EnvelopeStoreTypeOK'
      BY <2>6 DEF EnvSweepSkip, envBuckets, EnvelopeStoreTypeOK
    <2>7. CASE RestartEnvelopeStore
      BY <2>7, RestartKeepsTypes
    <2>8. CASE EnvelopeClock
      BY <2>8, TimeAssumption DEF EnvelopeClock, Tick, Times, envBuckets, EnvelopeStoreTypeOK
    <2>9. CASE UNCHANGED envVars
      BY <2>9 DEF envVars, EnvelopeStoreTypeOK
    <2> QED BY <2>1, <2>2, <2>3, <2>4, <2>5, <2>6, <2>7, <2>8, <2>9 DEF EnvelopeStoreNext
  <1> QED BY <1>1, <1>2, PTL DEF EnvelopeStoreSpec

LEMMA EnvelopeStoreStep ==
    ASSUME LocalOffset = UTC, EnvelopeStoreTypeOK, IndexesExact, EnvSweepInv,
           [EnvelopeStoreNext]_envVars
    PROVE  IndexesExact' /\ EnvSweepInv'
  <1>1. ASSUME UNCHANGED indexBuckets
        PROVE  IndexesExact'
    BY <1>1 DEF indexBuckets, IndexesExact, DestinationKey, EnvelopeExpiryKey, RFC3339Nano
  <1>2. CASE TransferPersists
    <2> PICK id \in ItemIDs, payload \in {"envelope", "payload"} :
            \E expires \in Expiries[id] :
               /\ PersistEnvelope(id, [payload |-> payload, expires |-> expires], UTC)
               /\ UNCHANGED <<envSweep, now>>
      BY <1>2 DEF TransferPersists
    <2> PICK expires \in Expiries[id] :
               /\ PersistEnvelope(id, [payload |-> payload, expires |-> expires], UTC)
               /\ UNCHANGED <<envSweep, now>>
      OBVIOUS
    <2> DEFINE env == [payload |-> payload, expires |-> expires]
    <2>1. env.expires \in Expiries[id]
      OBVIOUS
    <2>2. PersistEnvelope(id, env, UTC)
      OBVIOUS
    <2> HIDE DEF env
    <2> QED BY <2>1, <2>2, PersistKeepsIndexes, EnvSweepInvPersist
  <1>3. CASE StateRewritten
    <2> PICK id \in DOMAIN envelopes :
            PersistEnvelope(id, envelopes[id], LocalOffset) /\ UNCHANGED <<envSweep, now>>
      BY <1>3 DEF StateRewritten
    <2> PICK env : env = envelopes[id]
      OBVIOUS
    <2>1. env.expires \in Expiries[id] /\ PersistEnvelope(id, env, UTC)
      BY DEF EnvSweepInv
    <2> QED BY <2>1, PersistKeepsIndexes, EnvSweepInvPersist
  <1>4. CASE RelayMarks
    <2>1. UNCHANGED <<indexBuckets, envSweep, now>>
      BY <1>4 DEF RelayMarks, MarkSeenAndRelayIngestEmitted
    <2> QED BY <2>1, <1>1, EnvSweepInvShrink DEF indexBuckets
  <1>5. CASE EnvSweepRead
    <2>1. UNCHANGED indexBuckets
      BY <1>5 DEF EnvSweepRead, envBuckets, indexBuckets
    <2> QED BY <2>1, <1>1, <1>5, EnvSweepInvRead
  <1>6. ASSUME NEW key \in envSweep, EnvSweepRemove(key)
        PROVE  IndexesExact' /\ EnvSweepInv'
    <2>1. IndexesExact'
      BY <1>6, RemoveKeepsIndexes DEF EnvSweepRemove
    <2>2. EnvSweepInv'
      BY <1>6, EnvSweepInvShrink DEF EnvSweepRemove, RemoveEnvelope, Delete
    <2> QED BY <2>1, <2>2
  <1>7. ASSUME NEW key \in envSweep, EnvSweepSkip(key)
        PROVE  IndexesExact' /\ EnvSweepInv'
    BY <1>1, <1>7, EnvSweepInvShrink DEF EnvSweepSkip, envBuckets, indexBuckets
  <1>8. CASE RestartEnvelopeStore
    <2>1. UNCHANGED <<envelopes, now>> /\ envSweep' \subseteq envSweep
      BY <1>8 DEF RestartEnvelopeStore
    <2> QED BY <2>1, <1>8, RestartKeepsIndexes, EnvSweepInvShrink
  <1>9. CASE EnvelopeClock
    <2>1. Tick /\ UNCHANGED <<indexBuckets, envSweep>>
      BY <1>9 DEF EnvelopeClock, envBuckets, indexBuckets
    <2> QED BY <2>1, <1>1, EnvSweepInvTick DEF indexBuckets
  <1>10. CASE UNCHANGED envVars
    BY <1>1, <1>10, EnvSweepInvShrink DEF envVars, indexBuckets
  <1> QED BY <1>2, <1>3, <1>4, <1>5, <1>6, <1>7, <1>8, <1>9, <1>10 DEF EnvelopeStoreNext

LEMMA EnvelopeStoreInvariant ==
    ASSUME LocalOffset = UTC
    PROVE  EnvelopeStoreSpec => [](IndexesExact /\ EnvSweepInv)
  <1>1. EnvelopeStoreInit => IndexesExact /\ EnvSweepInv
    BY DEF EnvelopeStoreInit, IndexesExact, EnvSweepInv
  <1>2. EnvelopeStoreTypeOK /\ (IndexesExact /\ EnvSweepInv) /\ [EnvelopeStoreNext]_envVars
            => (IndexesExact /\ EnvSweepInv)'
    BY EnvelopeStoreStep
  <1> QED BY <1>1, <1>2, EnvelopeStoreTypes, PTL DEF EnvelopeStoreSpec

(***************************************************************************)
(* In UTC, PersistEnvelope and RemoveEnvelope keep exactly one key per     *)
(* index and stored envelope, even when an item's expiry is replaced.      *)
(***************************************************************************)
THEOREM EnvelopesAreIndexed ==
    ASSUME LocalOffset = UTC
    PROVE  EnvelopeStoreSpec => []IndexesExact
  BY EnvelopeStoreInvariant, PTL

\* The keys the running sweep has listed are due, as in the message store.
EnvKeysInv == \A key \in envSweep : TextDue(key[1])

LEMMA EnvKeysStep ==
    ASSUME LocalOffset = UTC,
           EnvelopeStoreTypeOK, EnvKeysInv, [EnvelopeStoreNext]_envVars
    PROVE  EnvKeysInv'
  <1>1. ASSUME UNCHANGED now, envSweep' \subseteq envSweep
        PROVE  EnvKeysInv'
    BY <1>1 DEF EnvKeysInv, TextDue, Due, Second
  <1>2. CASE EnvSweepRead
    <2>1. \A key \in envSweep' : TextDue(key[1])
      BY <1>2, ListedTextIsDue DEF EnvSweepRead, GetExpiredEnvelopes, EnvelopeStoreTypeOK
    <2> QED BY <1>2, <2>1 DEF EnvSweepRead, EnvKeysInv, TextDue, Due, Second
  <1>3. CASE EnvelopeClock
    <2>1. \A key \in envSweep : TextDue(key[1])'
      BY <1>3, TextDueStays DEF EnvelopeClock, EnvelopeStoreTypeOK, EnvKeysInv
    <2> QED BY <1>3, <2>1 DEF EnvelopeClock, EnvKeysInv
  <1>4. CASE ~EnvSweepRead /\ ~EnvelopeClock
    <2>1. UNCHANGED now /\ envSweep' \subseteq envSweep
      BY <1>4 DEF EnvelopeStoreNext, TransferPersists, StateRewritten, RelayMarks, EnvSweepRemove,
                  EnvSweepSkip, RestartEnvelopeStore, envVars
    <2> QED BY <1>1, <2>1
  <1> QED BY <1>2, <1>3, <1>4

(***************************************************************************)
(* In UTC the envelope sweeper takes an envelope only by a key that is     *)
(* due, and only one that is due itself or has been stored again under     *)
(* another expiry since the key was read: the indexes are exact, so a key  *)
(* that is still there is the envelope's own.                              *)
(***************************************************************************)
THEOREM SweptEnvelopesAreDue ==
    ASSUME LocalOffset = UTC
    PROVE  EnvelopeStoreSpec => SweptEnvelopeIsDue
  <1> DEFINE Taken == \A i \in DOMAIN envelopes \ DOMAIN envelopes' :
                          \E key \in envSweep \ envSweep' :
                              /\ key[2] = i
                              /\ TextDue(key[1])
                              /\ key \in byExpiry => Due(envelopes[i].expires)
  <1>1. EnvelopeStoreInit => EnvKeysInv
    BY DEF EnvelopeStoreInit, EnvKeysInv
  <1>2. EnvelopeStoreTypeOK /\ EnvKeysInv /\ [EnvelopeStoreNext]_envVars => EnvKeysInv'
    BY EnvKeysStep
  <1>3. EnvelopeStoreTypeOK /\ IndexesExact /\ EnvKeysInv /\ [EnvelopeStoreNext]_envVars
            => [Taken]_envVars
    <2> SUFFICES ASSUME EnvelopeStoreTypeOK, IndexesExact, EnvKeysInv, EnvelopeStoreNext,
                        NEW i \in DOMAIN envelopes \ DOMAIN envelopes'
                 PROVE  \E key \in envSweep \ envSweep' :
                              /\ key[2] = i
                              /\ TextDue(key[1])
                              /\ key \in byExpiry => Due(envelopes[i].expires)
      OBVIOUS
    <2>1. PICK key \in envSweep : key[2] = i /\ EnvSweepRemove(key)
      <3>1. ASSUME NEW key \in envSweep, EnvSweepRemove(key)
            PROVE  key[2] = i
        BY <3>1 DEF EnvSweepRemove, RemoveEnvelope, Delete
      <3>2. ASSUME NEW id, NEW env, NEW offset
            PROVE  ~PersistEnvelope(id, env, offset)
        BY <3>2 DEF PersistEnvelope, Put
      <3>3. ~TransferPersists /\ ~StateRewritten
        BY ZenonT(30), <3>2 DEF TransferPersists, StateRewritten
      <3>4. ~UNCHANGED envelopes
        OBVIOUS
      <3> QED BY <3>1, <3>3, <3>4
              DEF EnvelopeStoreNext, RelayMarks, MarkSeenAndRelayIngestEmitted, EnvSweepRead,
                  EnvSweepSkip, RestartEnvelopeStore, EnvelopeClock, envBuckets, indexBuckets
    <2>2. key \notin envSweep' /\ TextDue(key[1])
      BY <2>1 DEF EnvSweepRemove, EnvKeysInv
    <2>3. ASSUME key \in byExpiry
          PROVE  Due(envelopes[i].expires)
      <3>1. PICK j \in DOMAIN envelopes : key = EnvelopeExpiryKey(j, envelopes[j].expires, UTC)
        BY <2>3 DEF IndexesExact
      <3>2. j = i /\ key[1] = RFC3339Nano(envelopes[i].expires, UTC)
        BY <2>1, <3>1 DEF EnvelopeExpiryKey
      <3>3. envelopes[i].expires \in Int
        BY DEF EnvelopeStoreTypeOK, Envelopes, Times
      <3>4. key[1].wall - key[1].offset = envelopes[i].expires
        BY <3>2, <3>3 DEF RFC3339Nano, UTC
      <3> QED BY <2>2, <3>4 DEF TextDue
    <2> QED BY <2>1, <2>2, <2>3
  <1> QED BY <1>1, <1>2, <1>3, EnvelopeStoreTypes, EnvelopesAreIndexed, PTL
          DEF EnvelopeStoreSpec, SweptEnvelopeIsDue

-----------------------------------------------------------------------------
(***************************************************************************)
(* The ingest path, for any number of sessions, items and faults.          *)
(***************************************************************************)

\* Objects are the records of an item and one of its senders' expiries.
LEMMA ObjectFacts ==
    /\ \A o \in Objects : /\ o.id \in ItemIDs
                          /\ o.expires \in Expiries[o.id]
                          /\ o.expires \in Times
    /\ \A i \in ItemIDs : \A e \in Expiries[i] : [id |-> i, expires |-> e] \in Objects
  <1>1. ASSUME NEW o \in Objects
        PROVE  o.id \in ItemIDs /\ o.expires \in Expiries[o.id] /\ o.expires \in Times
    <2>1. PICK i \in ItemIDs : o \in [id : {i}, expires : Expiries[i]]
      BY DEF Objects
    <2>2. o.id = i /\ o.expires \in Expiries[i]
      BY <2>1
    <2> QED BY <2>2, ItemAssumption
  <1>2. ASSUME NEW i \in ItemIDs, NEW e \in Expiries[i]
        PROVE  [id |-> i, expires |-> e] \in Objects
    <2>1. [id |-> i, expires |-> e] \in [id : {i}, expires : Expiries[i]]
      OBVIOUS
    <2>2. [id : {i}, expires : Expiries[i]]
              \in {[id : {j}, expires : Expiries[j]] : j \in ItemIDs}
      BY ZenonT(30)
    <2> QED BY <2>1, <2>2 DEF Objects
  <1> QED BY <1>1, <1>2

LEMMA NoMessageFacts == NoMessage \notin WorkMessages
  BY ItemAssumption DEF NoMessage, WorkMessages

LEMMA NoEnvelopeFacts == NoEnvelope \notin WorkEnvelopes
  BY DEF NoEnvelope, WorkEnvelopes

\* A session that is past the lookup holds a proper message.
LEMMA InWork ==
    ASSUME StoreForwardTypeOK, NEW s \in Sessions, pc[s] \notin {"idle", "next"}
    PROVE  /\ message[s] \in WorkMessages
           /\ message[s].id \in ItemIDs
           /\ message[s].created \in Times
           /\ message[s].expires \in Times
           /\ message[s].expires \in Expiries[message[s].id]
  BY DEF StoreForwardTypeOK, WorkMessages

LEMMA UntouchedTypes ==
    /\ MessageStoreTypeOK /\ UntouchedMessages /\ UNCHANGED now => MessageStoreTypeOK'
    /\ EnvelopeStoreTypeOK /\ UntouchedEnvelopes /\ UNCHANGED now => EnvelopeStoreTypeOK'
  BY DEF UntouchedMessages, UntouchedEnvelopes, msgBuckets, envBuckets,
         MessageStoreTypeOK, EnvelopeStoreTypeOK

-----------------------------------------------------------------------------
\* The sessions' part of the type invariant.
SessionTypeOK ==
    /\ pc \in [Sessions -> Labels]
    /\ todo \in [Sessions -> SUBSET Objects]
    /\ accepted \in [Sessions -> SUBSET Objects]
    /\ message \in [Sessions -> WorkMessages \cup {NoMessage}]
    /\ envelope \in [Sessions -> WorkEnvelopes \cup {NoEnvelope}]
    /\ \A s \in Sessions : /\ pc[s] \in {"idle", "next"} <=> message[s] = NoMessage
                           /\ pc[s] = "write" <=> envelope[s] # NoEnvelope
                           /\ pc[s] \in {"mark", "emit"} => SourceRelay[s] # Client
    /\ emitted \in [ItemIDs -> Nat]
    /\ receipted \subseteq Objects
    /\ faulted \in BOOLEAN

LEMMA TypeParts ==
    /\ StoreForwardTypeOK <=> MessageStoreTypeOK /\ EnvelopeStoreTypeOK /\ SessionTypeOK
    /\ MessageStoreTypeOK' /\ EnvelopeStoreTypeOK' /\ SessionTypeOK' => StoreForwardTypeOK'
  BY DEF StoreForwardTypeOK, SessionTypeOK

LEMMA SessionTypeStep ==
    ASSUME StoreForwardTypeOK, NEW s \in Sessions,
           ReceiveTransfer(s) \/ SessionStep(s) \/ StoreCallFails(s) \/ LookupFails(s)
    PROVE  SessionTypeOK'
  <1> USE DEF SessionTypeOK, Goto, Labels
  <1>0. SessionTypeOK
    BY TypeParts
  <1>1. CASE ReceiveTransfer(s)
    BY <1>0, <1>1 DEF ReceiveTransfer, historyVars, Transfers
  <1>2. CASE RejectExpired(s)
    BY <1>0, <1>2 DEF RejectExpired, historyVars
  <1>3. CASE LookUp(s)
    <2>1. PICK object \in todo[s] :
              /\ todo' = [todo EXCEPT ![s] = @ \ {object}]
              /\ message' = [message EXCEPT ![s] =
                    [id |-> object.id, created |-> now, expires |-> object.expires]]
              /\ pc' = [pc EXCEPT ![s] = AfterLookup(s, object.id)]
      BY ZenonT(30), <1>3 DEF LookUp
    <2>2. object \in Objects
      BY <1>0
    <2>3. [id |-> object.id, created |-> now, expires |-> object.expires] \in WorkMessages
      BY <2>2, ObjectFacts DEF WorkMessages, StoreForwardTypeOK, MessageStoreTypeOK
    <2>4. AfterLookup(s, object.id) \in {"persist", "read", "transfer"}
      BY DEF AfterLookup
    <2>5. pc[s] = "next" /\ UNCHANGED <<accepted, envelope, historyVars>>
      BY <1>3 DEF LookUp
    <2> HIDE DEF AfterLookup
    <2> QED BY ZenonT(30), <1>0, <2>1, <2>3, <2>4, <2>5, NoMessageFacts DEF historyVars
  <1>4. CASE PersistStep(s)
    BY <1>0, <1>4 DEF PersistStep, historyVars
  <1>5. CASE ReadEnvelopeState(s)
    <2>1. EnvelopeState(message[s]) \in WorkEnvelopes
      BY ZenonT(30), <1>5, InWork
         DEF ReadEnvelopeState, EnvelopeState, WorkEnvelopes, StoreForwardTypeOK,
             EnvelopeStoreTypeOK, Envelopes
    <2> QED BY <1>0, <1>5, <2>1, NoEnvelopeFacts DEF ReadEnvelopeState, historyVars
  <1>6. CASE WriteEnvelopeState(s)
    BY <1>0, <1>6 DEF WriteEnvelopeState, historyVars
  <1>7. CASE MarkIngest(s)
    BY <1>0, <1>7 DEF MarkIngest, historyVars
  <1>8. CASE EmitIngest(s)
    <2>1. message[s].id \in ItemIDs
      BY ZenonT(30), <1>8, InWork DEF EmitIngest
    <2> QED BY <1>0, <1>8, <2>1 DEF EmitIngest
  <1>9. CASE PersistTransferEnvelope(s)
    <2>1. [id |-> message[s].id, expires |-> message[s].expires] \in Objects
      BY ZenonT(30), <1>9, InWork, ObjectFacts DEF PersistTransferEnvelope
    <2> QED BY ZenonT(30), <1>0, <1>9, <2>1 DEF PersistTransferEnvelope, historyVars
  <1>10. CASE SendReceipt(s)
    BY <1>0, <1>10 DEF SendReceipt
  <1>11. CASE StoreCallFails(s)
    BY <1>0, <1>11 DEF StoreCallFails
  <1>12. CASE LookupFails(s)
    BY <1>0, <1>12 DEF LookupFails
  <1> QED BY ZenonT(30), <1>1, <1>2, <1>3, <1>4, <1>5, <1>6, <1>7, <1>8, <1>9, <1>10, <1>11, <1>12
          DEF SessionStep

LEMMA StoreTypeStep ==
    ASSUME StoreForwardTypeOK, NEW s \in Sessions,
           ReceiveTransfer(s) \/ SessionStep(s) \/ StoreCallFails(s) \/ LookupFails(s)
    PROVE  MessageStoreTypeOK' /\ EnvelopeStoreTypeOK'
  <1>0. MessageStoreTypeOK /\ EnvelopeStoreTypeOK
    BY DEF StoreForwardTypeOK
  <1>1. CASE \/ ReceiveTransfer(s) \/ RejectExpired(s) \/ LookUp(s) \/ ReadEnvelopeState(s)
             \/ EmitIngest(s) \/ SendReceipt(s) \/ StoreCallFails(s) \/ LookupFails(s)
    <2>1. UntouchedMessages /\ UntouchedEnvelopes /\ UNCHANGED now
      BY ZenonT(30), <1>1 DEF ReceiveTransfer, RejectExpired, LookUp, ReadEnvelopeState, EmitIngest,
                  SendReceipt, StoreCallFails, LookupFails
    <2> QED BY <1>0, <2>1, UntouchedTypes
  <1>2. CASE PersistStep(s)
    <2>1. /\ PersistMessage(message[s].id, message[s].created, message[s].expires)
          /\ UntouchedEnvelopes /\ UNCHANGED <<ttlSweep, now>>
      BY ZenonT(30), <1>2 DEF PersistStep
    <2>2. /\ message[s].id \in ItemIDs
          /\ message[s].created \in Times /\ message[s].expires \in Times
      BY ZenonT(30), <1>2, InWork DEF PersistStep
    <2> PICK id \in ItemIDs, created \in Times, expires \in Times :
            /\ id = message[s].id /\ created = message[s].created
            /\ expires = message[s].expires
      BY ZenonT(30), <2>2
    <2> QED BY ZenonT(30), <1>0, <2>1, PersistKeepsBuckets, UntouchedTypes
  <1>3. CASE WriteEnvelopeState(s)
    <2> PICK id, env, offset :
            /\ id = message[s].id
            /\ env = [payload |-> envelope[s].payload, expires |-> envelope[s].expires]
            /\ offset = envelope[s].offset
      BY ZenonT(30)
    <2>1. PersistEnvelope(id, env, offset) /\ UntouchedMessages /\ UNCHANGED <<envSweep, now>>
      BY ZenonT(30), <1>3 DEF WriteEnvelopeState
    <2>2. id \in ItemIDs
      BY ZenonT(30), <1>3, InWork DEF WriteEnvelopeState
    <2>3. envelope[s] \in WorkEnvelopes
      BY ZenonT(30), <1>3 DEF WriteEnvelopeState, StoreForwardTypeOK
    <2>4. env \in Envelopes /\ offset \in {UTC, LocalOffset}
      BY ZenonT(30), <2>3 DEF WorkEnvelopes, Envelopes
    <2> QED BY ZenonT(30), <1>0, <2>1, <2>2, <2>4, PersistKeepsTypes, UntouchedTypes
  <1>4. CASE MarkIngest(s)
    <2> PICK id, relays : id = message[s].id /\ relays = {SourceRelay[s], LocalRelay}
      BY ZenonT(30)
    <2>1. /\ MarkSeenAndRelayIngestEmitted(id, relays)
          /\ UntouchedMessages /\ UNCHANGED <<envSweep, now>>
      BY ZenonT(30), <1>4 DEF MarkIngest
    <2>2. id \in ItemIDs
      BY ZenonT(30), <1>4, InWork DEF MarkIngest
    <2>3. relays \in SUBSET RelayIDs
      BY <1>4, SessionAssumption DEF MarkIngest, StoreForwardTypeOK
    <2> QED BY ZenonT(30), <1>0, <2>1, <2>2, <2>3, MarkKeepsTypes, UntouchedTypes
  <1>5. CASE PersistTransferEnvelope(s)
    <2> PICK id, env :
            /\ id = message[s].id
            /\ env = [payload |-> "envelope", expires |-> message[s].expires]
      BY ZenonT(30)
    <2>1. PersistEnvelope(id, env, UTC) /\ UntouchedMessages /\ UNCHANGED <<envSweep, now>>
      BY ZenonT(30), <1>5 DEF PersistTransferEnvelope
    <2>2. id \in ItemIDs /\ env \in Envelopes
      BY ZenonT(30), <1>5, InWork DEF PersistTransferEnvelope, Envelopes
    <2> QED BY <1>0, <2>1, <2>2, PersistKeepsTypes, UntouchedTypes
  <1> QED BY <1>1, <1>2, <1>3, <1>4, <1>5 DEF SessionStep

LEMMA StoreForwardTypeStep ==
    StoreForwardTypeOK /\ [StoreForwardNext]_sfVars => StoreForwardTypeOK'
  <1> SUFFICES ASSUME StoreForwardTypeOK, [StoreForwardNext]_sfVars
               PROVE  StoreForwardTypeOK'
    OBVIOUS
  <1>0. MessageStoreTypeOK /\ EnvelopeStoreTypeOK /\ SessionTypeOK
    BY TypeParts
  <1>1. ASSUME UNCHANGED <<sessionVars, historyVars>>
        PROVE  SessionTypeOK'
    BY <1>0, <1>1 DEF SessionTypeOK, sessionVars, historyVars
  <1>2. ASSUME NEW s \in Sessions,
               ReceiveTransfer(s) \/ SessionStep(s) \/ StoreCallFails(s) \/ LookupFails(s)
        PROVE  StoreForwardTypeOK'
    BY <1>2, SessionTypeStep, StoreTypeStep, TypeParts
  <1>3. CASE Crash
    <2>1. SessionTypeOK'
      BY <1>0, <1>3 DEF Crash, SessionTypeOK, Labels
    <2>2. PICK ids : RemoveMessages(ids) /\ ttlSweep' \subseteq ttlSweep /\ UNCHANGED now
      BY <1>3 DEF Crash, RestartMessageStore
    <2>3. MessageStoreTypeOK'
      BY <1>0, <2>2, RemoveKeepsBuckets
    <2>4. EnvelopeStoreTypeOK'
      BY <1>0, <1>3, RestartKeepsTypes DEF Crash
    <2> QED BY <2>1, <2>3, <2>4, TypeParts
  <1>4. CASE TTLSweeperStep
    <2>1. UNCHANGED <<sessionVars, historyVars, now>> /\ UntouchedEnvelopes
      BY ZenonT(30), <1>4 DEF TTLSweeperStep, TTLSweepRead, TTLSweepRemove
    <2>2. TTLSweepRead => MessageStoreTypeOK'
      BY <1>0 DEF TTLSweepRead, GetExpiredMessages, msgBuckets, MessageStoreTypeOK
    <2>3. ASSUME NEW key \in ttlSweep, TTLSweepRemove(key)
          PROVE  MessageStoreTypeOK'
      BY <1>0, <2>3, RemoveKeepsBuckets DEF TTLSweepRemove
    <2> QED BY <1>0, <1>1, <1>4, <2>1, <2>2, <2>3, UntouchedTypes, TypeParts
            DEF TTLSweeperStep
  <1>5. CASE EnvelopeSweeperStep
    <2>1. UNCHANGED <<sessionVars, historyVars, now>> /\ UntouchedMessages
      BY <1>5 DEF EnvelopeSweeperStep, EnvSweepRead, EnvSweepRemove
    <2>2. ASSUME NEW key \in envSweep, EnvSweepRemove(key)
          PROVE  EnvelopeStoreTypeOK'
      BY <1>0, <2>2, RemoveKeepsTypes DEF EnvSweepRemove
    <2> QED BY <1>0, <1>1, <1>5, <2>1, <2>2, SweepReadKeepsTypes, UntouchedTypes, TypeParts
            DEF EnvelopeSweeperStep
  <1>6. CASE Clock
    <2>1. now' \in Times
      BY <1>0, <1>6, TimeAssumption DEF Clock, Tick, Times, MessageStoreTypeOK
    <2>2. MessageStoreTypeOK' /\ EnvelopeStoreTypeOK'
      BY ZenonT(30), <1>0, <1>6, <2>1 DEF Clock, UntouchedMessages, UntouchedEnvelopes, msgBuckets,
                              envBuckets, MessageStoreTypeOK, EnvelopeStoreTypeOK
    <2> QED BY <1>1, <1>6, <2>2, TypeParts DEF Clock
  <1>7. CASE UNCHANGED sfVars
    <2>1. /\ UntouchedMessages /\ UntouchedEnvelopes
          /\ UNCHANGED <<sessionVars, historyVars, now>>
      BY <1>7 DEF sfVars, UntouchedMessages, UntouchedEnvelopes, msgBuckets, envBuckets
    <2> QED BY <1>0, <1>1, <2>1, UntouchedTypes, TypeParts
  <1> QED BY <1>2, <1>3, <1>4, <1>5, <1>6, <1>7 DEF StoreForwardNext

(***************************************************************************)
(* Whatever sessions, sweepers, failures and crashes do, both stores and   *)
(* every session keep their types, and only a relay's session, never a     *)
(* client's, marks and announces an item.                                  *)
(***************************************************************************)
THEOREM StoreForwardTypes == StoreForwardSpec => []StoreForwardTypeOK
  <1>1. StoreForwardInit => StoreForwardTypeOK
    <2> SUFFICES ASSUME StoreForwardInit PROVE StoreForwardTypeOK
      OBVIOUS
    <2>1. MessageStoreTypeOK
      BY MessageStoreInitial DEF StoreForwardInit, MessageStoreInv
    <2>2. EnvelopeStoreTypeOK
      BY TimeAssumption DEF StoreForwardInit, EnvelopeStoreInit, EnvelopeStoreTypeOK, Times
    <2>3. SessionTypeOK
      BY ZenonT(30) DEF StoreForwardInit, SessionTypeOK, Labels
    <2> QED BY <2>1, <2>2, <2>3, TypeParts
  <1> QED BY <1>1, StoreForwardTypeStep, PTL DEF StoreForwardSpec

-----------------------------------------------------------------------------
(***************************************************************************)
(* At most one signal per item.  The marker comes before the signal, and   *)
(* only the session that created the marker is between the two.            *)
(***************************************************************************)
EmitInv ==
    /\ EmittedAtMostOnce
    /\ \A i \in ItemIDs : emitted[i] > 0 => i \in relayIngest
    /\ \A s \in Sessions : pc[s] = "emit" =>
          message[s].id \in relayIngest /\ emitted[message[s].id] = 0
    /\ \A s, t \in Sessions :
          pc[s] = "emit" /\ pc[t] = "emit" /\ message[s].id = message[t].id => s = t

\* Steps that neither reach nor take an emission keep the invariant.
LEMMA EmitInvKept ==
    ASSUME EmitInv, relayIngest \subseteq relayIngest', UNCHANGED emitted,
           \A s \in Sessions : pc'[s] = "emit" => pc[s] = "emit" /\ message'[s] = message[s]
    PROVE  EmitInv'
  BY ZenonT(30) DEF EmitInv, EmittedAtMostOnce

LEMMA EmitStep ==
    StoreForwardTypeOK /\ EmitInv /\ [StoreForwardNext]_sfVars => EmitInv'
  <1> SUFFICES ASSUME StoreForwardTypeOK, EmitInv, [StoreForwardNext]_sfVars
               PROVE  EmitInv'
    OBVIOUS
  <1>0. pc \in [Sessions -> Labels] /\ emitted \in [ItemIDs -> Nat]
    BY DEF StoreForwardTypeOK
  <1>00. message \in [Sessions -> WorkMessages \cup {NoMessage}]
    BY DEF StoreForwardTypeOK
  <1>1. ASSUME NEW s \in Sessions, MarkIngest(s)
        PROVE  EmitInv'
    <2>1. /\ relayIngest' = relayIngest \cup {message[s].id}
          /\ UNCHANGED <<message, emitted>>
          /\ pc' = [pc EXCEPT ![s] =
                IF message[s].id \in relayIngest THEN "transfer" ELSE "emit"]
      BY ZenonT(30), <1>1 DEF MarkIngest, MarkSeenAndRelayIngestEmitted, Goto, historyVars
    <2>2. message[s].id \in ItemIDs
      BY ZenonT(30), <1>1, InWork DEF MarkIngest
    <2>3. CASE message[s].id \in relayIngest
      BY <1>0, <2>1, <2>3, EmitInvKept
    <2>4. CASE message[s].id \notin relayIngest
      <3>1. emitted[message[s].id] = 0
        BY <1>0, <2>2, <2>4 DEF EmitInv
      <3> QED BY ZenonT(30), <1>0, <2>1, <2>4, <3>1 DEF EmitInv, EmittedAtMostOnce
    <2> QED BY <2>3, <2>4
  <1>2. ASSUME NEW s \in Sessions, EmitIngest(s)
        PROVE  EmitInv'
    <2>1. /\ pc[s] = "emit" /\ pc' = [pc EXCEPT ![s] = "transfer"]
          /\ emitted' = [emitted EXCEPT ![message[s].id] = @ + 1]
          /\ UNCHANGED <<message, relayIngest>>
      BY ZenonT(30), <1>2 DEF EmitIngest, Goto, UntouchedEnvelopes, envBuckets
    <2>2. message[s].id \in ItemIDs
      BY ZenonT(30), <2>1, InWork
    <2>3. emitted'[message[s].id] = 1 /\ message[s].id \in relayIngest
      BY <1>0, <2>1, <2>2 DEF EmitInv
    <2>4. \A i \in ItemIDs \ {message[s].id} : emitted'[i] = emitted[i]
      BY <1>0, <2>1
    <2>5. \A t \in Sessions : pc'[t] = "emit" =>
              t # s /\ pc[t] = "emit" /\ message[t].id # message[s].id
      BY ZenonT(30), <1>0, <2>1 DEF EmitInv
    <2>6. \A t \in Sessions : pc[t] = "emit" => message[t].id \in ItemIDs
      BY InWork
    <2> QED BY <2>1, <2>3, <2>4, <2>5, <2>6 DEF EmitInv, EmittedAtMostOnce
  <1>3. ASSUME NEW s \in Sessions,
               \/ ReceiveTransfer(s) \/ RejectExpired(s) \/ LookUp(s) \/ ReadEnvelopeState(s)
               \/ SendReceipt(s) \/ StoreCallFails(s) \/ LookupFails(s)
               \/ PersistStep(s) \/ WriteEnvelopeState(s) \/ PersistTransferEnvelope(s)
        PROVE  EmitInv'
    <2>1. UNCHANGED <<relayIngest, emitted>>
      BY ZenonT(30), <1>3 DEF ReceiveTransfer, RejectExpired, LookUp, ReadEnvelopeState, SendReceipt,
                  StoreCallFails, LookupFails, PersistStep, WriteEnvelopeState,
                  PersistTransferEnvelope, PersistEnvelope, UntouchedEnvelopes, envBuckets,
                  historyVars
    <2>2. \A t \in Sessions \ {s} : pc'[t] = pc[t] /\ message'[t] = message[t]
      BY ZenonT(30), <1>0, <1>00, <1>3
         DEF ReceiveTransfer, RejectExpired, LookUp, ReadEnvelopeState, SendReceipt,
             StoreCallFails, LookupFails, PersistStep, WriteEnvelopeState,
             PersistTransferEnvelope, Goto
    <2>3. pc'[s] # "emit"
      BY ZenonT(30), <1>0, <1>3
         DEF ReceiveTransfer, RejectExpired, LookUp, ReadEnvelopeState, SendReceipt,
             StoreCallFails, LookupFails, PersistStep, WriteEnvelopeState,
             PersistTransferEnvelope, AfterLookup, Goto
    <2> QED BY ZenonT(30), <2>1, <2>2, <2>3, EmitInvKept
  <1>4. CASE Crash
    BY ZenonT(30), <1>4, EmitInvKept DEF Crash, RestartEnvelopeStore
  <1>5. CASE TTLSweeperStep \/ EnvelopeSweeperStep \/ Clock
    <2>1. UNCHANGED <<pc, message, emitted, relayIngest>>
      BY ZenonT(30), <1>5 DEF TTLSweeperStep, EnvelopeSweeperStep, Clock, EnvSweepRead, EnvSweepRemove,
                  RemoveEnvelope, UntouchedEnvelopes, envBuckets, sessionVars, historyVars
    <2> QED BY <2>1, EmitInvKept
  <1>6. CASE UNCHANGED sfVars
    BY ZenonT(30), <1>6, EmitInvKept DEF sfVars, sessionVars, historyVars
  <1> QED BY <1>1, <1>2, <1>3, <1>4, <1>5, <1>6 DEF StoreForwardNext, SessionStep

(***************************************************************************)
(* MarkSeenAndRelayIngestEmitted's one transaction makes AcceptRelayForward*)
(* emit at most one RELAY_INGEST per item, for any number of peers that    *)
(* transfer it at once or again, and across any crashes.                   *)
(***************************************************************************)
THEOREM SignalsAreUnique == StoreForwardSpec => []EmittedAtMostOnce
  <1>1. StoreForwardInit => EmitInv
    BY DEF StoreForwardInit, EmitInv, EmittedAtMostOnce
  <1>2. EmitInv => EmittedAtMostOnce
    BY ZenonT(30) DEF EmitInv
  <1> QED BY <1>1, <1>2, EmitStep, StoreForwardTypes, PTL DEF StoreForwardSpec
=============================================================================
