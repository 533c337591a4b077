---------------------------- MODULE MessageStore ----------------------------
(***************************************************************************)
(* BBoltStore, the durable message queue, with its TTL sweeper and the     *)
(* startup payload scrub.  Every store call is one bbolt transaction and   *)
(* so one step; the sweeper reads its list in one transaction and removes  *)
(* each entry in another.                                                  *)
(*                                                                         *)
(* The msgid_index bucket is written and deleted together with messages    *)
(* and never read; it is left out.                                         *)
(***************************************************************************)
EXTENDS RelayBase

CONSTANTS DeliveryIDs,       \* delivery identities: wayfarer and device
          BadPayload,        \* items whose payload_b64 does not decode (legacy rows)
          SweeperStarted     \* does anything call TTLSweeper.Start?

ASSUME MessageStoreAssumption == /\ BadPayload \subseteq ItemIDs
                                 /\ SweeperStarted \in BOOLEAN

VARIABLES messages,          \* the messages bucket, as DecodeMessage reads it
          queueByRecipient,  \* queue keys
          expiryIndex,       \* expiry keys
          deliveryState,     \* <<item, delivery identity>> pairs marked delivered
          ackState,          \* <<item, delivery identity>> pairs acknowledged
          ttlSweep           \* expiry keys the running sweep has still to remove

msgBuckets == <<messages, queueByRecipient, expiryIndex, deliveryState, ackState>>
msgVars    == <<messages, queueByRecipient, expiryIndex, deliveryState, ackState,
                ttlSweep, now>>

MessageStoreInit ==
    /\ messages = <<>>
    /\ queueByRecipient = {} /\ expiryIndex = {}
    /\ deliveryState = {} /\ ackState = {}
    /\ ttlSweep = {}
    /\ now = 0

-----------------------------------------------------------------------------
\* The record DecodeMessage(EncodeMessage(m)) yields: both times in whole seconds.
StoredMessage(created, expires) ==
    [created |-> TruncateToSecond(created), expires |-> TruncateToSecond(expires)]

QueueKey(id, created, offset) ==
    [to |-> DestinationOf[id], created |-> RFC3339Nano(created, offset), id |-> id]

ExpiryKey(id, expires, offset) ==
    [expires |-> RFC3339Nano(expires, offset), id |-> id]

\* Mutant: index keys are written for new messages only.
PersistMessageIndexOnce(id, created, expires) ==
    /\ messages' = [i \in DOMAIN messages \cup {id} |->
                       IF i = id THEN StoredMessage(created, expires) ELSE messages[i]]
    /\ IF id \in DOMAIN messages
         THEN UNCHANGED <<queueByRecipient, expiryIndex>>
         ELSE /\ queueByRecipient' = queueByRecipient \cup {QueueKey(id, created, UTC)}
              /\ expiryIndex' = expiryIndex \cup {ExpiryKey(id, expires, UTC)}
    /\ UNCHANGED <<deliveryState, ackState>>

(***************************************************************************)
(* A message already there is overwritten; its old index keys stay.        *)
(***************************************************************************)
PersistMessage(id, created, expires) ==
    /\ messages' = [i \in DOMAIN messages \cup {id} |->
                       IF i = id THEN StoredMessage(created, expires) ELSE messages[i]]
    /\ queueByRecipient' = queueByRecipient \cup {QueueKey(id, created, UTC)}
    /\ expiryIndex' = expiryIndex \cup {ExpiryKey(id, expires, UTC)}
    /\ UNCHANGED <<deliveryState, ackState>>

\* Mutant: delivery is recorded for the queue recipient, not for the device.
MarkDeliveredToRecipient(id, device) ==
    /\ id \in DOMAIN messages
    /\ deliveryState' = deliveryState \cup {<<id, DestinationOf[id]>>}
    /\ UNCHANGED <<messages, queueByRecipient, expiryIndex, ackState>>

\* An error, and no change, when there is no such message.
MarkDelivered(id, device) ==
    /\ id \in DOMAIN messages
    /\ deliveryState' = deliveryState \cup {<<id, device>>}
    /\ UNCHANGED <<messages, queueByRecipient, expiryIndex, ackState>>

\* MarkAcked is the batch of one.  No message record is needed.
MarkAckedBatch(ids, device) ==
    /\ ackState' = ackState \cup (ids \X {device})
    /\ UNCHANGED <<messages, queueByRecipient, expiryIndex, deliveryState>>

\* Mutant: the marks of a removed message are not deleted with it.
RemoveMessagesKeepingMarks(ids) ==
    LET stored == ids \cap DOMAIN messages
    IN  /\ messages' = [i \in DOMAIN messages \ ids |-> messages[i]]
        /\ queueByRecipient' = queueByRecipient
               \ {QueueKey(i, messages[i].created, LocalOffset) : i \in stored}
        /\ expiryIndex' = expiryIndex
               \ {ExpiryKey(i, messages[i].expires, LocalOffset) : i \in stored}
        /\ UNCHANGED <<deliveryState, ackState>>

(***************************************************************************)
(* The index keys to delete are computed from the decoded record: its      *)
(* times are whole seconds in the local zone, whatever the keys hold.      *)
(***************************************************************************)
RemoveMessages(ids) ==
    LET stored  == ids \cap DOMAIN messages
        queued  == {QueueKey(i, messages[i].created, LocalOffset) : i \in stored}
        expires == {ExpiryKey(i, messages[i].expires, LocalOffset) : i \in stored}
    IN  /\ messages' = [i \in DOMAIN messages \ ids |-> messages[i]]
        /\ queueByRecipient' = queueByRecipient \ queued
        /\ expiryIndex' = expiryIndex \ expires
        /\ deliveryState' = {d \in deliveryState : d[1] \notin ids}
        /\ ackState' = {a \in ackState : a[1] \notin ids}

-----------------------------------------------------------------------------
\* Mutant: the scan runs one second ahead.
GetExpiredMessagesEarly(before) ==
    {key \in expiryIndex :
        /\ TextAtMost(key.expires, RFC3339Nano(before + TicksPerSecond, LocalOffset))
        /\ key.id \in DOMAIN messages}

\* Mutant: the scan ends at the first key whose message is gone.
GetExpiredMessagesUpToOrphan(before) ==
    {key \in expiryIndex :
        /\ TextAtMost(key.expires, RFC3339Nano(before, LocalOffset))
        /\ \A earlier \in expiryIndex :
              TextAtMost(earlier.expires, key.expires) => earlier.id \in DOMAIN messages}

\* The keys at or before `before` in text order whose message is still there.
GetExpiredMessages(before) ==
    {key \in expiryIndex : /\ TextAtMost(key.expires, RFC3339Nano(before, LocalOffset))
                           /\ key.id \in DOMAIN messages}

TTLSweepRead ==
    /\ SweeperStarted
    /\ ttlSweep = {}
    /\ GetExpiredMessages(now) # {}
    /\ ttlSweep' = GetExpiredMessages(now)
    /\ UNCHANGED <<msgBuckets, now>>

TTLSweepRemove(key) ==
    /\ key \in ttlSweep
    /\ RemoveMessages({key.id})
    /\ ttlSweep' = ttlSweep \ {key}
    /\ UNCHANGED now

\* RemoveMessage failed: the sweep logs it and goes on.
TTLSweepSkip(key) ==
    /\ key \in ttlSweep
    /\ ttlSweep' = ttlSweep \ {key}
    /\ UNCHANGED <<msgBuckets, now>>

(***************************************************************************)
(* The process dies and starts again: the sweep is gone, the buckets are   *)
(* not, and ScrubInvalidPayloadMessages runs before anything else.  It     *)
(* finds the messages through the queue keys of their recipients; removals *)
(* that fail are counted and passed over.                                  *)
(***************************************************************************)
Scrubbed == {key.id : key \in queueByRecipient} \cap DOMAIN messages \cap BadPayload

RestartMessageStore ==
    /\ \E removed \in SUBSET Scrubbed : RemoveMessages(removed)
    /\ ttlSweep' = {}
    /\ UNCHANGED now

-----------------------------------------------------------------------------
ClientPersists ==
    \E id \in ItemIDs : \E expires \in Expiries[id] :
        /\ expires > now
        /\ PersistMessage(id, now, expires)
        /\ UNCHANGED <<ttlSweep, now>>

ClientDelivers ==
    \E id \in ItemIDs, device \in DeliveryIDs :
        MarkDelivered(id, device) /\ UNCHANGED <<ttlSweep, now>>

ClientAcks ==
    \E ids \in SUBSET ItemIDs, device \in DeliveryIDs :
        MarkAckedBatch(ids, device) /\ UNCHANGED <<ttlSweep, now>>

MessageClock == Tick /\ UNCHANGED <<msgBuckets, ttlSweep>>

MessageStoreNext ==
    \/ ClientPersists
    \/ ClientDelivers
    \/ ClientAcks
    \/ TTLSweepRead
    \/ \E key \in ttlSweep : TTLSweepRemove(key) \/ TTLSweepSkip(key)
    \/ RestartMessageStore
    \/ MessageClock

MessageStoreSpec == MessageStoreInit /\ [][MessageStoreNext]_msgVars

(***************************************************************************)
(* The sweeper's goroutine keeps running: the ticker fires again and again *)
(* and a removal that is tried infinitely often succeeds some time.        *)
(***************************************************************************)
FairMessageStoreSpec ==
    /\ MessageStoreSpec
    /\ WF_msgVars(TTLSweepRead)
    /\ \A id \in ItemIDs :
          SF_msgVars(\E key \in ttlSweep : key.id = id /\ TTLSweepRemove(key))
-----------------------------------------------------------------------------
(***************************************************************************)
(* Properties.                                                             *)
(***************************************************************************)
MessageRecords == [created : Times, expires : Times]
QueueKeys      == [to : Destinations, created : Texts, id : ItemIDs]
ExpiryKeys     == [expires : Texts, id : ItemIDs]

\* Every bucket holds entries of its kind, and the sweep works on expiry keys.
MessageStoreTypeOK ==
    /\ now \in Times
    /\ DOMAIN messages \subseteq ItemIDs
    /\ messages \in [DOMAIN messages -> MessageRecords]
    /\ queueByRecipient \subseteq QueueKeys
    /\ expiryIndex \subseteq ExpiryKeys
    /\ deliveryState \subseteq ItemIDs \X DeliveryIDs
    /\ ackState \subseteq ItemIDs \X DeliveryIDs
    /\ ttlSweep \subseteq ExpiryKeys

(***************************************************************************)
(* PersistMessage and RemoveMessage together never strand a message: each  *)
(* stored message keeps a queue key of its recipient and creation second   *)
(* (pulls, the inventory and the scrub find messages only through those)   *)
(* and an expiry key of its expiry second (only those lead the sweeper to  *)
(* it), however often ids are persisted again, swept and scrubbed.         *)
(***************************************************************************)
IndexesCoverMessages ==
    \A i \in DOMAIN messages :
        /\ \E key \in queueByRecipient :
              /\ key.id = i
              /\ key.to = DestinationOf[i]
              /\ TruncateToSecond(key.created.wall) = messages[i].created
        /\ \E key \in expiryIndex :
              /\ key.id = i
              /\ TruncateToSecond(key.expires.wall) = messages[i].expires

(***************************************************************************)
(* A delivery mark never outlives its message: MarkDelivered refuses an    *)
(* unknown id and RemoveMessage deletes the marks with the message, so an  *)
(* item that comes back is offered to every device again.                  *)
(***************************************************************************)
DeliveredIsStored == \A mark \in deliveryState : mark[1] \in DOMAIN messages

(***************************************************************************)
(* A message goes with the TTL sweeper only by an expiry key of its own    *)
(* id whose second has come.  The record is not looked at again, so the    *)
(* key may also be one that an earlier life of the id has left behind, or  *)
(* one read before the message was persisted anew: then, and only then, a  *)
(* message goes before it is due.                                          *)
(***************************************************************************)
SweptMessageIsDue ==
    [][\A i \in (DOMAIN messages \ DOMAIN messages') \ BadPayload :
           \E key \in ttlSweep \ ttlSweep' : key.id = i /\ TextDue(key.expires)]_msgVars

(***************************************************************************)
(* An expired message does not stay: some sweep removes it, whatever keys, *)
(* restarts and failed removals come in between.                           *)
(***************************************************************************)
ExpiredMessageGoes ==
    \A i \in ItemIDs :
        (i \in DOMAIN messages /\ Second(messages[i].expires) < Second(now))
            ~> (i \notin DOMAIN messages)

=============================================================================
