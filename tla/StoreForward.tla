---------------------------- MODULE StoreForward ----------------------------
(***************************************************************************)
(* How an item enters the relay.  Each session goroutine, of a client      *)
(* (WSHandler.handleTransfer) or of a peer relay                           *)
(* (PeerManager.handleTransfer), works through the objects of a TRANSFER,  *)
(* calls the store-and-forward engine and the two stores for each, one     *)
(* transaction after another, and ends with a RECEIPT for the objects it   *)
(* accepted.  Sessions, sweepers and crashes interleave between any two    *)
(* transactions.                                                           *)
(***************************************************************************)
EXTENDS MessageStore, EnvelopeStore

CONSTANTS Sessions,          \* session goroutines
          SourceRelay,       \* the peer relay of a session, Client for a client's
          Client,            \* the empty source relay id
          LocalRelay,
          Faults             \* which of "crash" and "store" (a failed call) may happen

ASSUME SessionAssumption ==
    /\ SourceRelay \in [Sessions -> RelayIDs \cup {Client}]
    /\ LocalRelay \in RelayIDs
    /\ Client \notin RelayIDs
    /\ Faults \subseteq {"crash", "store"}

VARIABLES pc,                \* where each session is
          todo,              \* objects of the TRANSFER not looked at yet
          accepted,          \* objects that will be in the RECEIPT
          message,           \* the model.Message of the object in work
          envelope,          \* what persistEnvelopeState read and will write
          emitted,           \* RELAY_INGEST signals emitted per item
          receipted,         \* objects acknowledged in a RECEIPT so far
          faulted            \* has a crash or a failed call happened?

sessionVars == <<pc, todo, accepted, message, envelope>>
historyVars == <<emitted, receipted, faulted>>
sfVars      == <<messages, queueByRecipient, expiryIndex, deliveryState, ackState, ttlSweep,
                 envelopes, byDestination, byExpiry, envelopeExpiry, seen, relayIngest,
                 envSweep, now, sessionVars, historyVars>>

Objects   == UNION {[id : {i}, expires : Expiries[i]] : i \in ItemIDs}
Transfers == {objects \in SUBSET Objects :
                 /\ objects # {}
                 /\ \A a, b \in objects : a.id = b.id => a = b}

NoMessage  == [id |-> -1, created |-> 0, expires |-> 0]
NoEnvelope == [payload |-> "none", expires |-> 0, offset |-> UTC]

StoreForwardInit ==
    /\ MessageStoreInit
    /\ EnvelopeStoreInit
    /\ pc = [s \in Sessions |-> "idle"]
    /\ todo = [s \in Sessions |-> {}]
    /\ accepted = [s \in Sessions |-> {}]
    /\ message = [s \in Sessions |-> NoMessage]
    /\ envelope = [s \in Sessions |-> NoEnvelope]
    /\ emitted = [i \in ItemIDs |-> 0]
    /\ receipted = {}
    /\ faulted = FALSE

-----------------------------------------------------------------------------
UntouchedMessages  == UNCHANGED <<msgBuckets, ttlSweep>>
UntouchedEnvelopes == UNCHANGED <<envBuckets, envSweep>>

Goto(s, label) == pc' = [pc EXCEPT ![s] = label]

\* A TRANSFER frame reaches the session.
ReceiveTransfer(s) ==
    /\ pc[s] = "idle"
    /\ \E objects \in Transfers : todo' = [todo EXCEPT ![s] = objects]
    /\ Goto(s, "next")
    /\ UntouchedMessages /\ UntouchedEnvelopes
    /\ UNCHANGED <<accepted, message, envelope, historyVars, now>>

\* transferObjectToMessage refuses an object that has expired: item envelopes carry
\* no times of their own, so it is created now and expires at expiry_unix_ms.
RejectExpired(s) ==
    /\ pc[s] = "next"
    /\ \E object \in todo[s] :
          /\ object.expires <= now
          /\ todo' = [todo EXCEPT ![s] = @ \ {object}]
    /\ UntouchedMessages /\ UntouchedEnvelopes
    /\ UNCHANGED <<pc, accepted, message, envelope, historyVars, now>>

(***************************************************************************)
(* What GetMessageByID and, for a relay's object, IsSeenBy lead to: a      *)
(* client's known item goes straight to the envelope; a relay's known item *)
(* skips the message; one the source is known to have seen but whose       *)
(* message is gone skips the engine's writes altogether (seen_loop).       *)
(*                                                                         *)
(* The two reads are two transactions, taken here as one: only a session   *)
(* of the same relay writes its seen pair, so with one session per relay   *)
(* the earlier read may as well happen at the later one.                   *)
(***************************************************************************)
AfterLookup(s, id) ==
    IF id \in DOMAIN messages
      THEN IF SourceRelay[s] = Client THEN "transfer" ELSE "read"
      ELSE IF <<id, SourceRelay[s]>> \in seen THEN "transfer" ELSE "persist"

LookUp(s) ==
    /\ pc[s] = "next"
    /\ \E object \in todo[s] :
          /\ object.expires > now
          /\ todo' = [todo EXCEPT ![s] = @ \ {object}]
          /\ message' = [message EXCEPT ![s] =
                [id |-> object.id, created |-> now, expires |-> object.expires]]
          /\ Goto(s, AfterLookup(s, object.id))
    /\ UntouchedMessages /\ UntouchedEnvelopes
    /\ UNCHANGED <<accepted, envelope, historyVars, now>>

\* Mutant: a relay's new item is marked and announced before its envelope is written.
PersistStepThenMark(s) ==
    /\ pc[s] = "persist"
    /\ PersistMessage(message[s].id, message[s].created, message[s].expires)
    /\ Goto(s, IF SourceRelay[s] = Client THEN "read" ELSE "mark")
    /\ UntouchedEnvelopes
    /\ UNCHANGED <<todo, accepted, message, envelope, historyVars, ttlSweep, now>>

PersistStep(s) ==
    /\ pc[s] = "persist"
    /\ PersistMessage(message[s].id, message[s].created, message[s].expires)
    /\ Goto(s, "read")
    /\ UntouchedEnvelopes
    /\ UNCHANGED <<todo, accepted, message, envelope, historyVars, ttlSweep, now>>

(***************************************************************************)
(* persistEnvelopeState: the stored envelope, read back in the local zone, *)
(* or a fresh one around the message's payload text; then a write of it.   *)
(***************************************************************************)
EnvelopeState(m) ==
    IF m.id \in DOMAIN envelopes
      THEN [payload |-> envelopes[m.id].payload, expires |-> envelopes[m.id].expires,
            offset |-> LocalOffset]
      ELSE [payload |-> "payload", expires |-> m.expires, offset |-> UTC]

ReadEnvelopeState(s) ==
    /\ pc[s] = "read"
    /\ envelope' = [envelope EXCEPT ![s] = EnvelopeState(message[s])]
    /\ Goto(s, "write")
    /\ UntouchedMessages /\ UntouchedEnvelopes
    /\ UNCHANGED <<todo, accepted, message, historyVars, now>>

\* Mutant: a client's empty relay id is marked like a relay's.
WriteEnvelopeStateThenMark(s) ==
    /\ pc[s] = "write"
    /\ PersistEnvelope(message[s].id,
                       [payload |-> envelope[s].payload, expires |-> envelope[s].expires],
                       envelope[s].offset)
    /\ envelope' = [envelope EXCEPT ![s] = NoEnvelope]
    /\ Goto(s, "mark")
    /\ UntouchedMessages
    /\ UNCHANGED <<todo, accepted, message, historyVars, envSweep, now>>

WriteEnvelopeState(s) ==
    /\ pc[s] = "write"
    /\ PersistEnvelope(message[s].id,
                       [payload |-> envelope[s].payload, expires |-> envelope[s].expires],
                       envelope[s].offset)
    /\ envelope' = [envelope EXCEPT ![s] = NoEnvelope]
    /\ Goto(s, IF SourceRelay[s] = Client THEN "transfer" ELSE "mark")
    /\ UntouchedMessages
    /\ UNCHANGED <<todo, accepted, message, historyVars, envSweep, now>>

\* Mutant: the signal is emitted once per source, not once per item.
MarkIngestPerSource(s) ==
    /\ pc[s] = "mark"
    /\ MarkSeenAndRelayIngestEmitted(message[s].id, {SourceRelay[s], LocalRelay})
    /\ Goto(s, IF <<message[s].id, SourceRelay[s]>> \in seen THEN "transfer" ELSE "emit")
    /\ UntouchedMessages
    /\ UNCHANGED <<todo, accepted, message, envelope, historyVars, envSweep, now>>

MarkIngest(s) ==
    /\ pc[s] = "mark"
    /\ MarkSeenAndRelayIngestEmitted(message[s].id, {SourceRelay[s], LocalRelay})
    /\ Goto(s, IF message[s].id \in relayIngest THEN "transfer" ELSE "emit")
    /\ UntouchedMessages
    /\ UNCHANGED <<todo, accepted, message, envelope, historyVars, envSweep, now>>

\* emitRelayIngest: the observer announces the item to the other peers.
EmitIngest(s) ==
    /\ pc[s] = "emit"
    /\ emitted' = [emitted EXCEPT ![message[s].id] = @ + 1]
    /\ Goto(s, "transfer")
    /\ UntouchedMessages /\ UntouchedEnvelopes
    /\ UNCHANGED <<todo, accepted, message, envelope, receipted, faulted, now>>

\* Mutant: an envelope that is already there is not written again.
PersistTransferEnvelopeOnce(s) ==
    /\ pc[s] = "transfer"
    /\ IF message[s].id \in DOMAIN envelopes
         THEN UNCHANGED envBuckets
         ELSE PersistEnvelope(message[s].id,
                  [payload |-> "envelope", expires |-> message[s].expires], UTC)
    /\ accepted' = [accepted EXCEPT ![s] =
                       @ \cup {[id |-> message[s].id, expires |-> message[s].expires]}]
    /\ message' = [message EXCEPT ![s] = NoMessage]
    /\ Goto(s, "next")
    /\ UntouchedMessages
    /\ UNCHANGED <<todo, envelope, historyVars, envSweep, now>>

\* persistTransferEnvelope: the canonical bytes, under the sender's expiry.
PersistTransferEnvelope(s) ==
    /\ pc[s] = "transfer"
    /\ PersistEnvelope(message[s].id,
                       [payload |-> "envelope", expires |-> message[s].expires], UTC)
    /\ accepted' = [accepted EXCEPT ![s] =
                       @ \cup {[id |-> message[s].id, expires |-> message[s].expires]}]
    /\ message' = [message EXCEPT ![s] = NoMessage]
    /\ Goto(s, "next")
    /\ UntouchedMessages
    /\ UNCHANGED <<todo, envelope, historyVars, envSweep, now>>

SendReceipt(s) ==
    /\ pc[s] = "next"
    /\ todo[s] = {}
    /\ receipted' = receipted \cup accepted[s]
    /\ accepted' = [accepted EXCEPT ![s] = {}]
    /\ Goto(s, "idle")
    /\ UntouchedMessages /\ UntouchedEnvelopes
    /\ UNCHANGED <<todo, message, envelope, emitted, faulted, now>>

-----------------------------------------------------------------------------
\* Mutant: the object is acknowledged although its last write failed.
StoreCallFailsUnnoticed(s) ==
    /\ "store" \in Faults
    /\ pc[s] \in {"persist", "read", "write", "mark", "transfer"}
    /\ Goto(s, "next")
    /\ accepted' = [accepted EXCEPT ![s] = IF pc[s] = "transfer"
          THEN @ \cup {[id |-> message[s].id, expires |-> message[s].expires]}
          ELSE @]
    /\ message' = [message EXCEPT ![s] = NoMessage]
    /\ envelope' = [envelope EXCEPT ![s] = NoEnvelope]
    /\ faulted' = TRUE
    /\ UntouchedMessages /\ UntouchedEnvelopes
    /\ UNCHANGED <<todo, emitted, receipted, now>>

(***************************************************************************)
(* A store call fails (its transaction rolls back) and the object is left  *)
(* out of the RECEIPT.  When it is the client handler's GetMessageByID     *)
(* that fails, the handler returns the error and no RECEIPT is sent.       *)
(***************************************************************************)
StoreCallFails(s) ==
    /\ "store" \in Faults
    /\ pc[s] \in {"persist", "read", "write", "mark", "transfer"}
    /\ Goto(s, "next")
    /\ message' = [message EXCEPT ![s] = NoMessage]
    /\ envelope' = [envelope EXCEPT ![s] = NoEnvelope]
    /\ faulted' = TRUE
    /\ UntouchedMessages /\ UntouchedEnvelopes
    /\ UNCHANGED <<todo, accepted, emitted, receipted, now>>

LookupFails(s) ==
    /\ "store" \in Faults
    /\ pc[s] = "next"
    /\ \E object \in todo[s] :
          IF SourceRelay[s] = Client
            THEN /\ todo' = [todo EXCEPT ![s] = {}]
                 /\ accepted' = [accepted EXCEPT ![s] = {}]
                 /\ Goto(s, "idle")
            ELSE /\ todo' = [todo EXCEPT ![s] = @ \ {object}]
                 /\ UNCHANGED <<accepted, pc>>
    /\ faulted' = TRUE
    /\ UntouchedMessages /\ UntouchedEnvelopes
    /\ UNCHANGED <<message, envelope, emitted, receipted, now>>

\* The process dies between two transactions and is started again.
Crash ==
    /\ "crash" \in Faults
    /\ RestartMessageStore
    /\ RestartEnvelopeStore
    /\ pc' = [s \in Sessions |-> "idle"]
    /\ todo' = [s \in Sessions |-> {}]
    /\ accepted' = [s \in Sessions |-> {}]
    /\ message' = [s \in Sessions |-> NoMessage]
    /\ envelope' = [s \in Sessions |-> NoEnvelope]
    /\ faulted' = TRUE
    /\ UNCHANGED <<emitted, receipted>>

TTLSweeperStep ==
    /\ TTLSweepRead \/ \E key \in ttlSweep : TTLSweepRemove(key)
    /\ UntouchedEnvelopes
    /\ UNCHANGED <<sessionVars, historyVars>>

EnvelopeSweeperStep ==
    /\ EnvSweepRead \/ \E key \in envSweep : EnvSweepRemove(key)
    /\ UntouchedMessages
    /\ UNCHANGED <<sessionVars, historyVars>>

Clock ==
    /\ Tick
    /\ UntouchedMessages /\ UntouchedEnvelopes
    /\ UNCHANGED <<sessionVars, historyVars>>

-----------------------------------------------------------------------------
\* What the session's goroutine does by itself once a TRANSFER is there.
SessionStep(s) ==
    \/ RejectExpired(s) \/ LookUp(s) \/ PersistStep(s)
    \/ ReadEnvelopeState(s) \/ WriteEnvelopeState(s)
    \/ MarkIngest(s) \/ EmitIngest(s)
    \/ PersistTransferEnvelope(s) \/ SendReceipt(s)

StoreForwardNext ==
    \/ \E s \in Sessions : ReceiveTransfer(s) \/ SessionStep(s)
    \/ \E s \in Sessions : StoreCallFails(s) \/ LookupFails(s)
    \/ Crash
    \/ TTLSweeperStep
    \/ EnvelopeSweeperStep
    \/ Clock

StoreForwardSpec == StoreForwardInit /\ [][StoreForwardNext]_sfVars

-----------------------------------------------------------------------------
(***************************************************************************)
(* Properties.                                                             *)
(***************************************************************************)
Labels == {"idle", "next", "persist", "read", "write", "mark", "emit", "transfer"}

WorkMessages  == {m \in [id : ItemIDs, created : Times, expires : Times] :
                     m.expires \in Expiries[m.id]}
WorkEnvelopes == [payload : {"envelope", "payload"}, expires : Times,
                  offset : {UTC, LocalOffset}]

\* Both stores are well formed, a session holds a message and an envelope exactly
\* while the step it is at needs them, and only a relay's marks and announces.
StoreForwardTypeOK ==
    /\ MessageStoreTypeOK
    /\ EnvelopeStoreTypeOK
    /\ pc \in [Sessions -> Labels]
    /\ todo \in [Sessions -> SUBSET Objects]
    /\ accepted \in [Sessions -> SUBSET Objects]
    /\ message \in [Sessions -> WorkMessages \cup {NoMessage}]
    /\ envelope \in [Sessions -> WorkEnvelopes \cup {NoEnvelope}]
    /\ \A s \in Sessions : /\ pc[s] \in {"idle", "next"} <=> message[s] = NoMessage
                           /\ pc[s] = "write" <=> envelope[s] # NoEnvelope
                           /\ pc[s] \in {"mark", "emit"} => SourceRelay[s] # Client
    /\ emitted \in [ItemIDs -> Nat]
    /\ receipted \subseteq Objects
    /\ faulted \in BOOLEAN

(***************************************************************************)
(* What a RECEIPT promises: an object acknowledged to a sender is still in *)
(* the envelope store until the second it expires in, across crashes,      *)
(* failed calls, sweeps and other sessions' writes of the same item, as    *)
(* long as senders agree on its expiry: persistTransferEnvelope takes that *)
(* of the last transfer, so an earlier one ends what was promised before.  *)
(***************************************************************************)
ReceiptDurable ==
    \A object \in receipted : object.id \in DOMAIN envelopes \/ Due(object.expires)

(***************************************************************************)
(* However many peers transfer an item, at the same time or again after a  *)
(* restart, its RELAY_INGEST signal is emitted at most once.               *)
(***************************************************************************)
EmittedAtMostOnce == \A i \in ItemIDs : emitted[i] <= 1

(***************************************************************************)
(* The signal comes after the durable ingest boundary: an item announced   *)
(* to the other peers is held until it is due.                             *)
(***************************************************************************)
AnnouncedIsHeld ==
    \A i \in ItemIDs : emitted[i] > 0 =>
        i \in DOMAIN envelopes \/ \A expires \in Expiries[i] : Due(expires)

Promise == INSTANCE Custody WITH held <- DOMAIN envelopes, promised <- receipted

(***************************************************************************)
(* Seen from outside the relay is a Custody: it takes items up (a write of *)
(* the envelope), answers for them (the RECEIPT) and lets them go when     *)
(* they are due (the sweeper's removal); nothing else shows, as long as    *)
(* the senders of an item agree on its expiry.                             *)
(***************************************************************************)
KeepsCustody == Promise!CustodySpec

Servable(i) == i \in DOMAIN envelopes /\ envelopes[i].payload = "envelope"

Quiet == \A s \in Sessions : pc[s] = "idle"

(***************************************************************************)
(* A receipted item can be served whenever no session is at work: however  *)
(* the reads and writes of persistEnvelopeState and the transfers of other *)
(* sessions interleave, the message's payload text does not stay in place  *)
(* of the canonical envelope bytes.                                        *)
(***************************************************************************)
ReceiptedIsServable ==
    Quiet => \A object \in receipted : Servable(object.id) \/ Due(object.expires)

\* The same of a relay that has not crashed and whose store calls all succeeded.
ReceiptedIsServableWithoutFaults == faulted \/ ReceiptedIsServable
=============================================================================
