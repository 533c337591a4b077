# Verification of aethos-relay

TLA+ models of the relay: its durable core, how items enter it, how devices and
other relays fetch them, and the goroutines that manage connections. They are
checked with TLC on small instances and, where it matters most, proved with TLAPS
for every value of the constants. `PROJECT.json` lists the components, the runs, the
correspondence between definitions and source lines, and the hazards the models
are meant to catch.

## The system

A relay stores end-to-end encrypted items for wayfarers and passes them on.

| part | where | state | operations |
|---|---|---|---|
| message store | `store/bbolt_store.go`, `codec.go` | messages, queue and expiry keys, delivery and ack marks | persist, mark delivered, mark acked, remove, scan expired |
| envelope store | `store/envelope_store.go`, `model/envelope.go` | envelopes, three indexes, seen pairs, ingest markers | persist (upsert), remove, mark, page, scan expired, backfill |
| sweepers | `ttl_sweeper.go`, `envelope_sweeper.go`, `descriptor_sweeper.go` | the list of the running sweep | read, then remove one by one |
| startup | `payload_scrub.go`, `cmd/relay/main.go` | - | open, scrub, start background work |
| store-and-forward engine | `storeforward/` | none of its own | client persist, relay forward, ingest signal |
| client sessions | `api/ws.go` | session, drain budgets, expected receipt | HELLO, SUMMARY, REQUEST, TRANSFER, RECEIPT |
| peer sessions | `federation/peering.go` | peers, channels, adapters | dial, accept, the same frames, remove, reconnect |
| push and registry | `api/ws.go`, `model/message.go` | online clients, debounce timers | register, unregister, push summary |
| wire protocol | `gossipv1/` | session adapter, drain session | parse, order, limit |
| descriptors | `descriptor_store.go`, `gossip/`, `api/relay_federation.go` | descriptors and two indexes | put, remove, sweep, sample |
| scoring, traffic shaping | `model/`, `scoring/`, `federation/tar.go` | scores, batch queue | mostly not wired into the relay |

Every store call is one bbolt transaction. Each session has its own goroutine and
calls the two stores one transaction after another, so sessions, sweepers and
crashes interleave between any two transactions. That is where the hard
behaviours are: state read in one transaction and written back in another, lists
made before they are used, keys that no longer match records, a crash between
two writes that belong together, one failed call of several.

Above the stores the hard part is the order of things: a summary pushed into a
session that is in the middle of a round, a receipt that comes after a second
transfer, a budget used up between two frames, a timer that fires while the next
item arrives, a connection that ends before it is registered, a manager told to
stop while peers wait for its channel.

## The modules

**RelayBase** - items, the clock in ticks, and the texts index keys are made of.
An item id is the hash of its envelope bytes, so its destination is a function of
the id. A time text carries its zone; `TextAtMost` is the byte order of
RFC3339Nano texts, in which a dropped zero fraction sorts after the other
fractions of its second (`Z` > `.`).

**MessageStore** - `BBoltStore`, the TTL sweeper and the startup scrub. One action
per writing transaction. The record keeps whole seconds, the keys full precision
and the caller's zone, and a removal computes the keys to delete from the record,
so orphan keys arise in the model as they do in the code.

**EnvelopeStore** - `BBoltEnvelopeStore` and its sweeper. An envelope is its expiry
and the kind of its payload: the canonical bytes (which hash to the id and can be
served) or a message's payload text (which cannot).

**StoreForward** - extends both stores. One program counter per session follows
`handleTransfer` of a client (`api/ws.go`) or a peer (`federation/peering.go`):

| label | what comes next |
|---|---|
| `idle` | a TRANSFER arrives |
| `next` | the next object is parsed and looked up, or the RECEIPT is sent |
| `persist` | the message is written |
| `read`, `write` | the two transactions of `persistEnvelopeState` |
| `mark`, `emit` | seen pairs and ingest marker in one transaction; the signal |
| `transfer` | `persistTransferEnvelope`; the object is accepted |

`StoreCallFails` and `LookupFails` are the error paths, `Crash` the death of the
process at any point followed by the restart of both stores.

**Custody** - the abstract specification of what a RECEIPT promises: items are
taken up, acknowledged only while held, and let go only when due. StoreForward
implements it with `held <- DOMAIN envelopes, promised <- receipted`.

**SessionAdapter** and **DrainSession** - `gossipv1`'s two session objects as values:
operators take the object and yield the next one. The adapter parses frames within
the codec's limits and checks a RECEIPT against the TRANSFER sent last; the drain
session counts rounds, bytes and time and gives the first reason to stop. Items are
small or `Large` (twice as big), and the limits on the bytes of a TRANSFER count small
ones: `MaxTransferObjects` for what a receiver takes, `MaxFrameObjects` for what can be
encoded.

**ClientSession** - extends DrainSession: one device over any number of sessions with
`WSHandler`. `session` is the relay's `clientSession` (phase, drain session, adapter,
cursor, Send channel, parsed events), `wire` what the device sent. An inbound message
of one or two frames is read and parsed as a whole (`ReadMessage`), then handled
frame by frame (`ProcessEvent`, one `Handle...` operator per handler). A handler that
leaves a stop reason ends the session; what is in Send when it hangs up is not sent.
`HandlerFails` and `TransferFails` are the handlers' error paths: a failed lookup of
`handleTransfer` ends the session after earlier objects were stored, a failed write leaves
the object out of the RECEIPT. `silenceTimeout` says whether the relay was started with a
`SilenceTimeout` above 0. It never changes and both values are initial states, so every
run shows both cases; the default is 0, and then nothing ends an idle session.
`FlushPush` is the summary pushed by RecipientPush. The device is external: it
answers each frame of the protocol, and asks again for an item it has, since its
RECEIPT may have been lost.

**RecipientPush** - `ClientRegistry` and the debounced push: the registry goroutine
with its two unbuffered channels, `readPump`'s end, the timer of a recipient and the
clients excluded from its flush, the flush that lists clients and pushes to one after
another, and each client's `writePump`. `owed` is a history variable: the items
stored while a client was registered, cleared when it is excluded from a flush, its
channel is full or closed, or it leaves.

**FederationExchange** - the frame handlers of `PeerManager` at both ends of every
connection between relays, with the SUMMARYs that the ingest signal sends to the other
peers. A relay has of an item nothing, a message, an unservable envelope or all, the
outcomes of StoreForward's ingest and of its failures. Among these is the stale write of
`persistEnvelopeState`: an ingest that fails afterwards can leave an item unservable that
the relay held and has acknowledged (`FailedIngest`).

**PeerManager** - the lifecycle of connections: `AddPeerURL`, `Run` with its two
channels, the dial loop of each URL, admission of inbound connections by `main`,
hand-over, registration, `removePeer` and its re-queueing, `Stop` and cleanup.

`MC*.tla` and the `.cfg` files instantiate these; `*Proofs.tla` hold the theorems.
Operators commented "Mutant:" stand beside the definition they are a faulty
variant of; they serve to see that the properties notice.

## The runs

| run | instance | shows |
|---|---|---|
| `message_store` | 2 items, one with a legacy payload, one with three expiries, 2 ticks per second, clock to 4 | keys lead to every message, marks go with it, a message goes only by a due key of its id, expired messages go |
| `envelope_store` | 2 items, one with three expiries, 2 ticks per second, clock to 6, UTC | indexes exact, an envelope goes early only if it was rewritten during the sweep, expired envelopes go |
| `ingest` | 1 item, one client and two peers, crashes and failed calls | receipts durable, signal unique and not early, receipted items servable, Custody implemented |
| `client_session` | 3 items on pages of 2, one of which the device refuses and which may expire, the others too large for one frame, an upload, every budget within reach, one fault, with and without a silence timeout | what is acknowledged was delivered, no frame overruns a budget, a conforming device is dropped only after a push, an oversize TRANSFER or a fault, queues drain over sessions unless the first page does not fit or an untimed session idles after a miss |
| `recipient_push` | 2 connections of a recipient, 2 items, one sent by the recipient itself, Send of 1, with and without debounce | no panic, sessions released, exclusions end, no nudge lost between timer and flush, nudges arrive |
| `federation` | 3 relays in a line, 2 items, one entering at both ends, the other may expire, one failed ingest, breaks at any time | what frames name is there, frames refused only after a forwarded SUMMARY, items spread over renewed connections |
| `peer_manager` | 2 URLs, 3 connections, channels of 1, 2 dial attempts | a URL is in one place, ended peers leave, Stop closes what Run knows, the limit is exceeded by a bounded number, peers are dialled again |
| `envelope_zone` | as `envelope_store`, two seconds east of UTC | violated: a live envelope is swept |
| `ttl_sweeper_not_started` | as `message_store` | violated: an expired message stays |
| `receipt_crash` | as `ingest`, crashes only | violated: a receipted item cannot be served |
| `ttl_extended` | as `ingest`, two expiries, no faults | violated: a stored expiry moves later |
| `federation_backlog` | 2 relays, 2 items, one object in a TRANSFER | violated: a standing connection is not drained |

Bounds. Two ticks per second give a whole and a half second, all the codec and the
text order tell apart. Item 1 has two expiries within one second and one in another, so
persisting it again changes keys with and without changing the record's second, and a
sweep meets keys of earlier lives. The clock runs past
every expiry second. Two items are needed for a scan to meet a foreign or orphan
key on its way. Ingest hazards are between sessions that handle the same item, so
`ingest` spends its states on three sessions rather than on items; two peers are
interchangeable, and `SYMMETRY` is used in runs without liveness only. Runs with a clock
stop it at `MaxTime`; sessions and restarts go on, so no state deadlocks.

A third item makes a second page, so the cursor moves, wraps and meets an item that
was refused; that the refused item may expire lets the queue become empty. The limits are
so small that every stop reason ends some session, and large enough that a session can
finish a round. Three relays in a
line have one relay with two peers, which is what forwarding and two simultaneous
transfers of an item need; a TRANSFER of two objects of which the receiver takes one
stands for every transfer taken in part. Channels of one are full as soon as they hold
something, and with three connections one is dialled, one is accepted and one is in
between. `MaxFaults` bounds failures that have no bound of their own; broken
connections between relays are unbounded. `recipient_push` and `peer_manager` may come
to rest (all items have arrived and all clients have gone; the manager has stopped), and so
may `client_session` (a session without a silence timeout in which all has been said), so
they do not check for deadlock.

Fairness.

* *Stores.* Weak fairness of the sweep's read stands for the ticker that keeps firing;
  strong fairness of the removal of each item says that a removal tried again and again
  succeeds some time, since a crash or an error can interrupt any one of them. Nothing
  is assumed of clients, peers or the clock.
* *Client session.* Weak fairness of the session's goroutine (where a read deadline is set,
  it fires), of the push timer, and of a device that reads, offers its uploads and connects
  again. Items need neither arrive nor expire.
* *Push.* Weak fairness of the flush, of each push and of each `writePump`.
* *Federation.* Weak fairness of a connection as a whole: it is dialled when it is
  closed, and one of its two read loops goes on when there is something to read. That
  connections are renewed, and that the network at last breaks none at work, is the
  hypothesis of `RenewedConnectionsSpreadItems`, which the code alone does not give.
* *Peer manager.* Weak fairness of `Run`'s dialling and of each dial loop, whose dials
  have time limits. Strong fairness of each wait for `outbound`, since a Go channel
  serves blocked senders in turn. Nothing is assumed of connections, requests and
  `Stop`.

### What the violated runs are about

* **Zone.** Keys hold UTC text, the sweeper's `before` is `time.Now()` in the local
  zone, and the two are compared as text. East of UTC live envelopes are removed; the
  relay is only right in a process that runs in UTC. All theorems about sweeps
  carry that assumption.
* **TTL sweeper.** `main` builds it and logs that it started; nothing starts it.
* **Crash.** Between a stale write of `persistEnvelopeState` and the session's own
  `persistTransferEnvelope` the stored envelope holds the wrong bytes. Without faults
  the second write always repairs it (`ReceiptedIsServableWithoutFaults`, proved).
* **TTL.** The last transfer's expiry wins, also when it is later. When it is earlier it
  shortens the custody of an item that was receipted under a later one; `ReceiptDurable` and
  `KeepsCustody` are about senders that agree.
* **Backlog.** README.md promises repeated rounds on one connection until it is drained.
  Between relays `sendSummary` runs once and `handleReceipt` sends none: what did not
  fit in the one TRANSFER, or came from a client later, waits for the next connection
  (`federation` shows that it then gets through).

### What the passing runs had to allow for

Properties hold in the form given because they name these behaviours:

* A SUMMARY pushed to a device, or forwarded to a relay, in the middle of a round leads
  to a second TRANSFER; the first RECEIPT takes the expectation and the second is a
  protocol error. Both ends follow the protocol (`FatalOnlyAfterPush`,
  `RefusedOnlyAfterForward` exempt this).
* An ingest that fails halfway leaves a relay that counts the item as known, never
  requests it again and cannot serve it (`HalfIngested`), even when it held and had
  acknowledged the item before (the stale write above). A RECEIPT therefore promises an
  envelope and no more (`FramesAreBacked`).
* Sweepers remove by id what an earlier read listed. A message goes with a due key of an
  earlier life of its id, due or not, and an envelope rewritten under a later expiry
  between the read and the removal goes as well. `SweptMessageIsDue` and
  `SweptEnvelopeIsDue` say that nothing else goes early.
* Without a `SilenceTimeout` a session may stay idle for good. What is stored when
  it greets is offered page after page, as pages are acknowledged, but a push that found Send full, and an
  upload left out of its RECEIPT, wait for the next session (`Stranded`). With a timeout
  sessions end and the next one offers them.
* A part of an upload that a failed write left behind counts as stored, since `hasObjectID`
  finds it and the relay does not ask again.
* A connection that ends before `Run` registers it stays registered for good and counts
  as a peer (`early` in `DeadPeersLeave`).
* Peers handed over while `Run` is told to stop are never closed
  (`OnlyUnheardStayOpen`), and a dial loop gives up for good after its last attempt.
* The limit on peers is checked before earlier requests are registered (`PeerLimit`).
* A client that sent one item is left out of the flush for others' items in the same
  window, and a client between `Register` and its entry in the maps is in no flush;
  neither is owed a nudge.
* A full page of items that a device refuses, or that cannot be served, hides the pages
  behind it until the cursor of the same session gets past it; sessions that end first
  start from the first page again. In the run one item of a page of two is refused.
* A TRANSFER is limited in objects, not in bytes. When the objects of one REQUEST do not
  fit in a frame the connection (or session) is dropped and the next one fails alike. In
  `client_session` this happens, and is exempt as `Jammed` and `oversize`; smaller pages,
  after an expiry or an acknowledgement, get through. In `federation` items fit; with
  `MaxFrameObjects = 1`, `RenewedConnectionsSpreadItems` is violated.

## The proofs

| module | theorems | assumptions |
|---|---|---|
| StoreProofs | lemmas on seconds, truncation and text order | - |
| | MessageStoreTypes, MessagesAreIndexed, MarksHaveMessages | none beyond those of the constants |
| | SweptMessagesAreDue | UTC |
| | EnvelopeStoreTypes | none |
| | EnvelopesAreIndexed | UTC |
| | SweptEnvelopesAreDue | UTC |
| | StoreForwardTypes, SignalsAreUnique | none |
| CustodyProofs | ReceiptsAreDurable, AnnouncedAreHeld, RelayKeepsCustody, ReceiptedAreServable | UTC, agreed expiries |
| SessionAdapterProofs | lemmas on pages, the codec's limits and rounds | - |
| ClientSessionProofs | ClientSessionTypes, AcknowledgedIsDelivered, BudgetsAreKept | none |
| ClientRoundProofs | ConformingDevicesAreServed | limits that fit |
| FederationExchangeProofs | FederationTypes, FramesTellTheTruth, RelaysAgreeOnFrames | none |
| RecipientPushProofs | RecipientPushTypes, NoPanic, SessionsAreReleased, NudgesAreNotLost, ExclusionsAreEnded | none |
| PeerManagerProofs | PeerManagerTypes, EndedPeersLeave, HeardAreClosed, NoURLLostOrDoubled, PeersAreLimited | none |

UTC means `LocalOffset = UTC`; agreed expiries (`ExpiriesAgree`) that the senders of an
item put expiries of one second on it. Both are needed: `envelope_zone` refutes
`SweptEnvelopeIsDue` without UTC, and without agreement a transfer with an earlier expiry
replaces the one an item was receipted under. Both are hypotheses of the
theorems, not assumptions of the modules, so the runs that break them are instances
of the same specifications.

Limits that fit (`LimitsFit`) are about frames that one side of a client session makes and
the other side reads. A page may be asked for in one REQUEST, which `protocol.go` gives
(64 items against 256). The device's uploads fit in one SUMMARY and one TRANSFER, as it
neither pages nor retries in the model. Nothing is assumed of sizes: when the relay's own
TRANSFER cannot be encoded (32 large objects exceed `MaxFrameBytes`) the session ends as
`protocol_fatal` with `oversize` set. Between relays no such
hypothesis is needed: both sides cut previews, wants and transfers to the limits their
reader enforces, and a TRANSFER that cannot be encoded is never on a wire.

The items of a recipient, a device and a set of relays are finite sets: a page is cut off
by the number of ids before an id, which has no meaning in an infinite set.

The arguments:

* *Sweeps.* `TTLSweepInv` and `EnvKeysInv`: the second that a listed key names has come. The
  text order gives that at the read (`ListedTextIsDue`), and due stays due
  (`TextDueStays`). The record may be a new one when it is removed. For envelopes the index
  is exact (`IndexesExact`), so a listed key that is still in it is the key of the
  stored envelope, which is then due itself. For custody `EnvSweepInv` says of each listed
  key that some sender's expiry of the item is due, and with agreed expiries all are.
* *The signal.* `EmitInv`: an item whose marker is unset has not been announced and no
  session is about to announce it; at most one session stands at `emit` for an item,
  and none once the signal was emitted. Crashes only clear sessions.
* *Receipts.* `CustodyInv`: what is accepted, receipted or announced, and what a session
  is about to mark or announce, is held or due under all its expiries. Only a sweep removes an envelope, and what
  it removes is due. Init maps to Init and each action to a step of Custody or a
  stutter: the first write of an envelope to TakeUp, SendReceipt to Acknowledge, a
  sweep's removal to LetGo.
* *Servable.* `ServableInv`: while no fault has happened, an envelope that holds the
  wrong bytes has a session at work on its item that has still to reach `transfer`
  and so restores them before it comes to rest.
* *Acknowledged items.* `SessionInv`: a RECEIPT that the device has sent, on the wire or
  parsed, lists only what it has imported. The relay marks only what such a RECEIPT lists,
  and the device forgets nothing.
* *Session types.* `PlainInv` adds the variables that `SessionInv` does not speak of. A
  cursor is the last id of a preview: `LastOf` has a value for every finite set
  (`LastExists`: the id with the fewest ids behind it is the last one), so it is an item
  or 0.
* *Budgets.* A live session has no stop reason and bytes left, and `timeUp` is set only with
  a wall clock budget. A frame is queued only behind a check that gave no reason, and such a
  check means that rounds, time and the bytes with the frame are within their limits. The
  lemmas on the drain session say this once (a reason stays; no reason means something is
  left); `Prepares` and `Follows` carry it through the handlers.
* *Rounds.* A RECEIPT is refused unless it answers the TRANSFER the adapter has in mind, so
  the invariant must know the order of all frames under way. `Round` says it of one
  direction of a connection: of the frames with which one side serves (SUMMARY, TRANSFER)
  and those with which the other side asks (HELLO, REQUEST, RECEIPT) at most one is under
  way, and what a TRANSFER or RECEIPT lists is expected. Each answer of a handler takes a
  frame off one side and puts at most one on the other (`RoundServes`, `RoundAsks`). Both
  theorems about refused frames rest on these lemmas.
* *Devices.* `ConformInv`: while nothing was pushed, every TRANSFER could be encoded and no
  fault has happened, a live session is in a round, its HELLO comes before everything else, no parsed event is
  fatal, and no session has ended as `protocol_fatal`. One thing is harder than
  between relays: a message of several frames is parsed before any of them is handled, and
  parsing a RECEIPT clears the expectation. While that RECEIPT waits among the events the
  round is therefore one of the adapter before (`InRound`). That a round has one asking frame
  makes sure that no TRANSFER is sent in between.
* *Relays.* `SoundInv`: every frame on a wire is within the limits of its reader, and of what
  it names its sender (of a REQUEST: its reader) has an envelope, or it has expired. A
  failed ingest may replace an envelope but takes none away (`EnvelopesStay`), so that stays
  true whatever else comes in; a REQUEST names what the SUMMARY before it named.
  `RoundInv`: each
  direction of a connection on which no SUMMARY was forwarded is a round, and a relay that
  was dialled and has not read the HELLO yet has sent nothing.
* *Registry.* `RegistryInv` ties the phase of a client to the call the goroutine has taken,
  to the map and to its channel. A channel is closed by `readPump` only if the client was
  never registered, so the goroutine closes an open one, once.
* *Nudges.* A push reads the store when it serves a client, so an older push that has the
  client still before it covers a newer item as well. `NudgeInv` adds to `NoLostNudge` what
  the handover from handler to push needs: a client is owed only what others sent, so the
  exclusion of an item's source does not hit it, and without a debounce window no timer is
  armed and an item's push has not begun before its handler starts it.
* *Peers.* `PlaceInv`: a connection is in the greeting, being handed over, in the channel
  or registered, at most one of these, and wherever it is its read loop runs or ended
  early. That gives `DeadPeersLeave`, and `OnlyUnheardStayOpen` once `Cleanup` has closed
  what is registered.
* *URLs.* `TokenInv`: a URL is a token that moves from `unadded` to the queue, the dial loop,
  a connection and back, and is dropped only when the manager has stopped.
* *Limit.* `LimitInv` bounds what counts: the accepted connections in a handler, in the
  channel or registered. Only `Admit` adds one, when fewer than `MaxFederationPeers` are
  registered, fewer than `MaxFederationConns` are in handlers and at most the channel's
  capacity are in it.

Only model-checked are the liveness properties (`ExpiredMessageGoes`, `ExpiredEnvelopeGoes`,
`QueuesDrain`, `NudgesArrive`, `RenewedConnectionsSpreadItems`, `PeersAreRedialled`), since
fairness is beyond the prover. Every invariant and every action property that a passing run
checks, and the refinement of Custody, is proved.

## What the models leave out

* Bytes, base64, CBOR and signatures: a parsed TRANSFER is a set of objects with
  distinct ids. Envelopes on the wire carry no times, so an item is created when it
  arrives and expires at the `expiry_unix_ms` sent with it.
* Payload lengths: a payload longer than the codec's 16-bit length is not modelled.
* Origin relay, hop count and creation time of envelopes, which no decision reads.
* The two reads of a relay's lookup (seen pair, message) are one step, which is exact
  while each relay has one session.
* A sweeper's failed removals are in the store modules, not again in StoreForward.
* `PrepareForwardingEnvelope`, `ReserveForwardingCandidate`, `SweepExpiredEnvelopes`,
  the separate `MarkSeen` and `MarkRelayIngestEmitted`: nothing in the relay calls them.
* Between relays and with devices a frame handler is one step; what a TRANSFER goes
  through on its way into the stores is StoreForward's subject. FederationExchange sends the
  SUMMARYs of the ingest signal in the step that stores the items, so it does not show a
  peer that asks before `persistTransferEnvelope` has run. Of overlapping ingests of an
  item it shows what they leave behind, not the moments in which the envelope of one is
  overwritten by the other and not yet restored.
* Sizes of items beyond small and large, see above.
* HELLO's fields, bloom filters and the candidates of a want list that come from them:
  previews alone decide what is requested.
* RELAY_INGEST frames, which the relay logs when it reads one and never sends;
  `AnnounceMessage` and `ForwardToPeers`, which only tests call; `GetQueuedMessages`.
* The push in ClientSession is one step and reaches one device. Several connections of a
  recipient are in RecipientPush, which has no budgets and no acknowledgements.
* A peer's write loop, which has no state of its own, and the window of the rate limiter: it
  can only refuse what `Admit` may also not take.
* `MaxDialAttempts` failures in a row end a dial loop; its growing waits are not modelled.
* Metrics, logging, flags and HTTP handlers without state.

## Not modelled

* **Descriptors.** The gossip handler looks a descriptor up before it stores it and skips
  one that is not found, so nothing enters the store while the relay runs; its caps, indexes
  and sweeper work on an empty store. A model of them would say nothing of the relay.
* **Scoring, traffic shaping, forwarding strategy.** Not wired into any send path; scores
  are floating-point numbers that decide an order.
* **Codec.** CBOR, base64 and hashes are conversions of data; what they decide (a frame
  parses, an object hashes to its id) is in SessionAdapter and StoreForward.
* **Health counters, HTTP endpoints, metrics, logging.** Nothing reads them back.

## Plan

1. Senders that disagree on the expiry of an item in the ingest run, with a weaker promise
   that follows the last transfer.
2. The steps of the liveness arguments that are invariants or action properties (what a
   sweep has still to remove only shrinks, a cursor that wraps has passed every page).
