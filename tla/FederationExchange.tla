------------------------- MODULE FederationExchange -------------------------
(***************************************************************************)
(* Items spreading over relays: the frame handlers of PeerManager at both  *)
(* ends of the connections between relays.  An end <<a, b>> is relay a's   *)
(* side of its connection with b, and wire[<<a, b>>] what a has sent and b *)
(* has not read.  Each message is one frame.                               *)
(*                                                                         *)
(* A handler is one step; what a TRANSFER goes through on its way into the *)
(* stores is the subject of StoreForward.  Of ingests of one item that     *)
(* overlap only what they leave behind shows.  An error that a handler     *)
(* returns ends the connection and is a break of it here.                  *)
(*                                                                         *)
(* The first time an item comes in from a relay the ingest signal makes    *)
(* PeerManager send a SUMMARY of it to its other peers, there and then.    *)
(***************************************************************************)
EXTENDS SessionAdapter

CONSTANTS Relays,
          Dialed,              \* pairs <<a, b>>: a dials b
          Items,               \* digests, in digest order
          Sources,             \* the relays where a client transfers the item
          Expiring,            \* items that may expire
          MaxFaults            \* transfers of which an object fails

Back(e) == <<e[2], e[1]>>
Ends == Dialed \cup {Back(e) : e \in Dialed}

ASSUME FederationAssumption ==
    /\ Dialed \subseteq Relays \X Relays
    /\ \A e \in Dialed : Back(e) \notin Dialed
    /\ Items \subseteq Nat \ {0} /\ IsFiniteSet(Items) /\ Expiring \subseteq Items
    /\ Sources \in [Items -> SUBSET Relays]
    /\ MaxFaults \in Nat

VARIABLES holding,             \* what each relay has of each item
          signalled,           \* items whose ingest signal each relay has emitted
          expired,             \* items past their expiry
          end, wire,
          faults

fxVars == <<holding, signalled, expired, end, wire, faults>>

(***************************************************************************)
(* Of an item a relay has nothing, the message only (its envelope was not  *)
(* written), an envelope whose bytes do not hash to the id, or all.  What  *)
(* has expired is neither listed nor served and its message stays known,   *)
(* before and after it is swept, so the sweep is no step here.             *)
(***************************************************************************)
Holdings == {"absent", "message", "unservable", "held"}

\* forwarded: was a SUMMARY of a single item sent on this connection?
ClosedEnd == [phase |-> "closed", adapter |-> NewSessionAdapter, forwarded |-> FALSE]

FederationInit ==
    /\ holding = [r \in Relays |-> [i \in Items |-> "absent"]]
    /\ signalled = [r \in Relays |-> {}]
    /\ expired = {}
    /\ end = [e \in Ends |-> ClosedEnd]
    /\ wire = [e \in Ends |-> <<>>]
    /\ faults = 0

-----------------------------------------------------------------------------
(***************************************************************************)
(* What the handlers are made of.                                          *)
(***************************************************************************)
\* hasObjectID: an envelope or a message will do.
Known(r) == {i \in Items : holding[r][i] # "absent"}

\* Mutant: what has a message is listed too.
ListedKnown(r) == Known(r) \ expired

\* GetAllEnvelopeIDs leaves out what has expired.
Listed(r) == {i \in Items : holding[r][i] \in {"unservable", "held"}} \ expired

\* loadTransferObjectByItemID and the expiry check of buildTransferObjects.
Servable(r) == {i \in Items : holding[r][i] = "held"} \ expired

\* Mutant: the page is one item short.
SummaryShort(r) == Frame("SUMMARY", FirstOf(Listed(r), MaxSummaryPreviewItems - 1))

\* sendSummary: the first page, once for a connection.
Summary(r) == Frame("SUMMARY", FirstOf(Listed(r), MaxSummaryPreviewItems))

\* computeMissingWant, without candidates.
MissingWant(r, preview) == FirstOf(preview \ Known(r), MaxWantItems)

TransferObjects(r, want) == FirstOf(want \cap Servable(r), MaxTransferItems)

\* What relay r answers to a frame; in a greeting the accepting side sends its HELLO.
Replies(r, phase, frame) ==
    CASE frame.type = "HELLO"    -> IF phase = "accepting"
                                      THEN <<Frame("HELLO", {}), Summary(r)>>
                                      ELSE <<Summary(r)>>
      [] frame.type = "SUMMARY"  -> IF MissingWant(r, frame.ids) = {} THEN <<>>
                                    ELSE <<Frame("REQUEST", MissingWant(r, frame.ids))>>
      [] frame.type = "REQUEST"  -> <<Frame("TRANSFER", TransferObjects(r, frame.ids))>>
      [] frame.type = "TRANSFER" -> <<Frame("RECEIPT", frame.ids \ expired)>>
      [] frame.type = "RECEIPT"  -> <<>>

\* Mutant: nothing is expected when nothing can be sent.
AdapterAfterIfAny(r, adapter, frame) ==
    IF frame.type = "REQUEST" /\ TransferObjects(r, frame.ids) # {}
      THEN SetExpectedReceipt(TransferObjects(r, frame.ids))
      ELSE AfterInbound(adapter, <<frame>>)

\* handleRequest expects a RECEIPT also for a TRANSFER without objects.
AdapterAfter(r, adapter, frame) ==
    IF frame.type = "REQUEST" THEN SetExpectedReceipt(TransferObjects(r, frame.ids))
    ELSE AfterInbound(adapter, <<frame>>)

\* handleTransfer with every object accepted.
Ingested(r, ids) ==
    [holding EXCEPT ![r] = [i \in Items |-> IF i \in ids THEN "held" ELSE @[i]]]

-----------------------------------------------------------------------------
(***************************************************************************)
(* The steps.                                                              *)
(***************************************************************************)
\* dialPeer and HandleInboundPeer; the dialing side sends its HELLO at once.
Dial(e) ==
    /\ e \in Dialed
    /\ end[e].phase = "closed" /\ end[Back(e)].phase = "closed"
    /\ end' = [end EXCEPT ![e].phase = "dialing", ![Back(e)].phase = "accepting"]
    /\ wire' = [wire EXCEPT ![e] = <<Frame("HELLO", {})>>]
    /\ UNCHANGED <<holding, signalled, expired, faults>>

\* Mutant: what the dialed side has sent is still read.
CloseOneWay(e) ==
    /\ end' = [end EXCEPT ![e] = ClosedEnd, ![Back(e)] = ClosedEnd]
    /\ wire' = [wire EXCEPT ![e] = <<>>]

\* readLoop ends, removePeer, and the other side reads an error.
Close(e) ==
    /\ end' = [end EXCEPT ![e] = ClosedEnd, ![Back(e)] = ClosedEnd]
    /\ wire' = [wire EXCEPT ![e] = <<>>, ![Back(e)] = <<>>]

\* A broken connection, and an error returned by a handler.
Break(e) ==
    /\ end[e].phase # "closed"
    /\ Close(e)
    /\ UNCHANGED <<holding, signalled, expired, faults>>

\* PushInbound makes the next frame a fatal event.
Refuses(e) == ~Parses(Head(wire[e])) \/ RefusedReceipt(end[Back(e)].adapter, wire[e], 1)

\* sendEnvelope fails: the objects asked for do not fit in a frame.
CannotAnswer(e) ==
    /\ Head(wire[e]).type = "REQUEST"
    /\ ~Encodes(Frame("TRANSFER", TransferObjects(e[2], Head(wire[e]).ids)))

(***************************************************************************)
(* The reader takes the frame off the wire and its reply follows what it   *)
(* sent before.  The observer of ingest signals, the callback of           *)
(* NewPeerManager, has sent a SUMMARY of each signalled item to the peers  *)
(* other than the source: those that Run has registered by now.            *)
(***************************************************************************)
OtherPeers(e) == {x \in Ends : x[1] = e[2] /\ x # Back(e) /\ end[x].phase = "open"}

ForwardedSummaries(ids) ==
    [k \in 1 .. Cardinality(ids) |->
        Frame("SUMMARY", FirstOf(ids, k) \ FirstOf(ids, k - 1))]

Exchange(e, replies, adapter, signals) ==
    \E peers \in IF signals = {} THEN {{}} ELSE SUBSET OtherPeers(e) :
        /\ wire' = [x \in Ends |->
                       IF x = e THEN Tail(wire[e])
                       ELSE IF x = Back(e) THEN wire[x] \o replies
                       ELSE IF x \in peers THEN wire[x] \o ForwardedSummaries(signals)
                       ELSE wire[x]]
        /\ end' = [x \in Ends |->
                      IF x = Back(e) THEN [end[x] EXCEPT !.phase = "open", !.adapter = adapter]
                      ELSE IF x \in peers THEN [end[x] EXCEPT !.forwarded = TRUE]
                      ELSE end[x]]
        /\ signalled' = [signalled EXCEPT ![e[2]] = @ \cup signals]

\* One message handled by relay e[2], which drops the connection when it refuses the
\* frame or cannot answer it.
Receive(e) ==
    /\ wire[e] # <<>>
    /\ \E frame \in {Event(Head(wire[e]))} :
       \E stored \in {IF frame.type = "TRANSFER" THEN frame.ids \ expired ELSE {}} :
          IF Refuses(e) \/ CannotAnswer(e)
            THEN Close(e) /\ UNCHANGED <<holding, signalled>>
            ELSE /\ Exchange(e, Replies(e[2], end[Back(e)].phase, frame),
                             AdapterAfter(e[2], end[Back(e)].adapter, frame),
                             stored \ signalled[e[2]])
                 /\ holding' = Ingested(e[2], stored)
    /\ UNCHANGED <<expired, faults>>

(***************************************************************************)
(* A store call of handleTransfer fails for object i: before the message   *)
(* is written, before the envelope is, or at the marker or at              *)
(* persistTransferEnvelope; at the last of these the item has been         *)
(* signalled.  By then persistEnvelopeState has written an envelope with   *)
(* the message's payload, or rewritten the one it read.  It reads and      *)
(* writes in two transactions, so an ingest that found no envelope may     *)
(* also put the payload in place of what another session has stored, and   *)
(* acknowledged, in between.  The object is left out of the RECEIPT.       *)
(***************************************************************************)
FailedIngest(old, reached) ==
    CASE reached = "absent"     -> {old}
      [] reached = "message"    -> {IF old = "absent" THEN "message" ELSE old}
      [] reached = "unservable" -> {"unservable"} \cup ({old} \cap {"held"})

ReceiveFails(e, i) ==
    /\ faults < MaxFaults
    /\ wire[e] # <<>>
    /\ \E frame \in {Event(Head(wire[e]))}, reached \in {"absent", "message", "unservable"} :
          /\ frame.type = "TRANSFER"
          /\ i \in frame.ids \ expired
          /\ \E stored \in {frame.ids \ (expired \cup {i})},
                marked \in IF reached = "unservable" THEN {{}, {i}} ELSE {{}} :
                /\ Exchange(e, <<Frame("RECEIPT", stored)>>, end[Back(e)].adapter,
                            (stored \cup marked) \ signalled[e[2]])
                /\ \E left \in FailedIngest(holding[e[2]][i], reached) :
                      holding' = [Ingested(e[2], stored) EXCEPT ![e[2]][i] = left]
    /\ faults' = faults + 1
    /\ UNCHANGED expired

\* A client's TRANSFER of an item that was missing.
ClientTransfer(r, i) ==
    /\ r \in Sources[i]
    /\ i \notin expired
    /\ holding[r][i] = "absent"
    /\ holding' = Ingested(r, {i})
    /\ UNCHANGED <<signalled, expired, end, wire, faults>>

Expire(i) ==
    /\ i \in Expiring \ expired
    /\ expired' = expired \cup {i}
    /\ UNCHANGED <<holding, signalled, end, wire, faults>>

-----------------------------------------------------------------------------
FederationNext ==
    \/ \E e \in Dialed : Dial(e) \/ Break(e)
    \/ \E e \in Ends : \/ Receive(e)
                       \/ \E i \in Items : ReceiveFails(e, i)
    \/ \E i \in Items : Expire(i)
    \/ \E r \in Relays, i \in Items : ClientTransfer(r, i)

FederationSpec == FederationInit /\ [][FederationNext]_fxVars

(***************************************************************************)
(* A dial loop tries again, and while a connection has something to read   *)
(* one of its read loops goes on, no matter which.  Connections need not   *)
(* break.                                                                  *)
(***************************************************************************)
ConnectionStep(e) == Dial(e) \/ Receive(e) \/ Receive(Back(e))

FederationFairness == \A e \in Dialed : WF_fxVars(ConnectionStep(e))

FairFederationSpec == FederationSpec /\ FederationFairness

-----------------------------------------------------------------------------
(***************************************************************************)
(* Properties.                                                             *)
(***************************************************************************)
\* Well-formed state; nothing is on the wire of a closed connection.
FederationTypeOK ==
    /\ holding \in [Relays -> [Items -> Holdings]]
    /\ signalled \in [Relays -> SUBSET Items]
    /\ expired \subseteq Expiring
    /\ end \in [Ends -> [phase : {"closed", "dialing", "accepting", "open"},
                         adapter : [awaiting : BOOLEAN, expected : SUBSET Items],
                         forwarded : BOOLEAN]]
    /\ wire \in [Ends -> Seq([type : FrameTypes, ids : SUBSET Items])]
    /\ \A e \in Ends : end[e].phase = "closed" => wire[e] = <<>>
    /\ faults \in Nat

(***************************************************************************)
(* Relays refuse each other's frames for one reason only: whatever         *)
(* expires, fails or breaks while both directions of a connection are      *)
(* served at once, every frame is within the limits of its reader, and a   *)
(* RECEIPT meets the expectation of the TRANSFER it answers, unless a      *)
(* forwarded SUMMARY has led to a second TRANSFER before it.               *)
(***************************************************************************)
RefusedOnlyAfterForward ==
    \A e \in Ends : wire[e] # <<>> /\ Refuses(e) => end[Back(e)].forwarded

(***************************************************************************)
(* What relays tell each other of items is so when it is read: a SUMMARY,  *)
(* a TRANSFER and a RECEIPT name items of which their sender has an        *)
(* envelope, and a REQUEST items of which its reader has one, unless they  *)
(* have expired meanwhile; also while ingests of the same items from other *)
(* relays fail halfway or overwrite each other, and connections break and  *)
(* are renewed.  That the envelope can be served is not promised: an       *)
(* overlapping ingest that fails may leave a receipted one unservable.     *)
(***************************************************************************)
FramesAreBacked ==
    \A e \in Ends : \A k \in 1 .. Len(wire[e]) :
        \A i \in wire[e][k].ids \ expired :
            holding[IF wire[e][k].type = "REQUEST" THEN e[2] ELSE e[1]][i]
                \in {"unservable", "held"}

\* An ingest of the item failed halfway at some relay, which then never requests it again.
HalfIngested(i) == \E r \in Relays : holding[r][i] \in {"message", "unservable"}

\* The exchange on the connection of e is over.
Settled(e) == /\ end[e].phase = "open" /\ end[Back(e)].phase = "open"
              /\ wire[e] = <<>> /\ wire[Back(e)] = <<>>

\* A relay is about to drop the connection.
Dropped(e) == \E x \in {e, Back(e)} : wire[x] # <<>> /\ (Refuses(x) \/ CannotAnswer(x))

(***************************************************************************)
(* Items spread to every relay when connections are renewed, and the       *)
(* network at last breaks none that is at work, as long as all items fit   *)
(* on a page and in a frame: although a connection has one round in each   *)
(* direction, of which the receiver may take only some, and the relays     *)
(* themselves drop connections over a RECEIPT.                             *)
(***************************************************************************)
RenewedConnectionsSpreadItems ==
    (\A e \in Dialed : /\ []<>(end[e].phase = "closed")
                      /\ <>[][end'[e].phase = "closed" =>
                                 end[e].phase = "closed" \/ Settled(e) \/ Dropped(e)]_fxVars)
        => []<>(\A i \in Items \ expired :
                    \/ \A r \in Relays : holding[r][i] = "held"
                    \/ \A r \in Relays : holding[r][i] = "absent"
                    \/ HalfIngested(i))

(***************************************************************************)
(* "Client and relay gossip connections support repeated reconciliation    *)
(* rounds" (README): time and again an open connection is drained, that    *)
(* is, the dialed relay has what the dialing one can serve.                *)
(***************************************************************************)
RelayConnectionDrains ==
    []<>(\A e \in Dialed : Settled(e) => Servable(e[1]) \subseteq Known(e[2]))
=============================================================================
