---------------------------- MODULE EnvelopeStore ----------------------------
(***************************************************************************)
(* BBoltEnvelopeStore, the relay's forwarding state, and its sweeper.      *)
(*                                                                         *)
(* What an envelope carries is abstracted to what tells its readers apart: *)
(* its expiry, and whether its payload is the canonical envelope bytes of  *)
(* the item ("envelope"), which hash to the id and can be served, or the   *)
(* payload text of a message ("payload"), which do not and cannot.  Origin *)
(* and creation time ride along unread and are left out.                   *)
(***************************************************************************)
EXTENDS RelayBase

CONSTANTS RelayIDs           \* relays that may have seen an item

VARIABLES envelopes,         \* the envelopes bucket
          byDestination,     \* <<destination, id>> keys
          byExpiry,          \* <<expiry text, id>> keys
          envelopeExpiry,    \* expiry per id, for eligibility without decoding
          seen,              \* <<id, relay>> pairs
          relayIngest,       \* ids whose RELAY_INGEST marker is set
          envSweep           \* byExpiry keys the running sweep has still to remove

indexBuckets == <<envelopes, byDestination, byExpiry, envelopeExpiry>>
envBuckets   == <<envelopes, byDestination, byExpiry, envelopeExpiry, seen, relayIngest>>
envVars      == <<envelopes, byDestination, byExpiry, envelopeExpiry, seen, relayIngest,
                  envSweep, now>>

EnvelopeStoreInit ==
    /\ envelopes = <<>> /\ envelopeExpiry = <<>>
    /\ byDestination = {} /\ byExpiry = {}
    /\ seen = {} /\ relayIngest = {}
    /\ envSweep = {}
    /\ now = 0

-----------------------------------------------------------------------------
Envelopes == [payload : {"envelope", "payload"}, expires : Times]

DestinationKey(id) == <<DestinationOf[id], id>>
EnvelopeExpiryKey(id, expires, offset) == <<RFC3339Nano(expires, offset), id>>

Put(f, id, value) == [i \in DOMAIN f \cup {id} |-> IF i = id THEN value ELSE f[i]]
Delete(f, id)     == [i \in DOMAIN f \ {id} |-> f[i]]

\* Mutant: the expiry key of the replaced envelope is left behind.
PersistEnvelopeKeepingKey(id, env, offset) ==
    /\ envelopes' = Put(envelopes, id, env)
    /\ byDestination' = byDestination \cup {DestinationKey(id)}
    /\ byExpiry' = byExpiry \cup {EnvelopeExpiryKey(id, env.expires, offset)}
    /\ envelopeExpiry' = Put(envelopeExpiry, id, env.expires)
    /\ UNCHANGED <<seen, relayIngest>>

\* Mutant: the new keys are put before the old ones are deleted.
PersistEnvelopeDeletingLast(id, env, offset) ==
    LET old == IF id \in DOMAIN envelopes
                 THEN {EnvelopeExpiryKey(id, envelopes[id].expires, LocalOffset)}
                 ELSE {}
    IN  /\ envelopes' = Put(envelopes, id, env)
        /\ byDestination' = byDestination \cup {DestinationKey(id)}
        /\ byExpiry' = (byExpiry \cup {EnvelopeExpiryKey(id, env.expires, offset)}) \ old
        /\ envelopeExpiry' = Put(envelopeExpiry, id, env.expires)
        /\ UNCHANGED <<seen, relayIngest>>

(***************************************************************************)
(* An upsert.  The keys of the envelope it replaces are computed from the  *)
(* decoded record, whose times are in the local zone, and deleted unless   *)
(* they are the new ones; the destination key depends on the id alone and  *)
(* is always the same.  `offset` is the zone of the caller's ExpiresAt.    *)
(* Validate never fails here: an ingested item has an id and a destination *)
(* and expires after it was created.                                       *)
(***************************************************************************)
PersistEnvelope(id, env, offset) ==
    LET old == IF id \in DOMAIN envelopes
                 THEN {EnvelopeExpiryKey(id, envelopes[id].expires, LocalOffset)}
                 ELSE {}
    IN  /\ envelopes' = Put(envelopes, id, env)
        /\ byDestination' = byDestination \cup {DestinationKey(id)}
        /\ byExpiry' = (byExpiry \ old) \cup {EnvelopeExpiryKey(id, env.expires, offset)}
        /\ envelopeExpiry' = Put(envelopeExpiry, id, env.expires)
        /\ UNCHANGED <<seen, relayIngest>>

\* The seen pairs and the ingest marker stay: "historical tracking".
RemoveEnvelope(id) ==
    /\ envelopes' = Delete(envelopes, id)
    /\ IF id \in DOMAIN envelopes
         THEN /\ byDestination' = byDestination \ {DestinationKey(id)}
              /\ byExpiry' = byExpiry
                     \ {EnvelopeExpiryKey(id, envelopes[id].expires, LocalOffset)}
         ELSE UNCHANGED <<byDestination, byExpiry>>
    /\ envelopeExpiry' = Delete(envelopeExpiry, id)
    /\ UNCHANGED <<seen, relayIngest>>

\* Mutant: the item is marked as seen by its destination, not by the relays.
MarkSeenByDestination(id, relays) ==
    /\ seen' = seen \cup {<<id, DestinationOf[id]>>}
    /\ relayIngest' = relayIngest \cup {id}
    /\ UNCHANGED indexBuckets

\* One transaction; the marker is newly created when id was not in relayIngest.
MarkSeenAndRelayIngestEmitted(id, relays) ==
    /\ seen' = seen \cup ({id} \X relays)
    /\ relayIngest' = relayIngest \cup {id}
    /\ UNCHANGED indexBuckets

-----------------------------------------------------------------------------
(***************************************************************************)
(* Reading.  Eligibility looks at the two indexes only, never at the       *)
(* envelope itself.                                                        *)
(***************************************************************************)
IsEligible(id) == id \in DOMAIN envelopeExpiry /\ now <= envelopeExpiry[id]

GetAllEnvelopeIDs == {key[2] : key \in {k \in byDestination : IsEligible(k[2])}}

EligibleFor(destination) ==
    {key[2] : key \in {k \in byDestination : k[1] = destination /\ IsEligible(k[2])}}

-----------------------------------------------------------------------------
\* Mutant: the scan does not stop at the current time.
GetExpiredEnvelopesUnbounded(before) ==
    {key \in byExpiry : key[2] \in DOMAIN envelopes}

(***************************************************************************)
(* The sweeper: one read of the keys at or before now in text order, then  *)
(* one removal per envelope found.                                         *)
(***************************************************************************)
GetExpiredEnvelopes(before) ==
    {key \in byExpiry : /\ TextAtMost(key[1], RFC3339Nano(before, LocalOffset))
                        /\ key[2] \in DOMAIN envelopes}

EnvSweepRead ==
    /\ envSweep = {}
    /\ GetExpiredEnvelopes(now) # {}
    /\ envSweep' = GetExpiredEnvelopes(now)
    /\ UNCHANGED <<envBuckets, now>>

EnvSweepRemove(key) ==
    /\ key \in envSweep
    /\ RemoveEnvelope(key[2])
    /\ envSweep' = envSweep \ {key}
    /\ UNCHANGED now

\* RemoveEnvelope failed: the sweep logs it and goes on.
EnvSweepSkip(key) ==
    /\ key \in envSweep
    /\ envSweep' = envSweep \ {key}
    /\ UNCHANGED <<envBuckets, now>>

(***************************************************************************)
(* Restart: the sweep is lost, and Open puts back an expiry entry for any  *)
(* envelope that has none.                                                 *)
(***************************************************************************)
BackfilledExpiry ==
    [i \in DOMAIN envelopeExpiry \cup DOMAIN envelopes |->
        IF i \in DOMAIN envelopeExpiry THEN envelopeExpiry[i] ELSE envelopes[i].expires]

RestartEnvelopeStore ==
    /\ envelopeExpiry' = BackfilledExpiry
    /\ envSweep' = {}
    /\ UNCHANGED <<envelopes, byDestination, byExpiry, seen, relayIngest, now>>

-----------------------------------------------------------------------------
(***************************************************************************)
(* The store on its own.  A transfer writes the expiry it parsed, in UTC;  *)
(* persistEnvelopeState writes back what it read, in the local zone.       *)
(***************************************************************************)
TransferPersists ==
    \E id \in ItemIDs, payload \in {"envelope", "payload"} : \E expires \in Expiries[id] :
        /\ expires > now
        /\ PersistEnvelope(id, [payload |-> payload, expires |-> expires], UTC)
        /\ UNCHANGED <<envSweep, now>>

StateRewritten ==
    \E id \in DOMAIN envelopes :
        /\ PersistEnvelope(id, envelopes[id], LocalOffset)
        /\ UNCHANGED <<envSweep, now>>

RelayMarks ==
    \E id \in ItemIDs, relays \in SUBSET RelayIDs :
        /\ MarkSeenAndRelayIngestEmitted(id, relays)
        /\ UNCHANGED <<envSweep, now>>

EnvelopeClock == Tick /\ UNCHANGED <<envBuckets, envSweep>>

EnvelopeStoreNext ==
    \/ TransferPersists
    \/ StateRewritten
    \/ RelayMarks
    \/ EnvSweepRead
    \/ \E key \in envSweep : EnvSweepRemove(key) \/ EnvSweepSkip(key)
    \/ RestartEnvelopeStore
    \/ EnvelopeClock

EnvelopeStoreSpec == EnvelopeStoreInit /\ [][EnvelopeStoreNext]_envVars

\* As for the message store: the ticker keeps firing, removals do not fail for ever.
FairEnvelopeStoreSpec ==
    /\ EnvelopeStoreSpec
    /\ WF_envVars(EnvSweepRead)
    /\ \A id \in ItemIDs :
          SF_envVars(\E key \in envSweep : key[2] = id /\ EnvSweepRemove(key))

-----------------------------------------------------------------------------
(***************************************************************************)
(* Properties.                                                             *)
(***************************************************************************)
\* Every bucket holds entries of its kind, and the sweep works on expiry keys.
EnvelopeStoreTypeOK ==
    /\ now \in Times
    /\ DOMAIN envelopes \subseteq ItemIDs
    /\ envelopes \in [DOMAIN envelopes -> Envelopes]
    /\ DOMAIN envelopeExpiry \subseteq ItemIDs
    /\ envelopeExpiry \in [DOMAIN envelopeExpiry -> Times]
    /\ byDestination \subseteq Destinations \X ItemIDs
    /\ byExpiry \subseteq Texts \X ItemIDs
    /\ seen \subseteq ItemIDs \X RelayIDs
    /\ relayIngest \subseteq ItemIDs
    /\ envSweep \subseteq Texts \X ItemIDs

(***************************************************************************)
(* The three indexes PersistEnvelope and RemoveEnvelope keep are exactly   *)
(* those of the stored envelopes, in whatever order envelopes are written, *)
(* replaced and swept: a summary offers what is stored and unexpired,      *)
(* nothing else, and the sweeper sees one key per envelope.                *)
(***************************************************************************)
IndexesExact ==
    /\ byDestination = {DestinationKey(i) : i \in DOMAIN envelopes}
    /\ byExpiry = {EnvelopeExpiryKey(i, envelopes[i].expires, UTC) : i \in DOMAIN envelopes}
    /\ envelopeExpiry = [i \in DOMAIN envelopes |-> envelopes[i].expires]

(***************************************************************************)
(* The sweeper removes an envelope by a key that was due, and the envelope *)
(* is due itself unless it has been stored again under another expiry      *)
(* since the key was read: the removal goes by id alone, so an envelope    *)
(* whose expiry has just been moved goes with the list, and no other does. *)
(***************************************************************************)
SweptEnvelopeIsDue ==
    [][\A i \in DOMAIN envelopes \ DOMAIN envelopes' :
           \E key \in envSweep \ envSweep' :
               /\ key[2] = i
               /\ TextDue(key[1])
               /\ key \in byExpiry => Due(envelopes[i].expires)]_envVars

(***************************************************************************)
(* A stored envelope's expiry never moves later.                           *)
(***************************************************************************)
TTLNeverExtended ==
    [][\A i \in DOMAIN envelopes \cap DOMAIN envelopes' :
           envelopes'[i].expires <= envelopes[i].expires]_envVars

(***************************************************************************)
(* An expired envelope does not stay: some sweep removes it.               *)
(***************************************************************************)
ExpiredEnvelopeGoes ==
    \A i \in ItemIDs :
        (i \in DOMAIN envelopes /\ Second(envelopes[i].expires) < Second(now))
            ~> (i \notin DOMAIN envelopes)
=============================================================================
