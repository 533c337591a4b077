---------------------------- MODULE CustodyProofs ----------------------------
(***************************************************************************)
(* In UTC, and when the senders of an item agree on the second it expires  *)
(* in, the ingest path keeps custody: no acknowledged or announced item is *)
(* lost before it is due, and seen from outside the relay is a Custody.    *)
(***************************************************************************)
EXTENDS StoreProofs

\* The item is in the envelope store, or every sender's expiry of it has come.
Covered(i) == i \in DOMAIN envelopes \/ \A e \in Expiries[i] : Due(e)

(***************************************************************************)
(* Whatever a session relies on, or the relay has said of an item, rests   *)
(* on an item that is covered; an envelope that is about to be written     *)
(* back carries an expiry of its item.                                     *)
(***************************************************************************)
CustodyInv ==
    /\ \A s \in Sessions :
          /\ pc[s] = "write" => envelope[s].expires \in Expiries[message[s].id]
          /\ pc[s] \in {"mark", "emit"} => Covered(message[s].id)
          /\ \A object \in accepted[s] : Covered(object.id)
    /\ \A i \in ItemIDs : emitted[i] > 0 => Covered(i)
    /\ \A object \in receipted : Covered(object.id)

StoreInv == StoreForwardTypeOK /\ IndexesExact /\ EnvSweepInv

-----------------------------------------------------------------------------
\* What the next-state relation does to the envelope store, in four kinds of steps.
EnvWrite(s) ==
    \E env \in [payload : {"envelope", "payload"}, expires : Expiries[message[s].id]] :
        PersistEnvelope(message[s].id, env, UTC)

\* The two writes of a session put an envelope with an expiry of its item.
LEMMA SessionWrites ==
    ASSUME LocalOffset = UTC, StoreForwardTypeOK, CustodyInv, NEW s \in Sessions,
           WriteEnvelopeState(s) \/ PersistTransferEnvelope(s)
    PROVE  EnvWrite(s) /\ UNCHANGED <<envSweep, now>>
  <1>1. CASE WriteEnvelopeState(s)
    <2>1. /\ envelope[s] \in WorkEnvelopes
          /\ envelope[s].expires \in Expiries[message[s].id]
      BY <1>1 DEF WriteEnvelopeState, StoreForwardTypeOK, CustodyInv
    <2>2. envelope[s].offset = UTC /\ envelope[s].payload \in {"envelope", "payload"}
      BY <2>1 DEF WorkEnvelopes
    <2> QED BY <1>1, <2>1, <2>2 DEF WriteEnvelopeState, EnvWrite
  <1>2. CASE PersistTransferEnvelope(s)
    <2>1. message[s].expires \in Expiries[message[s].id]
      BY <1>2, InWork DEF PersistTransferEnvelope
    <2> QED BY <1>2, <2>1 DEF PersistTransferEnvelope, EnvWrite
  <1> QED BY <1>1, <1>2

\* Every other step of a session leaves the stored envelopes alone.
LEMMA OtherSessionSteps ==
    ASSUME NEW s \in Sessions,
           \/ ReceiveTransfer(s) \/ StoreCallFails(s) \/ LookupFails(s)
           \/ SessionStep(s) /\ ~WriteEnvelopeState(s) /\ ~PersistTransferEnvelope(s)
    PROVE  UNCHANGED <<indexBuckets, envSweep, now>>
  BY ZenonT(30) DEF ReceiveTransfer, StoreCallFails, LookupFails, SessionStep, RejectExpired, LookUp,
         PersistStep, ReadEnvelopeState, MarkIngest, MarkSeenAndRelayIngestEmitted,
         EmitIngest, SendReceipt, UntouchedEnvelopes, envBuckets, indexBuckets

LEMMA StepKinds ==
    ASSUME LocalOffset = UTC, StoreForwardTypeOK, CustodyInv, [StoreForwardNext]_sfVars
    PROVE  \/ \E s \in Sessions : /\ WriteEnvelopeState(s) \/ PersistTransferEnvelope(s)
                                  /\ EnvWrite(s) /\ UNCHANGED <<envSweep, now>>
           \/ UNCHANGED <<indexBuckets, envSweep, now>>
           \/ EnvSweepRead
           \/ \E key \in envSweep : EnvSweepRemove(key)
           \/ RestartEnvelopeStore
           \/ Tick /\ UNCHANGED <<indexBuckets, envSweep>>
  <1>1. ASSUME NEW s \in Sessions, WriteEnvelopeState(s) \/ PersistTransferEnvelope(s)
        PROVE  EnvWrite(s) /\ UNCHANGED <<envSweep, now>>
    BY <1>1, SessionWrites
  <1>2. CASE TTLSweeperStep
    BY ZenonT(30), <1>2 DEF TTLSweeperStep, TTLSweepRead, TTLSweepRemove, UntouchedEnvelopes, envBuckets,
                indexBuckets
  <1>3. CASE EnvelopeSweeperStep
    BY <1>3 DEF EnvelopeSweeperStep
  <1>4. CASE Crash
    BY <1>4 DEF Crash
  <1>5. CASE Clock
    BY <1>5 DEF Clock, UntouchedEnvelopes, envBuckets, indexBuckets
  <1>6. CASE UNCHANGED sfVars
    BY <1>6 DEF sfVars, indexBuckets
  <1> QED BY ZenonT(30), <1>1, <1>2, <1>3, <1>4, <1>5, <1>6, OtherSessionSteps
          DEF StoreForwardNext, SessionStep

\* So the store's invariants hold in the composition as they do on its own ...
LEMMA StoreInvStep ==
    ASSUME LocalOffset = UTC, StoreInv, CustodyInv, [StoreForwardNext]_sfVars
    PROVE  IndexesExact' /\ EnvSweepInv'
  <1> USE DEF StoreInv
  <1>0. EnvelopeStoreTypeOK
    BY DEF StoreForwardTypeOK
  <1>1. ASSUME UNCHANGED indexBuckets
        PROVE  IndexesExact'
    BY <1>1 DEF indexBuckets, IndexesExact, DestinationKey, EnvelopeExpiryKey, RFC3339Nano
  <1>2. ASSUME NEW s \in Sessions, EnvWrite(s), UNCHANGED <<envSweep, now>>
        PROVE  IndexesExact' /\ EnvSweepInv'
    <2> PICK env \in [payload : {"envelope", "payload"}, expires : Expiries[message[s].id]] :
            PersistEnvelope(message[s].id, env, UTC)
      BY <1>2 DEF EnvWrite
    <2> PICK id : id = message[s].id
      OBVIOUS
    <2>1. env.expires \in Expiries[id] /\ PersistEnvelope(id, env, UTC)
      OBVIOUS
    <2> QED BY <1>2, <2>1, PersistKeepsIndexes, EnvSweepInvPersist
  <1>3. CASE UNCHANGED <<indexBuckets, envSweep, now>>
    BY <1>1, <1>3, EnvSweepInvShrink DEF indexBuckets
  <1>4. CASE EnvSweepRead
    BY <1>0, <1>1, <1>4, EnvSweepInvRead DEF EnvSweepRead, envBuckets, indexBuckets
  <1>5. ASSUME NEW key \in envSweep, EnvSweepRemove(key)
        PROVE  IndexesExact' /\ EnvSweepInv'
    <2>1. IndexesExact'
      BY <1>5, RemoveKeepsIndexes DEF EnvSweepRemove
    <2>2. EnvSweepInv'
      BY <1>5, EnvSweepInvShrink DEF EnvSweepRemove, RemoveEnvelope, Delete
    <2> QED BY <2>1, <2>2
  <1>6. CASE RestartEnvelopeStore
    <2>1. UNCHANGED <<envelopes, now>> /\ envSweep' \subseteq envSweep
      BY <1>6 DEF RestartEnvelopeStore
    <2> QED BY <2>1, <1>6, RestartKeepsIndexes, EnvSweepInvShrink
  <1>7. CASE Tick /\ UNCHANGED <<indexBuckets, envSweep>>
    BY <1>0, <1>1, <1>7, EnvSweepInvTick DEF indexBuckets
  <1> QED BY <1>2, <1>3, <1>4, <1>5, <1>6, <1>7, StepKinds

\* ... and an item that is covered stays covered.
LEMMA CoveredStays ==
    ASSUME LocalOffset = UTC, ExpiriesAgree, StoreInv, CustodyInv,
           [StoreForwardNext]_sfVars, NEW i \in ItemIDs, Covered(i)
    PROVE  Covered(i)'
  <1> USE DEF StoreInv
  <1>0. EnvelopeStoreTypeOK /\ now \in Times
    BY DEF StoreForwardTypeOK, EnvelopeStoreTypeOK
  <1>1. ASSUME UNCHANGED now, DOMAIN envelopes \subseteq DOMAIN envelopes'
        PROVE  Covered(i)'
    BY <1>1 DEF Covered, Due, Second
  <1>2. ASSUME NEW s \in Sessions, EnvWrite(s), UNCHANGED now
        PROVE  Covered(i)'
    BY ZenonT(30), <1>1, <1>2 DEF EnvWrite, PersistEnvelope, Put
  <1>3. ASSUME NEW key \in envSweep, EnvSweepRemove(key)
        PROVE  Covered(i)'
    <2>1. DOMAIN envelopes' = DOMAIN envelopes \ {key[2]} /\ UNCHANGED now
      BY <1>3 DEF EnvSweepRemove, RemoveEnvelope, Delete
    <2>2. CASE key[2] = i
      <3>1. \A e \in Expiries[i] : Due(e)
        BY <1>0, <2>2, ListedItemIsDue
      <3> QED BY <2>1, <3>1 DEF Covered, Due, Second
    <2>3. CASE key[2] # i
      BY <2>1, <2>3 DEF Covered, Due, Second
    <2> QED BY <2>2, <2>3
  <1>4. CASE Tick /\ UNCHANGED <<indexBuckets, envSweep>>
    <2>1. \A e \in Expiries[i] : Due(e) => Due(e)'
      BY <1>0, <1>4, DueStays, ItemAssumption
    <2> QED BY <1>4, <2>1 DEF Covered, indexBuckets
  <1>5. CASE UNCHANGED <<indexBuckets, envSweep, now>> \/ EnvSweepRead \/ RestartEnvelopeStore
    BY <1>1, <1>5 DEF indexBuckets, EnvSweepRead, envBuckets, RestartEnvelopeStore
  <1> QED BY <1>2, <1>3, <1>4, <1>5, StepKinds

-----------------------------------------------------------------------------
\* Steps that add no reliance on an item keep the invariant.
LEMMA CustodyInvKept ==
    ASSUME StoreForwardTypeOK, CustodyInv,
           \A i \in ItemIDs : Covered(i) => Covered(i)',
           \A s \in Sessions :
              /\ accepted'[s] \subseteq accepted[s]
              /\ pc'[s] = "write" => /\ pc[s] = "write"
                                     /\ message'[s] = message[s]
                                     /\ envelope'[s] = envelope[s]
              /\ pc'[s] \in {"mark", "emit"} => /\ pc[s] \in {"mark", "emit"}
                                                /\ message'[s] = message[s],
           UNCHANGED <<emitted, receipted>>
    PROVE  CustodyInv'
  <1>1. \A s \in Sessions : pc[s] \in {"mark", "emit"} => message[s].id \in ItemIDs
    BY ZenonT(30), InWork
  <1>2. /\ \A s \in Sessions : \A object \in accepted[s] : object.id \in ItemIDs
        /\ \A object \in receipted : object.id \in ItemIDs
    BY ZenonT(30), ObjectFacts DEF StoreForwardTypeOK
  <1> QED BY <1>1, <1>2 DEF CustodyInv

LEMMA CustodyStep ==
    ASSUME LocalOffset = UTC, ExpiriesAgree, StoreInv, CustodyInv, [StoreForwardNext]_sfVars
    PROVE  CustodyInv'
  <1>0. /\ pc \in [Sessions -> Labels] /\ accepted \in [Sessions -> SUBSET Objects]
        /\ message \in [Sessions -> WorkMessages \cup {NoMessage}]
        /\ envelope \in [Sessions -> WorkEnvelopes \cup {NoEnvelope}]
        /\ emitted \in [ItemIDs -> Nat]
    BY DEF StoreInv, StoreForwardTypeOK
  <1>1. StoreForwardTypeOK
    BY DEF StoreInv
  <1>2. \A i \in ItemIDs : Covered(i) => Covered(i)'
    BY CoveredStays
  <1>3. \A s \in Sessions : pc[s] \notin {"idle", "next"} => message[s].id \in ItemIDs
    BY <1>1, InWork
  <1>4. /\ \A s \in Sessions : \A object \in accepted[s] :
              object.id \in ItemIDs /\ Covered(object.id)'
        /\ \A object \in receipted : Covered(object.id)'
        /\ \A i \in ItemIDs : emitted[i] > 0 => Covered(i)'
    BY ZenonT(30), <1>1, <1>2, ObjectFacts DEF StoreForwardTypeOK, CustodyInv
  <1>5. ASSUME NEW s \in Sessions,
               \/ ReceiveTransfer(s) \/ RejectExpired(s) \/ LookUp(s) \/ PersistStep(s)
               \/ StoreCallFails(s) \/ LookupFails(s) \/ MarkIngest(s)
        PROVE  CustodyInv'
    <2>1. UNCHANGED <<emitted, receipted>>
      BY ZenonT(30), <1>5 DEF ReceiveTransfer, RejectExpired, LookUp, PersistStep, StoreCallFails,
                  LookupFails, MarkIngest, historyVars
    <2>2. \A t \in Sessions \ {s} :
              /\ pc'[t] = pc[t] /\ message'[t] = message[t] /\ envelope'[t] = envelope[t]
              /\ accepted'[t] = accepted[t]
      BY ZenonT(30), <1>0, <1>5 DEF ReceiveTransfer, RejectExpired, LookUp, PersistStep, StoreCallFails,
                        LookupFails, MarkIngest, Goto
    <2>3. /\ accepted'[s] \subseteq accepted[s]
          /\ pc'[s] # "write"
          /\ pc'[s] \in {"mark", "emit"} => pc[s] = "mark" /\ message'[s] = message[s]
      BY ZenonT(30), <1>0, <1>5 DEF ReceiveTransfer, RejectExpired, LookUp, PersistStep, StoreCallFails,
                        LookupFails, MarkIngest, Goto, AfterLookup
    <2> QED BY <1>1, <1>2, <2>1, <2>2, <2>3, CustodyInvKept
  <1>6. ASSUME NEW s \in Sessions, ReadEnvelopeState(s)
        PROVE  CustodyInv'
    <2>1. EnvelopeState(message[s]).expires \in Expiries[message[s].id]
      BY ZenonT(30), <1>1, <1>6, InWork DEF ReadEnvelopeState, EnvelopeState, StoreInv, EnvSweepInv
    <2>2. /\ pc' = [pc EXCEPT ![s] = "write"]
          /\ envelope' = [envelope EXCEPT ![s] = EnvelopeState(message[s])]
          /\ UNCHANGED <<accepted, message, emitted, receipted>>
      BY <1>6 DEF ReadEnvelopeState, Goto, historyVars
    <2> HIDE DEF EnvelopeState
    <2> QED BY ZenonT(30), <1>0, <1>2, <1>3, <1>4, <2>1, <2>2 DEF CustodyInv
  <1>7. ASSUME NEW s \in Sessions, WriteEnvelopeState(s)
        PROVE  CustodyInv'
    <2>1. Covered(message[s].id)'
      BY ZenonT(30), <1>7 DEF WriteEnvelopeState, PersistEnvelope, Put, Covered
    <2>2. /\ pc' = [pc EXCEPT ![s] = IF SourceRelay[s] = Client THEN "transfer" ELSE "mark"]
          /\ envelope' = [envelope EXCEPT ![s] = NoEnvelope]
          /\ UNCHANGED <<accepted, message, emitted, receipted>>
      BY ZenonT(30), <1>7 DEF WriteEnvelopeState, Goto, historyVars
    <2> QED BY ZenonT(30), <1>0, <1>2, <1>3, <1>4, <2>1, <2>2 DEF CustodyInv
  <1>8. ASSUME NEW s \in Sessions, EmitIngest(s)
        PROVE  CustodyInv'
    <2>1. Covered(message[s].id)'
      BY ZenonT(30), <1>2, <1>3, <1>8 DEF EmitIngest, CustodyInv
    <2>2. /\ pc' = [pc EXCEPT ![s] = "transfer"]
          /\ emitted' = [emitted EXCEPT ![message[s].id] = @ + 1]
          /\ UNCHANGED <<accepted, message, envelope, receipted>>
      BY <1>8 DEF EmitIngest, Goto
    <2> QED BY ZenonT(30), <1>0, <1>2, <1>3, <1>4, <2>1, <2>2 DEF CustodyInv
  <1>9. ASSUME NEW s \in Sessions, PersistTransferEnvelope(s)
        PROVE  CustodyInv'
    <2> PICK id : id = message[s].id
      OBVIOUS
    <2>1. Covered(id)'
      BY ZenonT(30), <1>9 DEF PersistTransferEnvelope, PersistEnvelope, Put, Covered
    <2>2. /\ pc' = [pc EXCEPT ![s] = "next"]
          /\ accepted' = [accepted EXCEPT ![s] =
                @ \cup {[id |-> message[s].id, expires |-> message[s].expires]}]
          /\ message' = [message EXCEPT ![s] = NoMessage]
          /\ UNCHANGED <<envelope, emitted, receipted>>
      BY ZenonT(30), <1>9 DEF PersistTransferEnvelope, Goto, historyVars
    <2>3. \A t \in Sessions : \A object \in accepted'[t] : Covered(object.id)'
      BY <1>0, <1>4, <2>1, <2>2
    <2> QED BY ZenonT(30), <1>0, <1>2, <1>3, <1>4, <2>2, <2>3 DEF CustodyInv
  <1>10. ASSUME NEW s \in Sessions, SendReceipt(s)
         PROVE  CustodyInv'
    <2>1. /\ pc' = [pc EXCEPT ![s] = "idle"]
          /\ accepted' = [accepted EXCEPT ![s] = {}]
          /\ receipted' = receipted \cup accepted[s]
          /\ UNCHANGED <<message, envelope, emitted>>
      BY <1>10 DEF SendReceipt, Goto
    <2> QED BY ZenonT(30), <1>0, <1>2, <1>3, <1>4, <2>1 DEF CustodyInv
  <1>11. CASE Crash
    BY ZenonT(30), <1>1, <1>2, <1>11, CustodyInvKept DEF Crash
  <1>12. CASE TTLSweeperStep \/ EnvelopeSweeperStep \/ Clock
    BY ZenonT(30), <1>1, <1>2, <1>12, CustodyInvKept
       DEF TTLSweeperStep, EnvelopeSweeperStep, Clock, sessionVars, historyVars
  <1>13. CASE UNCHANGED sfVars
    BY ZenonT(30), <1>1, <1>2, <1>13, CustodyInvKept DEF sfVars, sessionVars, historyVars
  <1> QED BY <1>5, <1>6, <1>7, <1>8, <1>9, <1>10, <1>11, <1>12, <1>13
          DEF StoreForwardNext, SessionStep

LEMMA CustodyInvariant ==
    ASSUME LocalOffset = UTC, ExpiriesAgree
    PROVE  StoreForwardSpec => [](StoreInv /\ CustodyInv)
  <1>1. StoreForwardInit /\ StoreForwardTypeOK => StoreInv /\ CustodyInv
    BY DEF StoreForwardInit, EnvelopeStoreInit, StoreInv, CustodyInv, IndexesExact, EnvSweepInv
  <1>2. /\ StoreForwardTypeOK' /\ (StoreInv /\ CustodyInv) /\ [StoreForwardNext]_sfVars
        => (StoreInv /\ CustodyInv)'
    BY StoreInvStep, CustodyStep DEF StoreInv
  <1> QED BY <1>1, <1>2, StoreForwardTypes, PTL DEF StoreForwardSpec

(***************************************************************************)
(* The RECEIPT of handleTransfer is a promise kept: an acknowledged object *)
(* stays in the envelope store until its second has come, for any sessions *)
(* and items and through every crash and failed call.                      *)
(***************************************************************************)
THEOREM ReceiptsAreDurable ==
    ASSUME LocalOffset = UTC, ExpiriesAgree
    PROVE  StoreForwardSpec => []ReceiptDurable
  <1>1. StoreInv /\ CustodyInv => ReceiptDurable
    BY ZenonT(30), ObjectFacts DEF StoreInv, StoreForwardTypeOK, CustodyInv, Covered, ReceiptDurable
  <1> QED BY <1>1, CustodyInvariant, PTL

(***************************************************************************)
(* AcceptRelayForward announces an item only after its envelope is stored, *)
(* and the item is then held until it is due.                              *)
(***************************************************************************)
THEOREM AnnouncedAreHeld ==
    ASSUME LocalOffset = UTC, ExpiriesAgree
    PROVE  StoreForwardSpec => []AnnouncedIsHeld
  <1>1. StoreInv /\ CustodyInv => AnnouncedIsHeld
    BY ZenonT(30) DEF CustodyInv, Covered, AnnouncedIsHeld
  <1> QED BY <1>1, CustodyInvariant, PTL

(***************************************************************************)
(* Sessions, stores, sweeper, faults and restarts together implement the   *)
(* abstract Custody: envelope writes take an item up, the RECEIPT          *)
(* acknowledges, the sweeper lets go what is due, and no other step shows. *)
(***************************************************************************)
THEOREM RelayKeepsCustody ==
    ASSUME LocalOffset = UTC, ExpiriesAgree
    PROVE  StoreForwardSpec => KeepsCustody
  <1>1. StoreForwardInit => Promise!CustodyInit
    BY DEF StoreForwardInit, EnvelopeStoreInit, Promise!CustodyInit
  <1>2. StoreInv /\ CustodyInv /\ [StoreForwardNext]_sfVars
            => [Promise!CustodyNext]_Promise!custodyVars
    <2> SUFFICES ASSUME StoreInv, CustodyInv, [StoreForwardNext]_sfVars
                 PROVE  [Promise!CustodyNext]_Promise!custodyVars
      OBVIOUS
    <2> USE DEF Promise!CustodyNext, Promise!custodyVars
    <2>1. StoreForwardTypeOK /\ EnvelopeStoreTypeOK
      BY ZenonT(30) DEF StoreInv, StoreForwardTypeOK
    <2>2. UNCHANGED receipted \/ \E s \in Sessions : SendReceipt(s)
      BY ZenonT(30) DEF StoreForwardNext, ReceiveTransfer, SessionStep, RejectExpired, LookUp, PersistStep,
             ReadEnvelopeState, WriteEnvelopeState, MarkIngest, EmitIngest,
             PersistTransferEnvelope, StoreCallFails, LookupFails, Crash, TTLSweeperStep,
             EnvelopeSweeperStep, Clock, historyVars, sfVars
    <2>3. ASSUME NEW s \in Sessions, SendReceipt(s)
          PROVE  Promise!CustodyNext
      <3>1. /\ receipted' = receipted \cup accepted[s]
            /\ UNCHANGED <<DOMAIN envelopes, now>>
        BY ZenonT(30), <2>3 DEF SendReceipt, UntouchedEnvelopes, envBuckets
      <3>2. accepted[s] \in SUBSET Promise!CustodyObjects
        BY ZenonT(30), <2>1 DEF StoreForwardTypeOK, Objects, Promise!CustodyObjects
      <3>3. \A object \in accepted[s] :
                object.id \in DOMAIN envelopes \/ Promise!Due(object.expires)
        BY ZenonT(30), <2>1, ObjectFacts DEF StoreForwardTypeOK, CustodyInv, Covered, Due, Second,
                                 Promise!Due, Promise!Second
      <3>4. Promise!Acknowledge(accepted[s])
        BY <3>1, <3>3 DEF Promise!Acknowledge
      <3> QED BY <3>2, <3>4
    <2>4. ASSUME NEW s \in Sessions, WriteEnvelopeState(s) \/ PersistTransferEnvelope(s)
          PROVE  Promise!CustodyNext
      <3>1. message[s].id \in ItemIDs
        BY ZenonT(30), <2>1, <2>4, InWork DEF WriteEnvelopeState, PersistTransferEnvelope
      <3>2. Promise!TakeUp(message[s].id)
        BY ZenonT(30), <2>4 DEF WriteEnvelopeState, PersistTransferEnvelope, PersistEnvelope, Put,
                    historyVars, Promise!TakeUp
      <3> QED BY <3>1, <3>2
    <2>5. ASSUME NEW key \in envSweep, EnvSweepRemove(key), UNCHANGED receipted
          PROVE  Promise!CustodyNext
      <3>1. key[2] \in ItemIDs
        BY <2>1 DEF EnvelopeStoreTypeOK
      <3>2. \A e \in Expiries[key[2]] : Promise!Due(e)
        BY ZenonT(30), <2>1, ListedItemIsDue DEF StoreInv, Due, Second, Promise!Due, Promise!Second
      <3>3. Promise!LetGo(key[2])
        BY ZenonT(30), <2>5, <3>2 DEF EnvSweepRemove, RemoveEnvelope, Delete, Promise!LetGo
      <3> QED BY <3>1, <3>3
    <2>6. ASSUME Tick, UNCHANGED <<indexBuckets, receipted>>
          PROVE  Promise!CustodyNext
      BY <2>6 DEF Tick, indexBuckets, Promise!CustodyClock, Promise!Tick
    <2>7. ASSUME UNCHANGED <<envelopes, now, receipted>>
          PROVE  UNCHANGED Promise!custodyVars
      BY <2>7
    <2>8. CASE \E s \in Sessions : SendReceipt(s)
      BY ZenonT(30), <2>3, <2>8
    <2>9. CASE UNCHANGED receipted
      <3>1. EnvSweepRead \/ RestartEnvelopeStore => UNCHANGED <<envelopes, now>>
        BY DEF EnvSweepRead, envBuckets, RestartEnvelopeStore
      <3> HIDE DEF Promise!CustodyNext, Promise!custodyVars
      <3> QED BY <2>1, <2>4, <2>5, <2>6, <2>7, <2>9, <3>1, StepKinds DEF indexBuckets
    <2> QED BY <2>2, <2>8, <2>9
  <1> QED BY <1>1, <1>2, CustodyInvariant, PTL
          DEF StoreForwardSpec, KeepsCustody, Promise!CustodySpec

-----------------------------------------------------------------------------
(***************************************************************************)
(* While nothing has failed, an envelope that holds a message's payload    *)
(* text has a session behind it that will still put the canonical bytes.   *)
(***************************************************************************)
Finishing(s) == pc[s] \in {"mark", "emit", "transfer"}

ServableInv ==
    \/ faulted
    \/ \A i \in DOMAIN envelopes :
          envelopes[i].payload # "envelope" =>
              \E s \in Sessions : message[s].id = i /\ Finishing(s)

\* Steps after which every finishing session still finishes its item.
LEMMA ServableInvKept ==
    ASSUME ServableInv, UNCHANGED faulted,
           DOMAIN envelopes' \subseteq DOMAIN envelopes,
           \A i \in DOMAIN envelopes' : envelopes'[i] = envelopes[i],
           \A s \in Sessions : Finishing(s) => Finishing(s)' /\ message'[s] = message[s]
    PROVE  ServableInv'
  BY DEF ServableInv, Finishing

LEMMA ServableStep ==
    StoreForwardTypeOK /\ ServableInv /\ [StoreForwardNext]_sfVars => ServableInv'
  <1> SUFFICES ASSUME StoreForwardTypeOK, ServableInv, [StoreForwardNext]_sfVars
               PROVE  ServableInv'
    OBVIOUS
  <1>0. /\ pc \in [Sessions -> Labels]
        /\ message \in [Sessions -> WorkMessages \cup {NoMessage}]
    BY DEF StoreForwardTypeOK
  <1>1. ASSUME faulted' = TRUE PROVE ServableInv'
    BY <1>1 DEF ServableInv
  <1>2. ASSUME NEW s \in Sessions, WriteEnvelopeState(s)
        PROVE  ServableInv'
    <2>1. /\ pc[s] = "write" /\ UNCHANGED <<message, faulted>>
          /\ envelopes' = Put(envelopes, message[s].id,
                [payload |-> envelope[s].payload, expires |-> envelope[s].expires])
      BY ZenonT(30), <1>2 DEF WriteEnvelopeState, PersistEnvelope, historyVars
    <2>2. Finishing(s)' /\ \A t \in Sessions : Finishing(t) => Finishing(t)'
      BY ZenonT(30), <1>0, <1>2 DEF WriteEnvelopeState, Goto, Finishing
    <2> HIDE DEF Finishing
    <2> QED BY ZenonT(30), <2>1, <2>2 DEF Put, ServableInv
  <1>3. ASSUME NEW s \in Sessions, PersistTransferEnvelope(s)
        PROVE  ServableInv'
    <2>1. /\ UNCHANGED faulted
          /\ envelopes' = Put(envelopes, message[s].id,
                [payload |-> "envelope", expires |-> message[s].expires])
      BY ZenonT(30), <1>3 DEF PersistTransferEnvelope, PersistEnvelope, historyVars
    <2>2. \A t \in Sessions \ {s} : pc'[t] = pc[t] /\ message'[t] = message[t]
      BY ZenonT(30), <1>0, <1>3 DEF PersistTransferEnvelope, Goto
    <2> QED BY <2>1, <2>2 DEF Put, ServableInv, Finishing
  <1>4. ASSUME NEW s \in Sessions,
               \/ ReceiveTransfer(s) \/ RejectExpired(s) \/ LookUp(s) \/ PersistStep(s)
               \/ ReadEnvelopeState(s) \/ MarkIngest(s) \/ EmitIngest(s) \/ SendReceipt(s)
        PROVE  ServableInv'
    <2>1. UNCHANGED <<envelopes, faulted>>
      BY ZenonT(30), <1>4 DEF ReceiveTransfer, RejectExpired, LookUp, PersistStep, ReadEnvelopeState,
                  MarkIngest, MarkSeenAndRelayIngestEmitted, EmitIngest, SendReceipt,
                  UntouchedEnvelopes, envBuckets, indexBuckets, historyVars
    <2>2. \A t \in Sessions : Finishing(t) => Finishing(t)' /\ message'[t] = message[t]
      BY ZenonT(30), <1>0, <1>4 DEF ReceiveTransfer, RejectExpired, LookUp, PersistStep,
                        ReadEnvelopeState, MarkIngest, EmitIngest, SendReceipt, Goto,
                        Finishing
    <2> QED BY ZenonT(30), <2>1, <2>2, ServableInvKept
  <1>5. ASSUME NEW s \in Sessions, StoreCallFails(s) \/ LookupFails(s)
        PROVE  ServableInv'
    BY ZenonT(30), <1>1, <1>5 DEF StoreCallFails, LookupFails
  <1>6. CASE Crash
    BY <1>1, <1>6 DEF Crash
  <1>7. CASE EnvelopeSweeperStep
    <2>1. UNCHANGED <<pc, message, faulted>>
      BY <1>7 DEF EnvelopeSweeperStep, sessionVars, historyVars
    <2>2. /\ DOMAIN envelopes' \subseteq DOMAIN envelopes
          /\ \A i \in DOMAIN envelopes' : envelopes'[i] = envelopes[i]
      BY ZenonT(30), <1>7 DEF EnvelopeSweeperStep, EnvSweepRead, envBuckets, EnvSweepRemove,
                  RemoveEnvelope, Delete
    <2> QED BY ZenonT(30), <2>1, <2>2, ServableInvKept DEF Finishing
  <1>8. CASE TTLSweeperStep \/ Clock \/ UNCHANGED sfVars
    <2>1. UNCHANGED <<pc, message, faulted, envelopes>>
      BY ZenonT(30), <1>8 DEF TTLSweeperStep, Clock, sfVars, sessionVars, historyVars,
                  UntouchedEnvelopes, envBuckets
    <2> QED BY <2>1, ServableInvKept DEF Finishing
  <1> QED BY ZenonT(30), <1>2, <1>3, <1>4, <1>5, <1>6, <1>7, <1>8 DEF StoreForwardNext, SessionStep

(***************************************************************************)
(* While no call has failed and the process has not died, what a RECEIPT   *)
(* acknowledged can be served once the sessions are done, whatever stale   *)
(* envelopes persistEnvelopeState wrote in between.                        *)
(***************************************************************************)
THEOREM ReceiptedAreServable ==
    ASSUME LocalOffset = UTC, ExpiriesAgree
    PROVE  StoreForwardSpec => []ReceiptedIsServableWithoutFaults
  <1>1. StoreForwardInit => ServableInv
    BY DEF StoreForwardInit, EnvelopeStoreInit, ServableInv
  <1>2. ReceiptDurable /\ ServableInv => ReceiptedIsServableWithoutFaults
    BY ZenonT(30) DEF ReceiptDurable, ServableInv, Finishing, Quiet, Servable, ReceiptedIsServable,
           ReceiptedIsServableWithoutFaults
  <1> QED BY <1>1, <1>2, ServableStep, ReceiptsAreDurable, StoreForwardTypes, PTL
          DEF StoreForwardSpec
=============================================================================
