------------------------- MODULE RecipientPushProofs -------------------------
(***************************************************************************)
(* The registry and the push, for any number of clients and items and any  *)
(* capacity of the Send channels.                                          *)
(***************************************************************************)
EXTENDS RecipientPush, TLAPS

LEMMA NoCallFacts == NoCall.op = "none" /\ NoCall.client = Elsewhere
  BY DEF NoCall

LEMMA TypeInit == RecipientPushInit => RecipientPushTypeOK
  <1> SUFFICES ASSUME RecipientPushInit PROVE RecipientPushTypeOK
    OBVIOUS
  <1>1. send \in [Clients -> Seq(SUBSET Items)]
    BY DEF RecipientPushInit
  <1>2. job \in [Items -> [at : {"idle", "listing", "serving"}, clients : SUBSET Clients]]
    BY DEF RecipientPushInit
  <1> QED BY ZenonT(30), <1>1, <1>2 DEF RecipientPushInit, RecipientPushTypeOK, NoCall

LEMMA TypeStep == RecipientPushTypeOK /\ [RecipientPushNext]_vars => RecipientPushTypeOK'
  <1> SUFFICES ASSUME RecipientPushTypeOK, [RecipientPushNext]_vars
               PROVE  RecipientPushTypeOK'
    OBVIOUS
  <1> USE DEF RecipientPushTypeOK, clientVars, registryVars, pushing, pushVars
  <1>1. CASE RunRegister
    BY <1>1, NoCallFacts DEF RunRegister
  <1>2. CASE RunUnregister
    BY ZenonT(30), <1>2, NoCallFacts DEF RunUnregister
  <1>3. ASSUME NEW c \in Clients, Register(c)
        PROVE  RecipientPushTypeOK'
    BY <1>3 DEF Register
  <1>4. ASSUME NEW c \in Clients, FirstSummary(c)
        PROVE  RecipientPushTypeOK'
    BY <1>4 DEF FirstSummary
  <1>5. ASSUME NEW c \in Clients, Leave(c)
        PROVE  RecipientPushTypeOK'
    BY <1>5 DEF Leave
  <1>6. ASSUME NEW c \in Clients, Unregister(c)
        PROVE  RecipientPushTypeOK'
    BY <1>6 DEF Unregister
  <1>7. ASSUME NEW c \in Clients, WriteNext(c)
        PROVE  RecipientPushTypeOK'
    BY <1>7 DEF WriteNext
  <1>8. ASSUME NEW c \in Clients, WriterStops(c)
        PROVE  RecipientPushTypeOK'
    BY <1>8 DEF WriterStops
  <1>9. ASSUME NEW i \in Items, Store(i)
        PROVE  RecipientPushTypeOK'
    BY <1>9 DEF Store
  <1>10. ASSUME NEW i \in Items, Enqueue(i)
         PROVE  RecipientPushTypeOK'
    BY <1>10 DEF Enqueue
  <1>11. ASSUME NEW i \in Items, PushDirectly(i)
         PROVE  RecipientPushTypeOK'
    BY <1>11 DEF PushDirectly
  <1>12. ASSUME NEW i \in Items, PushedDirectly(i)
         PROVE  RecipientPushTypeOK'
    BY <1>12 DEF PushedDirectly
  <1>13. ASSUME NEW i \in Items, ListClients(i)
         PROVE  RecipientPushTypeOK'
    BY <1>13 DEF ListClients
  <1>14. ASSUME NEW i \in Items, NEW c \in Clients, PushTo(i, c)
         PROVE  RecipientPushTypeOK'
    <2>1. job' \in [Items -> [at : {"idle", "listing", "serving"}, clients : SUBSET Clients]]
      BY <1>14 DEF PushTo
    <2>2. send' \in [Clients -> Seq(SUBSET Items)]
      <3>1. Append(send[c], stored) \in Seq(SUBSET Items)
        OBVIOUS
      <3>2. send' = send \/ send' = [send EXCEPT ![c] = Append(send[c], stored)]
        BY <1>14 DEF PushTo
      <3> QED BY ZenonT(30), <3>1, <3>2
    <2>3. /\ owed' \in [Clients -> SUBSET stored]
          /\ \A d \in Clients : owed'[d] # {} => d \in byConn
      BY ZenonT(30), <1>14 DEF PushTo
    <2> QED BY <1>14, <2>1, <2>2, <2>3 DEF PushTo
  <1>15. CASE Flush
    BY <1>15 DEF Flush
  <1>16. CASE UNCHANGED vars
    BY <1>16 DEF vars
  <1> QED BY ZenonT(30), <1>1, <1>2, <1>3, <1>4, <1>5, <1>6, <1>7, <1>8, <1>9, <1>10, <1>11, <1>12,
             <1>13, <1>14, <1>15, <1>16 DEF RecipientPushNext, PushStep

\* The state of the registry and the push is well formed (RecipientPushTypeOK).
THEOREM RecipientPushTypes == RecipientPushSpec => []RecipientPushTypeOK
  <1> QED BY TypeInit, TypeStep, PTL DEF RecipientPushSpec

-----------------------------------------------------------------------------
(***************************************************************************)
(* Who closes Send.                                                        *)
(***************************************************************************)
Calling(op, c) == call = [op |-> op, client |-> c]

\* Where a client is, and with it its channel, follows from its readPump and from the
\* call that the registry's goroutine has in hand.
RegistryInv ==
    /\ ~panicked
    /\ \A c \in Clients :
          /\ phase[c] = "greeting" =>
                 c \notin byConn /\ ~closed[c] /\ call.client # c
          /\ phase[c] \in {"registered", "open", "leaving"} =>
                 /\ ~closed[c] /\ ~Calling("unregister", c)
                 /\ c \in byConn <=> ~Calling("register", c)
          /\ phase[c] = "gone" =>
                 \/ Calling("unregister", c) /\ ~closed[c] /\ c \in byConn
                 \/ call.client # c /\ closed[c] /\ c \notin byConn

LEMMA RegistryInit == RecipientPushInit => RegistryInv
  BY PushAssumption, NoCallFacts DEF RecipientPushInit, RegistryInv, Calling

LEMMA CallFacts ==
    ASSUME RecipientPushTypeOK
    PROVE  /\ call.op \in {"register", "unregister"} =>
                  /\ call.client \in Clients
                  /\ call = [op |-> call.op, client |-> call.client]
           /\ call.op \notin {"register", "unregister"} => call = NoCall
  BY NoCallFacts DEF RecipientPushTypeOK

LEMMA RegistryStep ==
    ASSUME RecipientPushTypeOK, RegistryInv, [RecipientPushNext]_vars
    PROVE  RegistryInv'
  <1> USE PushAssumption, NoCallFacts DEF RegistryInv, Calling
  <1>0. /\ phase \in [Clients -> {"greeting", "registered", "open", "leaving", "gone"}]
        /\ closed \in [Clients -> BOOLEAN]
    BY DEF RecipientPushTypeOK
  <1>1. CASE RunRegister
    BY <1>0, <1>1, CallFacts DEF RunRegister, clientVars
  <1>2. CASE RunUnregister
    BY <1>0, <1>2, CallFacts DEF RunUnregister
  <1>3. ASSUME NEW c \in Clients, Register(c)
        PROVE  RegistryInv'
    BY <1>0, <1>3 DEF Register
  <1>4. ASSUME NEW c \in Clients, FirstSummary(c)
        PROVE  RegistryInv'
    BY <1>0, <1>4 DEF FirstSummary, registryVars
  <1>5. ASSUME NEW c \in Clients, Leave(c)
        PROVE  RegistryInv'
    BY ZenonT(30), <1>0, <1>5 DEF Leave, registryVars
  <1>6. ASSUME NEW c \in Clients, Unregister(c)
        PROVE  RegistryInv'
    BY <1>0, <1>6 DEF Unregister
  <1>7. CASE UNCHANGED <<phase, closed, byConn, call, panicked>>
    BY <1>7
  <1>8. ASSUME NEW c \in Clients, WriteNext(c) \/ WriterStops(c)
        PROVE  RegistryInv'
    BY <1>7, <1>8 DEF WriteNext, WriterStops, registryVars
  <1>9. ASSUME NEW i \in Items, Store(i) \/ PushStep(i)
        PROVE  RegistryInv'
    BY ZenonT(30), <1>7, <1>9 DEF Store, PushStep, Enqueue, PushDirectly, PushedDirectly, ListClients,
                      PushTo, clientVars, registryVars
  <1>10. CASE Flush \/ UNCHANGED vars
    BY ZenonT(30), <1>7, <1>10 DEF Flush, vars, clientVars, registryVars
  <1> QED BY ZenonT(30), <1>1, <1>2, <1>3, <1>4, <1>5, <1>6, <1>8, <1>9, <1>10 DEF RecipientPushNext

\* RegistryNeverPanics: ClientRegistry.Run never closes a Send channel that is closed,
\* whatever clients come, go and fail before their HELLO.
THEOREM NoPanic == RecipientPushSpec => []RegistryNeverPanics
  <1>1. RegistryInv => RegistryNeverPanics
    BY DEF RegistryInv, RegistryNeverPanics
  <1> QED BY <1>1, RegistryInit, RegistryStep, RecipientPushTypes, PTL DEF RecipientPushSpec

\* SessionIsReleased: the client of a session that is over is out of the registry and
\* its Send closed, or the registry's goroutine is just about to do so.
THEOREM SessionsAreReleased == RecipientPushSpec => []SessionIsReleased
  <1>1. RegistryInv => SessionIsReleased
    BY DEF RegistryInv, SessionIsReleased, Calling
  <1> QED BY <1>1, RegistryInit, RegistryStep, RecipientPushTypes, PTL DEF RecipientPushSpec

-----------------------------------------------------------------------------
(***************************************************************************)
(* No nudge is lost.  Two facts make NoLostNudge inductive: nobody is owed *)
(* the item it sent itself, and without a debounce window there is no      *)
(* timer and the push of an item has not begun while its handler has still *)
(* to start it.                                                            *)
(***************************************************************************)
Queued(i, c) == \E k \in 1 .. Len(send[c]) : i \in send[c][k]

OwedByOthers == \A c \in Clients : \A i \in owed[c] : SourceOf[i] # c

PushNotBegun ==
    ~debounce => /\ timer = NoItem
                 /\ \A i \in Items : step[i] \in {"arriving", "stored"} => job[i].at = "idle"

NudgeInv == OwedByOthers /\ PushNotBegun /\ NoLostNudge

LEMMA NudgeInit == RecipientPushInit => NudgeInv
  BY DEF RecipientPushInit, NudgeInv, OwedByOthers, PushNotBegun, NoLostNudge

LEMMA OwedStep ==
    ASSUME RecipientPushTypeOK, OwedByOthers, [RecipientPushNext]_vars
    PROVE  OwedByOthers'
  <1> USE DEF OwedByOthers
  <1>0. owed \in [Clients -> SUBSET stored] /\ stored \subseteq Items
    BY DEF RecipientPushTypeOK
  <1>1. CASE UNCHANGED owed
    BY ZenonT(30), <1>1
  <1>2. ASSUME \A c \in Clients : owed'[c] = {} \/ owed'[c] = owed[c]
        PROVE  OwedByOthers'
    BY <1>2
  <1>3. CASE RunUnregister
    BY <1>0, <1>2, <1>3 DEF RunUnregister
  <1>4. CASE Flush
    BY <1>0, <1>2, <1>4 DEF Flush
  <1>5. ASSUME NEW i \in Items, NEW c \in Clients, PushTo(i, c)
        PROVE  OwedByOthers'
    BY <1>0, <1>1, <1>2, <1>5 DEF PushTo
  <1>6. ASSUME NEW i \in Items, Store(i)
        PROVE  OwedByOthers'
    BY <1>0, <1>6 DEF Store
  <1> QED BY ZenonT(30), <1>1, <1>3, <1>4, <1>5, <1>6
          DEF RecipientPushNext, PushStep, RunRegister, Register, FirstSummary, Leave, Unregister,
              WriteNext, WriterStops, Enqueue, PushDirectly, PushedDirectly, ListClients,
              vars, pushVars

LEMMA BegunStep ==
    ASSUME RecipientPushTypeOK, PushNotBegun, [RecipientPushNext]_vars
    PROVE  PushNotBegun'
  <1> USE DEF PushNotBegun
  <1>0. /\ step \in [Items -> {"arriving", "stored", "pushing", "done"}]
        /\ job \in [Items -> [at : {"idle", "listing", "serving"}, clients : SUBSET Clients]]
        /\ timer \in Items \cup {NoItem}
        /\ debounce \in BOOLEAN
    BY DEF RecipientPushTypeOK
  <1>1. CASE UNCHANGED <<debounce, step, timer, job>>
    BY <1>1
  <1>2. CASE Flush
    BY <1>0, <1>2 DEF Flush
  <1>3. ASSUME NEW i \in Items, Store(i)
        PROVE  PushNotBegun'
    BY <1>0, <1>3 DEF Store
  <1>4. ASSUME NEW i \in Items, PushStep(i)
        PROVE  PushNotBegun'
    BY ZenonT(30), <1>0, <1>4 DEF PushStep, Enqueue, PushDirectly, PushedDirectly, ListClients, PushTo
  <1> QED BY ZenonT(30), <1>1, <1>2, <1>3, <1>4
          DEF RecipientPushNext, RunRegister, RunUnregister, Register, FirstSummary, Leave,
              Unregister, WriteNext, WriterStops, vars, pushVars, pushing

\* What a step may do to the ways in which an item is on its way to a client.
LEMMA NudgeKept ==
    ASSUME RecipientPushTypeOK, NoLostNudge,
           NEW c \in Clients, NEW i \in owed[c],
           shown[c] \subseteq shown'[c],
           Queued(i, c) => Queued(i, c)' \/ i \in shown'[c],
           step[i] = "stored" => step'[i] = "stored",
           timer # NoItem => timer' # NoItem,
           \A j \in Items : StillToServe(j, c) => StillToServe(j, c)'
    PROVE  \/ i \in shown'[c] \/ Queued(i, c)'
           \/ step'[i] = "stored" \/ timer' # NoItem
           \/ \E j \in Items : StillToServe(j, c)'
  BY ZenonT(30) DEF NoLostNudge, Queued

LEMMA NudgeStep ==
    ASSUME RecipientPushTypeOK, RecipientPushTypeOK', NudgeInv, [RecipientPushNext]_vars
    PROVE  NoLostNudge'
  <1> SUFFICES ASSUME NEW c \in Clients, NEW i \in owed'[c]
               PROVE  \/ i \in shown'[c] \/ Queued(i, c)'
                      \/ step'[i] = "stored" \/ timer' # NoItem
                      \/ \E j \in Items : StillToServe(j, c)'
    BY ZenonT(30) DEF NoLostNudge, Queued
  <1> DEFINE Coming == \/ i \in shown'[c] \/ Queued(i, c)'
                       \/ step'[i] = "stored" \/ timer' # NoItem
                       \/ \E j \in Items : StillToServe(j, c)'
  <1>a. NoLostNudge /\ OwedByOthers /\ PushNotBegun
    BY DEF NudgeInv
  <1>b. /\ send \in [Clients -> Seq(SUBSET Items)] /\ shown \in [Clients -> SUBSET Items]
        /\ step \in [Items -> {"arriving", "stored", "pushing", "done"}]
        /\ timer \in Items \cup {NoItem} /\ pushExcluded \subseteq Clients
        /\ job \in [Items -> [at : {"idle", "listing", "serving"}, clients : SUBSET Clients]]
        /\ owed \in [Clients -> SUBSET stored] /\ stored \subseteq Items
        /\ \A d \in Clients : owed[d] # {} => d \in byConn
    BY DEF RecipientPushTypeOK
  \* Most steps leave what is on its way alone.
  <1>1. CASE /\ UNCHANGED <<send, shown, timer, job>>
             /\ i \in owed[c]
             /\ step[i] = "stored" => step'[i] = "stored"
    BY <1>1, <1>a, NudgeKept DEF Queued, StillToServe
  <1>2. CASE RunUnregister
    BY <1>1, <1>2, <1>b DEF RunUnregister, pushing
  <1>3. ASSUME NEW d \in Clients, FirstSummary(d)
        PROVE  Coming
    <2>1. /\ UNCHANGED <<shown, timer, job, step, owed>>
          /\ send' = send \/ send' = [send EXCEPT ![d] = Append(send[d], stored)]
      BY ZenonT(30), <1>3, <1>b DEF FirstSummary, pushVars, pushing
    <2>2. ASSUME NEW k \in 1 .. Len(send[c]), i \in send[c][k]
          PROVE  k \in 1 .. Len(send'[c]) /\ i \in send'[c][k]
      <3>1. send'[c] = send[c] \/ send'[c] = Append(send[c], stored)
        BY <2>1, <1>b
      <3>2. send[c] \in Seq(SUBSET Items)
        BY <1>b
      <3> QED BY <2>2, <3>1, <3>2
    <2>3. Queued(i, c) => Queued(i, c)'
      BY <2>2 DEF Queued
    <2> QED BY ZenonT(30), <2>1, <2>3, <1>a, NudgeKept DEF StillToServe
  <1>4. ASSUME NEW d \in Clients, WriteNext(d)
        PROVE  Coming
    <2>1. /\ UNCHANGED <<timer, job, step, owed>>
          /\ send[d] # <<>>
          /\ shown' = [shown EXCEPT ![d] = @ \cup Head(send[d])]
          /\ send' = [send EXCEPT ![d] = Tail(@)]
      BY ZenonT(30), <1>4 DEF WriteNext, pushVars, pushing
    <2>2. Queued(i, c) => Queued(i, c)' \/ i \in shown'[c]
      <3> SUFFICES ASSUME NEW k \in 1 .. Len(send[c]), i \in send[c][k]
                   PROVE  Queued(i, c)' \/ i \in shown'[c]
        BY DEF Queued
      <3>1. CASE c # d
        BY <3>1, <2>1, <1>b DEF Queued
      <3>2. CASE c = d /\ k = 1
        BY <3>2, <2>1, <1>b
      <3>3. CASE c = d /\ k # 1
        <4>1. send'[c] = Tail(send[c])
          BY <3>3, <2>1, <1>b
        <4>2. k - 1 \in 1 .. Len(send'[c]) /\ send'[c][k - 1] = send[c][k]
          BY <4>1, <3>3, <2>1, <1>b
        <4> QED BY <4>2 DEF Queued
      <3> QED BY ZenonT(30), <3>1, <3>2, <3>3
    <2>3. shown[c] \subseteq shown'[c]
      BY <2>1, <1>b
    <2> QED BY ZenonT(30), <2>1, <2>2, <2>3, <1>a, NudgeKept DEF StillToServe
  <1>5. ASSUME NEW j \in Items, Store(j)
        PROVE  Coming
    <2>1. /\ UNCHANGED <<send, shown, timer, job>>
          /\ step' = [step EXCEPT ![j] = "stored"]
          /\ i = j \/ i \in owed[c]
      BY ZenonT(30), <1>5, <1>b DEF Store, clientVars
    <2>2. CASE i = j
      BY ZenonT(30), <2>1, <2>2, <1>b
    <2>3. CASE i \in owed[c]
      BY ZenonT(30), <2>1, <2>3, <1>1, <1>b
    <2> QED BY <2>1, <2>2, <2>3
  <1>6. ASSUME NEW j \in Items, Enqueue(j)
        PROVE  Coming
    BY ZenonT(30), <1>6, <1>b, PushAssumption DEF Enqueue
  \* The push of an item leaves out its sender, which is not owed it.
  <1>7. ASSUME NEW j \in Items, PushDirectly(j)
        PROVE  Coming
    <2>1. /\ UNCHANGED <<send, shown, timer, owed>>
          /\ job' = [job EXCEPT ![j] = [at |-> "listing", clients |-> {SourceOf[j]} \cap Clients]]
          /\ step' = [step EXCEPT ![j] = "pushing"]
          /\ job[j].at = "idle"
      BY ZenonT(30), <1>7, <1>a DEF PushDirectly, PushNotBegun, clientVars
    <2>2. CASE i = j
      <3>1. StillToServe(j, c)'
        BY <2>1, <2>2, <1>a, <1>b DEF StillToServe, OwedByOthers
      <3> QED BY <3>1
    <2>3. CASE i # j
      <3>1. \A x \in Items : StillToServe(x, c) => StillToServe(x, c)'
        BY <2>1, <1>b DEF StillToServe
      <3> QED BY ZenonT(30), <3>1, <2>1, <2>3, <1>a, <1>b, NudgeKept DEF Queued
    <2> QED BY ZenonT(30), <2>2, <2>3
  <1>8. ASSUME NEW j \in Items, PushedDirectly(j)
        PROVE  Coming
    BY ZenonT(30), <1>1, <1>8, <1>b DEF PushedDirectly, clientVars
  <1>9. ASSUME NEW j \in Items, ListClients(j)
        PROVE  Coming
    <2>1. /\ UNCHANGED <<send, shown, timer, step, owed>>
          /\ job[j].at = "listing"
          /\ job' = [job EXCEPT ![j] = [at |-> "serving", clients |-> byConn \ @.clients]]
      BY <1>9 DEF ListClients, clientVars
    <2>2. c \in byConn
      BY <2>1, <1>b
    <2>3. \A x \in Items : StillToServe(x, c) => StillToServe(x, c)'
      BY <2>1, <2>2, <1>b DEF StillToServe
    <2> QED BY ZenonT(30), <2>1, <2>3, <1>a, NudgeKept DEF Queued
  \* The client that is served has everything stored in its channel, or is owed nothing.
  <1>10. ASSUME NEW j \in Items, NEW d \in Clients, PushTo(j, d)
         PROVE  Coming
    <2>1. /\ UNCHANGED <<shown, timer, step>>
          /\ job[j].at = "serving"
          /\ job' = [job EXCEPT ![j] = [at |-> "serving", clients |-> @.clients \ {d}]]
          /\ \/ send' = [send EXCEPT ![d] = Append(@, stored)] /\ UNCHANGED owed
             \/ send' = send /\ owed' = [owed EXCEPT ![d] = {}]
      BY ZenonT(30), <1>10 DEF PushTo
    <2>2. i \in owed[c]
      BY ZenonT(30), <2>1, <1>b
    <2>3. CASE c = d
      <3>1. send'[c] = Append(send[c], stored)
        BY <2>1, <2>3, <1>b
      <3>2. Len(send'[c]) \in 1 .. Len(send'[c]) /\ send'[c][Len(send'[c])] = stored
        BY <3>1, <1>b
      <3> QED BY ZenonT(30), <3>2, <2>2, <1>b DEF Queued
    <2>4. CASE c # d
      <3>1. \A x \in Items : StillToServe(x, c) => StillToServe(x, c)'
        BY <2>1, <2>4, <1>b DEF StillToServe
      <3>2. send'[c] = send[c]
        BY <2>1, <2>4, <1>b
      <3> QED BY ZenonT(30), <3>1, <3>2, <2>1, <2>2, <1>a, NudgeKept DEF Queued
    <2> QED BY ZenonT(30), <2>3, <2>4
  \* The flush has every client before it that is not excluded.
  <1>11. CASE Flush
    <2>1. PICK t \in Items :
          /\ job' = [job EXCEPT ![t] = [at |-> "listing", clients |-> pushExcluded]]
          /\ owed' = [d \in Clients |-> IF d \in pushExcluded THEN {} ELSE owed[d]]
      BY ZenonT(30), <1>11, <1>b DEF Flush, clientVars
    <2>2. c \notin pushExcluded
      BY <2>1
    <2>3. StillToServe(t, c)'
      BY <2>1, <2>2, <1>b DEF StillToServe
    <2> QED BY <2>3
  <1>12. CASE RunRegister
    BY ZenonT(30), <1>1, <1>12 DEF RunRegister, clientVars, pushVars, pushing
  <1>13. ASSUME NEW d \in Clients, Register(d) \/ Leave(d) \/ Unregister(d) \/ WriterStops(d)
         PROVE  Coming
    BY ZenonT(30), <1>1, <1>13 DEF Register, Leave, Unregister, WriterStops, pushVars, pushing
  <1>14. CASE UNCHANGED vars
    BY ZenonT(30), <1>1, <1>14 DEF vars, clientVars, pushVars, pushing
  <1> QED BY ZenonT(30), <1>2, <1>3, <1>4, <1>5, <1>6, <1>7, <1>8, <1>9, <1>10, <1>11, <1>12, <1>13, <1>14
          DEF RecipientPushNext, PushStep

\* NoLostNudge: an item stored while a client was registered has reached its channel,
\* or a push is due that reads the store after it and has the client before it.
THEOREM NudgesAreNotLost == RecipientPushSpec => []NoLostNudge
  <1>1. NudgeInv => NoLostNudge
    BY DEF NudgeInv
  <1>2. RecipientPushTypeOK /\ NudgeInv /\ [RecipientPushNext]_vars => NudgeInv'
    BY TypeStep, OwedStep, BegunStep, NudgeStep DEF NudgeInv
  <1> QED BY <1>1, <1>2, NudgeInit, RecipientPushTypes, PTL DEF RecipientPushSpec

\* ExclusionsEnd: clients are excluded only while a timer is armed.
THEOREM ExclusionsAreEnded == RecipientPushSpec => []ExclusionsEnd
  <1>1. RecipientPushInit => ExclusionsEnd
    BY DEF RecipientPushInit, ExclusionsEnd
  <1>2. RecipientPushTypeOK /\ ExclusionsEnd /\ [RecipientPushNext]_vars => ExclusionsEnd'
    <2> SUFFICES ASSUME RecipientPushTypeOK, ExclusionsEnd, [RecipientPushNext]_vars
                 PROVE  ExclusionsEnd'
      OBVIOUS
    <2> USE DEF ExclusionsEnd
    <2>1. ASSUME NEW i \in Items, Enqueue(i)
          PROVE  ExclusionsEnd'
      <3>1. timer' # NoItem
        BY <2>1, PushAssumption DEF Enqueue
      <3> QED BY <3>1
    <2>2. CASE Flush
      <3>1. pushExcluded' = {}
        BY <2>2 DEF Flush
      <3> QED BY <3>1
    <2>3. CASE UNCHANGED <<timer, pushExcluded>>
      BY <2>3
    <2>4. ASSUME NEW c \in Clients,
                 \/ Register(c) \/ FirstSummary(c) \/ Leave(c) \/ Unregister(c)
                 \/ WriteNext(c) \/ WriterStops(c)
          PROVE  UNCHANGED <<timer, pushExcluded>>
      BY ZenonT(30), <2>4 DEF Register, FirstSummary, Leave, Unregister, WriteNext, WriterStops,
                  pushVars, pushing
    <2>5. ASSUME NEW i \in Items,
                 \/ Store(i) \/ PushDirectly(i) \/ PushedDirectly(i) \/ ListClients(i)
                 \/ \E c \in Clients : PushTo(i, c)
          PROVE  UNCHANGED <<timer, pushExcluded>>
      BY ZenonT(30), <2>5 DEF Store, PushDirectly, PushedDirectly, ListClients, PushTo
    <2>6. ASSUME RunRegister \/ RunUnregister \/ UNCHANGED vars
          PROVE  UNCHANGED <<timer, pushExcluded>>
      BY <2>6 DEF RunRegister, RunUnregister, vars, pushVars, pushing
    <2> QED BY <2>1, <2>2, <2>3, <2>4, <2>5, <2>6 DEF RecipientPushNext, PushStep
  <1> QED BY <1>1, <1>2, RecipientPushTypes, PTL DEF RecipientPushSpec
=============================================================================
