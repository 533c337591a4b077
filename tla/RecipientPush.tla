---------------------------- MODULE RecipientPush ----------------------------
(***************************************************************************)
(* The online clients of one recipient and the summaries pushed to them:   *)
(* ClientRegistry with its goroutine, the debounced push of WSHandler, and *)
(* as much of a client's two pumps as they touch.  A client is one         *)
(* connection; the goroutine that takes in item i runs the push that i     *)
(* starts, or arms the timer whose flush does.                             *)
(*                                                                         *)
(* A SUMMARY is the set of items it covers.  What a client has             *)
(* acknowledged is subject of ClientSession; nothing is here.              *)
(***************************************************************************)
EXTENDS Integers, Sequences, FiniteSets

CONSTANTS Clients, Items,
          SourceOf,            \* the client of this recipient an item comes from
          Elsewhere,           \* the source of all other items
          NoItem,
          SendCapacity

ASSUME PushAssumption == /\ Elsewhere \notin Clients /\ NoItem \notin Items
                         /\ SourceOf \in [Items -> Clients \cup {Elsewhere}]
                         /\ SendCapacity \in Nat \ {0}

NoCall == [op |-> "none", client |-> Elsewhere]

VARIABLES debounce,            \* is there a debounce window?
          phase,               \* of each client's readPump
          writing,             \* is its writePump running?
          send, closed,        \* its Send channel
          shown,               \* what its device has been shown
          byConn,              \* the registered clients
          call,                \* what the registry's goroutine has taken from its channels
          panicked,            \* the goroutine has closed a closed channel
          stored,              \* items persisted for the recipient
          step,                \* where the handler of each item is
          timer,               \* the item that armed the pushTimer
          pushExcluded,
          job,                 \* the push of each item that has started one
          owed                 \* items stored while the client was registered

registryVars == <<byConn, call, panicked>>
clientVars   == <<phase, writing, send, closed, shown>>
pushing      == <<stored, step, timer, pushExcluded, job>>
pushVars     == <<pushing, owed>>
vars         == <<debounce, clientVars, registryVars, pushVars>>

RecipientPushInit ==
    /\ debounce \in BOOLEAN
    /\ phase = [c \in Clients |-> "greeting"]
    /\ writing = [c \in Clients |-> TRUE]
    /\ send = [c \in Clients |-> <<>>]
    /\ closed = [c \in Clients |-> FALSE]
    /\ shown = [c \in Clients |-> {}]
    /\ byConn = {} /\ call = NoCall /\ panicked = FALSE
    /\ stored = {}
    /\ step = [i \in Items |-> "arriving"]
    /\ timer = NoItem /\ pushExcluded = {}
    /\ job = [i \in Items |-> [at |-> "idle", clients |-> {}]]
    /\ owed = [c \in Clients |-> {}]

-----------------------------------------------------------------------------
(***************************************************************************)
(* The registry's goroutine.  Its channels are unbuffered: a caller goes   *)
(* on when the goroutine has taken the call, before the maps change.       *)
(***************************************************************************)
\* handleHelloValidated, up to its summary.
Register(c) ==
    /\ phase[c] = "greeting"
    /\ call = NoCall
    /\ call' = [op |-> "register", client |-> c]
    /\ phase' = [phase EXCEPT ![c] = "registered"]
    /\ UNCHANGED <<debounce, writing, send, closed, shown, byConn, panicked, pushVars>>

Unregister(c) ==
    /\ phase[c] = "leaving"
    /\ call = NoCall
    /\ call' = [op |-> "unregister", client |-> c]
    /\ phase' = [phase EXCEPT ![c] = "gone"]
    /\ UNCHANGED <<debounce, writing, send, closed, shown, byConn, panicked, pushVars>>

RunRegister ==
    /\ call.op = "register"
    /\ byConn' = byConn \cup {call.client}
    /\ call' = NoCall
    /\ UNCHANGED <<debounce, clientVars, panicked, pushVars>>

\* Mutant: a client that is not the last one stays in the map.
RunUnregisterLast ==
    /\ call.op = "unregister"
    /\ panicked' = (panicked \/ closed[call.client])
    /\ closed' = [closed EXCEPT ![call.client] = TRUE]
    /\ byConn' = IF byConn = {call.client} THEN {} ELSE byConn
    /\ owed' = [owed EXCEPT ![call.client] = {}]
    /\ call' = NoCall
    /\ UNCHANGED <<debounce, phase, writing, send, shown, pushing>>

RunUnregister ==
    /\ call.op = "unregister"
    /\ IF call.client \in byConn
         THEN /\ panicked' = (panicked \/ closed[call.client])
              /\ closed' = [closed EXCEPT ![call.client] = TRUE]
         ELSE UNCHANGED <<panicked, closed>>
    /\ byConn' = byConn \ {call.client}
    /\ owed' = [owed EXCEPT ![call.client] = {}]
    /\ call' = NoCall
    /\ UNCHANGED <<debounce, phase, writing, send, shown, pushing>>

-----------------------------------------------------------------------------
(***************************************************************************)
(* A client's readPump and writePump.                                      *)
(***************************************************************************)
Fits(c) == Len(send[c]) < SendCapacity

\* sendDrainSummary, which ends the session when Send stays full.
FirstSummary(c) ==
    /\ phase[c] = "registered"
    /\ phase' = [phase EXCEPT ![c] = IF Fits(c) THEN "open" ELSE "leaving"]
    /\ send' = [send EXCEPT ![c] = IF Fits(c) THEN Append(@, stored) ELSE @]
    /\ UNCHANGED <<debounce, writing, closed, shown, registryVars, pushVars>>

\* The handler of an item from this client runs in the client's goroutine.
Busy(c) == \E i \in Items : SourceOf[i] = c /\ step[i] \in {"stored", "pushing"}

\* Mutant: Send is closed here whoever closes it later.
LeaveClosing(c) ==
    /\ phase[c] \in {"greeting", "open"}
    /\ ~Busy(c)
    /\ phase' = [phase EXCEPT ![c] = IF @ = "greeting" THEN "gone" ELSE "leaving"]
    /\ closed' = [closed EXCEPT ![c] = TRUE]
    /\ UNCHANGED <<debounce, writing, send, shown, registryVars, pushVars>>

\* readPump returns.  A client without a WayfarerID was never registered and closes
\* its channel itself.
Leave(c) ==
    /\ phase[c] \in {"greeting", "open"}
    /\ ~Busy(c)
    /\ phase' = [phase EXCEPT ![c] = IF @ = "greeting" THEN "gone" ELSE "leaving"]
    /\ closed' = [closed EXCEPT ![c] = (phase[c] = "greeting")]
    /\ UNCHANGED <<debounce, writing, send, shown, registryVars, pushVars>>

\* What was queued is written, also after the channel was closed.
WriteNext(c) ==
    /\ writing[c]
    /\ send[c] # <<>>
    /\ shown' = [shown EXCEPT ![c] = @ \cup Head(send[c])]
    /\ send' = [send EXCEPT ![c] = Tail(@)]
    /\ UNCHANGED <<debounce, phase, writing, closed, registryVars, pushVars>>

\* The channel is closed and empty, or the connection is broken.
WriterStops(c) ==
    /\ writing[c]
    /\ writing' = [writing EXCEPT ![c] = FALSE]
    /\ UNCHANGED <<debounce, phase, send, closed, shown, registryVars, pushVars>>

-----------------------------------------------------------------------------
(***************************************************************************)
(* The push.                                                               *)
(***************************************************************************)
\* handleTransfer has persisted an item for the recipient.
Store(i) ==
    /\ step[i] = "arriving"
    /\ SourceOf[i] # Elsewhere => phase[SourceOf[i]] = "open" /\ ~Busy(SourceOf[i])
    /\ stored' = stored \cup {i}
    /\ step' = [step EXCEPT ![i] = "stored"]
    /\ owed' = [c \in Clients |-> IF c \in byConn \ {SourceOf[i]} THEN owed[c] \cup {i}
                                 ELSE owed[c]]
    /\ UNCHANGED <<debounce, clientVars, registryVars, timer, pushExcluded, job>>

\* Mutant: no client is a client, too.
EnqueueNil(i) ==
    /\ debounce
    /\ step[i] = "stored"
    /\ timer' = IF timer = NoItem THEN i ELSE timer
    /\ pushExcluded' = pushExcluded \cup {SourceOf[i]}
    /\ step' = [step EXCEPT ![i] = "done"]
    /\ UNCHANGED <<debounce, clientVars, registryVars, stored, job, owed>>

\* Mutant: a timer still counts while its flush is at work.
EnqueueBehindFlush(i) ==
    /\ debounce
    /\ step[i] = "stored"
    /\ timer' = IF timer = NoItem /\ \A j \in Items : job[j].clients = {} THEN i ELSE timer
    /\ pushExcluded' = pushExcluded \cup ({SourceOf[i]} \cap Clients)
    /\ step' = [step EXCEPT ![i] = "done"]
    /\ UNCHANGED <<debounce, clientVars, registryVars, stored, job, owed>>

\* enqueueRecipientSummaryPush: the source is left out of the next flush.
Enqueue(i) ==
    /\ debounce
    /\ step[i] = "stored"
    /\ timer' = IF timer = NoItem THEN i ELSE timer
    /\ pushExcluded' = pushExcluded \cup ({SourceOf[i]} \cap Clients)
    /\ step' = [step EXCEPT ![i] = "done"]
    /\ UNCHANGED <<debounce, clientVars, registryVars, stored, job, owed>>

\* Mutant: the exclusions outlive the flush.
FlushKeepsExclusions ==
    /\ timer # NoItem
    /\ timer' = NoItem
    /\ job' = [job EXCEPT ![timer] = [at |-> "listing", clients |-> pushExcluded]]
    /\ owed' = [c \in Clients |-> IF c \in pushExcluded THEN {} ELSE owed[c]]
    /\ UNCHANGED <<debounce, clientVars, registryVars, stored, step, pushExcluded>>

(***************************************************************************)
(* flushRecipientSummaryPush: the timer and the exclusions go before the   *)
(* clients are listed, so an item stored from now on has its own flush.    *)
(* An excluded client is owed nothing: it is passed over also for items    *)
(* that others sent within the window.                                     *)
(***************************************************************************)
Flush ==
    /\ timer # NoItem
    /\ timer' = NoItem
    /\ pushExcluded' = {}
    /\ job' = [job EXCEPT ![timer] = [at |-> "listing", clients |-> pushExcluded]]
    /\ owed' = [c \in Clients |-> IF c \in pushExcluded THEN {} ELSE owed[c]]
    /\ UNCHANGED <<debounce, clientVars, registryVars, stored, step>>

\* Without a debounce window the handler of the item pushes.
PushDirectly(i) ==
    /\ ~debounce
    /\ step[i] = "stored"
    /\ step' = [step EXCEPT ![i] = "pushing"]
    /\ job' = [job EXCEPT ![i] = [at |-> "listing", clients |-> {SourceOf[i]} \cap Clients]]
    /\ UNCHANGED <<debounce, clientVars, registryVars, stored, timer, pushExcluded, owed>>

PushedDirectly(i) ==
    /\ step[i] = "pushing"
    /\ job[i] = [at |-> "serving", clients |-> {}]
    /\ step' = [step EXCEPT ![i] = "done"]
    /\ UNCHANGED <<debounce, clientVars, registryVars, stored, timer, pushExcluded, job, owed>>

\* pushSummaryToOnlineRecipient: GetClients, without the excluded ones.
ListClients(i) ==
    /\ job[i].at = "listing"
    /\ job' = [job EXCEPT ![i] = [at |-> "serving", clients |-> byConn \ @.clients]]
    /\ UNCHANGED <<debounce, clientVars, registryVars, stored, step, timer, pushExcluded, owed>>

\* Mutant: a client whose channel has something in it is not waited for.
PushToIdle(i, c) ==
    /\ job[i].at = "serving"
    /\ c \in job[i].clients
    /\ job' = [job EXCEPT ![i] = [at |-> "serving", clients |-> @.clients \ {c}]]
    /\ IF ~closed[c] /\ send[c] = <<>>
         THEN send' = [send EXCEPT ![c] = Append(@, stored)] /\ UNCHANGED owed
         ELSE UNCHANGED <<send, owed>>
    /\ UNCHANGED <<debounce, phase, writing, closed, shown, registryVars,
                   stored, step, timer, pushExcluded>>

\* buildRecipientSummary and sendBinary for one client.  A channel that is closed or
\* stays full drops the summary.
PushTo(i, c) ==
    /\ job[i].at = "serving"
    /\ c \in job[i].clients
    /\ job' = [job EXCEPT ![i] = [at |-> "serving", clients |-> @.clients \ {c}]]
    /\ IF ~closed[c] /\ Fits(c)
         THEN send' = [send EXCEPT ![c] = Append(@, stored)] /\ UNCHANGED owed
         ELSE owed' = [owed EXCEPT ![c] = {}] /\ UNCHANGED send
    /\ UNCHANGED <<debounce, phase, writing, closed, shown, registryVars,
                   stored, step, timer, pushExcluded>>

-----------------------------------------------------------------------------
PushStep(i) == \/ Enqueue(i) \/ PushDirectly(i) \/ PushedDirectly(i)
               \/ ListClients(i)
               \/ \E c \in Clients : PushTo(i, c)

RecipientPushNext ==
    \/ RunRegister \/ RunUnregister
    \/ \E c \in Clients : \/ Register(c) \/ FirstSummary(c) \/ Leave(c) \/ Unregister(c)
                          \/ WriteNext(c) \/ WriterStops(c)
    \/ \E i \in Items : Store(i) \/ PushStep(i)
    \/ Flush

RecipientPushSpec == RecipientPushInit /\ [][RecipientPushNext]_vars

(***************************************************************************)
(* The timer fires, a push goes on and a writePump goes on.  No item need  *)
(* arrive and no client need come or go.                                   *)
(***************************************************************************)
RecipientPushFairness ==
    /\ WF_vars(Flush)
    /\ \A i \in Items : WF_vars(PushStep(i))
    /\ \A c \in Clients : WF_vars(WriteNext(c))

FairRecipientPushSpec == RecipientPushSpec /\ RecipientPushFairness

-----------------------------------------------------------------------------
(***************************************************************************)
(* Properties.                                                             *)
(***************************************************************************)
\* Well-formed state; only clients are excluded, and only registered ones are owed.
RecipientPushTypeOK ==
    /\ debounce \in BOOLEAN
    /\ phase \in [Clients -> {"greeting", "registered", "open", "leaving", "gone"}]
    /\ writing \in [Clients -> BOOLEAN] /\ closed \in [Clients -> BOOLEAN]
    /\ send \in [Clients -> Seq(SUBSET Items)] /\ shown \in [Clients -> SUBSET Items]
    /\ byConn \subseteq Clients /\ panicked \in BOOLEAN
    /\ call \in [op : {"register", "unregister"}, client : Clients] \cup {NoCall}
    /\ stored \subseteq Items
    /\ step \in [Items -> {"arriving", "stored", "pushing", "done"}]
    /\ timer \in Items \cup {NoItem} /\ pushExcluded \subseteq Clients
    /\ job \in [Items -> [at : {"idle", "listing", "serving"}, clients : SUBSET Clients]]
    /\ owed \in [Clients -> SUBSET stored]
    /\ \A c \in Clients : owed[c] # {} => c \in byConn

(***************************************************************************)
(* The registry's goroutine does not panic: a client's Send is closed by   *)
(* its own readPump or by the registry, never by both and never twice.     *)
(* sendBinary recovers from a closed channel, Run would take the relay     *)
(* down.                                                                   *)
(***************************************************************************)
RegistryNeverPanics == ~panicked

\* The push of i has c still before it.
StillToServe(i, c) == \/ job[i].at = "listing" /\ c \notin job[i].clients
                      \/ job[i].at = "serving" /\ c \in job[i].clients

(***************************************************************************)
(* No nudge falls between the timer and its flush: an item that was stored *)
(* while a client was registered has been queued or shown to it, or a push *)
(* that will read the store and has the client before it is due.  (A       *)
(* client that is excluded or whose channel is full is owed nothing.)      *)
(***************************************************************************)
NoLostNudge ==
    \A c \in Clients : \A i \in owed[c] :
        \/ i \in shown[c]
        \/ \E k \in 1 .. Len(send[c]) : i \in send[c][k]
        \/ step[i] = "stored" \/ timer # NoItem
        \/ \E j \in Items : StillToServe(j, c)

\* Exclusions end with the flush they are for: a client that once sent something to
\* its own recipient is not left out of later pushes.
ExclusionsEnd == pushExcluded # {} => timer # NoItem

\* What a session held in the registry is released once the registry has handled its
\* Unregister: Send is closed, which ends its writePump, and no push finds the client.
SessionIsReleased ==
    \A c \in Clients :
        phase[c] = "gone" => \/ closed[c] /\ c \notin byConn
                            \/ call = [op |-> "unregister", client |-> c]

\* Time and again every online client has been shown what arrived for it, unless it
\* was excluded, its channel was full or its connection is broken.
NudgesArrive == []<>(\A c \in Clients : writing[c] => owed[c] \subseteq shown[c])
=============================================================================
