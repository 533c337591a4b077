----------------------------- MODULE PeerManager -----------------------------
(***************************************************************************)
(* federation.PeerManager: its two channels, the Run loop, one dial loop   *)
(* per configured URL, one read loop per connection, and the admission of  *)
(* inbound connections by main.                                            *)
(*                                                                         *)
(* A connection is the Peer object made for it.  Its loops are started     *)
(* before Run hears of it, so its end may overtake its registration.       *)
(***************************************************************************)
EXTENDS Integers, Sequences, FiniteSets

CONSTANTS URLs, Connections,
          Accepted,            \* in place of a URL: the connection was not dialled
          MaxDialAttempts,
          ChannelCapacity,     \* of pm.inbound and of pm.outbound
          MaxFederationPeers, MaxFederationConns

ASSUME PeerManagerAssumption ==
    /\ Accepted \notin URLs
    /\ MaxDialAttempts \in Nat \ {0} /\ ChannelCapacity \in Nat \ {0}
    /\ MaxFederationPeers \in Nat \ {0} /\ MaxFederationConns \in Nat \ {0}
    /\ IsFiniteSet(Connections)

VARIABLES unadded,             \* URLs that main has still to add
          dial,                \* the dial loop of each URL and its failed attempts
          outbound, inbound,   \* the channels
          peers,               \* the registered connections
          conn,                \* what is known of each connection
          stopped,             \* ctxStop is closed
          running              \* Run has not returned

pmVars == <<unadded, dial, outbound, inbound, peers, conn, stopped, running>>

(***************************************************************************)
(* handler: the goroutine that makes the connection, in the greeting or    *)
(* before pm.inbound; reader: the read loop, in the loop or in removePeer; *)
(* early: removePeer ran before addPeer.                                   *)
(***************************************************************************)
NoConnection == [url |-> Accepted, handler |-> "none", reader |-> "none",
                 done |-> FALSE, early |-> FALSE]

\* A new Peer object is one that nothing refers to, no matter which.
Fresh(c) == /\ conn[c] = NoConnection
            /\ c = CHOOSE d \in Connections : conn[d] = NoConnection

\* The read loop is over; what Run has still to register, or has registered since, remains.
Ended(peer) == IF peer.early THEN [peer EXCEPT !.reader = "ended"] ELSE NoConnection

PeerManagerInit ==
    /\ unadded = URLs
    /\ dial = [u \in URLs |-> [phase |-> "none", failed |-> 0]]
    /\ outbound = <<>> /\ inbound = <<>>
    /\ peers = {}
    /\ conn = [c \in Connections |-> NoConnection]
    /\ stopped = FALSE /\ running = TRUE

-----------------------------------------------------------------------------
(***************************************************************************)
(* main and Run.                                                           *)
(***************************************************************************)
\* main stops the manager after it has added the URLs, so ctxStop is open here.
AddPeerURL(u) ==
    /\ u \in unadded
    /\ Len(outbound) < ChannelCapacity
    /\ unadded' = unadded \ {u}
    /\ outbound' = Append(outbound, u)
    /\ UNCHANGED <<dial, inbound, peers, conn, stopped, running>>

\* The process is told to end.
Stop ==
    /\ unadded = {} /\ ~stopped
    /\ stopped' = TRUE
    /\ UNCHANGED <<unadded, dial, outbound, inbound, peers, conn, running>>

\* The select of Run takes any of its cases that is ready.
AddPeer ==
    /\ running
    /\ inbound # <<>>
    /\ peers' = peers \cup {Head(inbound)}
    /\ inbound' = Tail(inbound)
    /\ UNCHANGED <<unadded, dial, outbound, conn, stopped, running>>

StartDialing ==
    /\ running
    /\ outbound # <<>>
    /\ dial' = [dial EXCEPT ![Head(outbound)] = [phase |-> "check", failed |-> 0]]
    /\ outbound' = Tail(outbound)
    /\ UNCHANGED <<unadded, inbound, peers, conn, stopped, running>>

\* Mutant: only the connections that were dialled are closed.
CleanupDialled ==
    /\ running /\ stopped
    /\ running' = FALSE
    /\ conn' = [c \in Connections |-> IF c \in peers /\ conn[c].url # Accepted
                                        THEN [conn[c] EXCEPT !.done = TRUE] ELSE conn[c]]
    /\ UNCHANGED <<unadded, dial, outbound, inbound, peers, stopped>>

\* The registered connections are closed; their read loops then fail.
Cleanup ==
    /\ running /\ stopped
    /\ running' = FALSE
    /\ conn' = [c \in Connections |-> IF c \in peers THEN [conn[c] EXCEPT !.done = TRUE] ELSE conn[c]]
    /\ UNCHANGED <<unadded, dial, outbound, inbound, peers, stopped>>

-----------------------------------------------------------------------------
(***************************************************************************)
(* dialPeer.  Each attempt looks at ctxStop first; a dial or an encounter  *)
(* that fails costs an attempt, and after the last one the URL is given up *)
(* for good.                                                               *)
(***************************************************************************)
CheckStop(u) ==
    /\ dial[u].phase = "check"
    /\ dial' = [dial EXCEPT ![u].phase = IF stopped THEN "stopped" ELSE "dialing"]
    /\ UNCHANGED <<unadded, outbound, inbound, peers, conn, stopped, running>>

\* Mutant: a failed attempt is not counted.
DialFailsUncounted(u) ==
    /\ dial[u].phase = "dialing"
    /\ dial' = [dial EXCEPT ![u].phase = "check"]
    /\ UNCHANGED <<unadded, outbound, inbound, peers, conn, stopped, running>>

DialFails(u) ==
    /\ dial[u].phase = "dialing"
    /\ dial' = [dial EXCEPT ![u].failed = @ + 1,
                            ![u].phase = IF dial[u].failed + 1 < MaxDialAttempts
                                           THEN "check" ELSE "gaveUp"]
    /\ UNCHANGED <<unadded, outbound, inbound, peers, conn, stopped, running>>

\* runEncounter has started the loops; the peer is still to be handed to Run.
DialSucceeds(u, c) ==
    /\ dial[u].phase = "dialing"
    /\ Fresh(c)
    /\ dial' = [dial EXCEPT ![u] = [phase |-> "none", failed |-> 0]]
    /\ conn' = [conn EXCEPT ![c] = [NoConnection EXCEPT !.url = u, !.handler = "handing",
                                                        !.reader = "reading"]]
    /\ UNCHANGED <<unadded, outbound, inbound, peers, stopped, running>>

-----------------------------------------------------------------------------
(***************************************************************************)
(* Inbound connections.  The number of peers and the semaphore are looked  *)
(* at when the request arrives; the rate limiter may refuse it as well.    *)
(***************************************************************************)
InHandler == {c \in Connections : conn[c].url = Accepted /\ conn[c].handler # "none"}

\* Mutant: the number of peers is not looked at.
AdmitAny(c) ==
    /\ unadded = {}
    /\ Fresh(c)
    /\ Cardinality(InHandler) < MaxFederationConns
    /\ conn' = [conn EXCEPT ![c] = [NoConnection EXCEPT !.handler = "greeting"]]
    /\ UNCHANGED <<unadded, dial, outbound, inbound, peers, stopped, running>>

Admit(c) ==
    /\ unadded = {}
    /\ Fresh(c)
    /\ Cardinality(peers) < MaxFederationPeers
    /\ Cardinality(InHandler) < MaxFederationConns
    /\ conn' = [conn EXCEPT ![c] = [NoConnection EXCEPT !.handler = "greeting"]]
    /\ UNCHANGED <<unadded, dial, outbound, inbound, peers, stopped, running>>

\* acceptInboundEncounter fails, or starts the loops.
Greet(c) ==
    /\ conn[c].handler = "greeting"
    /\ \/ conn' = [conn EXCEPT ![c] = NoConnection]
       \/ conn' = [conn EXCEPT ![c].handler = "handing", ![c].reader = "reading"]
    /\ UNCHANGED <<unadded, dial, outbound, inbound, peers, stopped, running>>

\* Mutant: the channel is taken to have room.
HandOverAnyway(c) ==
    /\ conn[c].handler = "handing"
    /\ inbound' = Append(inbound, c)
    /\ conn' = [conn EXCEPT ![c].handler = "none"]
    /\ UNCHANGED <<unadded, dial, outbound, peers, stopped, running>>

\* pm.inbound <- peer, by dialPeer and HandleInboundPeer: blocks while the channel is full.
HandOver(c) ==
    /\ conn[c].handler = "handing"
    /\ Len(inbound) < ChannelCapacity
    /\ inbound' = Append(inbound, c)
    /\ conn' = [conn EXCEPT ![c].handler = "none"]
    /\ UNCHANGED <<unadded, dial, outbound, peers, stopped, running>>

-----------------------------------------------------------------------------
(***************************************************************************)
(* readLoop and removePeer.                                                *)
(***************************************************************************)
\* Done is closed unless it is, and removePeer of a dialled peer has still to queue its URL.
Removed(c) == LET peer == [conn[c] EXCEPT !.done = TRUE, !.early = c \notin peers]
              IN  IF peer.url = Accepted THEN Ended(peer)
                  ELSE [peer EXCEPT !.reader = "removing"]

\* Mutant: the peer is not deleted when the manager has stopped.
RemovePeerUnlessStopped(c) ==
    /\ conn[c].reader = "reading"
    /\ peers' = IF stopped THEN peers ELSE peers \ {c}
    /\ conn' = [conn EXCEPT ![c] = Removed(c)]
    /\ UNCHANGED <<unadded, dial, outbound, inbound, stopped, running>>

\* A read fails or a handler returns an error.
RemovePeer(c) ==
    /\ conn[c].reader = "reading"
    /\ peers' = peers \ {c}
    /\ conn' = [conn EXCEPT ![c] = Removed(c)]
    /\ UNCHANGED <<unadded, dial, outbound, inbound, stopped, running>>

\* Mutant: when the channel is full the URL is dropped.
RequeueUnlessFull(c) ==
    /\ conn[c].reader = "removing"
    /\ conn' = [conn EXCEPT ![c] = Ended(@)]
    /\ outbound' = IF Len(outbound) < ChannelCapacity THEN Append(outbound, conn[c].url) ELSE outbound
    /\ UNCHANGED <<unadded, dial, inbound, peers, stopped, running>>

\* The select that ends removePeer of a dialled connection.
Requeue(c) ==
    /\ conn[c].reader = "removing"
    /\ conn' = [conn EXCEPT ![c] = Ended(@)]
    /\ \/ stopped /\ UNCHANGED outbound
       \/ Len(outbound) < ChannelCapacity /\ outbound' = Append(outbound, conn[c].url)
    /\ UNCHANGED <<unadded, dial, inbound, peers, stopped, running>>

-----------------------------------------------------------------------------
RunStep == AddPeer \/ StartDialing \/ Cleanup

DialStep(u) ==
    CheckStop(u) \/ DialFails(u) \/ \E c \in Connections : DialSucceeds(u, c)

PeerManagerNext ==
    \/ Stop \/ RunStep
    \/ \E u \in URLs : AddPeerURL(u) \/ DialStep(u)
    \/ \E c \in Connections :
          Admit(c) \/ Greet(c) \/ HandOver(c) \/ RemovePeer(c) \/ Requeue(c)

PeerManagerSpec == PeerManagerInit /\ [][PeerManagerNext]_pmVars

(***************************************************************************)
(* Run and the dial loops go on; a dial ends one way or the other, since   *)
(* it and the encounter have time limits.  A full channel serves the       *)
(* goroutines that wait for it in turn, so one that waits for pm.outbound  *)
(* gets in.  Nothing is assumed of connections, of requests and of Stop.   *)
(***************************************************************************)
Enqueue(u) == \/ AddPeerURL(u)
              \/ \E c \in Connections : conn[c].url = u /\ Requeue(c)

PeerManagerFairness ==
    /\ WF_pmVars(StartDialing)
    /\ \A u \in URLs : SF_pmVars(Enqueue(u)) /\ WF_pmVars(DialStep(u))

FairPeerManagerSpec == PeerManagerSpec /\ PeerManagerFairness

-----------------------------------------------------------------------------
(***************************************************************************)
(* Properties.                                                             *)
(***************************************************************************)
\* Well-formed state; the channels hold no more than they can.
PeerManagerTypeOK ==
    /\ unadded \subseteq URLs
    /\ dial \in [URLs -> [phase : {"none", "check", "dialing", "stopped", "gaveUp"},
                          failed : 0 .. MaxDialAttempts]]
    /\ outbound \in Seq(URLs) /\ Len(outbound) <= ChannelCapacity
    /\ inbound \in Seq(Connections) /\ Len(inbound) <= ChannelCapacity
    /\ peers \subseteq Connections
    /\ conn \in [Connections -> [url : URLs \cup {Accepted},
                                 handler : {"none", "greeting", "handing"},
                                 reader : {"none", "reading", "removing", "ended"},
                                 done : BOOLEAN, early : BOOLEAN]]
    /\ stopped \in BOOLEAN /\ running \in BOOLEAN

Live(u) == {c \in Connections : conn[c].url = u /\ conn[c].reader \in {"reading", "removing"}}

\* What stands for URL u in the manager.
Places(u) ==
    Cardinality({k \in 1 .. Len(outbound) : outbound[k] = u})
        + Cardinality(Live(u))
        + (IF u \in unadded THEN 1 ELSE 0)
        + (IF dial[u].phase # "none" THEN 1 ELSE 0)

(***************************************************************************)
(* A configured URL is neither lost nor doubled: however connections end   *)
(* and registrations lag, it is in the queue, dialled, connected or given  *)
(* up, and never two of these; only Stop lets it go.                       *)
(***************************************************************************)
EachURLOnce ==
    \A u \in URLs : Places(u) <= 1 /\ (Places(u) = 0 => stopped)

(***************************************************************************)
(* A connection that has ended is still registered only when its end was   *)
(* quicker than its registration (then it stays for good and counts as a   *)
(* peer); every other one leaves with its read loop.                       *)
(***************************************************************************)
DeadPeersLeave ==
    \A c \in peers : conn[c].reader = "reading" \/ conn[c].early

(***************************************************************************)
(* Once Run has returned, every connection is closed but those it had not  *)
(* heard of: they were established while it was told to stop, and are      *)
(* still in the channel or wait for it.                                    *)
(***************************************************************************)
OnlyUnheardStayOpen ==
    ~running => \A c \in Connections :
        conn[c].reader = "reading" /\ ~conn[c].done =>
            \/ conn[c].handler = "handing"
            \/ \E k \in 1 .. Len(inbound) : inbound[k] = c

(***************************************************************************)
(* How far the limit on peers is exceeded by requests that looked at it    *)
(* before earlier ones were registered: at most by what the semaphore and  *)
(* the channel hold.                                                       *)
(***************************************************************************)
PeerLimit ==
    Cardinality({c \in peers : conn[c].url = Accepted})
        <= MaxFederationPeers - 1 + MaxFederationConns + ChannelCapacity

(***************************************************************************)
(* The relay is connected with a configured peer time and again, unless it *)
(* has stopped or its dial loop has given up: no handover, no full channel *)
(* and no late registration keeps a URL from being dialled again.          *)
(***************************************************************************)
PeersAreRedialled ==
    \A u \in URLs : []<>(stopped \/ dial[u].phase = "gaveUp" \/ Live(u) # {})
=============================================================================
