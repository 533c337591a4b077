-------------------------- MODULE PeerManagerProofs --------------------------
(***************************************************************************)
(* The peer manager, for any number of URLs and connections and any        *)
(* capacity of its channels.                                               *)
(***************************************************************************)
EXTENDS PeerManager, FiniteSetTheorems, TLAPS

ConnRecords == [url : URLs \cup {Accepted},
                handler : {"none", "greeting", "handing"},
                reader : {"none", "reading", "removing", "ended"},
                done : BOOLEAN, early : BOOLEAN]

DialRecords == [phase : {"none", "check", "dialing", "stopped", "gaveUp"},
                failed : 0 .. MaxDialAttempts]

LEMMA NoConnectionFacts ==
    /\ NoConnection \in ConnRecords
    /\ NoConnection.url = Accepted /\ NoConnection.handler = "none"
    /\ NoConnection.reader = "none" /\ ~NoConnection.done /\ ~NoConnection.early
  BY DEF NoConnection, ConnRecords

\* What a step makes of a connection, field by field.
LEMMA EndedFacts ==
    ASSUME NEW peer \in ConnRecords
    PROVE  /\ Ended(peer) \in ConnRecords
           /\ peer.early => /\ Ended(peer).early /\ Ended(peer).reader = "ended"
                            /\ Ended(peer).url = peer.url /\ Ended(peer).done = peer.done
                            /\ Ended(peer).handler = peer.handler
           /\ ~peer.early => Ended(peer) = NoConnection
  BY NoConnectionFacts DEF Ended, ConnRecords

LEMMA RemovedFacts ==
    ASSUME conn \in [Connections -> ConnRecords], NEW c \in Connections
    PROVE  /\ Removed(c) \in ConnRecords
           /\ c \notin peers => /\ Removed(c).early /\ Removed(c).done
                                /\ Removed(c).handler = conn[c].handler
                                /\ Removed(c).url = conn[c].url
           /\ c \in peers /\ conn[c].url = Accepted => Removed(c) = NoConnection
           /\ conn[c].url # Accepted => /\ Removed(c).reader = "removing"
                                        /\ Removed(c).url = conn[c].url
                                        /\ Removed(c).handler = conn[c].handler
                                        /\ Removed(c).done
           /\ conn[c].url = Accepted => /\ Removed(c).reader \in {"none", "ended"}
                                        /\ Removed(c).url = Accepted
  <1> DEFINE peer == [conn[c] EXCEPT !.done = TRUE, !.early = c \notin peers]
  <1>1. /\ peer \in ConnRecords
        /\ peer.url = conn[c].url /\ peer.handler = conn[c].handler
        /\ peer.done /\ peer.early = (c \notin peers)
    BY ZenonT(30) DEF ConnRecords
  <1>2. Removed(c) = IF peer.url = Accepted THEN Ended(peer)
                     ELSE [peer EXCEPT !.reader = "removing"]
    BY DEF Removed
  <1> HIDE DEF peer
  <1>3. CASE conn[c].url = Accepted
    <2>1. Removed(c) = Ended(peer)
      BY <1>1, <1>2, <1>3
    <2> QED BY ZenonT(30), <1>1, <1>3, <2>1, EndedFacts, NoConnectionFacts
  <1>4. CASE conn[c].url # Accepted
    <2>1. Removed(c) = [peer EXCEPT !.reader = "removing"]
      BY <1>1, <1>2, <1>4
    <2> QED BY <1>1, <1>4, <2>1 DEF ConnRecords
  <1> QED BY <1>3, <1>4

LEMMA DialledFacts ==
    ASSUME NEW u \in URLs,
           NEW peer, peer = [NoConnection EXCEPT !.url = u, !.handler = "handing", !.reader = "reading"]
    PROVE  /\ peer \in ConnRecords
           /\ peer.url = u /\ peer.handler = "handing" /\ peer.reader = "reading"
           /\ ~peer.done /\ ~peer.early
  BY ZenonT(30) DEF NoConnection, ConnRecords

LEMMA AdmittedFacts ==
    ASSUME NEW peer, peer = [NoConnection EXCEPT !.handler = "greeting"]
    PROVE  /\ peer \in ConnRecords
           /\ peer.url = Accepted /\ peer.handler = "greeting" /\ peer.reader = "none"
           /\ ~peer.done /\ ~peer.early
  BY ZenonT(30) DEF NoConnection, ConnRecords

LEMMA DialSucceedsFacts ==
    ASSUME conn \in [Connections -> ConnRecords], NEW u \in URLs, NEW c \in Connections,
           DialSucceeds(u, c)
    PROVE  /\ conn[c] = NoConnection
           /\ conn' \in [Connections -> ConnRecords]
           /\ \A d \in Connections \ {c} : conn'[d] = conn[d]
           /\ conn'[c].url = u /\ conn'[c].handler = "handing" /\ conn'[c].reader = "reading"
           /\ ~conn'[c].done /\ ~conn'[c].early
  <1> DEFINE peer == [NoConnection EXCEPT !.url = u, !.handler = "handing", !.reader = "reading"]
  <1>1. /\ peer \in ConnRecords
        /\ peer.url = u /\ peer.handler = "handing" /\ peer.reader = "reading"
        /\ ~peer.done /\ ~peer.early
    BY ZenonT(30), DialledFacts
  <1>2. conn' = [conn EXCEPT ![c] = peer] /\ conn[c] = NoConnection
    BY DEF DialSucceeds, Fresh
  <1> HIDE DEF peer
  <1> QED BY <1>1, <1>2

LEMMA AdmitFacts ==
    ASSUME conn \in [Connections -> ConnRecords], NEW c \in Connections, Admit(c)
    PROVE  /\ conn[c] = NoConnection
           /\ conn' \in [Connections -> ConnRecords]
           /\ \A d \in Connections \ {c} : conn'[d] = conn[d]
           /\ conn'[c].url = Accepted /\ conn'[c].handler = "greeting" /\ conn'[c].reader = "none"
           /\ ~conn'[c].done /\ ~conn'[c].early
  <1> DEFINE peer == [NoConnection EXCEPT !.handler = "greeting"]
  <1>1. /\ peer \in ConnRecords
        /\ peer.url = Accepted /\ peer.handler = "greeting" /\ peer.reader = "none"
        /\ ~peer.done /\ ~peer.early
    BY ZenonT(30), AdmittedFacts
  <1>2. conn' = [conn EXCEPT ![c] = peer] /\ conn[c] = NoConnection
    BY DEF Admit, Fresh
  <1> HIDE DEF peer
  <1> QED BY <1>1, <1>2

LEMMA RequeueFacts ==
    ASSUME conn \in [Connections -> ConnRecords], NEW c \in Connections, Requeue(c)
    PROVE  /\ conn' \in [Connections -> ConnRecords]
           /\ \A d \in Connections \ {c} : conn'[d] = conn[d]
           /\ ~conn[c].early => conn'[c] = NoConnection
           /\ conn[c].early => /\ conn'[c].early /\ conn'[c].reader = "ended"
                               /\ conn'[c].url = conn[c].url /\ conn'[c].done = conn[c].done
                               /\ conn'[c].handler = conn[c].handler
           /\ conn'[c].reader \in {"none", "ended"}
  <1>1. conn' = [conn EXCEPT ![c] = Ended(conn[c])] /\ conn[c] \in ConnRecords
    BY DEF Requeue
  <1> QED BY <1>1, EndedFacts, NoConnectionFacts

LEMMA GreetFacts ==
    ASSUME conn \in [Connections -> ConnRecords], NEW c \in Connections, Greet(c)
    PROVE  /\ conn' \in [Connections -> ConnRecords]
           /\ \A d \in Connections \ {c} : conn'[d] = conn[d]
           /\ \/ conn'[c] = NoConnection
              \/ /\ conn'[c].handler = "handing" /\ conn'[c].reader = "reading"
                 /\ conn'[c].url = conn[c].url /\ conn'[c].done = conn[c].done
                 /\ conn'[c].early = conn[c].early
  <1> DEFINE peer == [conn[c] EXCEPT !.handler = "handing", !.reader = "reading"]
  <1>1. /\ peer \in ConnRecords
        /\ peer.handler = "handing" /\ peer.reader = "reading"
        /\ peer.url = conn[c].url /\ peer.done = conn[c].done /\ peer.early = conn[c].early
    BY ZenonT(30) DEF ConnRecords
  <1>2. conn' = [conn EXCEPT ![c] = NoConnection] \/ conn' = [conn EXCEPT ![c] = peer]
    BY ZenonT(30) DEF Greet
  <1> HIDE DEF peer
  <1> QED BY <1>1, <1>2, NoConnectionFacts

LEMMA HandOverFacts ==
    ASSUME conn \in [Connections -> ConnRecords], NEW c \in Connections, HandOver(c)
    PROVE  /\ conn' \in [Connections -> ConnRecords]
           /\ \A d \in Connections \ {c} : conn'[d] = conn[d]
           /\ conn'[c].handler = "none" /\ conn'[c].reader = conn[c].reader
           /\ conn'[c].url = conn[c].url /\ conn'[c].done = conn[c].done
           /\ conn'[c].early = conn[c].early
  <1> DEFINE peer == [conn[c] EXCEPT !.handler = "none"]
  <1>1. /\ peer \in ConnRecords
        /\ peer.handler = "none" /\ peer.reader = conn[c].reader
        /\ peer.url = conn[c].url /\ peer.done = conn[c].done /\ peer.early = conn[c].early
    BY DEF ConnRecords
  <1>2. conn' = [conn EXCEPT ![c] = peer]
    BY DEF HandOver
  <1> HIDE DEF peer
  <1> QED BY <1>1, <1>2

LEMMA CleanupFacts ==
    ASSUME conn \in [Connections -> ConnRecords], Cleanup
    PROVE  /\ conn' \in [Connections -> ConnRecords]
           /\ \A c \in Connections \ peers : conn'[c] = conn[c]
           /\ \A c \in peers : c \in Connections => conn'[c].done
           /\ \A c \in Connections : /\ conn'[c].handler = conn[c].handler
                                      /\ conn'[c].reader = conn[c].reader
                                      /\ conn'[c].url = conn[c].url
                                      /\ conn'[c].early = conn[c].early
  <1> DEFINE peer(c) == [conn[c] EXCEPT !.done = TRUE]
  <1>1. \A c \in Connections :
           /\ peer(c) \in ConnRecords /\ peer(c).done
           /\ peer(c).handler = conn[c].handler /\ peer(c).reader = conn[c].reader
           /\ peer(c).url = conn[c].url /\ peer(c).early = conn[c].early
    BY ZenonT(30) DEF ConnRecords
  <1>2. conn' = [c \in Connections |-> IF c \in peers THEN peer(c) ELSE conn[c]]
    BY DEF Cleanup
  <1> HIDE DEF peer
  <1> QED BY <1>1, <1>2

-----------------------------------------------------------------------------
(***************************************************************************)
(* Types.  A dial loop that goes on has an attempt left, and only a        *)
(* connection that was dialled has a URL to queue.                         *)
(***************************************************************************)
TypeInv ==
    /\ PeerManagerTypeOK
    /\ \A u \in URLs : dial[u].phase \in {"check", "dialing"} => dial[u].failed < MaxDialAttempts
    /\ \A c \in Connections : conn[c].reader = "removing" => conn[c].url # Accepted

\* What PeerManagerTypeOK says of the parts.
LEMMA TypeParts ==
    PeerManagerTypeOK <=>
        /\ unadded \subseteq URLs
        /\ dial \in [URLs -> DialRecords]
        /\ outbound \in Seq(URLs) /\ Len(outbound) <= ChannelCapacity
        /\ inbound \in Seq(Connections) /\ Len(inbound) <= ChannelCapacity
        /\ peers \subseteq Connections
        /\ conn \in [Connections -> ConnRecords]
        /\ stopped \in BOOLEAN /\ running \in BOOLEAN
  BY DEF PeerManagerTypeOK, DialRecords, ConnRecords

LEMMA TypeInit == PeerManagerInit => TypeInv
  <1> SUFFICES ASSUME PeerManagerInit PROVE TypeInv
    OBVIOUS
  <1>1. conn \in [Connections -> ConnRecords]
    BY NoConnectionFacts DEF PeerManagerInit
  <1>2. dial \in [URLs -> DialRecords] /\ \A u \in URLs : dial[u].phase = "none"
    BY PeerManagerAssumption DEF PeerManagerInit, DialRecords
  <1>3. outbound \in Seq(URLs) /\ inbound \in Seq(Connections)
        /\ Len(outbound) = 0 /\ Len(inbound) = 0
    BY DEF PeerManagerInit
  <1>4. Len(outbound) <= ChannelCapacity /\ Len(inbound) <= ChannelCapacity
    BY <1>3, PeerManagerAssumption
  <1>5. unadded \subseteq URLs /\ peers \subseteq Connections
    BY DEF PeerManagerInit
  <1>6. stopped \in BOOLEAN /\ running \in BOOLEAN
    BY ZenonT(30) DEF PeerManagerInit
  <1>7. PeerManagerTypeOK
    BY <1>1, <1>2, <1>3, <1>4, <1>5, <1>6, TypeParts
  <1>8. \A c \in Connections : conn[c].reader = "none"
    BY NoConnectionFacts DEF PeerManagerInit
  <1>9. \A u \in URLs : dial[u].phase \notin {"check", "dialing"}
    BY <1>2
  <1> QED BY <1>7, <1>8, <1>9 DEF TypeInv

LEMMA TypePartsPrimed ==
    /\ unadded' \subseteq URLs
    /\ dial' \in [URLs -> DialRecords]
    /\ outbound' \in Seq(URLs) /\ Len(outbound') <= ChannelCapacity
    /\ inbound' \in Seq(Connections) /\ Len(inbound') <= ChannelCapacity
    /\ peers' \subseteq Connections
    /\ conn' \in [Connections -> ConnRecords]
    /\ stopped' \in BOOLEAN /\ running' \in BOOLEAN
    /\ (\A u \in URLs : dial[u].phase \in {"check", "dialing"} => dial[u].failed < MaxDialAttempts)'
    /\ (\A c \in Connections : conn[c].reader = "removing" => conn[c].url # Accepted)'
    => TypeInv'
  BY DEF TypeInv, PeerManagerTypeOK, DialRecords, ConnRecords

LEMMA TypeStep == TypeInv /\ [PeerManagerNext]_pmVars => TypeInv'
  <1> SUFFICES ASSUME TypeInv, [PeerManagerNext]_pmVars PROVE TypeInv'
    OBVIOUS
  <1>0. /\ unadded \subseteq URLs
        /\ dial \in [URLs -> DialRecords]
        /\ outbound \in Seq(URLs) /\ Len(outbound) <= ChannelCapacity
        /\ inbound \in Seq(Connections) /\ Len(inbound) <= ChannelCapacity
        /\ peers \subseteq Connections
        /\ conn \in [Connections -> ConnRecords]
        /\ stopped \in BOOLEAN /\ running \in BOOLEAN
        /\ \A u \in URLs : dial[u].phase \in {"check", "dialing"} => dial[u].failed < MaxDialAttempts
        /\ \A c \in Connections : conn[c].reader = "removing" => conn[c].url # Accepted
    BY TypeParts DEF TypeInv
  <1> USE PeerManagerAssumption
  <1>1. ASSUME NEW u \in URLs, AddPeerURL(u)
        PROVE  TypeInv'
    BY <1>0, <1>1, TypePartsPrimed DEF AddPeerURL
  <1>2. CASE Stop
    BY <1>0, <1>2, TypePartsPrimed DEF Stop
  <1>3. CASE AddPeer
    BY <1>0, <1>3, TypePartsPrimed DEF AddPeer
  <1>4. CASE StartDialing
    <2>1. /\ Head(outbound) \in URLs
          /\ Tail(outbound) \in Seq(URLs) /\ Len(Tail(outbound)) <= ChannelCapacity
          /\ [phase |-> "check", failed |-> 0] \in DialRecords
      BY <1>0, <1>4 DEF StartDialing, DialRecords
    <2> QED BY <1>0, <1>4, <2>1, TypePartsPrimed DEF StartDialing
  <1>5. CASE Cleanup
    <2>1. /\ conn' \in [Connections -> ConnRecords]
          /\ \A c \in Connections : conn'[c].reader = "removing" => conn'[c].url # Accepted
      BY <1>0, <1>5, CleanupFacts
    <2>2. /\ running' = FALSE
          /\ UNCHANGED <<unadded, dial, outbound, inbound, peers, stopped>>
      BY <1>5 DEF Cleanup
    <2> QED BY ZenonT(30), <1>0, <2>1, <2>2, TypePartsPrimed
  <1>6. ASSUME NEW u \in URLs, CheckStop(u)
        PROVE  TypeInv'
    <2>1. /\ dial' \in [URLs -> DialRecords]
          /\ (\A v \in URLs : dial[v].phase \in {"check", "dialing"} =>
                                   dial[v].failed < MaxDialAttempts)'
      BY ZenonT(30), <1>0, <1>6 DEF CheckStop, DialRecords
    <2> QED BY <1>0, <1>6, <2>1, TypePartsPrimed DEF CheckStop
  <1>7. ASSUME NEW u \in URLs, DialFails(u)
        PROVE  TypeInv'
    <2>1. /\ dial[u].failed + 1 \in 0 .. MaxDialAttempts
          /\ dial' = [dial EXCEPT ![u] = [phase |-> IF dial[u].failed + 1 < MaxDialAttempts
                                                     THEN "check" ELSE "gaveUp",
                                          failed |-> dial[u].failed + 1]]
      BY <1>0, <1>7 DEF DialFails, DialRecords
    <2>2. /\ dial' \in [URLs -> DialRecords]
          /\ (\A v \in URLs : dial[v].phase \in {"check", "dialing"} =>
                                   dial[v].failed < MaxDialAttempts)'
      BY SMTT(30), <1>0, <2>1 DEF DialRecords
    <2> QED BY <1>0, <1>7, <2>2, TypePartsPrimed DEF DialFails
  <1>8. ASSUME NEW u \in URLs, NEW c \in Connections, DialSucceeds(u, c)
        PROVE  TypeInv'
    <2>1. [phase |-> "none", failed |-> 0] \in DialRecords
      BY DEF DialRecords
    <2>2. /\ conn' \in [Connections -> ConnRecords]
          /\ \A d \in Connections : conn'[d].reader = "removing" => conn'[d].url # Accepted
      BY <1>0, <1>8, DialSucceedsFacts
    <2>3. /\ dial' \in [URLs -> DialRecords]
          /\ (\A v \in URLs : dial[v].phase \in {"check", "dialing"} =>
                                   dial[v].failed < MaxDialAttempts)'
      BY <1>0, <1>8, <2>1 DEF DialSucceeds
    <2> QED BY <1>0, <1>8, <2>2, <2>3, TypePartsPrimed DEF DialSucceeds
  <1>9. ASSUME NEW c \in Connections, Admit(c)
        PROVE  TypeInv'
    BY ZenonT(30), <1>0, <1>9, AdmitFacts, TypePartsPrimed DEF Admit
  <1>10. ASSUME NEW c \in Connections, Greet(c)
         PROVE  TypeInv'
    <2>1. /\ conn' \in [Connections -> ConnRecords]
          /\ \A d \in Connections : conn'[d].reader = "removing" => conn'[d].url # Accepted
      BY <1>0, <1>10, GreetFacts, NoConnectionFacts
    <2> QED BY <1>0, <1>10, <2>1, TypePartsPrimed DEF Greet
  <1>11. ASSUME NEW c \in Connections, HandOver(c)
         PROVE  TypeInv'
    <2>1. /\ conn' \in [Connections -> ConnRecords]
          /\ \A d \in Connections : conn'[d].reader = "removing" => conn'[d].url # Accepted
      BY <1>0, <1>11, HandOverFacts
    <2> QED BY <1>0, <1>11, <2>1, TypePartsPrimed DEF HandOver
  <1>12. ASSUME NEW c \in Connections, RemovePeer(c)
         PROVE  TypeInv'
    <2>1. /\ conn' \in [Connections -> ConnRecords]
          /\ \A d \in Connections : conn'[d].reader = "removing" => conn'[d].url # Accepted
      BY <1>0, <1>12, RemovedFacts DEF RemovePeer
    <2> QED BY <1>0, <1>12, <2>1, TypePartsPrimed DEF RemovePeer
  <1>13. ASSUME NEW c \in Connections, Requeue(c)
         PROVE  TypeInv'
    <2>1. /\ conn' \in [Connections -> ConnRecords]
          /\ \A d \in Connections : conn'[d].reader = "removing" => conn'[d].url # Accepted
      BY <1>0, <1>13, RequeueFacts
    <2>2. conn[c].url \in URLs
      BY <1>0, <1>13 DEF Requeue, ConnRecords
    <2>3. /\ outbound' \in Seq(URLs)
          /\ Len(outbound') <= ChannelCapacity
      BY <1>0, <1>13, <2>2 DEF Requeue
    <2> QED BY <1>0, <1>13, <2>1, <2>3, TypePartsPrimed DEF Requeue
  <1>14. CASE UNCHANGED pmVars
    BY <1>0, <1>14, TypePartsPrimed DEF pmVars
  <1> QED BY <1>1, <1>2, <1>3, <1>4, <1>5, <1>6, <1>7, <1>8, <1>9, <1>10, <1>11, <1>12, <1>13, <1>14
          DEF PeerManagerNext, RunStep, DialStep

\* The peer manager keeps its types, and no channel holds more than its capacity: a dial
\* loop counts to MaxDialAttempts at most, and only a dialled URL is queued again.
THEOREM PeerManagerTypes == PeerManagerSpec => []PeerManagerTypeOK
  <1>1. TypeInv => PeerManagerTypeOK
    BY DEF TypeInv
  <1> QED BY <1>1, TypeInit, TypeStep, PTL DEF PeerManagerSpec

-----------------------------------------------------------------------------
(***************************************************************************)
(* Where a connection is.  Until Run has registered it, it waits before or *)
(* in the channel, in one place; wherever it is, its read loop runs or     *)
(* ended early.  So one that is in no place is not registered later.       *)
(***************************************************************************)
InChannel(c) == \E k \in 1 .. Len(inbound) : inbound[k] = c

PlaceInv ==
    /\ \A c \in Connections :
         /\ conn[c].handler = "handing" \/ InChannel(c) \/ c \in peers =>
               conn[c].reader = "reading" \/ conn[c].early
         /\ conn[c].handler = "greeting" =>
               conn[c].reader = "none" /\ ~conn[c].early /\ conn[c].url = Accepted
         /\ conn[c].handler # "none" => ~InChannel(c) /\ c \notin peers
         /\ InChannel(c) => c \notin peers
         /\ conn[c].reader = "reading" =>
               conn[c].handler = "handing" \/ InChannel(c) \/ c \in peers
         /\ c \in peers /\ ~running => conn[c].done
    /\ \A j, k \in 1 .. Len(inbound) : inbound[j] = inbound[k] => j = k

\* A step that leaves the channel alone: what is to be shown of the connection it changes.
LEMMA PlaceOfOne ==
    ASSUME TypeInv, PlaceInv, TypeInv', inbound' = inbound, running' = running, NEW c \in Connections,
           \A d \in Connections \ {c} : conn'[d] = conn[d] /\ (d \in peers' <=> d \in peers),
           /\ conn'[c].handler = "handing" \/ InChannel(c) \/ c \in peers' =>
                 conn'[c].reader = "reading" \/ conn'[c].early
           /\ conn'[c].handler = "greeting" =>
                 conn'[c].reader = "none" /\ ~conn'[c].early /\ conn'[c].url = Accepted
           /\ conn'[c].handler # "none" => ~InChannel(c) /\ c \notin peers'
           /\ InChannel(c) => c \notin peers'
           /\ conn'[c].reader = "reading" =>
                 conn'[c].handler = "handing" \/ InChannel(c) \/ c \in peers'
           /\ c \in peers' /\ ~running => conn'[c].done
    PROVE  PlaceInv'
  <1>1. \A d \in Connections : InChannel(d)' <=> InChannel(d)
    BY DEF InChannel
  <1>2. (\A j, k \in 1 .. Len(inbound) : inbound[j] = inbound[k] => j = k)'
    BY DEF PlaceInv
  <1> QED BY <1>1, <1>2 DEF PlaceInv

\* A connection that nothing refers to is in no place.
LEMMA FreshIsNowhere ==
    ASSUME PlaceInv, NEW c \in Connections, conn[c] = NoConnection
    PROVE  ~InChannel(c) /\ c \notin peers
  BY NoConnectionFacts DEF PlaceInv

LEMMA PlaceInit == PeerManagerInit => PlaceInv
  <1> SUFFICES ASSUME PeerManagerInit PROVE PlaceInv
    OBVIOUS
  <1>1. Len(inbound) = 0 /\ peers = {}
    BY DEF PeerManagerInit
  <1>2. \A c \in Connections : ~InChannel(c) /\ c \notin peers
    BY <1>1 DEF InChannel
  <1>3. \A c \in Connections : conn[c].handler = "none" /\ conn[c].reader = "none"
    BY NoConnectionFacts DEF PeerManagerInit
  <1> QED BY <1>1, <1>2, <1>3 DEF PlaceInv

LEMMA PlaceStep == TypeInv /\ TypeInv' /\ PlaceInv /\ [PeerManagerNext]_pmVars => PlaceInv'
  <1> SUFFICES ASSUME TypeInv, TypeInv', PlaceInv, [PeerManagerNext]_pmVars PROVE PlaceInv'
    OBVIOUS
  <1>0. /\ inbound \in Seq(Connections)
        /\ peers \subseteq Connections
        /\ conn \in [Connections -> ConnRecords]
    BY TypeParts DEF TypeInv
  <1>1. CASE UNCHANGED <<inbound, peers, conn, running>>
    <2>1. \A d \in Connections : InChannel(d)' <=> InChannel(d)
      BY <1>1 DEF InChannel
    <2>2. (\A j, k \in 1 .. Len(inbound) : inbound[j] = inbound[k] => j = k)'
      BY <1>1 DEF PlaceInv
    <2> QED BY <1>1, <2>1, <2>2 DEF PlaceInv
  <1>2. CASE AddPeer
    <2> DEFINE h == Head(inbound)
    <2>1. /\ h \in Connections /\ h = inbound[1] /\ 1 \in 1 .. Len(inbound)
          /\ peers' = peers \cup {h} /\ conn' = conn /\ running
          /\ running' = running /\ inbound' = Tail(inbound)
      BY <1>0, <1>2 DEF AddPeer
    <2>2. /\ Len(inbound') = Len(inbound) - 1
          /\ \A k \in 1 .. Len(inbound') : inbound'[k] = inbound[k + 1] /\ k + 1 \in 1 .. Len(inbound)
      BY <1>0, <2>1
    <2>3. \A d \in Connections : InChannel(d)' => InChannel(d) /\ d # h
      BY <1>0, <2>1, <2>2 DEF InChannel, PlaceInv
    <2>4. \A d \in Connections : InChannel(d) => InChannel(d)' \/ d = h
      <3> SUFFICES ASSUME NEW d \in Connections, d # h, NEW k \in 1 .. Len(inbound), inbound[k] = d
                   PROVE  InChannel(d)'
        BY DEF InChannel
      <3>1. k # 1
        BY <2>1
      <3>2. Len(inbound) \in Nat
        BY <1>0
      <3>3. k - 1 \in 1 .. Len(inbound') /\ (k - 1) + 1 = k
        BY <2>2, <3>1, <3>2
      <3> QED BY ZenonT(30), <2>2, <3>3 DEF InChannel
    <2>5. InChannel(h)
      BY <2>1 DEF InChannel
    <2>6. \A j, k \in 1 .. Len(inbound') : inbound'[j] = inbound'[k] => j = k
      <3> SUFFICES ASSUME NEW j \in 1 .. Len(inbound'), NEW k \in 1 .. Len(inbound'),
                          inbound'[j] = inbound'[k]
                   PROVE  j = k
        OBVIOUS
      <3>1. j + 1 = k + 1
        BY <2>2 DEF PlaceInv
      <3> QED BY <3>1
    <2> HIDE DEF h
    <2> QED BY <2>1, <2>3, <2>4, <2>5, <2>6 DEF PlaceInv
  <1>3. CASE Cleanup
    <2>1. \A d \in Connections : InChannel(d)' <=> InChannel(d)
      BY <1>3 DEF InChannel, Cleanup
    <2>2. (\A j, k \in 1 .. Len(inbound) : inbound[j] = inbound[k] => j = k)'
      BY <1>3 DEF PlaceInv, Cleanup
    <2>3. peers' = peers
      BY <1>3 DEF Cleanup
    <2> QED BY <1>0, <1>3, <2>1, <2>2, <2>3, CleanupFacts DEF PlaceInv
  <1>4. ASSUME NEW u \in URLs, NEW c \in Connections, DialSucceeds(u, c)
        PROVE  PlaceInv'
    <2>1. inbound' = inbound /\ peers' = peers /\ running' = running
      BY <1>4 DEF DialSucceeds
    <2> QED BY <1>0, <1>4, <2>1, DialSucceedsFacts, FreshIsNowhere, PlaceOfOne
  <1>5. ASSUME NEW c \in Connections, Admit(c)
        PROVE  PlaceInv'
    <2>1. inbound' = inbound /\ peers' = peers /\ running' = running
      BY <1>5 DEF Admit
    <2> QED BY <1>0, <1>5, <2>1, AdmitFacts, FreshIsNowhere, PlaceOfOne
  <1>6. ASSUME NEW c \in Connections, Greet(c)
        PROVE  PlaceInv'
    <2>1. inbound' = inbound /\ peers' = peers /\ running' = running
          /\ conn[c].handler = "greeting"
      BY <1>6 DEF Greet
    <2>2. ~InChannel(c) /\ c \notin peers
      BY <2>1 DEF PlaceInv
    <2> QED BY <1>0, <1>6, <2>1, <2>2, GreetFacts, NoConnectionFacts, PlaceOfOne
  <1>7. ASSUME NEW c \in Connections, HandOver(c)
        PROVE  PlaceInv'
    <2>1. /\ peers' = peers /\ running' = running /\ conn[c].handler = "handing"
          /\ inbound' = Append(inbound, c)
      BY <1>7 DEF HandOver
    <2>2. /\ Len(inbound') = Len(inbound) + 1
          /\ \A k \in 1 .. Len(inbound) : inbound'[k] = inbound[k]
          /\ inbound'[Len(inbound) + 1] = c
          /\ Len(inbound) \in Nat
      BY <1>0, <2>1
    <2>3. ~InChannel(c) /\ c \notin peers
      BY <2>1 DEF PlaceInv
    <2>4. \A d \in Connections : InChannel(d)' <=> InChannel(d) \/ d = c
      BY <2>2 DEF InChannel
    <2>5. \A j, k \in 1 .. Len(inbound') : inbound'[j] = inbound'[k] => j = k
      BY <2>2, <2>3 DEF InChannel, PlaceInv
    <2> QED BY <1>0, <1>7, <2>1, <2>3, <2>4, <2>5, HandOverFacts DEF PlaceInv
  <1>8. ASSUME NEW c \in Connections, RemovePeer(c)
        PROVE  PlaceInv'
    <2>1. /\ inbound' = inbound /\ peers' = peers \ {c} /\ running' = running
          /\ conn[c].reader = "reading" /\ conn'[c] = Removed(c)
          /\ \A d \in Connections \ {c} : conn'[d] = conn[d]
      BY <1>0, <1>8 DEF RemovePeer
    <2>2. CASE c \in peers
      <3>1. ~InChannel(c) /\ conn[c].handler = "none"
        BY <1>0, <2>2 DEF PlaceInv
      <3>2. conn'[c].handler = "none" /\ conn'[c].reader # "reading"
        BY <1>0, <2>1, <2>2, <3>1, RemovedFacts, NoConnectionFacts
      <3> QED BY <1>0, <2>1, <3>1, <3>2, PlaceOfOne
    <2>3. CASE c \notin peers
      <3>1. conn'[c].early /\ conn'[c].handler = conn[c].handler /\ conn'[c].reader # "reading"
        BY <1>0, <2>1, <2>3, RemovedFacts
      <3>2. conn[c].handler # "greeting" /\ (conn[c].handler # "none" => ~InChannel(c))
        BY <2>1 DEF PlaceInv
      <3> QED BY ZenonT(30), <1>0, <2>1, <2>3, <3>1, <3>2, PlaceOfOne
    <2> QED BY <2>2, <2>3
  <1>9. ASSUME NEW c \in Connections, Requeue(c)
        PROVE  PlaceInv'
    <2>1. /\ inbound' = inbound /\ peers' = peers /\ running' = running
          /\ conn[c].reader = "removing"
      BY <1>9 DEF Requeue
    <2>2. CASE conn[c].early
      <3>1. /\ conn'[c].early /\ conn'[c].reader = "ended" /\ conn'[c].done = conn[c].done
            /\ conn'[c].handler = conn[c].handler
            /\ \A d \in Connections \ {c} : conn'[d] = conn[d]
        BY <1>0, <1>9, <2>2, RequeueFacts
      <3>2. conn[c].handler # "greeting" /\ (conn[c].handler # "none" => ~InChannel(c) /\ c \notin peers)
            /\ (InChannel(c) => c \notin peers) /\ (c \in peers /\ ~running => conn[c].done)
        BY <2>1 DEF PlaceInv
      <3> QED BY <2>1, <3>1, <3>2, PlaceOfOne
    <2>3. CASE ~conn[c].early
      <3>1. conn'[c] = NoConnection /\ \A d \in Connections \ {c} : conn'[d] = conn[d]
        BY <1>0, <1>9, <2>3, RequeueFacts
      <3>2. ~InChannel(c) /\ c \notin peers
        BY <2>1, <2>3 DEF PlaceInv
      <3> QED BY <2>1, <3>1, <3>2, NoConnectionFacts, PlaceOfOne
    <2> QED BY <2>2, <2>3
  <1>10. ASSUME NEW u \in URLs, AddPeerURL(u) \/ CheckStop(u) \/ DialFails(u)
         PROVE  PlaceInv'
    BY <1>1, <1>10 DEF AddPeerURL, CheckStop, DialFails
  <1>11. CASE Stop \/ StartDialing \/ UNCHANGED pmVars
    BY <1>1, <1>11 DEF Stop, StartDialing, pmVars
  <1> QED BY <1>2, <1>3, <1>4, <1>5, <1>6, <1>7, <1>8, <1>9, <1>10, <1>11
          DEF PeerManagerNext, RunStep, DialStep

\* However registrations lag behind ends, a connection that has ended is still registered
\* only when removePeer ran before addPeer.
THEOREM EndedPeersLeave == PeerManagerSpec => []DeadPeersLeave
  <1>1. TypeInv /\ PlaceInv => DeadPeersLeave
    BY TypeParts DEF TypeInv, PlaceInv, DeadPeersLeave
  <1> QED BY <1>1, TypeInit, TypeStep, PlaceInit, PlaceStep, PTL DEF PeerManagerSpec

\* After Run has returned, a connection that is open is one it had not heard of: cleanup
\* closed the registered ones, and every other one is on its way to the channel or in it.
THEOREM HeardAreClosed == PeerManagerSpec => []OnlyUnheardStayOpen
  <1>1. TypeInv /\ PlaceInv => OnlyUnheardStayOpen
    BY TypeParts DEF TypeInv, PlaceInv, InChannel, OnlyUnheardStayOpen
  <1> QED BY <1>1, TypeInit, TypeStep, PlaceInit, PlaceStep, PTL DEF PeerManagerSpec

-----------------------------------------------------------------------------
(***************************************************************************)
(* A URL as a token: it is to be added, queued, dialled or connected, in   *)
(* one place, and only a manager that has stopped drops it.                *)
(***************************************************************************)
Queued(u) == \E k \in 1 .. Len(outbound) : outbound[k] = u

LiveOn(u, c) == conn[c].url = u /\ conn[c].reader \in {"reading", "removing"}

Connected(u) == \E c \in Connections : LiveOn(u, c)

TokenInv ==
    /\ \A j, k \in 1 .. Len(outbound) : outbound[j] = outbound[k] => j = k
    /\ \A u \in URLs : \A c, d \in Connections : LiveOn(u, c) /\ LiveOn(u, d) => c = d
    /\ \A u \in URLs :
         /\ u \in unadded => ~Queued(u) /\ dial[u].phase = "none" /\ ~Connected(u)
         /\ Queued(u) => dial[u].phase = "none" /\ ~Connected(u)
         /\ dial[u].phase # "none" => ~Connected(u)
         /\ ~stopped => u \in unadded \/ Queued(u) \/ dial[u].phase # "none" \/ Connected(u)

\* A step that moves no token.
LEMMA TokensStay ==
    ASSUME TokenInv, outbound' = outbound, unadded' = unadded, stopped => stopped',
           \A u \in URLs : dial'[u].phase = "none" <=> dial[u].phase = "none",
           \A u \in URLs, c \in Connections : LiveOn(u, c)' <=> LiveOn(u, c)
    PROVE  TokenInv'
  <1>1. \A u \in URLs : (Queued(u)' <=> Queued(u)) /\ (Connected(u)' <=> Connected(u))
    BY DEF Queued, Connected
  <1>2. (\A j, k \in 1 .. Len(outbound) : outbound[j] = outbound[k] => j = k)'
    BY DEF TokenInv
  <1> QED BY ZenonT(30), <1>1, <1>2 DEF TokenInv

\* A URL that is appended to the channel and was not there.
LEMMA Enqueued ==
    ASSUME outbound \in Seq(URLs), NEW u \in URLs, outbound' = Append(outbound, u), ~Queued(u),
           \A j, k \in 1 .. Len(outbound) : outbound[j] = outbound[k] => j = k
    PROVE  /\ \A v \in URLs : Queued(v)' <=> Queued(v) \/ v = u
           /\ \A j, k \in 1 .. Len(outbound') : outbound'[j] = outbound'[k] => j = k
  <1>1. /\ Len(outbound') = Len(outbound) + 1
        /\ \A k \in 1 .. Len(outbound) : outbound'[k] = outbound[k]
        /\ outbound'[Len(outbound) + 1] = u
        /\ Len(outbound) \in Nat
    OBVIOUS
  <1> QED BY <1>1 DEF Queued

LEMMA TokenInit == PeerManagerInit => TokenInv
  <1> SUFFICES ASSUME PeerManagerInit PROVE TokenInv
    OBVIOUS
  <1>1. Len(outbound) = 0 /\ unadded = URLs
    BY DEF PeerManagerInit
  <1>2. \A u \in URLs : dial[u].phase = "none"
    BY DEF PeerManagerInit
  <1>3. \A u \in URLs : ~Queued(u)
    BY <1>1 DEF Queued
  <1>4. \A u \in URLs, c \in Connections : ~LiveOn(u, c)
    BY NoConnectionFacts DEF PeerManagerInit, LiveOn
  <1>5. \A u \in URLs : ~Connected(u)
    BY <1>4 DEF Connected
  <1> QED BY <1>1, <1>2, <1>3, <1>4, <1>5 DEF TokenInv

LEMMA TokenStep ==
    TypeInv /\ PlaceInv /\ TokenInv /\ [PeerManagerNext]_pmVars => TokenInv'
  <1> SUFFICES ASSUME TypeInv, PlaceInv, TokenInv, [PeerManagerNext]_pmVars PROVE TokenInv'
    OBVIOUS
  <1>0. /\ outbound \in Seq(URLs)
        /\ dial \in [URLs -> DialRecords]
        /\ conn \in [Connections -> ConnRecords]
        /\ \A c \in Connections : conn[c].reader = "removing" => conn[c].url # Accepted
        /\ Accepted \notin URLs
    BY TypeParts, PeerManagerAssumption DEF TypeInv
  <1>1. ASSUME NEW u \in URLs, AddPeerURL(u)
        PROVE  TokenInv'
    <2>1. /\ u \in unadded /\ unadded' = unadded \ {u} /\ outbound' = Append(outbound, u)
          /\ dial' = dial /\ conn' = conn /\ stopped' = stopped
      BY <1>1 DEF AddPeerURL
    <2>2. /\ \A v \in URLs : Queued(v)' <=> Queued(v) \/ v = u
          /\ \A j, k \in 1 .. Len(outbound') : outbound'[j] = outbound'[k] => j = k
      BY <1>0, <2>1, Enqueued DEF TokenInv
    <2>3. \A v \in URLs : (Connected(v)' <=> Connected(v)) /\
                           \A c \in Connections : LiveOn(v, c)' <=> LiveOn(v, c)
      BY <2>1 DEF Connected, LiveOn
    <2> QED BY ZenonT(30), <2>1, <2>2, <2>3 DEF TokenInv
  <1>2. CASE StartDialing
    <2> DEFINE h == Head(outbound)
    <2>1. /\ h \in URLs /\ h = outbound[1] /\ 1 \in 1 .. Len(outbound)
          /\ outbound' = Tail(outbound)
          /\ unadded' = unadded /\ conn' = conn /\ stopped' = stopped
      BY <1>0, <1>2 DEF StartDialing
    <2>2. /\ Len(outbound') = Len(outbound) - 1 /\ Len(outbound) \in Nat
          /\ \A k \in 1 .. Len(outbound') : outbound'[k] = outbound[k + 1] /\ k + 1 \in 1 .. Len(outbound)
      BY <1>0, <2>1
    <2>3. dial'[h].phase = "check" /\ \A v \in URLs \ {h} : dial'[v] = dial[v]
      BY <1>0, <1>2, <2>1 DEF StartDialing
    <2>4. \A v \in URLs : Queued(v)' => Queued(v) /\ v # h
      BY <2>1, <2>2 DEF Queued, TokenInv
    <2>5. \A v \in URLs : Queued(v) => Queued(v)' \/ v = h
      <3> SUFFICES ASSUME NEW v \in URLs, v # h, NEW k \in 1 .. Len(outbound), outbound[k] = v
                   PROVE  Queued(v)'
        BY DEF Queued
      <3>1. k # 1
        BY <2>1
      <3>2. k - 1 \in 1 .. Len(outbound') /\ (k - 1) + 1 = k
        BY <2>2, <3>1
      <3> QED BY ZenonT(30), <2>2, <3>2 DEF Queued
    <2>6. Queued(h)
      BY <2>1 DEF Queued
    <2>7. \A j, k \in 1 .. Len(outbound') : outbound'[j] = outbound'[k] => j = k
      <3> SUFFICES ASSUME NEW j \in 1 .. Len(outbound'), NEW k \in 1 .. Len(outbound'),
                          outbound'[j] = outbound'[k]
                   PROVE  j = k
        OBVIOUS
      <3>1. j + 1 = k + 1
        BY <2>2 DEF TokenInv
      <3> QED BY <3>1
    <2>8. \A v \in URLs : (Connected(v)' <=> Connected(v)) /\
                           \A c \in Connections : LiveOn(v, c)' <=> LiveOn(v, c)
      BY <2>1 DEF Connected, LiveOn
    <2> HIDE DEF h
    <2>9. \A v \in URLs :
            /\ v \in unadded' => ~Queued(v)' /\ dial'[v].phase = "none" /\ ~Connected(v)'
            /\ Queued(v)' => dial'[v].phase = "none" /\ ~Connected(v)'
            /\ dial'[v].phase # "none" => ~Connected(v)'
            /\ ~stopped' => \/ v \in unadded' \/ Queued(v)'
                            \/ dial'[v].phase # "none" \/ Connected(v)'
      <3> SUFFICES ASSUME NEW v \in URLs
                   PROVE  /\ v \in unadded' => ~Queued(v)' /\ dial'[v].phase = "none" /\ ~Connected(v)'
                          /\ Queued(v)' => dial'[v].phase = "none" /\ ~Connected(v)'
                          /\ dial'[v].phase # "none" => ~Connected(v)'
                          /\ ~stopped' => \/ v \in unadded' \/ Queued(v)'
                                          \/ dial'[v].phase # "none" \/ Connected(v)'
        OBVIOUS
      <3>1. CASE v = h
        BY <2>1, <2>3, <2>4, <2>6, <2>8, <3>1 DEF TokenInv
      <3>2. CASE v # h
        BY <2>1, <2>3, <2>4, <2>5, <2>8, <3>2 DEF TokenInv
      <3> QED BY <3>1, <3>2
    <2> QED BY ZenonT(30), <2>7, <2>8, <2>9 DEF TokenInv
  <1>3. ASSUME NEW u \in URLs, CheckStop(u) \/ DialFails(u)
        PROVE  TokenInv'
    <2>1. /\ outbound' = outbound /\ unadded' = unadded /\ conn' = conn /\ stopped' = stopped
      BY <1>3 DEF CheckStop, DialFails
    <2>2. \A v \in URLs : dial'[v].phase = "none" <=> dial[v].phase = "none"
      BY ZenonT(30), <1>0, <1>3 DEF CheckStop, DialFails, DialRecords
    <2> QED BY <2>1, <2>2, TokensStay DEF LiveOn
  <1>4. ASSUME NEW u \in URLs, NEW c \in Connections, DialSucceeds(u, c)
        PROVE  TokenInv'
    <2>1. /\ outbound' = outbound /\ unadded' = unadded /\ stopped' = stopped
          /\ dial[u].phase = "dialing" /\ dial'[u].phase = "none"
          /\ \A v \in URLs \ {u} : dial'[v] = dial[v]
      BY <1>0, <1>4 DEF DialSucceeds
    <2>2. ~Connected(u) /\ ~Queued(u) /\ u \notin unadded
      BY ZenonT(30), <2>1 DEF TokenInv
    <2>3. \A v \in URLs, d \in Connections : LiveOn(v, d)' <=> LiveOn(v, d) \/ (v = u /\ d = c)
      BY <1>0, <1>4, DialSucceedsFacts, NoConnectionFacts DEF LiveOn
    <2>4. \A v \in URLs : Connected(v)' <=> Connected(v) \/ v = u
      BY <2>3 DEF Connected
    <2>5. \A v \in URLs : Queued(v)' <=> Queued(v)
      BY <2>1 DEF Queued
    <2>6. \A v \in URLs : \A d, e \in Connections : LiveOn(v, d)' /\ LiveOn(v, e)' => d = e
      BY <2>2, <2>3 DEF TokenInv, Connected
    <2>7. (\A j, k \in 1 .. Len(outbound) : outbound[j] = outbound[k] => j = k)'
      BY ZenonT(30), <2>1 DEF TokenInv
    <2> QED BY <2>1, <2>2, <2>4, <2>5, <2>6, <2>7 DEF TokenInv
  <1>5. ASSUME NEW c \in Connections, Requeue(c)
        PROVE  TokenInv'
    <2> DEFINE u == conn[c].url
    <2>1. /\ unadded' = unadded /\ stopped' = stopped /\ dial' = dial
          /\ u \in URLs /\ LiveOn(u, c)
      BY <1>0, <1>5 DEF Requeue, LiveOn, ConnRecords
    <2>2. \A v \in URLs, d \in Connections : LiveOn(v, d)' <=> LiveOn(v, d) /\ d # c
      BY <1>0, <1>5, RequeueFacts DEF LiveOn
    <2>3. \A v \in URLs \ {u} : ~LiveOn(v, c)
      BY DEF LiveOn
    <2>4. Connected(u)
      BY <2>1 DEF Connected
    <2>5. \A v \in URLs : Connected(v)' <=> Connected(v) /\ v # u
      BY <2>1, <2>2, <2>3 DEF Connected, TokenInv
    <2>6. u \notin unadded /\ dial[u].phase = "none" /\ ~Queued(u)
      BY <2>1, <2>4 DEF TokenInv
    <2>7. CASE stopped /\ outbound' = outbound
      <3>1. \A v \in URLs : Queued(v)' <=> Queued(v)
        BY <2>7 DEF Queued
      <3>2. (\A j, k \in 1 .. Len(outbound) : outbound[j] = outbound[k] => j = k)'
        BY <2>7 DEF TokenInv
      <3> HIDE DEF u
      <3> QED BY ZenonT(30), <2>1, <2>2, <2>5, <2>7, <3>1, <3>2 DEF TokenInv
    <2>8. CASE outbound' = Append(outbound, u)
      <3>1. /\ \A v \in URLs : Queued(v)' <=> Queued(v) \/ v = u
            /\ \A j, k \in 1 .. Len(outbound') : outbound'[j] = outbound'[k] => j = k
        BY ZenonT(30), <1>0, <2>1, <2>6, <2>8, Enqueued DEF TokenInv
      <3> HIDE DEF u
      <3> QED BY ZenonT(30), <2>1, <2>2, <2>5, <2>6, <3>1 DEF TokenInv
    <2> QED BY <1>5, <2>7, <2>8 DEF Requeue
  <1>6. ASSUME NEW c \in Connections, Admit(c)
        PROVE  TokenInv'
    <2>1. outbound' = outbound /\ unadded' = unadded /\ stopped' = stopped /\ dial' = dial
      BY <1>6 DEF Admit
    <2>2. \A v \in URLs, d \in Connections : LiveOn(v, d)' <=> LiveOn(v, d)
      BY <1>0, <1>6, AdmitFacts, NoConnectionFacts DEF LiveOn
    <2> QED BY <2>1, <2>2, TokensStay
  <1>7. ASSUME NEW c \in Connections, Greet(c)
        PROVE  TokenInv'
    <2>1. outbound' = outbound /\ unadded' = unadded /\ stopped' = stopped /\ dial' = dial
          /\ conn[c].url = Accepted
      BY <1>7 DEF Greet, PlaceInv
    <2>2. \A v \in URLs, d \in Connections : LiveOn(v, d)' <=> LiveOn(v, d)
      BY <1>0, <1>7, <2>1, GreetFacts, NoConnectionFacts DEF LiveOn
    <2> QED BY <2>1, <2>2, TokensStay
  <1>8. ASSUME NEW c \in Connections, HandOver(c)
        PROVE  TokenInv'
    <2>1. outbound' = outbound /\ unadded' = unadded /\ stopped' = stopped /\ dial' = dial
      BY <1>8 DEF HandOver
    <2>2. \A v \in URLs, d \in Connections : LiveOn(v, d)' <=> LiveOn(v, d)
      BY <1>0, <1>8, HandOverFacts DEF LiveOn
    <2> QED BY <2>1, <2>2, TokensStay
  <1>9. ASSUME NEW c \in Connections, RemovePeer(c)
        PROVE  TokenInv'
    <2>1. outbound' = outbound /\ unadded' = unadded /\ stopped' = stopped /\ dial' = dial
      BY <1>9 DEF RemovePeer
    <2>2. \A v \in URLs, d \in Connections : LiveOn(v, d)' <=> LiveOn(v, d)
      BY ZenonT(30), <1>0, <1>9, RemovedFacts DEF LiveOn, RemovePeer
    <2> QED BY <2>1, <2>2, TokensStay
  <1>10. CASE Cleanup
    <2>1. outbound' = outbound /\ unadded' = unadded /\ stopped' = stopped /\ dial' = dial
      BY <1>10 DEF Cleanup
    <2>2. \A v \in URLs, d \in Connections : LiveOn(v, d)' <=> LiveOn(v, d)
      BY <1>0, <1>10, CleanupFacts DEF LiveOn
    <2> QED BY ZenonT(30), <2>1, <2>2, TokensStay
  <1>11. CASE Stop \/ AddPeer \/ UNCHANGED pmVars
    BY <1>11, TokensStay DEF Stop, AddPeer, pmVars, LiveOn
  <1> QED BY <1>1, <1>2, <1>3, <1>4, <1>5, <1>6, <1>7, <1>8, <1>9, <1>10, <1>11
          DEF PeerManagerNext, RunStep, DialStep

LEMMA CountOfAtMostOne ==
    ASSUME NEW S, \A a, b \in S : a = b
    PROVE  Cardinality(S) = IF S = {} THEN 0 ELSE 1
  <1>1. CASE S = {}
    BY <1>1, FS_EmptySet
  <1>2. CASE S # {}
    <2>1. PICK a : a \in S
      BY <1>2
    <2>2. S = {a}
      BY <2>1
    <2> QED BY <1>2, <2>2, FS_Singleton
  <1> QED BY <1>1, <1>2

\* However connections end, channels fill and registrations lag, no configured URL is lost
\* by dialPeer and removePeer, and none is dialled or connected twice.
THEOREM NoURLLostOrDoubled == PeerManagerSpec => []EachURLOnce
  <1>1. TypeInv /\ TokenInv => EachURLOnce
    <2> SUFFICES ASSUME TypeInv, TokenInv, NEW u \in URLs
                 PROVE  Places(u) <= 1 /\ (Places(u) = 0 => stopped)
      BY DEF EachURLOnce
    <2>1. Cardinality({k \in 1 .. Len(outbound) : outbound[k] = u}) = IF Queued(u) THEN 1 ELSE 0
      <3>1. \A j, k \in {i \in 1 .. Len(outbound) : outbound[i] = u} : j = k
        BY DEF TokenInv
      <3> QED BY ZenonT(30), <3>1, CountOfAtMostOne DEF Queued
    <2>2. Cardinality(Live(u)) = IF Connected(u) THEN 1 ELSE 0
      <3>1. \A c, d \in Live(u) : c = d
        BY ZenonT(30) DEF TokenInv, Live, LiveOn
      <3>2. Live(u) = {} <=> ~Connected(u)
        BY DEF Live, Connected, LiveOn
      <3> QED BY <3>1, <3>2, CountOfAtMostOne
    <2> QED BY <2>1, <2>2 DEF Places, TokenInv
  <1> QED BY <1>1, TypeInit, TypeStep, PlaceInit, PlaceStep, TokenInit, TokenStep, PTL DEF PeerManagerSpec

-----------------------------------------------------------------------------
(***************************************************************************)
(* The limit on peers.  An accepted connection is counted from its         *)
(* admission on, wherever it is; only Admit adds one, and what it looks at *)
(* bounds all the places.                                                  *)
(***************************************************************************)
Counted == {c \in Connections : /\ conn[c].url = Accepted
                                /\ conn[c].handler # "none" \/ InChannel(c) \/ c \in peers}

LimitInv == Cardinality(Counted) <= MaxFederationPeers - 1 + MaxFederationConns + ChannelCapacity

InboundSet == {inbound[k] : k \in 1 .. Len(inbound)}

LEMMA InboundCount ==
    ASSUME inbound \in Seq(Connections)
    PROVE  IsFiniteSet(InboundSet) /\ Cardinality(InboundSet) <= Len(inbound)
  <1> DEFINE f == [k \in 1 .. Len(inbound) |-> inbound[k]]
  <1>1. f \in Surjection(1 .. Len(inbound), InboundSet)
    BY DEF InboundSet, Surjection
  <1>2. Len(inbound) \in Nat
    OBVIOUS
  <1>3. IsFiniteSet(1 .. Len(inbound)) /\ Cardinality(1 .. Len(inbound)) = Len(inbound)
    BY SMTT(30), <1>2, FS_Interval
  <1> HIDE DEF f
  <1> QED BY <1>1, <1>3, FS_Surjection

LEMMA CountOfUnion ==
    ASSUME NEW S, IsFiniteSet(S), NEW T, IsFiniteSet(T)
    PROVE  /\ IsFiniteSet(S \cup T)
           /\ Cardinality(S \cup T) \in Nat
           /\ Cardinality(S \cup T) <= Cardinality(S) + Cardinality(T)
  <1>1. IsFiniteSet(S \cap T)
    BY FS_Subset
  <1>2. /\ Cardinality(S) \in Nat /\ Cardinality(T) \in Nat
        /\ Cardinality(S \cap T) \in Nat
    BY <1>1, FS_CardinalityType
  <1>3. IsFiniteSet(S \cup T)
        /\ Cardinality(S \cup T) = Cardinality(S) + Cardinality(T) - Cardinality(S \cap T)
    BY FS_Union
  <1>4. Cardinality(S \cup T) \in Nat
    BY <1>3, FS_CardinalityType
  <1> QED BY <1>2, <1>3, <1>4

\* A step that counts no further connection.
LEMMA CountShrinks ==
    ASSUME LimitInv, Counted' \subseteq Counted
    PROVE  LimitInv'
  <1>1. IsFiniteSet(Counted)
    BY FS_Subset, PeerManagerAssumption DEF Counted
  <1>2. /\ Cardinality(Counted) \in Nat /\ Cardinality(Counted') \in Nat
        /\ Cardinality(Counted') <= Cardinality(Counted)
    BY <1>1, FS_Subset, FS_CardinalityType
  <1> QED BY <1>2, PeerManagerAssumption DEF LimitInv

LEMMA LimitInit == PeerManagerInit => LimitInv
  <1> SUFFICES ASSUME PeerManagerInit PROVE LimitInv
    OBVIOUS
  <1>1. Len(inbound) = 0 /\ peers = {} /\ \A c \in Connections : conn[c].handler = "none"
    BY NoConnectionFacts DEF PeerManagerInit
  <1>2. Counted = {}
    BY <1>1 DEF Counted, InChannel
  <1> QED BY <1>2, FS_EmptySet, PeerManagerAssumption DEF LimitInv

LEMMA LimitStep ==
    TypeInv /\ PlaceInv /\ LimitInv /\ [PeerManagerNext]_pmVars => LimitInv'
  <1> SUFFICES ASSUME TypeInv, PlaceInv, LimitInv, [PeerManagerNext]_pmVars PROVE LimitInv'
    OBVIOUS
  <1>0. /\ inbound \in Seq(Connections) /\ Len(inbound) <= ChannelCapacity
        /\ peers \subseteq Connections
        /\ conn \in [Connections -> ConnRecords]
        /\ \A c \in Connections : conn[c].reader = "removing" => conn[c].url # Accepted
        /\ Accepted \notin URLs
    BY TypeParts, PeerManagerAssumption DEF TypeInv
  <1>1. ASSUME NEW c \in Connections, Admit(c)
        PROVE  LimitInv'
    <2>1. /\ inbound' = inbound /\ peers' = peers
          /\ Cardinality(peers) < MaxFederationPeers
          /\ Cardinality(InHandler) < MaxFederationConns
      BY <1>1 DEF Admit
    <2>2. Counted' \subseteq Counted \cup {c}
      BY <1>0, <1>1, <2>1, AdmitFacts DEF Counted, InChannel
    <2>3. Counted \subseteq (peers \cup InHandler) \cup InboundSet
      BY DEF Counted, InHandler, InboundSet, InChannel
    <2>4. IsFiniteSet(peers) /\ IsFiniteSet(InHandler)
      BY <1>0, FS_Subset, PeerManagerAssumption DEF InHandler
    <2>5. /\ Cardinality(peers) \in Nat /\ Cardinality(InHandler) \in Nat
          /\ Cardinality(InboundSet) \in Nat /\ Len(inbound) \in Nat
      BY <1>0, <2>4, InboundCount, FS_CardinalityType
    <2>6. /\ IsFiniteSet((peers \cup InHandler) \cup InboundSet)
          /\ Cardinality((peers \cup InHandler) \cup InboundSet)
                <= Cardinality(peers) + Cardinality(InHandler) + Cardinality(InboundSet)
          /\ Cardinality((peers \cup InHandler) \cup InboundSet) \in Nat
      <3>1. /\ IsFiniteSet(peers \cup InHandler) /\ Cardinality(peers \cup InHandler) \in Nat
            /\ Cardinality(peers \cup InHandler) <= Cardinality(peers) + Cardinality(InHandler)
        BY <2>4, CountOfUnion
      <3>2. /\ IsFiniteSet((peers \cup InHandler) \cup InboundSet)
            /\ Cardinality((peers \cup InHandler) \cup InboundSet) \in Nat
            /\ Cardinality((peers \cup InHandler) \cup InboundSet)
                 <= Cardinality(peers \cup InHandler) + Cardinality(InboundSet)
        BY ZenonT(30), <1>0, <3>1, InboundCount, CountOfUnion
      <3> QED BY <2>5, <3>1, <3>2
    <2>7. /\ IsFiniteSet(Counted) /\ Cardinality(Counted) \in Nat
          /\ Cardinality(Counted) <= Cardinality((peers \cup InHandler) \cup InboundSet)
      BY <2>3, <2>6, FS_Subset, FS_CardinalityType
    <2>8. /\ IsFiniteSet(Counted \cup {c}) /\ Cardinality(Counted \cup {c}) \in Nat
          /\ Cardinality(Counted \cup {c}) <= Cardinality(Counted) + 1
      <3>1. /\ IsFiniteSet(Counted \cup {c})
            /\ Cardinality(Counted \cup {c}) = IF c \in Counted THEN Cardinality(Counted)
                                                ELSE Cardinality(Counted) + 1
        BY <2>7, FS_AddElement
      <3> QED BY <2>7, <3>1
    <2>9. Cardinality(Counted') \in Nat /\ Cardinality(Counted') <= Cardinality(Counted \cup {c})
      BY <2>2, <2>8, FS_Subset, FS_CardinalityType
    <2>10. Cardinality(InboundSet) <= ChannelCapacity
      BY <1>0, <2>5, InboundCount, PeerManagerAssumption
    <2> QED BY SMTT(30), <2>1, <2>5, <2>6, <2>7, <2>8, <2>9, <2>10, PeerManagerAssumption DEF LimitInv
  <1>2. CASE AddPeer
    <2>1. /\ conn' = conn /\ peers' = peers \cup {Head(inbound)} /\ inbound' = Tail(inbound)
          /\ inbound # <<>>
      BY <1>2 DEF AddPeer
    <2>2. \A k \in 1 .. Len(inbound') : inbound'[k] = inbound[k + 1] /\ k + 1 \in 1 .. Len(inbound)
      BY <1>0, <2>1
    <2>3. InChannel(Head(inbound))
      BY <1>0, <2>1 DEF InChannel
    <2>4. \A d \in Connections : InChannel(d)' => InChannel(d)
      BY <2>2 DEF InChannel
    <2>5. Counted' \subseteq Counted
      BY <2>1, <2>3, <2>4 DEF Counted
    <2> QED BY <2>5, CountShrinks
  <1>3. CASE Cleanup
    <2>1. Counted' \subseteq Counted
      BY <1>0, <1>3, CleanupFacts DEF Counted, InChannel, Cleanup
    <2> QED BY <2>1, CountShrinks
  <1>4. ASSUME NEW u \in URLs, NEW c \in Connections, DialSucceeds(u, c)
        PROVE  LimitInv'
    <2>1. inbound' = inbound /\ peers' = peers
      BY <1>4 DEF DialSucceeds
    <2>2. Counted' \subseteq Counted
      BY <1>0, <1>4, <2>1, DialSucceedsFacts DEF Counted, InChannel
    <2> QED BY <2>2, CountShrinks
  <1>5. ASSUME NEW c \in Connections, Greet(c)
        PROVE  LimitInv'
    <2>1. inbound' = inbound /\ peers' = peers /\ conn[c].handler = "greeting"
          /\ conn[c].url = Accepted
      BY <1>5 DEF Greet, PlaceInv
    <2>2. Counted' \subseteq Counted
      BY <1>0, <1>5, <2>1, GreetFacts DEF Counted, InChannel
    <2> QED BY <2>2, CountShrinks
  <1>6. ASSUME NEW c \in Connections, HandOver(c)
        PROVE  LimitInv'
    <2>1. peers' = peers /\ inbound' = Append(inbound, c) /\ conn[c].handler = "handing"
      BY <1>6 DEF HandOver
    <2>2. /\ Len(inbound') = Len(inbound) + 1
          /\ \A k \in 1 .. Len(inbound) : inbound'[k] = inbound[k]
          /\ inbound'[Len(inbound) + 1] = c
          /\ Len(inbound) \in Nat
      BY <1>0, <2>1
    <2>3. \A d \in Connections : InChannel(d)' => InChannel(d) \/ d = c
      BY <2>2 DEF InChannel
    <2>4. Counted' \subseteq Counted
      BY <1>0, <1>6, <2>1, <2>3, HandOverFacts DEF Counted
    <2> QED BY <2>4, CountShrinks
  <1>7. ASSUME NEW c \in Connections, RemovePeer(c)
        PROVE  LimitInv'
    <2>1. /\ inbound' = inbound /\ peers' = peers \ {c} /\ conn'[c] = Removed(c)
          /\ \A d \in Connections \ {c} : conn'[d] = conn[d]
      BY <1>0, <1>7 DEF RemovePeer
    <2>2. \A d \in Connections : InChannel(d)' <=> InChannel(d)
      BY <2>1 DEF InChannel
    <2>3. conn'[c].url = Accepted /\ conn'[c].handler # "none" => c \in Counted
      BY ZenonT(30), <1>0, <2>1, RemovedFacts, NoConnectionFacts DEF Counted
    <2>4. conn'[c].url = Accepted => conn[c].url = Accepted
      BY ZenonT(30), <1>0, <2>1, RemovedFacts
    <2>5. Counted' \subseteq Counted
      BY ZenonT(30), <2>1, <2>2, <2>3, <2>4 DEF Counted
    <2> QED BY <2>5, CountShrinks
  <1>8. ASSUME NEW c \in Connections, Requeue(c)
        PROVE  LimitInv'
    <2>1. inbound' = inbound /\ peers' = peers /\ conn[c].reader = "removing"
          /\ conn[c].url # Accepted
      BY <1>0, <1>8 DEF Requeue
    <2>2. \A d \in Connections : InChannel(d)' <=> InChannel(d)
      BY <2>1 DEF InChannel
    <2>3. c \notin Counted'
      <3>1. CASE conn[c].early
        BY ZenonT(30), <1>0, <1>8, <2>1, <3>1, RequeueFacts DEF Counted
      <3>2. CASE ~conn[c].early
        <4>1. ~InChannel(c) /\ c \notin peers
          BY ZenonT(30), <2>1, <3>2 DEF PlaceInv
        <4> QED BY ZenonT(30), <1>0, <1>8, <2>1, <2>2, <3>2, <4>1, RequeueFacts, NoConnectionFacts DEF Counted
      <3> QED BY <3>1, <3>2
    <2>4. Counted' \subseteq Counted
      BY ZenonT(30), <1>0, <1>8, <2>1, <2>2, <2>3, RequeueFacts DEF Counted
    <2> QED BY <2>4, CountShrinks
  <1>9. CASE UNCHANGED <<inbound, peers, conn>>
    BY <1>9, CountShrinks DEF Counted, InChannel
  <1>10. ASSUME NEW u \in URLs, AddPeerURL(u) \/ CheckStop(u) \/ DialFails(u)
         PROVE  LimitInv'
    BY <1>9, <1>10 DEF AddPeerURL, CheckStop, DialFails
  <1>11. CASE Stop \/ StartDialing \/ UNCHANGED pmVars
    BY <1>9, <1>11 DEF Stop, StartDialing, pmVars
  <1> QED BY <1>1, <1>2, <1>3, <1>4, <1>5, <1>6, <1>7, <1>8, <1>10, <1>11
          DEF PeerManagerNext, RunStep, DialStep

\* Requests that looked at the number of peers before earlier ones were registered exceed
\* MaxFederationPeers by no more than the semaphore and the channel hold.
THEOREM PeersAreLimited == PeerManagerSpec => []PeerLimit
  <1>1. TypeInv /\ LimitInv => PeerLimit
    <2> SUFFICES ASSUME TypeInv, LimitInv PROVE PeerLimit
      OBVIOUS
    <2>1. IsFiniteSet(Counted)
      BY FS_Subset, PeerManagerAssumption DEF Counted
    <2>2. {c \in peers : conn[c].url = Accepted} \subseteq Counted
      BY TypeParts DEF TypeInv, Counted
    <2>3. /\ Cardinality({c \in peers : conn[c].url = Accepted}) <= Cardinality(Counted)
          /\ Cardinality({c \in peers : conn[c].url = Accepted}) \in Nat
          /\ Cardinality(Counted) \in Nat
      BY <2>1, <2>2, FS_Subset, FS_CardinalityType
    <2> QED BY <2>3, PeerManagerAssumption DEF LimitInv, PeerLimit
  <1> QED BY <1>1, TypeInit, TypeStep, PlaceInit, PlaceStep, LimitInit, LimitStep, PTL DEF PeerManagerSpec
=============================================================================
