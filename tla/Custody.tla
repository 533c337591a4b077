------------------------------- MODULE Custody -------------------------------
(***************************************************************************)
(* What the relay promises the senders of items, whatever it does inside:  *)
(* an item it has acknowledged stays in its hands until it is due.  No     *)
(* crash, failed call or concurrent session appears here; none may show.   *)
(***************************************************************************)
EXTENDS RelayBase

VARIABLES held,              \* the items the relay holds
          promised           \* objects, items with an expiry, it has acknowledged

custodyVars == <<held, promised, now>>

CustodyObjects == UNION {[id : {i}, expires : Expiries[i]] : i \in ItemIDs}

CustodyInit ==
    /\ held = {}
    /\ promised = {}
    /\ now = 0

TakeUp(i) ==
    /\ held' = held \cup {i}
    /\ UNCHANGED <<promised, now>>

Acknowledge(objects) ==
    /\ \A object \in objects : object.id \in held \/ Due(object.expires)
    /\ promised' = promised \cup objects
    /\ UNCHANGED <<held, now>>

\* Only an item every sender's expiry of which has come may be let go.
LetGo(i) ==
    /\ \A expires \in Expiries[i] : Due(expires)
    /\ held' = held \ {i}
    /\ UNCHANGED <<promised, now>>

CustodyClock == Tick /\ UNCHANGED <<held, promised>>

CustodyNext ==
    \/ \E i \in ItemIDs : TakeUp(i) \/ LetGo(i)
    \/ \E objects \in SUBSET CustodyObjects : Acknowledge(objects)
    \/ CustodyClock

CustodySpec == CustodyInit /\ [][CustodyNext]_custodyVars
=============================================================================
