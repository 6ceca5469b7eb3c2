---------------------------- MODULE ProxyReplies ----------------------------
(***************************************************************************)
(* What the Bluetooth proxy tells its API subscriber about devices and     *)
(* slots (bluetooth_proxy.cpp): connection reports, which are pooled when  *)
(* the API refuses the frame, and the number and addresses of the slots in *)
(* use, sent again until it is accepted.                                   *)
(*                                                                         *)
(* The API accepts or refuses each frame for itself: its send buffer may   *)
(* be full at any time.  With nobody subscribed a frame goes nowhere and   *)
(* counts as sent.  All handlers run on the main loop.                     *)
(***************************************************************************)
EXTENDS Integers, FiniteSets

CONSTANTS
    Slots,  \* the connections registered, BLUETOOTH_PROXY_MAX_CONNECTIONS of them
    Peers,  \* device addresses
    NoOne   \* address 0: the slot is free

ASSUME ProxyAssumption ==
    /\ IsFiniteSet(Slots) /\ Slots # {}
    /\ NoOne \notin Peers

VARIABLES
    subscribed, \* api_connection_ # nullptr
    pool,       \* pending_disconnections_: devices whose end is still to be reported
    free,       \* connections_free_response_.free
    allocated,  \* connections_free_response_.allocated: how often it lists an address
    freeOwed,   \* connections_free_pending_
    told,       \* the subscriber's view: devices it was last told are connected;
                \* "lost" when the report of the end was evicted from the pool
    toldFree    \* and whether what it knows of the slots is up to date

replyVars == <<subscribed, pool, free, allocated, freeOwed, told, toldFree>>

MaxConnections == Cardinality(Slots)
Addresses == Peers \cup {NoOne}

RepliesTypeOK ==
    /\ subscribed \in BOOLEAN
    /\ pool \subseteq Peers
    /\ free \in 0 .. MaxConnections
    /\ allocated \in [Addresses -> Nat]
    /\ freeOwed \in BOOLEAN
    /\ told \in [Peers -> {"down", "up", "lost"}]
    /\ toldFree \in {"never", "current", "old"}

RepliesInit ==
    /\ subscribed = FALSE
    /\ pool = {}
    /\ free = MaxConnections
    /\ allocated = [a \in Addresses |-> IF a = NoOne THEN MaxConnections ELSE 0]
    /\ freeOwed = FALSE
    /\ told = [p \in Peers |-> "down"]
    /\ toldFree = "never"

-----------------------------------------------------------------------------
(* Reports about devices.                                                  *)

TellDown(p) == told' = [told EXCEPT ![p] = "down"]

\* An address whose entry is not one of Peers is that of a freed slot.
TellUp(a) == told' = [p \in Peers |-> IF p = a /\ subscribed THEN "up" ELSE told[p]]

\* The pool keeps one entry per address; a full one loses an entry, the first.
LatchPendingDisconnection(p) ==
    IF p \in pool \/ Cardinality(pool) < MaxConnections
    THEN pool' = pool \cup {p} /\ UNCHANGED told
    ELSE \E v \in pool :
            /\ pool' = (pool \ {v}) \cup {p}
            /\ told' = [told EXCEPT ![v] = IF @ = "up" THEN "lost" ELSE @]

\* Variant: a refused report is dropped.
ReportAtOnce(p) ==
    \/ TellDown(p) /\ pool' = pool \ {p}
    \/ subscribed /\ UNCHANGED <<told, pool>>

\* A refused report is pooled.
SendDeviceDisconnected(p) ==
    \/ TellDown(p) /\ pool' = pool \ {p}
    \/ subscribed /\ LatchPendingDisconnection(p)

\* The answer to a request: never pooled.  owed is what is in the pool by then.
AnswerDeviceDisconnected(p, owed) ==
    \/ TellDown(p) /\ pool' = owed \ {p}
    \/ subscribed /\ pool' = owed /\ UNCHANGED told

-----------------------------------------------------------------------------
(* The slots in use.                                                       *)

\* The first entry that holds address a gets address b.
ReplaceAllocatedSlot(a, b) ==
    allocated' = IF allocated[a] > 0
                 THEN [allocated EXCEPT ![a] = @ - 1, ![b] = @ + 1]
                 ELSE allocated

\* Variant: what was free already counts as freed.
UpdateFreedSlot(old, new) ==
    CASE new = NoOne ->
            /\ free' = free + 1
            /\ ReplaceAllocatedSlot(old, NoOne)
      [] new # NoOne /\ old = NoOne ->
            /\ free' = IF free > 0 THEN free - 1 ELSE free
            /\ ReplaceAllocatedSlot(NoOne, new)
      [] OTHER -> UNCHANGED <<free, allocated>>

\* Variant: a freed slot is not counted.
UpdateTakenSlot(old, new) ==
    IF new # NoOne /\ old = NoOne
    THEN /\ free' = IF free > 0 THEN free - 1 ELSE free
         /\ ReplaceAllocatedSlot(NoOne, new)
    ELSE UNCHANGED <<free, allocated>>

UpdateAddressSlot(old, new) ==
    CASE new = NoOne /\ old # NoOne ->
            /\ free' = IF free < MaxConnections THEN free + 1 ELSE free
            /\ ReplaceAllocatedSlot(old, NoOne)
      [] new # NoOne /\ old = NoOne ->
            /\ free' = IF free > 0 THEN free - 1 ELSE free
            /\ ReplaceAllocatedSlot(NoOne, new)
      [] OTHER -> UNCHANGED <<free, allocated>>

\* What the subscriber knows is out of date.
OutOfDate == IF toldFree = "current" THEN "old" ELSE toldFree

\* Variant: a refused update is not sent again.
SendConnectionsFreeOnce(moved) ==
    \/ toldFree' = (IF subscribed THEN "current" ELSE toldFree) /\ UNCHANGED freeOwed
    \/ /\ subscribed
       /\ toldFree' = IF moved THEN OutOfDate ELSE toldFree
       /\ UNCHANGED freeOwed

\* send_connections_free(), after slots changed hands if moved.
SendConnectionsFree(moved) ==
    \/ toldFree' = (IF subscribed THEN "current" ELSE toldFree) /\ UNCHANGED freeOwed
    \/ /\ subscribed
       /\ toldFree' = IF moved THEN OutOfDate ELSE toldFree
       /\ freeOwed' = TRUE

\* It is sent twice in a handler: the second may be refused after the first landed.
SendConnectionsFreeTwice(moved) ==
    \/ SendConnectionsFree(moved)
    \/ subscribed /\ toldFree' = "current" /\ freeOwed' = TRUE
=============================================================================
