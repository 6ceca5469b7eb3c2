--------------------------- MODULE BluetoothProxy ---------------------------
(***************************************************************************)
(* The Bluetooth proxy (bluetooth_proxy.cpp): one API subscriber drives a  *)
(* fixed number of connection slots.  A request of the client is handled   *)
(* at once; the loop sweeps, streams and sends again what was refused, and *)
(* the backends report in between.  All of it runs on the main loop.       *)
(*                                                                         *)
(* The loop is one action per slot and per owed frame here, so the model   *)
(* has every interleaving of the loop's parts, and more.                   *)
(***************************************************************************)
EXTENDS BluetoothConnection

CONSTANT Requests  \* what clients ask for: a subset of KnownRequests

KnownRequests == {"with cache", "untyped", "services", "services while ending", "operations"}

ASSUME RequestsAssumption == Requests \subseteq KnownRequests

vars == <<replyVars, slotVars, backendVars, clientVars>>

Init == RepliesInit /\ ConnectionInit

SlotsOf(a) == {s \in Slots : slot[s].address = a}

\* Variant: a free slot wins over the one the device has.
ReservableEarly(p) == SlotsOf(p) \cup SlotsOf(NoOne)

\* get_connection_(p, true): its own slot, or else a free one.
Reservable(p) == IF SlotsOf(p) # {} THEN SlotsOf(p) ELSE SlotsOf(NoOne)

Reserved(r, p) ==
    IF r.address = p THEN r
    ELSE [WithAddress(r, p) EXCEPT !.state = "INIT", !.cursor = INIT_SENDING_SERVICES]

-----------------------------------------------------------------------------
(* Connect requests.                                                       *)

\* Whether the client has the device's services already.
ConnectionTypes == IF "with cache" \in Requests THEN BOOLEAN ELSE {FALSE}

NoSlotLeft(p) ==
    /\ Reservable(p) = {}
    /\ AnswerDeviceDisconnected(p, pool)
    /\ UNCHANGED <<slot, backend, peer, table, free, allocated, freeOwed, toldFree>>

\* A request for a connection that is up is answered again; one for a connection
\* that is on its way up or down is ignored.
AlreadyConnected(s, p) ==
    /\ slot[s].address = p
    /\ slot[s].state \in {"CONNECTED", "ESTABLISHED"}
    /\ SendConnectedReply(s, slot[s])
    /\ SendConnectionsFree(FALSE)
    /\ pool' = pool \ {p}
    /\ UNCHANGED <<free, allocated, backend, peer, table>>

IgnoreRequest(s, p) ==
    /\ slot[s].address = p
    /\ slot[s].state \in {"CONNECTING", "DISCONNECTING"}
    /\ pool' = pool \ {p}
    /\ UNCHANGED <<told, free, allocated, freeOwed, toldFree, slot, backend, peer, table>>

\* The slot is p's, whether it was or not: UpdateAddressSlot with nothing to move
\* when it was.
Initiate(s, p, cached) ==
    LET r == Reserved(slot[s], p)
    IN  /\ r.state = "INIT" /\ backend[s] = "none"
        /\ Becomes(s, [r EXCEPT !.cached = cached, !.state = "CONNECTING"])
        /\ backend' = [backend EXCEPT ![s] = "asked"]
        /\ peer' = [peer EXCEPT ![s] = p]
        /\ UpdateAddressSlot(slot[s].address, p)
        /\ SendConnectionsFree(slot[s].address # p)
        /\ pool' = pool \ {p}
        /\ UNCHANGED <<told, table>>

\* Variant: the backend's answer is not looked at.
InitiateAnyway(s, p, cached) ==
    /\ Reserved(slot[s], p).state = "INIT"
    /\ Becomes(s, [Reserved(slot[s], p) EXCEPT !.cached = cached, !.state = "CONNECTING"])
    /\ UpdateAddressSlot(slot[s].address, p)
    /\ SendConnectionsFree(slot[s].address # p)
    /\ pool' = pool \ {p}
    /\ UNCHANGED <<told, backend, peer, table>>

\* The backend refuses: the slot is freed, and a slot that was free before has
\* not changed hands.
FailToInitiate(s, p, cached) ==
    LET r == Reserved(slot[s], p)
    IN  /\ r.state = "INIT"
        /\ Becomes(s, [Freed(r) EXCEPT !.cached = cached])
        /\ table' = [table EXCEPT ![s] = NoOne]
        /\ SendDeviceDisconnected(p)
        /\ UpdateAddressSlot(slot[s].address, NoOne)
        /\ SendConnectionsFreeTwice(slot[s].address = p)
        /\ UNCHANGED <<backend, peer>>

Connect(p) ==
    /\ \/ NoSlotLeft(p)
       \/ \E s \in Reservable(p) :
             \/ AlreadyConnected(s, p)
             \/ IgnoreRequest(s, p)
             \/ \E cached \in ConnectionTypes :
                   Initiate(s, p, cached) \/ FailToInitiate(s, p, cached)
    /\ UNCHANGED <<subscribed, op, clientVars>>

\* A request without an address type is answered, and keeps what it reserved.
ConnectUntyped(p) ==
    /\ "untyped" \in Requests
    /\ \E s \in Reservable(p) :
          /\ Becomes(s, Reserved(slot[s], p))
          /\ UpdateAddressSlot(slot[s].address, p)
          /\ toldFree' = IF slot[s].address = p THEN toldFree ELSE OutOfDate
    /\ AnswerDeviceDisconnected(p, pool \ {p})
    /\ UNCHANGED <<subscribed, freeOwed, backendVars, clientVars>>

-----------------------------------------------------------------------------
(* The other requests about devices.                                       *)

Disconnect(p) ==
    /\ \/ /\ SlotsOf(p) = {}
          /\ AnswerDeviceDisconnected(p, pool)
          /\ SendConnectionsFree(FALSE)
          /\ UNCHANGED <<slot, backend, table, free, allocated>>
       \/ \E s \in SlotsOf(p) : DisconnectFrom(s, slot[s], backend[s])
    /\ UNCHANGED <<subscribed, peer, op, clientVars>>

\* A connect request of version 1 of the protocol.
ConnectV1(p) ==
    /\ AnswerDeviceDisconnected(p, pool)
    /\ UNCHANGED <<subscribed, free, allocated, freeOwed, toldFree, slot, backendVars, clientVars>>

-----------------------------------------------------------------------------
(* GetServices.  The client collects what it is sent until it is told that *)
(* was all; one that connected with its cache knows the services already.  *)

\* A client does not ask for the services of a link it has asked to end.
Ending(p) == \E s \in SlotsOf(p) : slot[s].state = "DISCONNECTING"

ServicesRefused(p, g) ==
    /\ \A s \in SlotsOf(p) : slot[s].state # "ESTABLISHED"
    /\ got' \in {got, g}
    /\ UNCHANGED slot

Spent == {DONE_SENDING_SERVICES, SERVICES_DONE_PENDING}

\* Variant: an owed services-done stays owed.
RestartStreamKeepingDone(s, g) ==
    /\ slot[s].discovered
    /\ Becomes(s, [slot[s] EXCEPT !.cursor = IF @ \in Spent THEN @ ELSE 0])
    /\ got' = g

\* From the top; an owed services-done is dropped, one that was sent is not repeated.
RestartStream(s, g) ==
    /\ slot[s].discovered
    /\ Becomes(s, [slot[s] EXCEPT !.cursor = IF @ \in Spent THEN DONE_SENDING_SERVICES ELSE 0])
    /\ got' = g

GetServices(p) ==
    LET known == \E s \in SlotsOf(p) : slot[s].cached
        g     == [got EXCEPT ![p] = [list |-> <<>>, done |-> FALSE, known |-> known]]
    IN  /\ "services" \in Requests
        /\ subscribed /\ told[p] # "down" /\ got[p] = NoList
        /\ Ending(p) => "services while ending" \in Requests
        /\ \/ ServicesRefused(p, g)
           \/ \E s \in SlotsOf(p) :
                 /\ slot[s].state = "ESTABLISHED"
                 /\ \/ ~slot[s].discovered /\ SendServicesDone(s, slot[s], g)
                    \/ RestartStream(s, g)
        /\ UNCHANGED <<replyVars, backendVars, wants>>

-----------------------------------------------------------------------------
(* Attribute operations.                                                   *)

\* Nothing to latch a refused error against.
NotConnected(p, w) ==
    /\ SlotsOf(p) = {}
    /\ wants' \in {wants, w}
    /\ UNCHANGED <<slot, op>>

\* The backend may be busy, or without a link, or refuse.
OperationRefused(s, r, w, handle) ==
    /\ SendAck(s, r, w, "error", handle)
    /\ UNCHANGED op

OperationStarted(s, r, w, request) ==
    /\ request.kind # "notify"
    /\ slot[s].state = "ESTABLISHED" /\ backend[s] # "none" /\ op[s] = NoOp
    /\ op' = [op EXCEPT ![s] = request]
    /\ Becomes(s, r) /\ wants' = w

\* Writes without response and notify requests are answered at once.
OperationDone(s, r, w, request) ==
    /\ request.kind # "read"
    /\ slot[s].state = "ESTABLISHED" /\ backend[s] # "none"
    /\ SendAck(s, r, w, request.kind, request.handle)
    /\ UNCHANGED op

Operation(p, request) ==
    LET w == [wants EXCEPT ![p] = request]
    IN  /\ "operations" \in Requests
        /\ subscribed /\ told[p] # "down" /\ wants[p] = NoOp
        /\ \/ NotConnected(p, w)
           \/ \E s \in SlotsOf(p) :
                 LET r == Superseded(slot[s], request.handle, request.kind)
                 IN  \/ OperationRefused(s, r, w, request.handle)
                     \/ OperationStarted(s, r, w, request)
                     \/ OperationDone(s, r, w, request)
        /\ UNCHANGED <<replyVars, backend, peer, table, got>>

\* The client's own timeout: an owed answer is to a request that is no more.
ClientGivesUp(p) ==
    /\ wants[p] # NoOp
    /\ wants' = [wants EXCEPT ![p] = NoOp]
    /\ slot' = [s \in Slots |->
                  IF slot[s].address = p /\ slot[s].ack # NoAck
                  THEN [slot[s] EXCEPT !.ack.stale = TRUE] ELSE slot[s]]
    /\ UNCHANGED <<replyVars, backendVars, got>>

\* It has the list, or does not wait for the rest.
ClientEndsList(p) ==
    /\ got[p] # NoList
    /\ got' = [got EXCEPT ![p] = NoList]
    /\ UNCHANGED <<replyVars, slot, backendVars, wants>>

-----------------------------------------------------------------------------
(* Subscriptions.  The new subscriber knows nothing, and is owed nothing.  *)

ResetOwedReplies ==
    /\ pool' = {}
    /\ freeOwed' = FALSE
    /\ slot' = [s \in Slots |-> ClearOwed(Parked(slot[s]))]
    /\ table' = [s \in Slots |-> IF slot[s].cursor \in 0 .. ServiceCount THEN NoOne ELSE table[s]]

KnowsNothing ==
    /\ told' = [p \in Peers |-> "down"]
    /\ toldFree' = "never"
    /\ wants' = [p \in Peers |-> NoOp]
    /\ got' = [p \in Peers |-> NoList]

Subscribe ==
    /\ subscribed' = TRUE
    /\ ResetOwedReplies /\ KnowsNothing
    /\ UNCHANGED <<free, allocated, backend, peer, op>>

Unsubscribe ==
    /\ subscribed /\ subscribed' = FALSE
    /\ ResetOwedReplies /\ KnowsNothing
    /\ UNCHANGED <<free, allocated, backend, peer, op>>

\* The API server asks on behalf of a subscriber that wants to know the slots.
AskForSlots ==
    /\ subscribed
    /\ SendConnectionsFree(FALSE)
    /\ UNCHANGED <<subscribed, pool, free, allocated, told, slot, backendVars, clientVars>>

-----------------------------------------------------------------------------
(* The loop.                                                               *)

ResendConnectionsFree ==
    /\ subscribed /\ freeOwed
    /\ freeOwed' = FALSE /\ toldFree' = "current"
    /\ UNCHANGED <<subscribed, pool, free, allocated, told, slot, backendVars, clientVars>>

\* Variant: only connections that are up are torn down.
SweepEstablished(s) ==
    /\ ~subscribed /\ slot[s].address # NoOne /\ slot[s].state = "ESTABLISHED"
    /\ DisconnectFrom(s, slot[s], backend[s])
    /\ UNCHANGED <<subscribed, peer, op, clientVars>>

\* With no subscriber, what it left behind is torn down.
Sweep(s) ==
    /\ ~subscribed /\ slot[s].address # NoOne
    /\ DisconnectFrom(s, slot[s], backend[s])
    /\ UNCHANGED <<subscribed, peer, op, clientVars>>

DrainPool(p) ==
    /\ subscribed /\ p \in pool
    /\ SendDeviceDisconnected(p)
    /\ UNCHANGED <<subscribed, free, allocated, freeOwed, toldFree, slot, backendVars, clientVars>>

Backend(s) == Connected(s) \/ Disconnected(s) \/ Discovered(s) \/ Undiscovered(s) \/ Completes(s)

Client(p) ==
    \/ Connect(p) \/ ConnectUntyped(p) \/ ConnectV1(p) \/ Disconnect(p)
    \/ GetServices(p) \/ ClientEndsList(p)
    \/ \E request \in Ops : Operation(p, request)
    \/ ClientGivesUp(p)

Loop(s) == StreamServices(s) \/ Sweep(s) \/ FlushOwedReplies(s)

Next ==
    \/ \E p \in Peers : Client(p) \/ DrainPool(p)
    \/ \E s \in Slots : Backend(s) \/ Loop(s)
    \/ Subscribe \/ Unsubscribe \/ AskForSlots \/ ResendConnectionsFree

Spec == Init /\ [][Next]_vars

-----------------------------------------------------------------------------
(* Safety.                                                                 *)

\* Every variable keeps to its type.
TypeOK == RepliesTypeOK /\ ConnectionTypeOK

\* A device is never on two slots: a second attempt would race the first
\* (get_connection_ finishes its scan before it reserves).
OneSlotPerDevice ==
    \A s, t \in Slots : slot[s].address = slot[t].address /\ slot[s].address # NoOne => s = t

\* The incremental account of free slots and their addresses (update_address_slot_)
\* never drifts from the slots.
SlotsAreCounted ==
    /\ free = Cardinality(SlotsOf(NoOne))
    /\ \A a \in Addresses : allocated[a] = Cardinality(SlotsOf(a))

\* A subscriber's outdated picture of the slots is owed a correction.
OldPictureIsOwed == subscribed /\ toldFree = "old" => freeOwed

\* A client that was told of a connection has it still, or is owed the report of its
\* end: a refused report is pooled until it lands.  And none is owed about a device
\* that is on a slot again: sent late, it would shadow the new connection.
EndIsOwed ==
    \A p \in Peers :
        /\ told[p] = "up" => SlotsOf(p) # {} \/ p \in pool
        /\ p \in pool => SlotsOf(p) = {}

\* A taken slot is past IDLE and INIT, and has a backend at work for its device:
\* there is an event to come that frees it.  (So disconnect() of a taken slot is
\* never refused for being IDLE, and bluetooth_device_request's branch for that is
\* never taken.)
SlotIsServed ==
    \A s \in Slots : slot[s].address # NoOne =>
        /\ slot[s].state \notin {"IDLE", "INIT"}
        /\ backend[s] # "none" /\ peer[s] = slot[s].address

\* A list that ended with services-done is the device's whole list, in order and
\* once: the client keeps it for good.
StreamIsWhole ==
    \A p \in Peers : got[p] # NoList /\ got[p].done /\ ~got[p].known => got[p].list = ListOf(p)

\* An owed answer is for the device on the slot, and does not answer a request made
\* after the one it was the answer to.
OwedAnswerIsCurrent ==
    \A s \in Slots : slot[s].ack # NoAck =>
        /\ slot[s].ack.to = slot[s].address
        /\ slot[s].ack.stale =>
              ~Answers(slot[s].ack.kind, slot[s].ack.handle, wants[slot[s].address])

-----------------------------------------------------------------------------
(* Liveness.  A subscriber's buffer takes a frame in the end, or the API   *)
(* closes its connection, and it is subscribed no more; the loop runs      *)
(* again and again; an attempt has an outcome, and a link that is being    *)
(* closed ends (GattClientContract, EngineProgress).                       *)

Outcome(s) ==
    \/ backend[s] = "asked" /\ (Connected(s) \/ Disconnected(s))
    \/ backend[s] \in {"closing", "failed"} /\ Disconnected(s)

FrameTaken(p) == DrainPool(p) /\ p \notin pool'

Fairness ==
    /\ \A p \in Peers : SF_vars(FrameTaken(p))
    /\ \A s \in Slots : WF_vars(Sweep(s)) /\ WF_vars(Outcome(s))

FairSpec == Spec /\ Fairness

\* A client hears of the end of every connection it believes in, refused reports
\* or not.
EndIsHeard ==
    \A p \in Peers : told[p] = "up" /\ SlotsOf(p) = {} ~> told[p] # "up" \/ SlotsOf(p) # {}

\* What a subscriber leaves behind is torn down, at whatever point it was.
LeftSlotIsFreed ==
    \A s \in Slots : ~subscribed /\ slot[s].address # NoOne ~> subscribed \/ slot[s].address = NoOne
=============================================================================
