------------------------ MODULE BluetoothConnection ------------------------
(***************************************************************************)
(* A connection slot of the proxy (bluetooth_connection_hub.cpp): the      *)
(* listener of one GATT backend, which turns the backend's events into API *)
(* messages.  The backend is abstract here: GattClientContract, with what  *)
(* its calls return.  Since it may be closing at any time without having   *)
(* said so, every call of it may be refused.                               *)
(*                                                                         *)
(* A backend is idle ("none"), was asked to connect ("asked"), is up       *)
(* ("up", "exploring" its services, "settled" when they were reported), or *)
(* is closing ("failed" when a discovery was cut short by that, and will   *)
(* be reported as over once more).                                         *)
(***************************************************************************)
EXTENDS ProxyReplies, Sequences

CONSTANTS
    Handles,      \* attribute handles the client asks for
    ServiceCount, \* the length of a device's service list
    NoAck,        \* PENDING_ACK_NONE
    NoOp,         \* nothing is asked of the backend, or of the proxy
    NoList,       \* the client is not collecting a service list
    NoHandle      \* attribute handle 0

ASSUME ConnectionAssumption == ServiceCount \in Nat \ {0} /\ NoHandle \notin Handles

VARIABLES
    slot,    \* the fields of each BluetoothConnection
    backend, \* what each slot's backend is at
    peer,    \* the device each backend was last asked to connect to
    table,   \* the device whose services its table holds
    op,      \* the attribute operation its device is to answer
    wants,   \* the client's one open request for each device
    got      \* the service list it has collected, and whether it was told all

slotVars == <<slot>>
backendVars == <<backend, peer, table, op>>
clientVars == <<wants, got>>

Ops == [kind : {"read", "write", "notify"}, handle : Handles]
AckKinds == {"write", "notify", "error"}

\* to: the device that is meant; stale: what it acknowledges is no longer what the
\* client waits for.
Acks == [kind : AckKinds, handle : Handles \cup {NoHandle}, to : Addresses, stale : BOOLEAN]

States == {"IDLE", "INIT", "CONNECTING", "CONNECTED", "ESTABLISHED", "DISCONNECTING"}
\* send_service_: the next service to stream, or one of these.
DONE_SENDING_SERVICES == -2
INIT_SENDING_SERVICES == -3
SERVICES_DONE_PENDING == -4

Cursors == {DONE_SENDING_SERVICES, INIT_SENDING_SERVICES, SERVICES_DONE_PENDING} \cup 0 .. ServiceCount

Slot == [address : Addresses, state : States, cached : BOOLEAN, discovered : BOOLEAN,
         cursor : Cursors, owedUp : BOOLEAN, ack : Acks \cup {NoAck}]

NewSlot == [address |-> NoOne, state |-> "IDLE", cached |-> FALSE, discovered |-> FALSE,
            cursor |-> INIT_SENDING_SERVICES, owedUp |-> FALSE, ack |-> NoAck]

BackendStates == {"none", "asked", "up", "exploring", "settled", "closing", "failed"}

ListOf(p) == [i \in 1 .. ServiceCount |-> <<p, i>>]

ConnectionTypeOK ==
    /\ slot \in [Slots -> Slot]
    /\ backend \in [Slots -> BackendStates]
    /\ peer \in [Slots -> Addresses]
    /\ table \in [Slots -> Addresses]
    /\ op \in [Slots -> Ops \cup {NoOp}]
    /\ wants \in [Peers -> Ops \cup {NoOp}]

ConnectionInit ==
    /\ slot = [s \in Slots |-> NewSlot]
    /\ backend = [s \in Slots |-> "none"]
    /\ peer = [s \in Slots |-> NoOne]
    /\ table = [s \in Slots |-> NoOne]
    /\ op = [s \in Slots |-> NoOp]
    /\ wants = [p \in Peers |-> NoOp]
    /\ got = [p \in Peers |-> NoList]

Becomes(s, r) == slot' = [slot EXCEPT ![s] = r]

-----------------------------------------------------------------------------
(* Slots change hands.                                                     *)

ClearOwed(r) == [r EXCEPT !.ack = NoAck, !.owedUp = FALSE]

\* set_address(); UpdateAddressSlot goes with it.
WithAddress(r, a) == [ClearOwed(r) EXCEPT !.address = a]

\* reset_connection_ and reset_connection_slot_: a freed slot.
Freed(r) == [WithAddress(r, NoOne) EXCEPT !.state = "IDLE", !.discovered = FALSE,
                                          !.cursor = INIT_SENDING_SERVICES]

\* Variant: the client is not told.
ResetQuietly(s) ==
    /\ Becomes(s, Freed(slot[s]))
    /\ table' = [table EXCEPT ![s] = NoOne]
    /\ UpdateAddressSlot(slot[s].address, NoOne)
    /\ SendConnectionsFree(TRUE)
    /\ UNCHANGED <<told, pool>>

ResetConnection(s) ==
    /\ Becomes(s, Freed(slot[s]))
    /\ table' = [table EXCEPT ![s] = NoOne]
    /\ SendDeviceDisconnected(slot[s].address)
    /\ UpdateAddressSlot(slot[s].address, NoOne)
    /\ SendConnectionsFree(TRUE)

NothingSent == UNCHANGED <<pool, free, allocated, freeOwed, told, toldFree>>

-----------------------------------------------------------------------------
(* Teardown.                                                               *)

\* Whatever gatt_disconnect() returns, a link is closing after it.
Torn(b) == CASE b = "exploring"         -> "failed"
             [] b \in {"up", "settled"} -> "closing"
             [] OTHER                   -> b

TeardownAccepted(b) == b \in {"asked", "up", "exploring", "settled"}

\* disconnect() of a slot in record r, whose backend is at b.  "Nonzero means
\* nothing to tear down": the slot is freed.
DisconnectFrom(s, r, b) ==
    IF r.state \in {"IDLE", "DISCONNECTING"}
    THEN /\ Becomes(s, r)
         /\ backend' = [backend EXCEPT ![s] = b]
         /\ UNCHANGED table /\ NothingSent
    ELSE /\ backend' = [backend EXCEPT ![s] = Torn(b)]
         /\ \/ /\ TeardownAccepted(b)
               /\ Becomes(s, [r EXCEPT !.state = "DISCONNECTING"])
               /\ UNCHANGED table /\ NothingSent
            \/ ResetConnection(s)

-----------------------------------------------------------------------------
(* The backend's events.                                                   *)

\* send_connected_reply_() of a slot that becomes r.
SendConnectedReply(s, r) ==
    \/ TellUp(r.address) /\ Becomes(s, [r EXCEPT !.owedUp = FALSE])
    \/ subscribed /\ Becomes(s, [r EXCEPT !.owedUp = TRUE]) /\ UNCHANGED told

\* The client is told of the connection, and of the slots.
Establish(s, r) ==
    /\ SendConnectedReply(s, [r EXCEPT !.state = "ESTABLISHED"])
    /\ SendConnectionsFree(FALSE)
    /\ UNCHANGED <<pool, free, allocated, table>>

\* A connection for a slot that was freed, or whose end was asked for, is ended.
Unwanted(s) ==
    /\ backend' = [backend EXCEPT ![s] = "closing"]
    /\ \/ UNCHANGED <<slot, table>> /\ NothingSent
       \/ slot[s].address # NoOne /\ ResetConnection(s)

\* A service discovery is refused.
Undiscoverable(s) == DisconnectFrom(s, [slot[s] EXCEPT !.state = "CONNECTED"], "up")

\* on_connection_state(true)
Connected(s) ==
    LET unwanted == slot[s].address = NoOne \/ slot[s].state = "DISCONNECTING"
    IN  /\ backend[s] = "asked"
        /\ \/ unwanted /\ Unwanted(s)
           \/ /\ ~unwanted /\ slot[s].cached
              /\ backend' = [backend EXCEPT ![s] = "up"]
              /\ Establish(s, slot[s])
           \/ /\ ~unwanted /\ ~slot[s].cached
              /\ Becomes(s, [slot[s] EXCEPT !.state = "CONNECTED"])
              /\ backend' = [backend EXCEPT ![s] = "exploring"]
              /\ table' = [table EXCEPT ![s] = NoOne]
              /\ NothingSent
           \/ ~unwanted /\ ~slot[s].cached /\ Undiscoverable(s)
        /\ UNCHANGED <<subscribed, peer, op, clientVars>>

\* on_connection_state(false): connect failed, link lost, or teardown complete.
Disconnected(s) ==
    /\ backend[s] # "none"
    /\ backend' = [backend EXCEPT ![s] = "none"]
    /\ op' = [op EXCEPT ![s] = NoOp]
    /\ IF slot[s].address = NoOne
       THEN UNCHANGED <<slot, table>> /\ NothingSent
       ELSE ResetConnection(s)
    /\ UNCHANGED <<subscribed, peer, clientVars>>

\* on_service_discovery_done(0).  It may come while the link is closing.
Discovered(s) ==
    /\ backend[s] \in {"exploring", "failed"}
    /\ backend' = [backend EXCEPT ![s] = IF @ = "exploring" THEN "settled" ELSE "closing"]
    /\ SendConnectedReply(s, [slot[s] EXCEPT !.state = "ESTABLISHED", !.discovered = TRUE])
    /\ SendConnectionsFree(FALSE)
    /\ table' = [table EXCEPT ![s] = peer[s]]
    /\ UNCHANGED <<subscribed, pool, free, allocated, peer, op, clientVars>>

\* on_service_discovery_done(error): the backend is ending the link already.  The
\* deadline of a discovery runs for a connection that is never discovered, too.
Undiscovered(s) ==
    /\ backend[s] \in {"up", "exploring", "failed"}
    /\ DisconnectFrom(s, slot[s], IF backend[s] = "exploring" THEN "failed" ELSE "closing")
    /\ UNCHANGED <<subscribed, peer, op, clientVars>>

-----------------------------------------------------------------------------
(* Replies to attribute operations.                                        *)

Answers(kind, h, w) == w # NoOp /\ w.handle = h /\ (kind = "error" \/ kind = w.kind)

\* The client has the reply: its open request is answered if it is the one.
Reply(p, kind, h) ==
    wants' = [wants EXCEPT ![p] = IF Answers(kind, h, @) THEN NoOp ELSE @]

\* send_ack_() of slot s in record r: newest wins.
SendAck(s, r, w, kind, h) ==
    \/ /\ wants' = IF Answers(kind, h, w[r.address]) THEN [w EXCEPT ![r.address] = NoOp] ELSE w
       /\ Becomes(s, r)
    \/ /\ subscribed
       /\ Becomes(s, [r EXCEPT !.ack = [kind |-> kind, handle |-> h, to |-> r.address,
                                        stale |-> ~Answers(kind, h, w[r.address])]])
       /\ wants' = w

\* The answer of the device, or an error, which comes without the handle when the
\* host passes no attribute.  A read's payload is not kept when the API refuses it.
Completes(s) ==
    /\ op[s] # NoOp
    /\ op' = [op EXCEPT ![s] = NoOp]
    /\ IF slot[s].address = NoOne
       THEN UNCHANGED <<slot, wants>>
       ELSE \/ op[s].kind = "write" /\ SendAck(s, slot[s], wants, "write", op[s].handle)
            \/ SendAck(s, slot[s], wants, "error", op[s].handle)
            \/ op[s].kind = "read" /\ SendAck(s, slot[s], wants, "error", NoHandle)
            \/ /\ op[s].kind = "read"
               /\ UNCHANGED slot
               /\ \/ Reply(slot[s].address, "read", op[s].handle)
                  \/ subscribed /\ UNCHANGED wants
    /\ UNCHANGED <<replyVars, backend, peer, table, got>>

\* Variant: an owed error is superseded only by a request of its own kind.
SupersededByKind(r, h, kind) ==
    IF r.ack # NoAck /\ r.ack.handle = h /\ r.ack.kind = kind
    THEN [r EXCEPT !.ack = NoAck] ELSE r

\* supersede_pending_ack_: what is owed would answer the new request.
Superseded(r, h, kind) ==
    IF r.ack # NoAck /\ r.ack.handle = h /\ r.ack.kind \in {"error", kind}
    THEN [r EXCEPT !.ack = NoAck] ELSE r

-----------------------------------------------------------------------------
(* Service streaming.                                                      *)

\* Services-done reaches the client, which may be collecting (g).
Finished(g, a) == [p \in Peers |-> IF p = a /\ g[p] # NoList
                                   THEN [g[p] EXCEPT !.done = TRUE] ELSE g[p]]

\* send_services_done_(): a refused one is owed, and given up after a while.
SendServicesDone(s, r, g) ==
    \/ got' = Finished(g, r.address) /\ Becomes(s, [r EXCEPT !.cursor = DONE_SENDING_SERVICES])
    \/ subscribed /\ got' = g /\ Becomes(s, [r EXCEPT !.cursor = SERVICES_DONE_PENDING])
    \/ /\ subscribed /\ r.cursor = SERVICES_DONE_PENDING
       /\ got' = g
       /\ Becomes(s, [r EXCEPT !.cursor = DONE_SENDING_SERVICES])

Entries(s) == IF table[s] = NoOne THEN 0 ELSE ServiceCount

\* The services from the cursor on, as many as fit into a frame.
SendBatch(s) ==
    \E n \in slot[s].cursor + 1 .. Entries(s) :
        /\ Becomes(s, [slot[s] EXCEPT !.cursor = n])
        /\ got' = [p \in Peers |->
                     IF p = slot[s].address /\ got[p] # NoList
                     THEN [got[p] EXCEPT !.list =
                              @ \o [i \in 1 .. n - slot[s].cursor |->
                                      <<table[s], slot[s].cursor + i>>]]
                     ELSE got[p]]
        /\ UNCHANGED table

\* park_service_stream_
Parked(r) == IF r.cursor = INIT_SENDING_SERVICES THEN r ELSE [r EXCEPT !.cursor = DONE_SENDING_SERVICES]

\* The table's ranges do not fit together: the link is ended instead.
AbortServiceStream(s) ==
    /\ DisconnectFrom(s, [slot[s] EXCEPT !.cursor = DONE_SENDING_SERVICES], backend[s])
    /\ UNCHANGED got

\* process_pending_services().  A refused batch leaves the cursor where it was.
StreamServices(s) ==
    /\ slot[s].cursor \in 0 .. ServiceCount
    /\ \/ /\ slot[s].cursor >= Entries(s)
          /\ table' = [table EXCEPT ![s] = NoOne]
          /\ SendServicesDone(s, slot[s], got)
          /\ NothingSent /\ UNCHANGED backend
       \/ slot[s].cursor < Entries(s) /\ SendBatch(s) /\ NothingSent /\ UNCHANGED backend
       \/ slot[s].cursor < Entries(s) /\ AbortServiceStream(s)
    /\ UNCHANGED <<subscribed, peer, op, wants>>

-----------------------------------------------------------------------------
(* flush_owed_replies_: the connected reply first, and nothing else before *)
(* it has landed.                                                          *)

\* The owed acknowledgement lands, stays, or is given up.
FlushAck(s, r) ==
    IF r.ack = NoAck
    THEN Becomes(s, r) /\ UNCHANGED wants
    ELSE \/ Becomes(s, [r EXCEPT !.ack = NoAck]) /\ Reply(r.address, r.ack.kind, r.ack.handle)
         \/ Becomes(s, [r EXCEPT !.ack = NoAck]) /\ UNCHANGED wants
         \/ Becomes(s, r) /\ UNCHANGED wants

\* The owed services-done is refused again: kept, or given up.
DoneRefused(r) ==
    IF r.cursor = SERVICES_DONE_PENDING THEN {r, [r EXCEPT !.cursor = DONE_SENDING_SERVICES]} ELSE {r}

FlushDeferred(s) ==
    /\ \E r \in DoneRefused(slot[s]) :
          \/ Becomes(s, r)
          \/ r.ack # NoAck /\ Becomes(s, [r EXCEPT !.ack = NoAck])
    /\ UNCHANGED <<told, clientVars>>

FlushAll(s) ==
    LET up == [slot[s] EXCEPT !.owedUp = FALSE]
    IN  /\ IF slot[s].owedUp THEN TellUp(slot[s].address) ELSE UNCHANGED told
        /\ \/ /\ up.cursor = SERVICES_DONE_PENDING
              /\ got' = Finished(got, up.address)
              /\ FlushAck(s, [up EXCEPT !.cursor = DONE_SENDING_SERVICES])
           \/ /\ \E r \in DoneRefused(up) : FlushAck(s, r)
              /\ UNCHANGED got

FlushOwedReplies(s) ==
    /\ subscribed
    /\ slot[s].owedUp \/ slot[s].cursor = SERVICES_DONE_PENDING \/ slot[s].ack # NoAck
    /\ \/ slot[s].owedUp /\ FlushDeferred(s)
       \/ FlushAll(s)
    /\ UNCHANGED <<subscribed, pool, free, allocated, freeOwed, toldFree, backendVars>>
=============================================================================
