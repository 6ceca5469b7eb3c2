----------------------- MODULE BluetoothProxy_proofs -----------------------
(***************************************************************************)
(* Proofs about BluetoothProxy, for any number of slots and devices, every *)
(* length of the service list and, where not said otherwise, whatever      *)
(* clients ask for.                                                        *)
(***************************************************************************)
EXTENDS BluetoothProxy, FiniteSetTheorems, SequenceTheorems, TLAPS

(* A freed slot, or one that was only reserved, has a backend that cannot  *)
(* be up with a link of its own: at most on its way up or down for a       *)
(* device that was there before.  So no event of it frees the slot again,  *)
(* which would report the end of address 0.                                *)
Quiet(r, b) ==
    /\ r.address = NoOne \/ r.state = "INIT" => b \in {"none", "asked", "closing", "failed"}
    /\ r.address = NoOne =>
          /\ r.cursor = INIT_SENDING_SERVICES
          /\ b = "failed" => r.state = "IDLE"

FreedIsQuiet == \A s \in Slots : Quiet(slot[s], backend[s])

TypeInv == TypeOK /\ FreedIsQuiet

-----------------------------------------------------------------------------
(* What the transformations of a slot do to its fields.                    *)

LEMMA FreedSlot ==
    ASSUME NEW r \in Slot
    PROVE  /\ Freed(r) \in Slot
           /\ Freed(r).address = NoOne
           /\ Freed(r).state = "IDLE"
           /\ Freed(r).cursor = INIT_SENDING_SERVICES
BY DEF Freed, WithAddress, ClearOwed, Slot, Addresses, States, Cursors, INIT_SENDING_SERVICES

LEMMA ReservedSlot ==
    ASSUME NEW r \in Slot, NEW p \in Peers
    PROVE  /\ Reserved(r, p) \in Slot
           /\ Reserved(r, p).address = p
           /\ r.address # p => Reserved(r, p).state = "INIT"
           /\ r.address = p => Reserved(r, p) = r
BY DEF Reserved, WithAddress, ClearOwed, Slot, Addresses, States, Cursors, INIT_SENDING_SERVICES

LEMMA ParkedSlot ==
    ASSUME NEW r \in Slot
    PROVE  /\ ClearOwed(Parked(r)) \in Slot
           /\ ClearOwed(Parked(r)).address = r.address
           /\ ClearOwed(Parked(r)).state = r.state
           /\ r.cursor = INIT_SENDING_SERVICES =>
                 ClearOwed(Parked(r)).cursor = INIT_SENDING_SERVICES
BY DEF ClearOwed, Parked, Slot, Cursors, DONE_SENDING_SERVICES, INIT_SENDING_SERVICES

LEMMA SupersededSlot ==
    ASSUME NEW r \in Slot, NEW h, NEW kind
    PROVE  /\ Superseded(r, h, kind) \in Slot
           /\ Superseded(r, h, kind).address = r.address
           /\ Superseded(r, h, kind).state = r.state
           /\ Superseded(r, h, kind).cursor = r.cursor
BY DEF Superseded, Slot

-----------------------------------------------------------------------------
(* Types.                                                                  *)

LEMMA BackendTypes ==
    ASSUME NEW b \in BackendStates
    PROVE  Torn(b) \in BackendStates
BY DEF Torn, BackendStates

LEMMA ReportTypes ==
    ASSUME RepliesTypeOK, NEW p \in Peers, SendDeviceDisconnected(p)
    PROVE  pool' \subseteq Peers /\ told' \in [Peers -> {"down", "up", "lost"}]
BY DEF RepliesTypeOK, SendDeviceDisconnected, LatchPendingDisconnection, TellDown

LEMMA AnswerTypes ==
    ASSUME RepliesTypeOK, NEW p \in Peers, NEW owed \in SUBSET Peers,
           AnswerDeviceDisconnected(p, owed)
    PROVE  pool' \subseteq Peers /\ told' \in [Peers -> {"down", "up", "lost"}]
BY DEF RepliesTypeOK, AnswerDeviceDisconnected, TellDown

LEMMA TellUpTypes ==
    ASSUME RepliesTypeOK, NEW a, TellUp(a)
    PROVE  told' \in [Peers -> {"down", "up", "lost"}]
BY DEF RepliesTypeOK, TellUp

LEMMA AddressSlotTypes ==
    ASSUME RepliesTypeOK, NEW old \in Addresses, NEW new \in Addresses,
           UpdateAddressSlot(old, new)
    PROVE  free' \in 0 .. MaxConnections /\ allocated' \in [Addresses -> Nat]
<1>1. MaxConnections \in Nat
    BY ProxyAssumption, FS_CardinalityType DEF MaxConnections
<1>2. NoOne \in Addresses
    BY DEF Addresses
<1>3. ASSUME NEW a \in Addresses, NEW b \in Addresses, ReplaceAllocatedSlot(a, b)
      PROVE  allocated' \in [Addresses -> Nat]
    BY <1>3 DEF ReplaceAllocatedSlot, RepliesTypeOK
<1>4. QED
    BY <1>1, <1>2, <1>3 DEF UpdateAddressSlot, RepliesTypeOK

LEMMA FreeTypes ==
    ASSUME RepliesTypeOK, NEW moved,
           SendConnectionsFree(moved) \/ SendConnectionsFreeTwice(moved)
    PROVE  freeOwed' \in BOOLEAN /\ toldFree' \in {"never", "current", "old"}
BY DEF RepliesTypeOK, SendConnectionsFree, SendConnectionsFreeTwice, OutOfDate

-----------------------------------------------------------------------------
(* What the shared parts of handlers do.  NoticesOK is RepliesTypeOK but   *)
(* for the subscription; Moves(s, r) replaces slot s by a record that      *)
(* agrees with r on what matters.                                          *)

NoticesOK ==
    /\ pool \subseteq Peers
    /\ free \in 0 .. MaxConnections
    /\ allocated \in [Addresses -> Nat]
    /\ freeOwed \in BOOLEAN
    /\ told \in [Peers -> {"down", "up", "lost"}]
    /\ toldFree \in {"never", "current", "old"}

Moves(s, r) ==
    \E q \in Slot :
        /\ Becomes(s, q)
        /\ q.address = r.address /\ q.state = r.state /\ q.cursor = r.cursor

LEMMA ResetTypes ==
    ASSUME TypeOK, NEW s \in Slots, slot[s].address \in Peers, ResetConnection(s)
    PROVE  /\ NoticesOK'
           /\ Moves(s, Freed(slot[s]))
           /\ table' \in [Slots -> Addresses]
<1>1. RepliesTypeOK /\ slot[s] \in Slot /\ table \in [Slots -> Addresses]
    BY DEF TypeOK, ConnectionTypeOK
<1>2. NoOne \in Addresses /\ slot[s].address \in Addresses
    BY DEF Addresses
<1>3. pool' \subseteq Peers /\ told' \in [Peers -> {"down", "up", "lost"}]
    BY <1>1, ReportTypes DEF ResetConnection
<1>4. free' \in 0 .. MaxConnections /\ allocated' \in [Addresses -> Nat]
    BY <1>1, <1>2, AddressSlotTypes DEF ResetConnection
<1>5. freeOwed' \in BOOLEAN /\ toldFree' \in {"never", "current", "old"}
    BY <1>1, FreeTypes DEF ResetConnection
<1>6. NoticesOK'
    BY <1>3, <1>4, <1>5 DEF NoticesOK, MaxConnections
<1>7. Moves(s, Freed(slot[s]))
    BY <1>1, FreedSlot DEF ResetConnection, Moves
<1>8. QED
    BY <1>1, <1>2, <1>6, <1>7 DEF ResetConnection

LEMMA NothingSentTypes ==
    ASSUME RepliesTypeOK, NothingSent
    PROVE  NoticesOK'
BY DEF RepliesTypeOK, NothingSent, NoticesOK, MaxConnections

LEMMA SlotTypes ==
    ASSUME slot \in [Slots -> Slot], NEW s \in Slots, NEW r, Moves(s, r)
    PROVE  /\ slot' \in [Slots -> Slot]
           /\ slot'[s].address = r.address
           /\ slot'[s].state = r.state
           /\ slot'[s].cursor = r.cursor
           /\ \A t \in Slots \ {s} : slot'[t] = slot[t]
BY DEF Moves, Becomes

\* A step on one slot keeps the others quiet.
LEMMA OneSlotQuiet ==
    ASSUME TypeInv, NEW s \in Slots, NEW r, Moves(s, r),
           \A t \in Slots \ {s} : backend'[t] = backend[t],
           Quiet(r, backend'[s])
    PROVE  FreedIsQuiet'
<1>1. slot \in [Slots -> Slot]
    BY DEF TypeInv, TypeOK, ConnectionTypeOK
<1>2. \A t \in Slots : Quiet(slot'[t], backend'[t])
    BY <1>1, SlotTypes DEF TypeInv, FreedIsQuiet, Quiet
<1>3. QED
    BY <1>2 DEF FreedIsQuiet, Quiet

LEMMA ConnectedReplyTypes ==
    ASSUME TypeOK, NEW s \in Slots, NEW r \in Slot, SendConnectedReply(s, r)
    PROVE  Moves(s, r) /\ told' \in [Peers -> {"down", "up", "lost"}]
<1>1. RepliesTypeOK
    BY DEF TypeOK
<1>2. ASSUME NEW b \in BOOLEAN, Becomes(s, [r EXCEPT !.owedUp = b])
      PROVE  Moves(s, r)
  <2>1. [r EXCEPT !.owedUp = b] \in Slot
      BY DEF Slot
  <2>2. QED
      BY <1>2, <2>1 DEF Moves, Slot
<1>3. QED
    BY <1>1, <1>2, TellUpTypes DEF SendConnectedReply, RepliesTypeOK

LEMMA DisconnectTypes ==
    ASSUME TypeInv, NEW s \in Slots, NEW r \in Slot, NEW b \in BackendStates,
           r.address = slot[s].address, Quiet(r, b),
           r.address = NoOne => r.state \in {"IDLE", "DISCONNECTING"},
           DisconnectFrom(s, r, b)
    PROVE  /\ NoticesOK'
           /\ slot' \in [Slots -> Slot]
           /\ backend' \in [Slots -> BackendStates]
           /\ table' \in [Slots -> Addresses]
           /\ FreedIsQuiet'
<1>1. /\ TypeOK /\ RepliesTypeOK
      /\ slot \in [Slots -> Slot] /\ slot[s] \in Slot /\ r.address \in Addresses
      /\ backend \in [Slots -> BackendStates] /\ table \in [Slots -> Addresses]
    BY DEF TypeInv, TypeOK, ConnectionTypeOK, Slot
<1>2. CASE r.state \in {"IDLE", "DISCONNECTING"}
  <2>1. Moves(s, r) /\ NothingSent /\ backend' = [backend EXCEPT ![s] = b] /\ UNCHANGED table
    BY <1>2 DEF DisconnectFrom, Moves
  <2>2. QED
    BY <1>1, <2>1, SlotTypes, OneSlotQuiet, NothingSentTypes
<1>3. CASE r.state \notin {"IDLE", "DISCONNECTING"}
  <2>1. backend' = [backend EXCEPT ![s] = Torn(b)] /\ Torn(b) \in BackendStates
    BY <1>3, BackendTypes DEF DisconnectFrom
  <2>2. r.address \in Peers /\ slot[s].address \in Peers
    BY <1>1, <1>3 DEF Addresses
  <2>3. CASE ResetConnection(s)
    <3>1. NoticesOK' /\ Moves(s, Freed(slot[s])) /\ table' \in [Slots -> Addresses]
      BY <1>1, <2>2, <2>3, ResetTypes
    <3>2. Torn(b) \in {"none", "asked", "closing", "failed"}
      BY DEF Torn, BackendStates
    <3>3. Quiet(Freed(slot[s]), Torn(b))
      BY <1>1, <3>2, FreedSlot DEF Quiet
    <3>4. QED
      BY <1>1, <2>1, <3>1, <3>3, SlotTypes, OneSlotQuiet
  <2>4. CASE ~ResetConnection(s)
    <3> DEFINE q == [r EXCEPT !.state = "DISCONNECTING"]
    <3>1. q \in Slot /\ q.address = r.address /\ q.state = "DISCONNECTING"
      BY DEF Slot, States
    <3>2. Becomes(s, q) /\ UNCHANGED table /\ NothingSent
      BY <1>3, <2>4 DEF DisconnectFrom
    <3>3. Moves(s, q)
      BY <3>1, <3>2 DEF Moves
    <3>4. Quiet(q, Torn(b))
      BY <2>2, <3>1, ProxyAssumption DEF Quiet
    <3> HIDE DEF q
    <3>5. QED
      BY <1>1, <2>1, <3>2, <3>3, <3>4, SlotTypes, OneSlotQuiet, NothingSentTypes
  <2>5. QED
    BY <2>3, <2>4
<1>4. QED
    BY <1>2, <1>3

LEMMA AckTypes ==
    ASSUME TypeOK, NEW s \in Slots, NEW r \in Slot, r.address \in Peers,
           NEW w \in [Peers -> Ops \cup {NoOp}], NEW kind \in AckKinds,
           NEW h \in Handles \cup {NoHandle}, SendAck(s, r, w, kind, h)
    PROVE  Moves(s, r) /\ wants' \in [Peers -> Ops \cup {NoOp}]
<1> DEFINE a == [kind |-> kind, handle |-> h, to |-> r.address,
                 stale |-> ~Answers(kind, h, w[r.address])]
           q == [r EXCEPT !.ack = a]
<1>1. a \in Acks
    BY DEF Acks, Addresses
<1>2. q \in Slot /\ q.address = r.address /\ q.state = r.state /\ q.cursor = r.cursor
    BY <1>1 DEF Slot
<1>3. CASE Becomes(s, q) /\ wants' = w
    BY <1>2, <1>3 DEF Moves
<1>4. CASE /\ wants' = IF Answers(kind, h, w[r.address]) THEN [w EXCEPT ![r.address] = NoOp] ELSE w
           /\ Becomes(s, r)
    BY <1>4 DEF Moves
<1>5. QED
    BY <1>3, <1>4 DEF SendAck

\* The backend's events keep the types and FreedIsQuiet: a freed slot's are not
\* taken for those of a connection.
LEMMA BackendStepTypes ==
    ASSUME TypeInv, NEW s \in Slots, Backend(s)
    PROVE  TypeInv'
<1>1. /\ TypeOK /\ RepliesTypeOK /\ FreedIsQuiet
      /\ slot \in [Slots -> Slot] /\ slot[s] \in Slot /\ slot[s].address \in Addresses
      /\ backend \in [Slots -> BackendStates] /\ table \in [Slots -> Addresses]
      /\ peer \in [Slots -> Addresses] /\ op \in [Slots -> Ops \cup {NoOp}]
      /\ wants \in [Peers -> Ops \cup {NoOp}] /\ subscribed \in BOOLEAN
    BY DEF TypeInv, TypeOK, RepliesTypeOK, ConnectionTypeOK, Slot
<1>2. Quiet(slot[s], backend[s]) /\ NoOne \in Addresses
    BY <1>1 DEF FreedIsQuiet, Addresses
<1>3. slot[s].address # NoOne => slot[s].address \in Peers
    BY <1>1 DEF Addresses
<1> USE DEF BackendStates
<1>4. SUFFICES /\ NoticesOK' /\ slot' \in [Slots -> Slot]
               /\ backend' \in [Slots -> BackendStates] /\ table' \in [Slots -> Addresses]
               /\ op' \in [Slots -> Ops \cup {NoOp}] /\ wants' \in [Peers -> Ops \cup {NoOp}]
               /\ FreedIsQuiet'
    BY <1>1 DEF Backend, Connected, Disconnected, Discovered, Undiscovered, Completes,
                clientVars, replyVars, TypeInv, TypeOK, RepliesTypeOK, ConnectionTypeOK,
                NoticesOK
<1>5. CASE Connected(s)
  <2>1. UNCHANGED <<subscribed, peer, op, wants>> /\ backend[s] = "asked"
    BY <1>5 DEF Connected, clientVars
  <2> DEFINE unwanted == slot[s].address = NoOne \/ slot[s].state = "DISCONNECTING"
  <2>2. CASE unwanted /\ Unwanted(s)
    <3>1. backend' = [backend EXCEPT ![s] = "closing"]
      BY <2>2 DEF Unwanted
    <3>2. CASE UNCHANGED <<slot, table>> /\ NothingSent
      <4>1. Quiet(slot[s], "closing")
        BY <1>2, <2>1 DEF Quiet
      <4>2. Moves(s, slot[s])
        BY <1>1, <3>2 DEF Moves, Becomes
      <4>3. QED
        BY <1>1, <2>1, <3>1, <3>2, <4>1, <4>2, OneSlotQuiet, NothingSentTypes
    <3>3. CASE slot[s].address # NoOne /\ ResetConnection(s)
      <4>1. Quiet(Freed(slot[s]), "closing")
        BY <1>1, FreedSlot DEF Quiet
      <4>2. QED
        BY <1>1, <1>3, <2>1, <3>1, <3>3, <4>1, ResetTypes, SlotTypes, OneSlotQuiet
    <3>4. QED
      BY <2>2, <3>2, <3>3 DEF Unwanted
  <2>3. CASE ~unwanted /\ backend' = [backend EXCEPT ![s] = "up"] /\ Establish(s, slot[s])
    <3> DEFINE r == [slot[s] EXCEPT !.state = "ESTABLISHED"]
    <3>1. r \in Slot /\ r.address = slot[s].address /\ r.state = "ESTABLISHED"
      BY <1>1 DEF Slot, States
    <3>2. SendConnectedReply(s, r) /\ SendConnectionsFree(FALSE)
          /\ UNCHANGED <<pool, free, allocated, table>>
      BY <2>3 DEF Establish
    <3>3. Quiet(r, "up")
      BY <2>3, <3>1 DEF Quiet
    <3> HIDE DEF r
    <3>4. Moves(s, r) /\ told' \in [Peers -> {"down", "up", "lost"}]
      BY <1>1, <3>1, <3>2, ConnectedReplyTypes
    <3>5. NoticesOK'
      BY <1>1, <3>2, <3>4, FreeTypes DEF NoticesOK, RepliesTypeOK, MaxConnections
    <3>6. QED
      BY <1>1, <2>1, <2>3, <3>2, <3>3, <3>4, <3>5, SlotTypes, OneSlotQuiet
  <2>4. CASE /\ ~unwanted
             /\ Becomes(s, [slot[s] EXCEPT !.state = "CONNECTED"])
             /\ backend' = [backend EXCEPT ![s] = "exploring"]
             /\ table' = [table EXCEPT ![s] = NoOne]
             /\ NothingSent
    <3> DEFINE r == [slot[s] EXCEPT !.state = "CONNECTED"]
    <3>1. r \in Slot /\ r.address = slot[s].address /\ r.state = "CONNECTED"
      BY <1>1 DEF Slot, States
    <3>2. Moves(s, r)
      BY <2>4, <3>1 DEF Moves
    <3>3. Quiet(r, "exploring")
      BY <2>4, <3>1 DEF Quiet
    <3> HIDE DEF r
    <3>4. QED
      BY <1>1, <1>2, <2>1, <2>4, <3>2, <3>3, SlotTypes, OneSlotQuiet, NothingSentTypes
  <2>5. CASE ~unwanted /\ Undiscoverable(s)
    <3> DEFINE r == [slot[s] EXCEPT !.state = "CONNECTED"]
    <3>1. r \in Slot /\ r.address = slot[s].address /\ r.state = "CONNECTED"
      BY <1>1 DEF Slot, States
    <3>2. Quiet(r, "up") /\ DisconnectFrom(s, r, "up")
      BY <2>5, <3>1 DEF Quiet, Undiscoverable
    <3> HIDE DEF r
    <3>3. QED
      BY <1>1, <2>1, <2>5, <3>1, <3>2, DisconnectTypes
  <2>6. QED
    BY <1>5, <2>2, <2>3, <2>4, <2>5 DEF Connected
<1>6. CASE Disconnected(s)
  <2>1. /\ backend' = [backend EXCEPT ![s] = "none"] /\ op' = [op EXCEPT ![s] = NoOp]
        /\ UNCHANGED <<peer, wants>>
    BY <1>6 DEF Disconnected, clientVars
  <2>2. CASE slot[s].address = NoOne
    <3>1. UNCHANGED <<slot, table>> /\ NothingSent
      BY <1>6, <2>2 DEF Disconnected
    <3>2. Moves(s, slot[s]) /\ Quiet(slot[s], "none")
      BY <1>1, <1>2, <3>1 DEF Moves, Becomes, Quiet
    <3>3. QED
      BY <1>1, <2>1, <3>1, <3>2, OneSlotQuiet, NothingSentTypes
  <2>3. CASE slot[s].address # NoOne
    <3>1. ResetConnection(s)
      BY <1>6, <2>3 DEF Disconnected
    <3>2. Quiet(Freed(slot[s]), "none")
      BY <1>1, FreedSlot DEF Quiet
    <3>3. QED
      BY <1>1, <1>3, <2>1, <2>3, <3>1, <3>2, ResetTypes, SlotTypes, OneSlotQuiet
  <2>4. QED
    BY <2>2, <2>3
<1>7. CASE Discovered(s)
  <2> DEFINE r == [slot[s] EXCEPT !.state = "ESTABLISHED", !.discovered = TRUE]
             b == IF backend[s] = "exploring" THEN "settled" ELSE "closing"
  <2>1. /\ r \in Slot /\ r.address = slot[s].address /\ r.state = "ESTABLISHED"
        /\ r.cursor = slot[s].cursor
    BY <1>1 DEF Slot, States
  <2>2. /\ SendConnectedReply(s, r) /\ SendConnectionsFree(FALSE)
        /\ backend' = [backend EXCEPT ![s] = b] /\ table' = [table EXCEPT ![s] = peer[s]]
        /\ UNCHANGED <<pool, free, allocated, op, wants>>
        /\ backend[s] \in {"exploring", "failed"}
    BY <1>7 DEF Discovered, clientVars
  <2>3. Quiet(r, b)
    BY <1>2, <2>1, <2>2 DEF Quiet
  <2>4. b \in BackendStates
    OBVIOUS
  <2> HIDE DEF r, b
  <2>5. Moves(s, r) /\ told' \in [Peers -> {"down", "up", "lost"}]
    BY <1>1, <2>1, <2>2, ConnectedReplyTypes
  <2>6. NoticesOK'
    BY <1>1, <2>2, <2>5, FreeTypes DEF NoticesOK, RepliesTypeOK, MaxConnections
  <2>7. QED
    BY <1>1, <2>2, <2>3, <2>4, <2>5, <2>6, SlotTypes, OneSlotQuiet
<1>8. CASE Undiscovered(s)
  <2> DEFINE b == IF backend[s] = "exploring" THEN "failed" ELSE "closing"
  <2>1. DisconnectFrom(s, slot[s], b) /\ UNCHANGED <<op, wants>>
        /\ backend[s] \in {"up", "exploring", "failed"}
    BY <1>8 DEF Undiscovered, clientVars
  <2>2. Quiet(slot[s], b) /\ b \in BackendStates
        /\ (slot[s].address = NoOne => slot[s].state \in {"IDLE", "DISCONNECTING"})
    BY <1>2, <2>1 DEF Quiet
  <2> HIDE DEF b
  <2>3. QED
    BY <1>1, <2>1, <2>2, DisconnectTypes
<1>9. CASE Completes(s)
  <2>1. /\ op[s] \in Ops /\ op' = [op EXCEPT ![s] = NoOp]
        /\ UNCHANGED <<replyVars, backend, table>>
    BY <1>1, <1>9 DEF Completes
  <2>2. NothingSent
    BY <2>1 DEF replyVars, NothingSent
  <2>3. wants' \in [Peers -> Ops \cup {NoOp}] /\ Moves(s, slot[s])
    <3>1. CASE UNCHANGED <<slot, wants>>
      BY <1>1, <3>1 DEF Moves, Becomes
    <3>2. ASSUME slot[s].address # NoOne, NEW kind \in AckKinds, NEW h \in Handles \cup {NoHandle},
                 SendAck(s, slot[s], wants, kind, h)
          PROVE  wants' \in [Peers -> Ops \cup {NoOp}] /\ Moves(s, slot[s])
      BY <1>1, <1>3, <3>2, AckTypes
    <3>3. CASE UNCHANGED slot /\ Reply(slot[s].address, "read", op[s].handle)
      BY <1>1, <3>3 DEF Moves, Becomes, Reply
    <3>4. op[s].handle \in Handles
      BY <2>1 DEF Ops
    <3>5. QED
      BY <1>9, <3>1, <3>2, <3>3, <3>4 DEF Completes, AckKinds
  <2>4. QED
    BY <1>1, <1>2, <2>1, <2>2, <2>3, SlotTypes, OneSlotQuiet, NothingSentTypes
<1>10. QED
    BY <1>5, <1>6, <1>7, <1>8, <1>9 DEF Backend

\* Only what is owed or streamed changes: the slot keeps its device and its state,
\* and a slot that streams nothing starts nothing unless it is taken.
Advances(s) ==
    \E r \in Slot :
        /\ Becomes(s, r)
        /\ r.address = slot[s].address /\ r.state = slot[s].state
        /\ slot[s].address = NoOne => r.cursor = slot[s].cursor

LEMMA AdvanceTypes ==
    ASSUME TypeInv, NEW s \in Slots, Advances(s), UNCHANGED backend
    PROVE  slot' \in [Slots -> Slot] /\ FreedIsQuiet'
<1>1. slot \in [Slots -> Slot] /\ FreedIsQuiet
    BY DEF TypeInv, TypeOK, ConnectionTypeOK
<1>2. PICK r \in Slot : /\ Becomes(s, r)
                        /\ r.address = slot[s].address /\ r.state = slot[s].state
                        /\ slot[s].address = NoOne => r.cursor = slot[s].cursor
    BY DEF Advances
<1>3. Moves(s, r)
    BY <1>2 DEF Moves
<1>4. Quiet(r, backend'[s])
    BY <1>1, <1>2 DEF FreedIsQuiet, Quiet
<1>5. QED
    BY <1>1, <1>3, <1>4, SlotTypes, OneSlotQuiet

\* What FlushAck and DoneRefused leave of a slot.
LEMMA OwedSlot ==
    ASSUME NEW r \in Slot
    PROVE  /\ [r EXCEPT !.ack = NoAck] \in Slot
           /\ [r EXCEPT !.ack = NoAck].address = r.address
           /\ [r EXCEPT !.ack = NoAck].state = r.state
           /\ [r EXCEPT !.ack = NoAck].cursor = r.cursor
           /\ [r EXCEPT !.owedUp = FALSE] \in Slot
           /\ [r EXCEPT !.owedUp = FALSE].address = r.address
           /\ [r EXCEPT !.owedUp = FALSE].state = r.state
           /\ [r EXCEPT !.owedUp = FALSE].cursor = r.cursor
BY DEF Slot

LEMMA CursorSlot ==
    ASSUME NEW r \in Slot, NEW c \in Cursors
    PROVE  /\ [r EXCEPT !.cursor = c] \in Slot
           /\ [r EXCEPT !.cursor = c].address = r.address
           /\ [r EXCEPT !.cursor = c].state = r.state
           /\ [r EXCEPT !.cursor = c].cursor = c
BY DEF Slot

LEMMA NamedCursors ==
    /\ DONE_SENDING_SERVICES \in Cursors
    /\ INIT_SENDING_SERVICES \in Cursors
    /\ SERVICES_DONE_PENDING \in Cursors
    /\ SERVICES_DONE_PENDING # INIT_SENDING_SERVICES
    /\ INIT_SENDING_SERVICES \notin 0 .. ServiceCount
    /\ 0 .. ServiceCount \subseteq Cursors
    /\ 0 \in Cursors
BY ConnectionAssumption
   DEF Cursors, DONE_SENDING_SERVICES, INIT_SENDING_SERVICES, SERVICES_DONE_PENDING

LEMMA RefusedSlot ==
    ASSUME NEW r \in Slot, NEW q \in DoneRefused(r)
    PROVE  /\ q \in Slot /\ q.address = r.address /\ q.state = r.state
           /\ r.cursor = INIT_SENDING_SERVICES => q.cursor = r.cursor
<1>1. CASE q = r
    BY <1>1
<1>2. CASE q # r
  <2>1. r.cursor = SERVICES_DONE_PENDING /\ q = [r EXCEPT !.cursor = DONE_SENDING_SERVICES]
    BY <1>2 DEF DoneRefused
  <2>2. QED
    BY <2>1, CursorSlot, NamedCursors
<1>3. QED
    BY <1>1, <1>2

LEMMA OwedAdvance ==
    ASSUME NEW s \in Slots, NEW r \in Slot,
           r.address = slot[s].address, r.state = slot[s].state,
           slot[s].address = NoOne => r.cursor = slot[s].cursor,
           Becomes(s, r) \/ Becomes(s, [r EXCEPT !.ack = NoAck])
    PROVE  Advances(s)
<1> DEFINE q == [r EXCEPT !.ack = NoAck]
<1>1. q \in Slot /\ q.address = r.address /\ q.state = r.state /\ q.cursor = r.cursor
    BY OwedSlot
<1>2. Becomes(s, r) \/ Becomes(s, q)
    OBVIOUS
<1> HIDE DEF q
<1>3. QED
    BY <1>1, <1>2 DEF Advances

LEMMA FlushAckTypes ==
    ASSUME TypeInv, NEW s \in Slots, NEW r \in Slot,
           r.address = slot[s].address, r.state = slot[s].state,
           slot[s].address = NoOne => r.cursor = slot[s].cursor,
           FlushAck(s, r)
    PROVE  Advances(s) /\ wants' \in [Peers -> Ops \cup {NoOp}]
<1>1. wants \in [Peers -> Ops \cup {NoOp}]
    BY DEF TypeInv, TypeOK, ConnectionTypeOK
<1>2. \A h, kind : Reply(r.address, kind, h) => wants' \in [Peers -> Ops \cup {NoOp}]
    BY <1>1 DEF Reply
<1>3. Becomes(s, r) \/ Becomes(s, [r EXCEPT !.ack = NoAck])
    BY DEF FlushAck
<1>4. Advances(s)
    BY <1>3, OwedAdvance
<1>5. wants' \in [Peers -> Ops \cup {NoOp}]
    BY <1>1, <1>2 DEF FlushAck
<1>6. QED
    BY <1>4, <1>5

LEMMA DoneTypes ==
    ASSUME TypeInv, NEW s \in Slots, NEW g, slot[s].address # NoOne,
           SendServicesDone(s, slot[s], g)
    PROVE  Advances(s)
<1>1. slot[s] \in Slot
    BY DEF TypeInv, TypeOK, ConnectionTypeOK
<1>2. QED
    BY <1>1, CursorSlot, NamedCursors DEF SendServicesDone, Advances

LEMMA FlushAdvances ==
    ASSUME TypeInv, NEW s \in Slots, FlushOwedReplies(s)
    PROVE  /\ Advances(s)
           /\ wants' \in [Peers -> Ops \cup {NoOp}]
           /\ told' \in [Peers -> {"down", "up", "lost"}]
<1>1. /\ slot[s] \in Slot /\ Quiet(slot[s], backend[s]) /\ RepliesTypeOK
      /\ wants \in [Peers -> Ops \cup {NoOp}] /\ told \in [Peers -> {"down", "up", "lost"}]
    BY DEF TypeInv, TypeOK, RepliesTypeOK, ConnectionTypeOK, FreedIsQuiet
<1>2. CASE FlushDeferred(s)
  <2>1. PICK r \in DoneRefused(slot[s]) :
            Becomes(s, r) \/ Becomes(s, [r EXCEPT !.ack = NoAck])
    BY <1>2 DEF FlushDeferred
  <2>2. /\ r \in Slot /\ r.address = slot[s].address /\ r.state = slot[s].state
        /\ slot[s].address = NoOne => r.cursor = slot[s].cursor
    BY <1>1, <2>1, RefusedSlot DEF Quiet
  <2>3. Advances(s)
    BY <2>1, <2>2, OwedAdvance
  <2>4. QED
    BY <1>1, <1>2, <2>3 DEF FlushDeferred, clientVars
<1>3. CASE FlushAll(s)
  <2> DEFINE up == [slot[s] EXCEPT !.owedUp = FALSE]
  <2>1. /\ up \in Slot /\ up.address = slot[s].address /\ up.state = slot[s].state
        /\ up.cursor = slot[s].cursor
    BY <1>1, OwedSlot
  <2>2. told' \in [Peers -> {"down", "up", "lost"}]
    BY <1>1, <1>3, TellUpTypes DEF FlushAll
  <2> DEFINE sent == [up EXCEPT !.cursor = DONE_SENDING_SERVICES]
  <2>3. \/ up.cursor = SERVICES_DONE_PENDING /\ FlushAck(s, sent)
        \/ \E r \in DoneRefused(up) : FlushAck(s, r)
    BY <1>3 DEF FlushAll
  <2> HIDE DEF up
  <2>4. sent \in Slot /\ sent.address = up.address /\ sent.state = up.state
    BY <2>1, CursorSlot, NamedCursors
  <2> HIDE DEF sent
  <2>5. ASSUME NEW r \in DoneRefused(up), FlushAck(s, r)
        PROVE  Advances(s) /\ wants' \in [Peers -> Ops \cup {NoOp}]
    <3>1. /\ r \in Slot /\ r.address = slot[s].address /\ r.state = slot[s].state
          /\ slot[s].address = NoOne => r.cursor = slot[s].cursor
      BY <1>1, <2>1, RefusedSlot DEF Quiet
    <3>2. QED
      BY <2>5, <3>1, FlushAckTypes
  <2>6. ASSUME up.cursor = SERVICES_DONE_PENDING, FlushAck(s, sent)
        PROVE  Advances(s) /\ wants' \in [Peers -> Ops \cup {NoOp}]
    <3>1. slot[s].address # NoOne
      BY <1>1, <2>1, <2>6, NamedCursors DEF Quiet
    <3>2. QED
      BY <2>1, <2>4, <2>6, <3>1, FlushAckTypes
  <2>7. QED
    BY <2>2, <2>3, <2>5, <2>6
<1>4. QED
    BY <1>2, <1>3 DEF FlushOwedReplies

LEMMA BatchAdvances ==
    ASSUME TypeInv, NEW s \in Slots, slot[s].address # NoOne,
           slot[s].cursor \in 0 .. ServiceCount, SendBatch(s)
    PROVE  Advances(s) /\ UNCHANGED table
<1>1. slot[s] \in Slot
    BY DEF TypeInv, TypeOK, ConnectionTypeOK
<1>2. PICK n \in slot[s].cursor + 1 .. Entries(s) :
          Becomes(s, [slot[s] EXCEPT !.cursor = n]) /\ UNCHANGED table
    BY DEF SendBatch
<1>3. n \in Cursors
    BY ConnectionAssumption, NamedCursors DEF Entries
<1>4. QED
    BY <1>1, <1>2, <1>3, CursorSlot DEF Advances

\* Sending again, streaming and sweeping keep the types.
LEMMA LoopStepTypes ==
    ASSUME TypeInv, NEW s \in Slots, Loop(s)
    PROVE  TypeInv'
<1>1. /\ TypeOK /\ RepliesTypeOK /\ FreedIsQuiet
      /\ slot \in [Slots -> Slot] /\ slot[s] \in Slot /\ slot[s].address \in Addresses
      /\ backend \in [Slots -> BackendStates] /\ table \in [Slots -> Addresses]
      /\ peer \in [Slots -> Addresses] /\ op \in [Slots -> Ops \cup {NoOp}]
      /\ wants \in [Peers -> Ops \cup {NoOp}] /\ subscribed \in BOOLEAN
    BY DEF TypeInv, TypeOK, RepliesTypeOK, ConnectionTypeOK, Slot
<1>2. Quiet(slot[s], backend[s]) /\ NoOne \in Addresses /\ backend[s] \in BackendStates
    BY <1>1 DEF FreedIsQuiet, Addresses
<1>3. SUFFICES /\ NoticesOK' /\ slot' \in [Slots -> Slot]
               /\ backend' \in [Slots -> BackendStates] /\ table' \in [Slots -> Addresses]
               /\ wants' \in [Peers -> Ops \cup {NoOp}] /\ FreedIsQuiet'
    BY <1>1 DEF Loop, StreamServices, Sweep, FlushOwedReplies, clientVars, backendVars,
                TypeInv, TypeOK, RepliesTypeOK, ConnectionTypeOK, NoticesOK
<1>4. CASE StreamServices(s)
  <2>1. slot[s].cursor \in 0 .. ServiceCount /\ UNCHANGED wants
    BY <1>4 DEF StreamServices
  <2>2. slot[s].address # NoOne
    BY <1>2, <2>1, NamedCursors DEF Quiet
  <2>3. CASE /\ table' = [table EXCEPT ![s] = NoOne]
             /\ SendServicesDone(s, slot[s], got)
             /\ NothingSent /\ UNCHANGED backend
    BY <1>1, <1>2, <2>1, <2>2, <2>3, DoneTypes, AdvanceTypes, NothingSentTypes
  <2>4. CASE SendBatch(s) /\ NothingSent /\ UNCHANGED backend
    BY <1>1, <2>1, <2>2, <2>4, BatchAdvances, AdvanceTypes, NothingSentTypes
  <2>5. CASE AbortServiceStream(s)
    <3> DEFINE r == [slot[s] EXCEPT !.cursor = DONE_SENDING_SERVICES]
    <3>1. r \in Slot /\ r.address = slot[s].address /\ r.state = slot[s].state
      BY <1>1, CursorSlot, NamedCursors
    <3>2. DisconnectFrom(s, r, backend[s])
      BY <2>5 DEF AbortServiceStream
    <3>3. Quiet(r, backend[s])
      BY <1>2, <2>2, <3>1 DEF Quiet
    <3> HIDE DEF r
    <3>4. QED
      BY <1>1, <1>2, <2>1, <2>2, <3>1, <3>2, <3>3, DisconnectTypes
  <2>6. QED
    BY <1>4, <2>3, <2>4, <2>5 DEF StreamServices
<1>5. CASE Sweep(s)
  <2>1. slot[s].address # NoOne /\ DisconnectFrom(s, slot[s], backend[s]) /\ UNCHANGED wants
    BY <1>5 DEF Sweep, clientVars
  <2>2. QED
    BY <1>1, <1>2, <2>1, DisconnectTypes
<1>6. CASE FlushOwedReplies(s)
  <2>1. UNCHANGED <<pool, free, allocated, freeOwed, toldFree, backend, table>>
    BY <1>6 DEF FlushOwedReplies, backendVars
  <2>2. /\ Advances(s) /\ wants' \in [Peers -> Ops \cup {NoOp}]
        /\ told' \in [Peers -> {"down", "up", "lost"}]
    BY <1>6, FlushAdvances
  <2>3. QED
    BY <1>1, <2>1, <2>2, AdvanceTypes DEF NoticesOK, RepliesTypeOK, MaxConnections
<1>7. QED
    BY <1>3, <1>4, <1>5, <1>6 DEF Loop

\* A slot that can be reserved for p is p's, or free.
LEMMA ReservableSlot ==
    ASSUME NEW p \in Peers, NEW s \in Reservable(p)
    PROVE  s \in Slots /\ slot[s].address \in {p, NoOne}
BY DEF Reservable, SlotsOf

\* Connect requests keep the types: what is refused frees only what has no link.
LEMMA ConnectTypes ==
    ASSUME TypeInv, NEW p \in Peers, Connect(p) \/ ConnectUntyped(p)
    PROVE  TypeInv'
<1>1. /\ TypeOK /\ RepliesTypeOK /\ FreedIsQuiet
      /\ slot \in [Slots -> Slot] /\ subscribed \in BOOLEAN
      /\ backend \in [Slots -> BackendStates] /\ table \in [Slots -> Addresses]
      /\ peer \in [Slots -> Addresses] /\ op \in [Slots -> Ops \cup {NoOp}]
      /\ wants \in [Peers -> Ops \cup {NoOp}] /\ pool \subseteq Peers
    BY DEF TypeInv, TypeOK, RepliesTypeOK, ConnectionTypeOK
<1>2. p \in Addresses /\ NoOne \in Addresses /\ p # NoOne
    BY ProxyAssumption DEF Addresses
<1>3. UNCHANGED <<subscribed, op, wants>>
    BY DEF Connect, ConnectUntyped, backendVars, clientVars
<1>4. SUFFICES /\ NoticesOK' /\ slot' \in [Slots -> Slot]
               /\ backend' \in [Slots -> BackendStates] /\ table' \in [Slots -> Addresses]
               /\ peer' \in [Slots -> Addresses] /\ FreedIsQuiet'
    BY <1>1, <1>3 DEF TypeInv, TypeOK, RepliesTypeOK, ConnectionTypeOK, NoticesOK
<1>5. CASE NoSlotLeft(p)
  <2>1. UNCHANGED <<slot, backend, peer, table, free, allocated, freeOwed, toldFree>>
        /\ AnswerDeviceDisconnected(p, pool)
    BY <1>5 DEF NoSlotLeft
  <2>2. QED
    BY <1>1, <2>1, AnswerTypes
       DEF NoticesOK, RepliesTypeOK, MaxConnections, FreedIsQuiet, Quiet
<1>6. ASSUME NEW s \in Reservable(p)
      PROVE  /\ s \in Slots /\ slot[s] \in Slot /\ slot[s].address \in Addresses
             /\ Quiet(slot[s], backend[s])
             /\ Reserved(slot[s], p) \in Slot /\ Reserved(slot[s], p).address = p
             /\ Reserved(slot[s], p).state = "INIT" =>
                   backend[s] \in {"none", "asked", "closing", "failed"}
  <2>1. s \in Slots /\ slot[s].address \in {p, NoOne}
    BY <1>6, ReservableSlot
  <2>2. slot[s] \in Slot /\ Quiet(slot[s], backend[s])
    BY <1>1, <2>1 DEF FreedIsQuiet
  <2>3. QED
    BY <1>2, <2>1, <2>2, ReservedSlot DEF Quiet
<1>7. ASSUME NEW s \in Reservable(p), AlreadyConnected(s, p)
      PROVE  /\ NoticesOK' /\ slot' \in [Slots -> Slot] /\ FreedIsQuiet'
             /\ UNCHANGED <<backend, peer, table>>
  <2>1. /\ SendConnectedReply(s, slot[s]) /\ SendConnectionsFree(FALSE)
        /\ pool' = pool \ {p} /\ UNCHANGED <<free, allocated, backend, peer, table>>
    BY <1>7 DEF AlreadyConnected
  <2>2. Moves(s, slot[s]) /\ told' \in [Peers -> {"down", "up", "lost"}]
    BY <1>1, <1>6, <2>1, ConnectedReplyTypes
  <2>3. NoticesOK'
    BY <1>1, <2>1, <2>2, FreeTypes DEF NoticesOK, RepliesTypeOK, MaxConnections
  <2>4. QED
    BY <1>1, <1>6, <2>1, <2>2, <2>3, SlotTypes, OneSlotQuiet
<1>8. ASSUME NEW s \in Reservable(p), IgnoreRequest(s, p)
      PROVE  /\ NoticesOK' /\ slot' \in [Slots -> Slot] /\ FreedIsQuiet'
             /\ UNCHANGED <<backend, peer, table>>
  <2>1. /\ pool' = pool \ {p}
        /\ UNCHANGED <<told, free, allocated, freeOwed, toldFree, slot, backend, peer, table>>
    BY <1>8 DEF IgnoreRequest
  <2>2. QED
    BY <1>1, <2>1 DEF NoticesOK, RepliesTypeOK, MaxConnections, FreedIsQuiet, Quiet
<1>9. ASSUME NEW s \in Reservable(p), NEW cached \in BOOLEAN, Initiate(s, p, cached)
      PROVE  /\ NoticesOK' /\ slot' \in [Slots -> Slot] /\ FreedIsQuiet'
             /\ backend' \in [Slots -> BackendStates] /\ peer' \in [Slots -> Addresses]
             /\ UNCHANGED table
  <2> DEFINE r == Reserved(slot[s], p)
             q == [r EXCEPT !.cached = cached, !.state = "CONNECTING"]
  <2>1. r \in Slot /\ r.address = p
    BY <1>6
  <2>2. /\ Becomes(s, q)
        /\ backend' = [backend EXCEPT ![s] = "asked"] /\ peer' = [peer EXCEPT ![s] = p]
        /\ UpdateAddressSlot(slot[s].address, p) /\ SendConnectionsFree(slot[s].address # p)
        /\ pool' = pool \ {p} /\ UNCHANGED <<told, table>>
    BY <1>9 DEF Initiate
  <2> HIDE DEF r
  <2>3. q \in Slot /\ q.address = p /\ q.state = "CONNECTING"
    BY <2>1 DEF Slot, States
  <2> HIDE DEF q
  <2>4. Moves(s, q) /\ Quiet(q, "asked")
    BY <1>2, <2>2, <2>3 DEF Moves, Quiet
  <2>5. free' \in 0 .. MaxConnections /\ allocated' \in [Addresses -> Nat]
    BY <1>1, <1>2, <1>6, <2>2, AddressSlotTypes
  <2>6. NoticesOK'
    BY <1>1, <2>2, <2>5, FreeTypes DEF NoticesOK, RepliesTypeOK, MaxConnections
  <2>7. backend' \in [Slots -> BackendStates] /\ peer' \in [Slots -> Addresses]
    BY <1>1, <1>2, <2>2 DEF BackendStates
  <2>8. backend'[s] = "asked" /\ \A t \in Slots \ {s} : backend'[t] = backend[t]
    BY <1>1, <1>6, <2>2
  <2>9. QED
    BY <1>1, <1>6, <2>2, <2>4, <2>6, <2>7, <2>8, SlotTypes, OneSlotQuiet
<1>10. ASSUME NEW s \in Reservable(p), NEW cached \in BOOLEAN, FailToInitiate(s, p, cached)
       PROVE  /\ NoticesOK' /\ slot' \in [Slots -> Slot] /\ FreedIsQuiet'
              /\ table' \in [Slots -> Addresses] /\ UNCHANGED <<backend, peer>>
  <2> DEFINE r == Reserved(slot[s], p)
             q == [Freed(r) EXCEPT !.cached = cached]
  <2>1. r \in Slot /\ r.address = p
    BY <1>6
  <2>2. /\ r.state = "INIT" /\ Becomes(s, q)
        /\ table' = [table EXCEPT ![s] = NoOne]
        /\ SendDeviceDisconnected(p)
        /\ UpdateAddressSlot(slot[s].address, NoOne)
        /\ SendConnectionsFreeTwice(slot[s].address = p)
        /\ UNCHANGED <<backend, peer>>
    BY <1>10 DEF FailToInitiate
  <2>3. backend[s] \in {"none", "asked", "closing", "failed"}
    BY <1>6, <2>2
  <2> HIDE DEF r
  <2>4. /\ q \in Slot /\ q.address = NoOne /\ q.state = "IDLE"
        /\ q.cursor = INIT_SENDING_SERVICES
    <3>1. /\ Freed(r) \in Slot /\ Freed(r).address = NoOne /\ Freed(r).state = "IDLE"
          /\ Freed(r).cursor = INIT_SENDING_SERVICES
      BY <2>1, FreedSlot
    <3>2. QED
      BY <3>1 DEF Slot
  <2> HIDE DEF q
  <2>5. Moves(s, q) /\ Quiet(q, backend[s])
    BY <2>2, <2>3, <2>4 DEF Moves, Quiet
  <2>6. free' \in 0 .. MaxConnections /\ allocated' \in [Addresses -> Nat]
    BY <1>1, <1>2, <1>6, <2>2, AddressSlotTypes
  <2>7. pool' \subseteq Peers /\ told' \in [Peers -> {"down", "up", "lost"}]
    BY <1>1, <2>2, ReportTypes
  <2>8. NoticesOK'
    BY <1>1, <2>2, <2>6, <2>7, FreeTypes DEF NoticesOK, MaxConnections
  <2>9. QED
    BY <1>1, <1>2, <1>6, <2>2, <2>5, <2>8, SlotTypes, OneSlotQuiet
<1>11. CASE ConnectUntyped(p)
  <2>1. AnswerDeviceDisconnected(p, pool \ {p}) /\ UNCHANGED <<freeOwed, backend, peer, table>>
    BY <1>11 DEF ConnectUntyped, backendVars
  <2>2. PICK s \in Reservable(p) :
            /\ Becomes(s, Reserved(slot[s], p))
            /\ UpdateAddressSlot(slot[s].address, p)
            /\ toldFree' = IF slot[s].address = p THEN toldFree ELSE OutOfDate
    BY <1>11 DEF ConnectUntyped
  <2>3. Moves(s, Reserved(slot[s], p))
    BY <1>6, <2>2 DEF Moves
  <2>4. Quiet(Reserved(slot[s], p), backend[s])
    BY <1>2, <1>6 DEF Quiet
  <2>5. free' \in 0 .. MaxConnections /\ allocated' \in [Addresses -> Nat]
    BY <1>1, <1>2, <1>6, <2>2, AddressSlotTypes
  <2>6. pool' \subseteq Peers /\ told' \in [Peers -> {"down", "up", "lost"}]
    BY <1>1, <2>1, AnswerTypes
  <2>7. NoticesOK'
    BY <1>1, <2>1, <2>2, <2>5, <2>6 DEF NoticesOK, RepliesTypeOK, OutOfDate, MaxConnections
  <2>8. QED
    BY <1>1, <1>6, <2>1, <2>3, <2>4, <2>7, SlotTypes, OneSlotQuiet
<1>12. CASE Connect(p)
    BY <1>1, <1>5, <1>7, <1>8, <1>9, <1>10, <1>12 DEF Connect, ConnectionTypes
<1>13. QED
    BY <1>11, <1>12

LEMMA ServicesAdvance ==
    ASSUME TypeInv, NEW p \in Peers, GetServices(p)
    PROVE  UNCHANGED slot \/ \E s \in SlotsOf(p) : Advances(s)
<1>1. ASSUME NEW s \in SlotsOf(p)
      PROVE  /\ s \in Slots /\ slot[s] \in Slot /\ slot[s].address = p /\ p # NoOne
    BY ProxyAssumption DEF SlotsOf, TypeInv, TypeOK, ConnectionTypeOK
<1>2. PICK g : \/ ServicesRefused(p, g)
               \/ \E s \in SlotsOf(p) : SendServicesDone(s, slot[s], g) \/ RestartStream(s, g)
  BY DEF GetServices
<1>3. CASE ServicesRefused(p, g)
  BY <1>3 DEF ServicesRefused
<1>4. ASSUME NEW s \in SlotsOf(p), SendServicesDone(s, slot[s], g)
      PROVE  Advances(s)
  BY <1>1, <1>4, DoneTypes
<1>5. ASSUME NEW s \in SlotsOf(p), RestartStream(s, g)
      PROVE  Advances(s)
  <2> DEFINE c == IF slot[s].cursor \in Spent THEN DONE_SENDING_SERVICES ELSE 0
             q == [slot[s] EXCEPT !.cursor = c]
  <2>1. Becomes(s, q) /\ c \in Cursors
    BY <1>5, NamedCursors DEF RestartStream
  <2> HIDE DEF c
  <2>2. q \in Slot /\ q.address = slot[s].address /\ q.state = slot[s].state
    BY <1>1, <2>1, CursorSlot
  <2> HIDE DEF q
  <2>3. QED
    BY <1>1, <2>1, <2>2 DEF Advances
<1>6. QED
  BY <1>2, <1>3, <1>4, <1>5

LEMMA OperationAdvances ==
    ASSUME TypeInv, NEW p \in Peers, NEW request \in Ops, Operation(p, request)
    PROVE  /\ UNCHANGED slot \/ \E s \in SlotsOf(p) : Advances(s)
           /\ wants' \in [Peers -> Ops \cup {NoOp}]
           /\ op' \in [Slots -> Ops \cup {NoOp}]
<1> DEFINE w == [wants EXCEPT ![p] = request]
<1>1. /\ op \in [Slots -> Ops \cup {NoOp}] /\ wants \in [Peers -> Ops \cup {NoOp}]
      /\ w \in [Peers -> Ops \cup {NoOp}] /\ TypeOK
      /\ \A s \in SlotsOf(p) : s \in Slots /\ slot[s] \in Slot /\ slot[s].address = p
    BY DEF TypeInv, TypeOK, ConnectionTypeOK, SlotsOf
<1>2. request.kind \in {"read", "write", "notify"} /\ request.handle \in Handles
    BY DEF Ops
<1>3. \/ NotConnected(p, w)
      \/ \E s \in SlotsOf(p) :
            LET r == Superseded(slot[s], request.handle, request.kind)
            IN  \/ OperationRefused(s, r, w, request.handle)
                \/ OperationStarted(s, r, w, request)
                \/ OperationDone(s, r, w, request)
    BY DEF Operation
<1> HIDE DEF w
<1>4. CASE NotConnected(p, w)
    BY <1>1, <1>4 DEF NotConnected
<1>5. ASSUME NEW s \in SlotsOf(p), NEW r \in Slot, r.address = p, r.state = slot[s].state,
             r.cursor = slot[s].cursor,
             \/ OperationRefused(s, r, w, request.handle)
             \/ OperationStarted(s, r, w, request)
             \/ OperationDone(s, r, w, request)
      PROVE  /\ Advances(s) /\ wants' \in [Peers -> Ops \cup {NoOp}]
             /\ op' \in [Slots -> Ops \cup {NoOp}]
  <2>1. Moves(s, r) /\ wants' \in [Peers -> Ops \cup {NoOp}]
        /\ op' \in [Slots -> Ops \cup {NoOp}]
    <3>1. CASE OperationRefused(s, r, w, request.handle)
      BY <1>1, <1>2, <1>5, <3>1, AckTypes DEF OperationRefused, AckKinds
    <3>2. CASE OperationStarted(s, r, w, request)
      BY <1>1, <1>5, <3>2 DEF OperationStarted, Moves
    <3>3. CASE OperationDone(s, r, w, request)
      BY <1>1, <1>2, <1>5, <3>3, AckTypes DEF OperationDone, AckKinds
    <3>4. QED
      BY <1>5, <3>1, <3>2, <3>3
  <2>2. QED
    BY <1>1, <1>5, <2>1 DEF Moves, Advances
<1>6. \A s \in SlotsOf(p) :
          LET r == Superseded(slot[s], request.handle, request.kind)
          IN  /\ r \in Slot /\ r.address = p /\ r.state = slot[s].state
              /\ r.cursor = slot[s].cursor
    BY <1>1, SupersededSlot
<1>7. QED
    BY <1>3, <1>4, <1>5, <1>6

LEMMA GivenUpSlot ==
    ASSUME TypeInv, NEW p \in Peers, ClientGivesUp(p), NEW s \in Slots
    PROVE  /\ slot'[s] \in Slot /\ slot'[s].address = slot[s].address
           /\ slot'[s].state = slot[s].state /\ slot'[s].cursor = slot[s].cursor
<1>1. slot'[s] = IF slot[s].address = p /\ slot[s].ack # NoAck
                 THEN [slot[s] EXCEPT !.ack.stale = TRUE] ELSE slot[s]
  BY DEF ClientGivesUp
<1>2. slot[s] \in Slot /\ (slot[s].ack # NoAck => slot[s].ack \in Acks)
  BY DEF Slot, TypeInv, TypeOK, ConnectionTypeOK
<1> DEFINE a == [slot[s].ack EXCEPT !.stale = TRUE]
<1>3. slot[s].ack # NoAck => a \in Acks
  BY <1>2 DEF Acks
<1>4. slot[s].ack # NoAck => [slot[s] EXCEPT !.ack = a] = [slot[s] EXCEPT !.ack.stale = TRUE]
  BY <1>2 DEF Slot
<1> HIDE DEF a
<1>5. QED
  BY <1>1, <1>2, <1>3, <1>4 DEF Slot

\* The other requests keep the types.
LEMMA RequestTypes ==
    ASSUME TypeInv, NEW p \in Peers,
           \/ ConnectV1(p) \/ Disconnect(p) \/ GetServices(p) \/ ClientEndsList(p)
           \/ \E request \in Ops : Operation(p, request)
           \/ ClientGivesUp(p)
    PROVE  TypeInv'
<1>1. /\ TypeOK /\ RepliesTypeOK /\ FreedIsQuiet
      /\ slot \in [Slots -> Slot] /\ subscribed \in BOOLEAN
      /\ backend \in [Slots -> BackendStates] /\ table \in [Slots -> Addresses]
      /\ peer \in [Slots -> Addresses] /\ op \in [Slots -> Ops \cup {NoOp}]
      /\ wants \in [Peers -> Ops \cup {NoOp}] /\ pool \subseteq Peers
    BY DEF TypeInv, TypeOK, RepliesTypeOK, ConnectionTypeOK
<1>2. ASSUME NEW s \in SlotsOf(p)
      PROVE  /\ s \in Slots /\ slot[s] \in Slot /\ slot[s].address = p /\ p # NoOne
             /\ Quiet(slot[s], backend[s]) /\ backend[s] \in BackendStates
    BY <1>1, <1>2, ProxyAssumption DEF SlotsOf, FreedIsQuiet
<1>3. CASE ConnectV1(p)
  <2>1. /\ AnswerDeviceDisconnected(p, pool)
        /\ UNCHANGED <<subscribed, free, allocated, freeOwed, toldFree, slot, backend, peer,
                       table, op, wants>>
    BY <1>3 DEF ConnectV1, backendVars, clientVars
  <2>2. QED
    BY <1>1, <2>1, AnswerTypes DEF TypeInv, TypeOK, RepliesTypeOK, ConnectionTypeOK,
                                   MaxConnections, FreedIsQuiet, Quiet
<1>4. CASE Disconnect(p)
  <2>1. UNCHANGED <<subscribed, peer, op, wants>>
    BY <1>4 DEF Disconnect, clientVars
  <2>2. CASE /\ AnswerDeviceDisconnected(p, pool) /\ SendConnectionsFree(FALSE)
             /\ UNCHANGED <<slot, backend, table, free, allocated>>
    BY <1>1, <2>1, <2>2, AnswerTypes, FreeTypes
       DEF TypeInv, TypeOK, RepliesTypeOK, ConnectionTypeOK, MaxConnections, FreedIsQuiet, Quiet
  <2>3. ASSUME NEW s \in SlotsOf(p), DisconnectFrom(s, slot[s], backend[s])
        PROVE  TypeInv'
    <3>1. /\ NoticesOK' /\ slot' \in [Slots -> Slot] /\ FreedIsQuiet'
          /\ backend' \in [Slots -> BackendStates] /\ table' \in [Slots -> Addresses]
      BY <1>2, <2>3, DisconnectTypes
    <3>2. QED
      BY <1>1, <2>1, <3>1 DEF TypeInv, TypeOK, RepliesTypeOK, ConnectionTypeOK, NoticesOK
  <2>4. QED
    BY <1>4, <2>2, <2>3 DEF Disconnect
<1>5. CASE GetServices(p)
  <2>1. UNCHANGED <<replyVars, backend, peer, table, op, wants>>
    BY <1>5 DEF GetServices, backendVars
  <2>2. UNCHANGED slot \/ \E s \in SlotsOf(p) : Advances(s)
    BY <1>5, ServicesAdvance
  <2>3. slot' \in [Slots -> Slot] /\ FreedIsQuiet'
    BY <1>1, <1>2, <2>1, <2>2, AdvanceTypes DEF FreedIsQuiet, Quiet
  <2>4. QED
    BY <1>1, <2>1, <2>3 DEF TypeInv, TypeOK, RepliesTypeOK, ConnectionTypeOK, replyVars,
                            MaxConnections
<1>6. CASE ClientEndsList(p)
  <2>1. UNCHANGED <<replyVars, slot, backend, peer, table, op, wants>>
    BY <1>6 DEF ClientEndsList, backendVars
  <2>2. QED
    BY <1>1, <2>1 DEF TypeInv, TypeOK, RepliesTypeOK, ConnectionTypeOK, replyVars,
                      MaxConnections, FreedIsQuiet, Quiet
<1>7. ASSUME NEW request \in Ops, Operation(p, request)
      PROVE  TypeInv'
  <2>1. UNCHANGED <<replyVars, backend, peer, table>>
    BY <1>7 DEF Operation
  <2>2. /\ UNCHANGED slot \/ \E s \in SlotsOf(p) : Advances(s)
        /\ wants' \in [Peers -> Ops \cup {NoOp}] /\ op' \in [Slots -> Ops \cup {NoOp}]
    BY <1>7, OperationAdvances
  <2>3. slot' \in [Slots -> Slot] /\ FreedIsQuiet'
    BY <1>1, <1>2, <2>1, <2>2, AdvanceTypes DEF FreedIsQuiet, Quiet
  <2>4. QED
    BY <1>1, <2>1, <2>2, <2>3 DEF TypeInv, TypeOK, RepliesTypeOK, ConnectionTypeOK, replyVars,
                                  MaxConnections
<1>8. CASE ClientGivesUp(p)
  <2>1. UNCHANGED <<replyVars, backend, peer, table, op>>
        /\ wants' = [wants EXCEPT ![p] = NoOp]
    BY <1>8 DEF ClientGivesUp, backendVars
  <2>2. ASSUME NEW s \in Slots
        PROVE  /\ slot'[s] \in Slot /\ slot'[s].address = slot[s].address
               /\ slot'[s].state = slot[s].state /\ slot'[s].cursor = slot[s].cursor
    BY <1>8, <2>2, GivenUpSlot
  <2>3. slot' \in [Slots -> Slot] /\ FreedIsQuiet'
    BY <1>1, <1>8, <2>1, <2>2 DEF ClientGivesUp, FreedIsQuiet, Quiet
  <2>4. QED
    BY <1>1, <2>1, <2>3 DEF TypeInv, TypeOK, RepliesTypeOK, ConnectionTypeOK,
       replyVars, MaxConnections
<1>9. QED
    BY <1>3, <1>4, <1>5, <1>6, <1>7, <1>8

\* Subscriptions, and what is sent again for no slot in particular.
LEMMA SubscriptionTypes ==
    ASSUME TypeInv,
           \/ Subscribe \/ Unsubscribe \/ AskForSlots \/ ResendConnectionsFree
           \/ \E p \in Peers : DrainPool(p)
    PROVE  TypeInv'
<1>1. /\ TypeOK /\ RepliesTypeOK /\ FreedIsQuiet
      /\ slot \in [Slots -> Slot] /\ subscribed \in BOOLEAN
      /\ backend \in [Slots -> BackendStates] /\ table \in [Slots -> Addresses]
      /\ peer \in [Slots -> Addresses] /\ op \in [Slots -> Ops \cup {NoOp}]
      /\ wants \in [Peers -> Ops \cup {NoOp}] /\ pool \subseteq Peers
    BY DEF TypeInv, TypeOK, RepliesTypeOK, ConnectionTypeOK
<1>2. CASE Subscribe \/ Unsubscribe
  <2>1. /\ subscribed' \in BOOLEAN /\ ResetOwedReplies /\ KnowsNothing
        /\ UNCHANGED <<free, allocated, backend, peer, op>>
    BY <1>2 DEF Subscribe, Unsubscribe
  <2>2. ASSUME NEW s \in Slots
        PROVE  slot'[s] \in Slot /\ Quiet(slot'[s], backend[s])
    <3>1. slot'[s] = ClearOwed(Parked(slot[s])) /\ slot[s] \in Slot
          /\ Quiet(slot[s], backend[s])
      BY <1>1, <2>1 DEF ResetOwedReplies, FreedIsQuiet
    <3>2. QED
      BY <3>1, ParkedSlot DEF Quiet
  <2>3. slot' \in [Slots -> Slot]
    BY <2>1, <2>2 DEF ResetOwedReplies
  <2>4. FreedIsQuiet'
    BY <2>1, <2>2 DEF FreedIsQuiet, Quiet
  <2>5. table' \in [Slots -> Addresses]
    BY <1>1, <2>1 DEF ResetOwedReplies, Addresses
  <2>6. RepliesTypeOK'
    BY <1>1, <2>1 DEF RepliesTypeOK, ResetOwedReplies, KnowsNothing, MaxConnections
  <2>7. wants' \in [Peers -> Ops \cup {NoOp}]
    BY <2>1 DEF KnowsNothing
  <2>8. QED
    BY <1>1, <2>1, <2>3, <2>4, <2>5, <2>6, <2>7 DEF TypeInv, TypeOK, ConnectionTypeOK
<1>3. CASE AskForSlots \/ ResendConnectionsFree
  <2>1. UNCHANGED <<subscribed, pool, free, allocated, told, slot, backend, peer, table, op, wants>>
    BY <1>3 DEF AskForSlots, ResendConnectionsFree, backendVars, clientVars
  <2>2. freeOwed' \in BOOLEAN /\ toldFree' \in {"never", "current", "old"}
    BY <1>1, <1>3, FreeTypes DEF AskForSlots, ResendConnectionsFree
  <2>3. QED
    BY <1>1, <2>1, <2>2 DEF TypeInv, TypeOK, RepliesTypeOK, ConnectionTypeOK,
       MaxConnections, FreedIsQuiet, Quiet
<1>4. ASSUME NEW p \in Peers, DrainPool(p)
      PROVE  TypeInv'
  <2>1. /\ SendDeviceDisconnected(p)
        /\ UNCHANGED <<subscribed, free, allocated, freeOwed, toldFree, slot, backend, peer,
                       table, op, wants>>
    BY <1>4 DEF DrainPool, backendVars, clientVars
  <2>2. QED
    BY <1>1, <2>1, ReportTypes DEF TypeInv, TypeOK, RepliesTypeOK, ConnectionTypeOK,
       MaxConnections, FreedIsQuiet, Quiet
<1>5. QED
    BY <1>2, <1>3, <1>4

LEMMA TypeInvInit ==
    ASSUME Init
    PROVE  TypeInv
<1>1. MaxConnections \in Nat
    BY ProxyAssumption, FS_CardinalityType DEF MaxConnections
<1>2. NewSlot \in Slot /\ NewSlot.cursor = INIT_SENDING_SERVICES
    BY NamedCursors DEF NewSlot, Slot, Addresses, States
<1>3. RepliesTypeOK
  <2>1. allocated \in [Addresses -> Nat]
    BY <1>1 DEF Init, RepliesInit
  <2>2. free \in 0 .. MaxConnections
    BY <1>1 DEF Init, RepliesInit
  <2>3. QED
    BY <2>1, <2>2 DEF Init, RepliesInit, RepliesTypeOK
<1>4. ConnectionTypeOK
    BY <1>2 DEF Init, ConnectionInit, ConnectionTypeOK, BackendStates, Addresses
<1>5. FreedIsQuiet
    BY <1>2 DEF Init, ConnectionInit, FreedIsQuiet, Quiet
<1>6. QED
    BY <1>3, <1>4, <1>5 DEF TypeInv, TypeOK

LEMMA TypeInvStep ==
    ASSUME TypeInv, [Next]_vars
    PROVE  TypeInv'
<1>1. CASE Next
  <2>1. ASSUME NEW p \in Peers, Client(p)
        PROVE  TypeInv'
    BY <2>1, ConnectTypes, RequestTypes DEF Client
  <2>2. ASSUME NEW s \in Slots, Backend(s) \/ Loop(s)
        PROVE  TypeInv'
    BY <2>2, BackendStepTypes, LoopStepTypes
  <2>3. QED
    BY <1>1, <2>1, <2>2, SubscriptionTypes DEF Next
<1>2. CASE UNCHANGED vars
    BY <1>2 DEF vars, replyVars, slotVars, backendVars, clientVars, TypeInv, TypeOK,
       RepliesTypeOK, ConnectionTypeOK, MaxConnections, FreedIsQuiet, Quiet
<1>3. QED
    BY <1>1, <1>2

(* Every variable of the proxy keeps to its type, whatever clients ask for and    *)
(* in whatever order backends report: in particular no completion for a freed slot *)
(* frees it once more (bluetooth_connection_hub.cpp's checks of address_), which   *)
(* would count it twice and report the end of address 0.                           *)
THEOREM ProxyTypes == Spec => [](TypeOK /\ FreedIsQuiet)
<1>1. Init => TypeInv
    BY TypeInvInit
<1>2. TypeInv /\ [Next]_vars => TypeInv'
    BY TypeInvStep
<1>3. QED
    BY <1>1, <1>2, PTL DEF Spec, TypeInv

-----------------------------------------------------------------------------
(* How slots change hands, and what the client is told of it.  Every step  *)
(* leaves every slot with its device, frees one slot and reports the end   *)
(* of the device it was meant for, or gives a reservable slot to a device  *)
(* and owes nothing about that one any more.                               *)

SameAddresses == \A t \in Slots : slot'[t].address = slot[t].address

NewAddress(s, a) ==
    /\ slot'[s].address = a
    /\ \A t \in Slots \ {s} : slot'[t].address = slot[t].address

Stays ==
    /\ SameAddresses
    /\ UNCHANGED <<free, allocated>>
    /\ \A p \in Peers :
          /\ told'[p] = "up" => \/ told[p] = "up" /\ (p \in pool => p \in pool')
                               \/ SlotsOf(p) # {}
          /\ p \in pool' => p \in pool

Ends(s, p) ==
    /\ slot[s].address = p \/ s \in Reservable(p)
    /\ NewAddress(s, NoOne)
    /\ UpdateAddressSlot(slot[s].address, NoOne)
    /\ SendDeviceDisconnected(p)

Takes(s, p) ==
    /\ s \in Reservable(p)
    /\ NewAddress(s, p)
    /\ UpdateAddressSlot(slot[s].address, p)
    /\ pool' = pool \ {p}
    /\ told' \in {told, [told EXCEPT ![p] = "down"]}

Hands == Stays \/ \E s \in Slots, p \in Peers : Ends(s, p) \/ Takes(s, p)

LEMMA NothingSentStays ==
    ASSUME SameAddresses, UNCHANGED <<pool, free, allocated, told>>
    PROVE  Stays
BY DEF Stays

LEMMA AnswerStays ==
    ASSUME TypeInv, NEW p \in Peers, AnswerDeviceDisconnected(p, pool),
           SameAddresses, UNCHANGED <<free, allocated>>
    PROVE  Stays
<1>1. told \in [Peers -> {"down", "up", "lost"}]
    BY DEF TypeInv, TypeOK, RepliesTypeOK
<1>2. QED
    BY <1>1 DEF AnswerDeviceDisconnected, TellDown, Stays

LEMMA MovesSame ==
    ASSUME TypeInv, NEW s \in Slots, NEW r, Moves(s, r), r.address = slot[s].address
    PROVE  SameAddresses
<1>1. slot \in [Slots -> Slot]
    BY DEF TypeInv, TypeOK, ConnectionTypeOK
<1>2. QED
    BY <1>1, SlotTypes DEF SameAddresses

LEMMA ResetHands ==
    ASSUME TypeInv, NEW s \in Slots, slot[s].address \in Peers, ResetConnection(s)
    PROVE  Ends(s, slot[s].address)
<1>1. slot \in [Slots -> Slot] /\ slot[s] \in Slot /\ TypeOK
    BY DEF TypeInv, TypeOK, ConnectionTypeOK
<1>2. Moves(s, Freed(slot[s]))
    BY <1>1, ResetTypes
<1>3. NewAddress(s, NoOne)
    BY <1>1, <1>2, SlotTypes, FreedSlot DEF NewAddress
<1>4. QED
    BY <1>3 DEF Ends, ResetConnection

LEMMA DisconnectHands ==
    ASSUME TypeInv, NEW s \in Slots, NEW r \in Slot, NEW b,
           r.address = slot[s].address,
           r.address = NoOne => r.state \in {"IDLE", "DISCONNECTING"},
           DisconnectFrom(s, r, b)
    PROVE  Hands
<1>1. slot \in [Slots -> Slot] /\ slot[s] \in Slot /\ slot[s].address \in Addresses
    BY DEF TypeInv, TypeOK, ConnectionTypeOK, Slot
<1> DEFINE q == [r EXCEPT !.state = "DISCONNECTING"]
<1>2. q \in Slot /\ q.address = r.address /\ q.state = "DISCONNECTING"
    BY DEF Slot, States
<1>3. \/ Becomes(s, r) /\ NothingSent
      \/ Becomes(s, q) /\ NothingSent
      \/ slot[s].address # NoOne /\ ResetConnection(s)
    BY DEF DisconnectFrom
<1> HIDE DEF q
<1>4. CASE (Becomes(s, r) \/ Becomes(s, q)) /\ NothingSent
  <2>1. Moves(s, r) \/ Moves(s, q)
    BY <1>2, <1>4 DEF Moves
  <2>2. QED
    BY <1>2, <1>4, <2>1, MovesSame, NothingSentStays DEF NothingSent, Hands
<1>5. CASE slot[s].address # NoOne /\ ResetConnection(s)
  <2>1. slot[s].address \in Peers
    BY <1>1, <1>5 DEF Addresses
  <2>2. QED
    BY <1>5, <2>1, ResetHands DEF Hands
<1>6. QED
    BY <1>3, <1>4, <1>5

\* A connection is reported of a device that has the slot.
LEMMA ConnectedReplyStays ==
    ASSUME TypeInv, NEW s \in Slots, NEW r \in Slot, r.address = slot[s].address,
           SendConnectedReply(s, r), pool' \subseteq pool,
           \A p \in Peers : p \in pool /\ p \notin pool' => SlotsOf(p) # {},
           UNCHANGED <<free, allocated>>
    PROVE  Stays
<1>1. told \in [Peers -> {"down", "up", "lost"}] /\ TypeOK
    BY DEF TypeInv, TypeOK, RepliesTypeOK
<1>2. SameAddresses
    BY <1>1, ConnectedReplyTypes, MovesSame
<1>3. \A p \in Peers : told'[p] = "up" => told[p] = "up" \/ p = slot[s].address
    BY <1>1 DEF SendConnectedReply, TellUp
<1>4. \A p \in Peers : p = slot[s].address => SlotsOf(p) # {}
    BY DEF SlotsOf
<1>5. QED
    BY <1>2, <1>3, <1>4 DEF Stays

LEMMA AdvanceSame ==
    ASSUME TypeInv, NEW s \in Slots, Advances(s)
    PROVE  SameAddresses
<1>1. slot \in [Slots -> Slot]
    BY DEF TypeInv, TypeOK, ConnectionTypeOK
<1>2. QED
    BY <1>1 DEF Advances, Becomes, SameAddresses

LEMMA BackendHands ==
    ASSUME TypeInv, NEW s \in Slots, Backend(s)
    PROVE  Hands
<1>1. /\ slot \in [Slots -> Slot] /\ slot[s] \in Slot /\ slot[s].address \in Addresses
      /\ backend[s] \in BackendStates /\ TypeOK /\ Quiet(slot[s], backend[s])
    BY DEF TypeInv, TypeOK, ConnectionTypeOK, Slot, FreedIsQuiet
<1>2. slot[s].address # NoOne => slot[s].address \in Peers
    BY <1>1 DEF Addresses
<1>3. slot[s].address # NoOne /\ ResetConnection(s) => Hands
    BY <1>2, ResetHands DEF Hands
<1>4. UNCHANGED <<slot, pool, free, allocated, told>> => Hands
    BY NothingSentStays DEF SameAddresses, Hands
<1> DEFINE up == [slot[s] EXCEPT !.state = "ESTABLISHED"]
           on == [slot[s] EXCEPT !.state = "CONNECTED"]
           known == [slot[s] EXCEPT !.state = "ESTABLISHED", !.discovered = TRUE]
<1>5. /\ up \in Slot /\ up.address = slot[s].address
      /\ on \in Slot /\ on.address = slot[s].address /\ on.state = "CONNECTED"
      /\ known \in Slot /\ known.address = slot[s].address
    BY <1>1 DEF Slot, States
<1>6. CASE Connected(s)
  <2>1. \/ Unwanted(s)
        \/ SendConnectedReply(s, up) /\ UNCHANGED <<pool, free, allocated>>
        \/ Becomes(s, on) /\ NothingSent
        \/ slot[s].address # NoOne /\ DisconnectFrom(s, on, "up")
    BY <1>6 DEF Connected, Establish, Undiscoverable
  <2> HIDE DEF up, on, known
  <2>2. CASE Unwanted(s)
    BY <1>3, <1>4, <2>2 DEF Unwanted, NothingSent
  <2>3. CASE SendConnectedReply(s, up) /\ UNCHANGED <<pool, free, allocated>>
    BY <1>1, <1>5, <2>3, ConnectedReplyStays DEF Hands
  <2>4. CASE Becomes(s, on) /\ NothingSent
    <3>1. Moves(s, on)
      BY <1>5, <2>4 DEF Moves
    <3>2. QED
      BY <1>5, <2>4, <3>1, MovesSame, NothingSentStays DEF NothingSent, Hands
  <2>5. CASE slot[s].address # NoOne /\ DisconnectFrom(s, on, "up")
    BY <1>5, <2>5, DisconnectHands
  <2>6. QED
    BY <2>1, <2>2, <2>3, <2>4, <2>5
<1>7. CASE Disconnected(s)
    BY <1>3, <1>4, <1>7 DEF Disconnected, NothingSent
<1>8. CASE Discovered(s)
  <2>1. SendConnectedReply(s, known) /\ UNCHANGED <<pool, free, allocated>>
    BY <1>8 DEF Discovered
  <2> HIDE DEF up, on, known
  <2>2. QED
    BY <1>5, <2>1, ConnectedReplyStays DEF Hands
<1>9. CASE Undiscovered(s)
  <2>1. /\ backend[s] \in {"up", "exploring", "failed"}
        /\ DisconnectFrom(s, slot[s], IF backend[s] = "exploring" THEN "failed" ELSE "closing")
    BY <1>9 DEF Undiscovered
  <2>2. slot[s].address = NoOne => slot[s].state \in {"IDLE", "DISCONNECTING"}
    BY <1>1, <2>1 DEF Quiet
  <2>3. QED
    BY <1>1, <2>1, <2>2, DisconnectHands
<1>10. CASE Completes(s)
  <2>1. UNCHANGED replyVars /\ op[s] \in Ops /\ wants \in [Peers -> Ops \cup {NoOp}]
    BY <1>10 DEF Completes, TypeInv, TypeOK, ConnectionTypeOK
  <2>2. UNCHANGED slot \/ Moves(s, slot[s])
    <3>1. ASSUME slot[s].address # NoOne, NEW kind \in AckKinds, NEW h \in Handles \cup {NoHandle},
                 SendAck(s, slot[s], wants, kind, h)
          PROVE  Moves(s, slot[s])
      BY <1>1, <1>2, <2>1, <3>1, AckTypes
    <3>2. op[s].handle \in Handles
      BY <2>1 DEF Ops
    <3>3. QED
      BY <1>10, <3>1, <3>2 DEF Completes, AckKinds
  <2>3. SameAddresses
    BY <2>2, MovesSame DEF SameAddresses
  <2>4. QED
    BY <2>1, <2>3, NothingSentStays DEF replyVars, Hands
<1>11. QED
    BY <1>6, <1>7, <1>8, <1>9, <1>10 DEF Backend

LEMMA LoopHands ==
    ASSUME TypeInv, NEW s \in Slots, Loop(s)
    PROVE  Hands
<1>1. /\ slot[s] \in Slot /\ TypeOK /\ RepliesTypeOK /\ Quiet(slot[s], backend[s])
    BY DEF TypeInv, TypeOK, ConnectionTypeOK, FreedIsQuiet
<1>2. CASE StreamServices(s)
  <2>1. slot[s].cursor \in 0 .. ServiceCount
    BY <1>2 DEF StreamServices
  <2>2. slot[s].address # NoOne
    BY <1>1, <2>1, NamedCursors DEF Quiet
  <2> DEFINE r == [slot[s] EXCEPT !.cursor = DONE_SENDING_SERVICES]
  <2>3. r \in Slot /\ r.address = slot[s].address
    BY <1>1, CursorSlot, NamedCursors
  <2>4. \/ SendServicesDone(s, slot[s], got) /\ NothingSent
        \/ SendBatch(s) /\ NothingSent
        \/ DisconnectFrom(s, r, backend[s])
    BY <1>2 DEF StreamServices, AbortServiceStream
  <2> HIDE DEF r
  <2>5. CASE (SendServicesDone(s, slot[s], got) \/ SendBatch(s)) /\ NothingSent
    <3>1. Advances(s)
      BY <2>1, <2>2, <2>5, DoneTypes, BatchAdvances
    <3>2. QED
      BY <2>5, <3>1, AdvanceSame, NothingSentStays DEF NothingSent, Hands
  <2>6. CASE DisconnectFrom(s, r, backend[s])
    BY <2>2, <2>3, <2>6, DisconnectHands
  <2>7. QED
    BY <2>4, <2>5, <2>6
<1>3. CASE Sweep(s)
  <2>1. slot[s].address # NoOne /\ DisconnectFrom(s, slot[s], backend[s])
    BY <1>3 DEF Sweep
  <2>2. QED
    BY <1>1, <2>1, DisconnectHands
<1>4. CASE FlushOwedReplies(s)
  <2>1. SameAddresses
    BY <1>4, FlushAdvances, AdvanceSame
  <2>2. UNCHANGED <<pool, free, allocated>>
    BY <1>4 DEF FlushOwedReplies
  <2>3. told' = told \/ TellUp(slot[s].address)
    BY <1>4 DEF FlushOwedReplies, FlushDeferred, FlushAll
  <2>4. told \in [Peers -> {"down", "up", "lost"}]
    BY <1>1 DEF RepliesTypeOK
  <2>5. \A p \in Peers : p = slot[s].address => SlotsOf(p) # {}
    BY DEF SlotsOf
  <2>6. QED
    BY <2>1, <2>2, <2>3, <2>4, <2>5 DEF TellUp, Stays, Hands
<1>5. QED
    BY <1>2, <1>3, <1>4 DEF Loop

LEMMA ConnectHands ==
    ASSUME TypeInv, NEW p \in Peers, Connect(p) \/ ConnectUntyped(p)
    PROVE  Hands
<1>1. /\ TypeOK /\ slot \in [Slots -> Slot] /\ RepliesTypeOK
      /\ told \in [Peers -> {"down", "up", "lost"}]
    BY DEF TypeInv, TypeOK, RepliesTypeOK, ConnectionTypeOK
<1>2. CASE NoSlotLeft(p)
  <2>1. AnswerDeviceDisconnected(p, pool) /\ UNCHANGED <<slot, free, allocated>>
    BY <1>2 DEF NoSlotLeft
  <2>2. QED
    BY <2>1, AnswerStays DEF SameAddresses, Hands
<1>3. ASSUME NEW s \in Reservable(p)
      PROVE  /\ s \in Slots /\ slot[s] \in Slot
             /\ Reserved(slot[s], p) \in Slot /\ Reserved(slot[s], p).address = p
             /\ slot[s].address = p => SlotsOf(p) # {}
    BY <1>1, <1>3, ReservableSlot, ReservedSlot DEF SlotsOf
<1>4. ASSUME NEW s \in Reservable(p), AlreadyConnected(s, p)
      PROVE  Hands
  <2>1. /\ slot[s].address = p /\ SendConnectedReply(s, slot[s]) /\ pool' = pool \ {p}
        /\ UNCHANGED <<free, allocated>>
    BY <1>4 DEF AlreadyConnected
  <2>2. QED
    BY <1>3, <2>1, ConnectedReplyStays DEF Hands
<1>5. ASSUME NEW s \in Reservable(p), IgnoreRequest(s, p)
      PROVE  Hands
  <2>1. /\ slot[s].address = p /\ pool' = pool \ {p}
        /\ UNCHANGED <<told, free, allocated, slot>>
    BY <1>5 DEF IgnoreRequest
  <2>2. QED
    BY <1>3, <2>1 DEF Stays, SameAddresses, Hands
<1>6. ASSUME NEW s \in Reservable(p), NEW cached \in BOOLEAN, Initiate(s, p, cached)
      PROVE  Hands
  <2> DEFINE r == Reserved(slot[s], p)
             q == [r EXCEPT !.cached = cached, !.state = "CONNECTING"]
  <2>1. /\ Becomes(s, q) /\ UpdateAddressSlot(slot[s].address, p)
        /\ pool' = pool \ {p} /\ UNCHANGED told
    BY <1>6 DEF Initiate
  <2>2. r \in Slot /\ r.address = p
    BY <1>3
  <2> HIDE DEF r
  <2>3. q \in Slot /\ q.address = p
    BY <2>2 DEF Slot, States
  <2> HIDE DEF q
  <2>4. NewAddress(s, p)
    BY <1>1, <1>3, <2>1, <2>3 DEF Becomes, NewAddress
  <2>5. QED
    BY <1>3, <2>1, <2>4 DEF Takes, Hands
<1>7. ASSUME NEW s \in Reservable(p), NEW cached \in BOOLEAN, FailToInitiate(s, p, cached)
      PROVE  Hands
  <2> DEFINE r == Reserved(slot[s], p)
             q == [Freed(r) EXCEPT !.cached = cached]
  <2>1. /\ Becomes(s, q) /\ UpdateAddressSlot(slot[s].address, NoOne)
        /\ SendDeviceDisconnected(p)
    BY <1>7 DEF FailToInitiate
  <2>2. Freed(r) \in Slot /\ Freed(r).address = NoOne
    BY <1>3, FreedSlot
  <2> HIDE DEF r
  <2>3. q.address = NoOne
    BY <2>2 DEF Slot
  <2> HIDE DEF q
  <2>4. NewAddress(s, NoOne)
    BY <1>1, <1>3, <2>1, <2>3 DEF Becomes, NewAddress
  <2>5. QED
    BY <1>3, <2>1, <2>4 DEF Ends, Hands
<1>8. CASE ConnectUntyped(p)
  <2>1. AnswerDeviceDisconnected(p, pool \ {p})
    BY <1>8 DEF ConnectUntyped
  <2>2. PICK s \in Reservable(p) : /\ Becomes(s, Reserved(slot[s], p))
                                   /\ UpdateAddressSlot(slot[s].address, p)
    BY <1>8 DEF ConnectUntyped
  <2>3. NewAddress(s, p)
    BY <1>1, <1>3, <2>2 DEF Becomes, NewAddress
  <2>4. pool' = pool \ {p} /\ told' \in {told, [told EXCEPT ![p] = "down"]}
    BY <2>1 DEF AnswerDeviceDisconnected, TellDown
  <2>5. QED
    BY <1>3, <2>2, <2>3, <2>4 DEF Takes, Hands
<1>9. CASE Connect(p)
    BY <1>2, <1>4, <1>5, <1>6, <1>7, <1>9 DEF Connect, ConnectionTypes
<1>10. QED
    BY <1>8, <1>9

LEMMA OtherHands ==
    ASSUME TypeInv,
           \/ \E p \in Peers : \/ ConnectV1(p) \/ Disconnect(p) \/ GetServices(p)
                               \/ ClientEndsList(p) \/ ClientGivesUp(p) \/ DrainPool(p)
                               \/ \E request \in Ops : Operation(p, request)
           \/ Subscribe \/ Unsubscribe \/ AskForSlots \/ ResendConnectionsFree
    PROVE  Hands
<1>1. /\ TypeOK /\ slot \in [Slots -> Slot] /\ RepliesTypeOK
      /\ told \in [Peers -> {"down", "up", "lost"}]
    BY DEF TypeInv, TypeOK, RepliesTypeOK, ConnectionTypeOK
<1>2. ASSUME NEW p \in Peers, ConnectV1(p) PROVE Hands
    BY <1>2, AnswerStays DEF ConnectV1, SameAddresses, Hands
<1>3. ASSUME NEW p \in Peers, Disconnect(p) PROVE Hands
  <2>1. ASSUME NEW s \in SlotsOf(p), DisconnectFrom(s, slot[s], backend[s])
        PROVE  Hands
    <3>1. s \in Slots /\ slot[s] \in Slot /\ slot[s].address # NoOne
      BY <1>1, ProxyAssumption DEF SlotsOf
    <3>2. QED
      BY <2>1, <3>1, DisconnectHands
  <2>2. QED
    BY <1>3, <2>1, AnswerStays DEF Disconnect, SameAddresses, Hands
<1>4. ASSUME NEW p \in Peers,
             GetServices(p) \/ \E request \in Ops : Operation(p, request)
      PROVE  Hands
  <2>1. UNCHANGED replyVars
    BY <1>4 DEF GetServices, Operation
  <2>2. UNCHANGED slot \/ \E s \in Slots : Advances(s)
    BY <1>4, ServicesAdvance, OperationAdvances DEF SlotsOf
  <2>3. SameAddresses
    BY <2>2, AdvanceSame DEF SameAddresses
  <2>4. QED
    BY <2>1, <2>3, NothingSentStays DEF replyVars, Hands
<1>5. ASSUME NEW p \in Peers, ClientEndsList(p) PROVE Hands
    BY <1>5, NothingSentStays DEF ClientEndsList, replyVars, SameAddresses, Hands
<1>6. ASSUME NEW p \in Peers, ClientGivesUp(p) PROVE Hands
  <2>1. SameAddresses /\ UNCHANGED replyVars
    BY <1>6, GivenUpSlot DEF SameAddresses, ClientGivesUp
  <2>2. QED
    BY <2>1, NothingSentStays DEF replyVars, Hands
<1>7. ASSUME NEW p \in Peers, DrainPool(p) PROVE Hands
  <2>1. /\ p \in pool /\ SendDeviceDisconnected(p) /\ UNCHANGED <<slot, free, allocated>>
    BY <1>7 DEF DrainPool
  <2>2. CASE TellDown(p) /\ pool' = pool \ {p}
    BY <1>1, <2>1, <2>2 DEF TellDown, Stays, SameAddresses, Hands
  <2>3. CASE LatchPendingDisconnection(p)
    <3>1. pool' = pool /\ UNCHANGED told
      BY <2>1, <2>3 DEF LatchPendingDisconnection
    <3>2. QED
      BY <2>1, <3>1, NothingSentStays DEF SameAddresses, Hands
  <2>4. QED
    BY <2>1, <2>2, <2>3 DEF SendDeviceDisconnected
<1>8. CASE Subscribe \/ Unsubscribe
  <2>1. ResetOwedReplies /\ KnowsNothing /\ UNCHANGED <<free, allocated>>
    BY <1>8 DEF Subscribe, Unsubscribe
  <2>2. SameAddresses
    BY <1>1, <2>1, ParkedSlot DEF ResetOwedReplies, SameAddresses
  <2>3. QED
    BY <2>1, <2>2 DEF ResetOwedReplies, KnowsNothing, Stays, Hands
<1>9. CASE AskForSlots \/ ResendConnectionsFree
    BY <1>9, NothingSentStays DEF AskForSlots, ResendConnectionsFree, SameAddresses, Hands
<1>10. QED
    BY <1>2, <1>3, <1>4, <1>5, <1>6, <1>7, <1>8, <1>9

LEMMA HandsStep ==
    ASSUME TypeInv, [Next]_vars
    PROVE  Hands
<1>1. CASE Next
    BY <1>1, BackendHands, LoopHands, ConnectHands, OtherHands DEF Next, Client
<1>2. CASE UNCHANGED vars
    BY <1>2, NothingSentStays DEF vars, replyVars, slotVars, SameAddresses, Hands
<1>3. QED
    BY <1>1, <1>2

-----------------------------------------------------------------------------
(* The account of the slots.                                               *)

LEMMA SlotsAreFinite ==
    ASSUME NEW a
    PROVE  IsFiniteSet(SlotsOf(a)) /\ Cardinality(SlotsOf(a)) \in Nat
<1>1. SlotsOf(a) \subseteq Slots
    BY DEF SlotsOf
<1>2. QED
    BY <1>1, ProxyAssumption, FS_Subset, FS_CardinalityType

\* The slots a device has before and after slot s changes hands.
LEMMA SlotsChange ==
    ASSUME NEW s \in Slots, NEW old, NEW b, old = slot[s].address, NewAddress(s, b)
    PROVE  /\ s \in SlotsOf(old)
           /\ old # b => /\ SlotsOf(old)' = SlotsOf(old) \ {s}
                         /\ SlotsOf(b)' = SlotsOf(b) \cup {s}
                         /\ s \notin SlotsOf(b)
           /\ old = b => SlotsOf(b)' = SlotsOf(b)
           /\ \A a \in Addresses \ {old, b} : SlotsOf(a)' = SlotsOf(a)
BY DEF NewAddress, SlotsOf

LEMMA CountedStep ==
    ASSUME TypeInv, SlotsAreCounted, NEW s \in Slots, NEW old \in Addresses,
           NEW b \in Addresses, old = slot[s].address, NewAddress(s, b),
           UpdateAddressSlot(old, b), old # b => NoOne \in {old, b}
    PROVE  SlotsAreCounted'
<1>1. /\ free \in 0 .. MaxConnections /\ allocated \in [Addresses -> Nat]
      /\ free = Cardinality(SlotsOf(NoOne)) /\ NoOne \in Addresses
      /\ \A a \in Addresses : allocated[a] = Cardinality(SlotsOf(a))
    BY DEF TypeInv, TypeOK, RepliesTypeOK, SlotsAreCounted, Addresses
<1>2. CASE old = b
  <2>1. UNCHANGED <<free, allocated>>
    BY <1>2 DEF UpdateAddressSlot
  <2>2. \A a \in Addresses : SlotsOf(a)' = SlotsOf(a)
    BY <1>2, SlotsChange
  <2>3. QED
    BY <1>1, <2>1, <2>2 DEF SlotsAreCounted
<1>3. CASE old # b
  <2>1. /\ s \in SlotsOf(old) /\ SlotsOf(old)' = SlotsOf(old) \ {s}
        /\ s \notin SlotsOf(b) /\ SlotsOf(b)' = SlotsOf(b) \cup {s}
    BY <1>3, SlotsChange
  <2>2. \A a \in Addresses \ {old, b} : SlotsOf(a)' = SlotsOf(a)
    BY SlotsChange
  <2>3. /\ Cardinality(SlotsOf(old) \ {s}) = Cardinality(SlotsOf(old)) - 1
        /\ Cardinality(SlotsOf(b) \cup {s}) = Cardinality(SlotsOf(b)) + 1
    <3>1. IsFiniteSet(SlotsOf(old)) /\ IsFiniteSet(SlotsOf(b))
      BY SlotsAreFinite
    <3>2. s \in SlotsOf(old) /\ s \notin SlotsOf(b)
      BY <2>1
    <3>3. Cardinality(SlotsOf(old) \ {s}) = Cardinality(SlotsOf(old)) - 1
      BY <3>1, <3>2, FS_RemoveElement
    <3>4. Cardinality(SlotsOf(b) \cup {s}) = Cardinality(SlotsOf(b)) + 1
      BY <3>1, <3>2, FS_AddElement
    <3>5. QED
      BY <3>3, <3>4
  <2>4. \A a \in Addresses : Cardinality(SlotsOf(a)) \in Nat
    BY SlotsAreFinite
  <2>5. Cardinality(SlotsOf(old) \ {s}) \in Nat
    BY SlotsAreFinite, FS_RemoveElement, FS_CardinalityType
  <2>6. allocated[old] > 0
    BY <1>1, <2>3, <2>4, <2>5
  <2>7. allocated' = [allocated EXCEPT ![old] = @ - 1, ![b] = @ + 1]
    BY <1>3, <2>6 DEF UpdateAddressSlot, ReplaceAllocatedSlot
  <2>8. \A a \in Addresses : allocated'[a] = Cardinality(SlotsOf(a))'
    BY <1>1, <1>3, <2>1, <2>2, <2>3, <2>7
  <2>9. free' = Cardinality(SlotsOf(NoOne))'
    <3>1. CASE b = NoOne
      <4>1. Cardinality(SlotsOf(NoOne) \cup {s}) <= MaxConnections
        <5>1. SlotsOf(NoOne) \cup {s} \in SUBSET Slots
          BY DEF SlotsOf
        <5>2. QED
          BY <5>1, ProxyAssumption, FS_Subset DEF MaxConnections
      <4>2. MaxConnections \in Nat /\ Cardinality(SlotsOf(NoOne)) \in Nat
        BY ProxyAssumption, SlotsAreFinite, FS_CardinalityType DEF MaxConnections
      <4>3. free < MaxConnections
        BY <1>1, <2>3, <3>1, <4>1, <4>2
      <4>4. free' = free + 1
        BY <1>3, <3>1, <4>3 DEF UpdateAddressSlot
      <4>5. QED
        BY <1>1, <2>1, <2>3, <3>1, <4>4
    <3>2. CASE b # NoOne
      <4>1. old = NoOne
        BY <1>3, <3>2
      <4>2. free > 0
        BY <1>1, <2>6, <4>1
      <4>3. free' = free - 1
        BY <3>2, <4>1, <4>2 DEF UpdateAddressSlot
      <4>4. QED
        BY <1>1, <2>1, <2>3, <4>1, <4>3
    <3>3. QED
      BY <3>1, <3>2
  <2>10. QED
    BY <2>8, <2>9 DEF SlotsAreCounted
<1>4. QED
    BY <1>2, <1>3

(* The proxy's running account of free slots and their addresses never drifts from *)
(* the slots, whatever is asked of it: every place that gives a slot to a device or *)
(* frees it (bluetooth_proxy.cpp's get_connection_, the hub's reset_connection_)     *)
(* adjusts it once, and by what changed.                                             *)
THEOREM ProxyAccount == Spec => []SlotsAreCounted
<1>1. Init => SlotsAreCounted
  <2>1. SUFFICES ASSUME Init PROVE SlotsAreCounted
    OBVIOUS
  <2>2. \A s \in Slots : slot[s].address = NoOne
    BY <2>1 DEF Init, ConnectionInit, NewSlot
  <2>3. SlotsOf(NoOne) = Slots /\ \A a \in Addresses \ {NoOne} : SlotsOf(a) = {}
    BY <2>2 DEF SlotsOf
  <2>4. free = MaxConnections /\ \A a \in Addresses :
            allocated[a] = IF a = NoOne THEN MaxConnections ELSE 0
    BY <2>1 DEF Init, RepliesInit
  <2>5. QED
    BY <2>3, <2>4, FS_EmptySet DEF SlotsAreCounted, MaxConnections
<1>2. TypeInv /\ SlotsAreCounted /\ [Next]_vars => SlotsAreCounted'
  <2>1. SUFFICES ASSUME TypeInv, SlotsAreCounted, [Next]_vars PROVE SlotsAreCounted'
    OBVIOUS
  <2>2. slot \in [Slots -> Slot] /\ \A s \in Slots : slot[s].address \in Addresses
    BY <2>1 DEF TypeInv, TypeOK, ConnectionTypeOK, Slot
  <2>3. CASE Stays
    <3>1. \A a : SlotsOf(a)' = SlotsOf(a)
      BY <2>3 DEF Stays, SameAddresses, SlotsOf
    <3>2. QED
      BY <2>1, <2>3, <3>1 DEF Stays, SlotsAreCounted
  <2>4. ASSUME NEW s \in Slots, NEW p \in Peers, Ends(s, p)
        PROVE  SlotsAreCounted'
    <3>1. PICK old \in Addresses : old = slot[s].address
      BY <2>2
    <3>2. NewAddress(s, NoOne) /\ UpdateAddressSlot(old, NoOne) /\ NoOne \in Addresses
      BY <2>4, <3>1 DEF Ends, Addresses
    <3>3. QED
      BY <2>1, <3>1, <3>2, CountedStep
  <2>5. ASSUME NEW s \in Slots, NEW p \in Peers, Takes(s, p)
        PROVE  SlotsAreCounted'
    <3>1. PICK old \in Addresses : old = slot[s].address
      BY <2>2
    <3>2. NewAddress(s, p) /\ UpdateAddressSlot(old, p) /\ p \in Addresses /\ old \in {p, NoOne}
      BY <2>5, <3>1, ReservableSlot DEF Takes, Addresses
    <3>3. QED
      BY <2>1, <3>1, <3>2, CountedStep
  <2>6. QED
    BY <2>1, <2>3, <2>4, <2>5, HandsStep DEF Hands
<1>3. QED
    BY <1>1, <1>2, ProxyTypes, PTL DEF Spec, TypeInv

-----------------------------------------------------------------------------
(* Devices and slots.                                                      *)

LEMMA OneSlotStep ==
    ASSUME TypeInv, OneSlotPerDevice, [Next]_vars
    PROVE  OneSlotPerDevice'
<1>1. CASE Stays
    BY <1>1 DEF Stays, SameAddresses, OneSlotPerDevice
<1>2. ASSUME NEW s \in Slots, NEW p \in Peers, Ends(s, p)
      PROVE  OneSlotPerDevice'
    BY <1>2 DEF Ends, NewAddress, OneSlotPerDevice
<1>3. ASSUME NEW s \in Slots, NEW p \in Peers, Takes(s, p)
      PROVE  OneSlotPerDevice'
  <2>1. slot[s].address = p \/ \A t \in Slots : slot[t].address # p
    BY <1>3 DEF Takes, Reservable, SlotsOf
  <2>2. QED
    BY <1>3, <2>1 DEF Takes, NewAddress, OneSlotPerDevice
<1>4. QED
    BY <1>1, <1>2, <1>3, HandsStep DEF Hands

(* No device is ever on two slots, however requests, late completions and freed *)
(* slots interleave (get_connection_ looks for the device's own slot first).    *)
THEOREM ProxySlots == Spec => []OneSlotPerDevice
<1>1. Init => OneSlotPerDevice
    BY DEF Init, ConnectionInit, NewSlot, OneSlotPerDevice
<1>2. TypeInv /\ OneSlotPerDevice /\ [Next]_vars => OneSlotPerDevice'
    BY OneSlotStep
<1>3. QED
    BY <1>1, <1>2, ProxyTypes, PTL DEF Spec, TypeInv

LEMMA EndIsOwedStep ==
    ASSUME TypeInv, OneSlotPerDevice, EndIsOwed, [Next]_vars
    PROVE  EndIsOwed'
<1>1. told \in [Peers -> {"down", "up", "lost"}] /\ pool \subseteq Peers
    BY DEF TypeInv, TypeOK, RepliesTypeOK
<1>2. CASE Stays
  <2>1. \A p \in Peers : SlotsOf(p)' = SlotsOf(p)
    BY <1>2 DEF Stays, SameAddresses, SlotsOf
  <2>2. QED
    BY <1>2, <2>1 DEF Stays, EndIsOwed
<1>3. ASSUME NEW s \in Slots, NEW p \in Peers, Ends(s, p)
      PROVE  EndIsOwed'
  <2>1. slot[s].address \in {p, NoOne} /\ NewAddress(s, NoOne) /\ SendDeviceDisconnected(p)
    BY <1>3, ReservableSlot DEF Ends
  <2>2. \A q \in Peers \ {p} : SlotsOf(q)' = SlotsOf(q)
    BY <2>1, ProxyAssumption DEF NewAddress, SlotsOf
  <2>3. SlotsOf(p)' = {}
    <3>1. slot[s].address = p \/ SlotsOf(p) = {}
      BY <1>3 DEF Ends, Reservable, SlotsOf
    <3>2. \A t \in Slots : slot'[t].address # p
      BY <2>1, <3>1, ProxyAssumption DEF OneSlotPerDevice, NewAddress, SlotsOf
    <3>3. QED
      BY <3>2 DEF SlotsOf
  <2>4. ASSUME NEW q \in Peers
        PROVE  /\ q # p /\ told'[q] = "up" => told[q] = "up" /\ (q \in pool => q \in pool')
               /\ q # p /\ q \in pool' => q \in pool
               /\ told'[p] = "up" => p \in pool'
    <3>1. CASE TellDown(p) /\ pool' = pool \ {p}
      BY <1>1, <3>1 DEF TellDown
    <3>2. CASE LatchPendingDisconnection(p)
      BY <1>1, <3>2 DEF LatchPendingDisconnection
    <3>3. QED
      BY <2>1, <3>1, <3>2 DEF SendDeviceDisconnected
  <2>5. QED
    BY <2>2, <2>3, <2>4 DEF EndIsOwed
<1>4. ASSUME NEW s \in Slots, NEW p \in Peers, Takes(s, p)
      PROVE  EndIsOwed'
  <2>1. slot[s].address \in {p, NoOne} /\ NewAddress(s, p) /\ pool' = pool \ {p}
        /\ told' \in {told, [told EXCEPT ![p] = "down"]}
    BY <1>4, ReservableSlot DEF Takes
  <2>2. \A q \in Peers \ {p} : SlotsOf(q)' = SlotsOf(q)
    BY <2>1, ProxyAssumption DEF NewAddress, SlotsOf
  <2>3. s \in SlotsOf(p)'
    BY <2>1 DEF NewAddress, SlotsOf
  <2>4. \A q \in Peers : told'[q] = "up" => told[q] = "up"
    BY <1>1, <2>1
  <2>5. QED
    BY <2>1, <2>2, <2>3, <2>4 DEF EndIsOwed
<1>5. QED
    BY <1>2, <1>3, <1>4, HandsStep DEF Hands

(* A client that was told of a connection has it, or is owed the report of its end, *)
(* and no such report is owed of a device that is on a slot again                   *)
(* (pending_disconnections_): however often the API refuses frames.                  *)
THEOREM ProxyOwesTheEnd == Spec => []EndIsOwed
<1>1. Init => EndIsOwed
    BY DEF Init, RepliesInit, EndIsOwed
<1>2. TypeInv /\ OneSlotPerDevice /\ EndIsOwed /\ [Next]_vars => EndIsOwed'
    BY EndIsOwedStep
<1>3. QED
    BY <1>1, <1>2, ProxyTypes, ProxySlots, PTL DEF Spec, TypeInv

-----------------------------------------------------------------------------
(* What holds while every connect request has an address type.             *)

LEMMA PictureStep ==
    ASSUME "untyped" \notin Requests, TypeInv, OldPictureIsOwed, [Next]_vars
    PROVE  OldPictureIsOwed'
<1> DEFINE Same == UNCHANGED <<subscribed, toldFree, freeOwed>>
           Told == /\ UNCHANGED subscribed
                   /\ \E moved \in BOOLEAN :
                        SendConnectionsFree(moved) \/ SendConnectionsFreeTwice(moved)
           Fresh == toldFree' # "old"
<1>1. Same \/ Told \/ Fresh => OldPictureIsOwed'
  <2>1. subscribed \in BOOLEAN /\ freeOwed \in BOOLEAN
    BY DEF TypeInv, TypeOK, RepliesTypeOK
  <2>2. CASE Same
    BY <2>2 DEF OldPictureIsOwed
  <2>3. ASSUME UNCHANGED subscribed, NEW moved \in BOOLEAN,
               SendConnectionsFree(moved) \/ SendConnectionsFreeTwice(moved)
        PROVE  OldPictureIsOwed'
    <3>1. \/ toldFree' = (IF subscribed THEN "current" ELSE toldFree) /\ UNCHANGED freeOwed
          \/ freeOwed' = TRUE
      BY <2>3 DEF SendConnectionsFree, SendConnectionsFreeTwice
    <3>2. QED
      BY <2>1, <2>3, <3>1 DEF OldPictureIsOwed
  <2>4. QED
    BY <2>2, <2>3 DEF OldPictureIsOwed
<1> HIDE DEF Same, Told, Fresh
<1>2. ASSUME NEW s, NEW r, NEW b, DisconnectFrom(s, r, b), UNCHANGED subscribed
      PROVE  Same \/ Told
    BY <1>2 DEF DisconnectFrom, ResetConnection, NothingSent, Same, Told
<1>3. ASSUME NEW s \in Slots, Backend(s) PROVE Same \/ Told
  <2>1. ASSUME Connected(s) PROVE Same \/ Told
    <3>1. \/ Undiscoverable(s) /\ UNCHANGED subscribed
          \/ Unwanted(s) /\ UNCHANGED subscribed
          \/ Establish(s, slot[s]) /\ UNCHANGED subscribed
          \/ NothingSent /\ UNCHANGED subscribed
      BY <2>1 DEF Connected
    <3>2. QED
      BY <1>2, <3>1 DEF Undiscoverable, Unwanted, Establish, ResetConnection, NothingSent,
                        Same, Told
  <2>2. ASSUME Disconnected(s) \/ Discovered(s) \/ Completes(s) PROVE Same \/ Told
    BY <2>2 DEF Disconnected, Discovered, Completes, ResetConnection, NothingSent, replyVars,
                Same, Told
  <2>3. ASSUME Undiscovered(s) PROVE Same \/ Told
    BY <1>2, <2>3 DEF Undiscovered
  <2>4. QED
    BY <1>3, <2>1, <2>2, <2>3 DEF Backend
<1>4. ASSUME NEW s \in Slots, Loop(s) PROVE Same \/ Told
  <2>1. ASSUME StreamServices(s) PROVE Same \/ Told
    BY <1>2, <2>1 DEF StreamServices, AbortServiceStream, NothingSent, Same
  <2>2. ASSUME Sweep(s) PROVE Same \/ Told
    BY <1>2, <2>2 DEF Sweep
  <2>3. ASSUME FlushOwedReplies(s) PROVE Same \/ Told
    BY <2>3 DEF FlushOwedReplies, Same
  <2>4. QED
    BY <1>4, <2>1, <2>2, <2>3 DEF Loop
<1>5. ASSUME NEW p \in Peers, Client(p) \/ DrainPool(p) PROVE Same \/ Told
  <2>1. ASSUME Connect(p) PROVE Same \/ Told
    <3>1. UNCHANGED subscribed
      BY <2>1 DEF Connect
    <3>2. ASSUME NoSlotLeft(p) PROVE Same \/ Told
      BY <3>1, <3>2 DEF NoSlotLeft, Same
    <3>3. ASSUME NEW s, AlreadyConnected(s, p) \/ IgnoreRequest(s, p) PROVE Same \/ Told
      BY <3>1, <3>3 DEF AlreadyConnected, IgnoreRequest, Same, Told
    <3>4. ASSUME NEW s, NEW cached, Initiate(s, p, cached) PROVE Same \/ Told
      BY <3>1, <3>4 DEF Initiate, Told
    <3>5. ASSUME NEW s, NEW cached, FailToInitiate(s, p, cached) PROVE Same \/ Told
      BY <3>1, <3>5 DEF FailToInitiate, Told
    <3>6. QED
      BY <2>1, <3>2, <3>3, <3>4, <3>5 DEF Connect
  <2>2. ~ConnectUntyped(p)
    BY DEF ConnectUntyped
  <2>3. ASSUME ConnectV1(p) \/ DrainPool(p) PROVE Same \/ Told
    BY <2>3 DEF ConnectV1, DrainPool, Same
  <2>4. ASSUME Disconnect(p) PROVE Same \/ Told
    BY <1>2, <2>4 DEF Disconnect, Told
  <2>5. ASSUME \/ GetServices(p) \/ ClientEndsList(p) \/ ClientGivesUp(p)
               \/ \E request \in Ops : Operation(p, request)
        PROVE  Same
    BY <2>5 DEF GetServices, ClientEndsList, ClientGivesUp, Operation, replyVars, Same
  <2>6. QED
    BY <1>5, <2>1, <2>2, <2>3, <2>4, <2>5 DEF Client
<1>6. ASSUME Subscribe \/ Unsubscribe \/ ResendConnectionsFree PROVE Fresh
    BY <1>6 DEF Subscribe, Unsubscribe, KnowsNothing, ResendConnectionsFree, Fresh
<1>7. ASSUME AskForSlots PROVE Told
    BY <1>7 DEF AskForSlots, Told
<1>8. ASSUME UNCHANGED vars PROVE Same
    BY <1>8 DEF vars, replyVars, Same
<1>9. QED
    BY <1>1, <1>3, <1>4, <1>5, <1>6, <1>7, <1>8 DEF Next

(* A subscriber whose picture of the slots in use is out of date is owed a new one  *)
(* (connections_free_pending_): no change of hands goes unannounced, unless by a    *)
(* connect request without an address type, which takes a slot and says nothing.    *)
THEOREM ProxyPicture ==
    ASSUME "untyped" \notin Requests
    PROVE  Spec => []OldPictureIsOwed
<1>1. Init => OldPictureIsOwed
    BY DEF Init, RepliesInit, OldPictureIsOwed
<1>2. TypeInv /\ OldPictureIsOwed /\ [Next]_vars => OldPictureIsOwed'
    BY PictureStep
<1>3. QED
    BY <1>1, <1>2, ProxyTypes, PTL DEF Spec, TypeInv

(* SlotIsServed on a step of one slot: the slot is freed, or keeps its     *)
(* device, and a backend at work.                                          *)
Served(s) ==
    /\ \A t \in Slots \ {s} : slot'[t] = slot[t] /\ backend'[t] = backend[t]
    /\ UNCHANGED peer
    /\ \/ slot'[s].address = NoOne
       \/ /\ slot'[s].address = slot[s].address
          /\ slot'[s].state \in {slot[s].state, "CONNECTED", "ESTABLISHED", "DISCONNECTING"}
          /\ backend[s] # "none" => backend'[s] # "none"

LEMMA ServedStep ==
    ASSUME SlotIsServed, NEW s \in Slots, Served(s)
    PROVE  SlotIsServed'
BY DEF SlotIsServed, Served

LEMMA AdvanceServes ==
    ASSUME TypeInv, NEW s \in Slots, Advances(s), UNCHANGED <<backend, peer>>
    PROVE  Served(s)
<1>1. slot \in [Slots -> Slot]
    BY DEF TypeInv, TypeOK, ConnectionTypeOK
<1>2. QED
    BY <1>1 DEF Advances, Becomes, Served

LEMMA MoveServes ==
    ASSUME TypeInv, NEW s \in Slots, NEW r, Moves(s, r), r.address = slot[s].address,
           r.state \in {slot[s].state, "CONNECTED", "ESTABLISHED", "DISCONNECTING"},
           NEW b \in BackendStates, backend' = [backend EXCEPT ![s] = b],
           backend[s] # "none" => b # "none",
           UNCHANGED peer
    PROVE  Served(s)
<1>1. slot \in [Slots -> Slot] /\ backend \in [Slots -> BackendStates]
    BY DEF TypeInv, TypeOK, ConnectionTypeOK
<1>2. QED
    BY <1>1, SlotTypes DEF Served

LEMMA ResetServes ==
    ASSUME TypeInv, NEW s \in Slots, ResetConnection(s), UNCHANGED peer,
           \A t \in Slots \ {s} : backend'[t] = backend[t]
    PROVE  Served(s)
<1>1. slot \in [Slots -> Slot] /\ slot[s] \in Slot
    BY DEF TypeInv, TypeOK, ConnectionTypeOK
<1>2. slot' = [slot EXCEPT ![s] = Freed(slot[s])] /\ Freed(slot[s]).address = NoOne
    BY <1>1, FreedSlot DEF ResetConnection, Becomes
<1>3. QED
    BY <1>1, <1>2 DEF Served

LEMMA DisconnectServes ==
    ASSUME TypeInv, NEW s \in Slots, NEW r \in Slot, NEW b \in BackendStates,
           r.address = slot[s].address,
           r.state \in {slot[s].state, "CONNECTED"},
           backend[s] # "none" => b # "none",
           DisconnectFrom(s, r, b), UNCHANGED peer
    PROVE  Served(s)
<1>1. backend \in [Slots -> BackendStates]
    BY DEF TypeInv, TypeOK, ConnectionTypeOK
<1> DEFINE q == [r EXCEPT !.state = "DISCONNECTING"]
<1>2. q \in Slot /\ q.address = r.address /\ q.state = "DISCONNECTING"
    BY DEF Slot, States
<1>3. \/ Becomes(s, r) /\ backend' = [backend EXCEPT ![s] = b]
      \/ Becomes(s, q) /\ backend' = [backend EXCEPT ![s] = Torn(b)]
      \/ ResetConnection(s) /\ backend' = [backend EXCEPT ![s] = Torn(b)]
    BY DEF DisconnectFrom
<1> HIDE DEF q
<1>4. Torn(b) \in BackendStates /\ (b # "none" => Torn(b) # "none")
    BY DEF Torn, BackendStates
<1>5. Becomes(s, r) => Moves(s, r)
    BY DEF Moves
<1>6. Becomes(s, q) => Moves(s, q)
    BY <1>2 DEF Moves
<1>7. CASE Becomes(s, r) /\ backend' = [backend EXCEPT ![s] = b]
    BY <1>5, <1>7, MoveServes
<1>8. CASE Becomes(s, q) /\ backend' = [backend EXCEPT ![s] = Torn(b)]
    BY <1>2, <1>4, <1>6, <1>8, MoveServes
<1>9. CASE ResetConnection(s) /\ backend' = [backend EXCEPT ![s] = Torn(b)]
    BY <1>1, <1>9, ResetServes
<1>10. QED
    BY <1>3, <1>7, <1>8, <1>9

LEMMA ReplyServes ==
    ASSUME TypeInv, NEW s \in Slots, NEW r \in Slot, SendConnectedReply(s, r),
           r.address = slot[s].address, r.state \in {slot[s].state, "CONNECTED", "ESTABLISHED"},
           NEW b \in BackendStates, backend' = [backend EXCEPT ![s] = b],
           backend[s] # "none" => b # "none",
           UNCHANGED peer
    PROVE  Served(s)
<1>1. Moves(s, r)
    BY ConnectedReplyTypes DEF TypeInv
<1>2. QED
    BY <1>1, MoveServes

LEMMA BackendServes ==
    ASSUME TypeInv, NEW s \in Slots, Backend(s)
    PROVE  Served(s)
<1>1. /\ slot \in [Slots -> Slot] /\ slot[s] \in Slot /\ slot[s].address \in Addresses
      /\ backend \in [Slots -> BackendStates] /\ backend[s] \in BackendStates
      /\ {"up", "exploring", "settled", "closing", "failed"} \subseteq BackendStates
    BY DEF TypeInv, TypeOK, ConnectionTypeOK, Slot, BackendStates
<1>2. slot[s].address # NoOne => slot[s].address \in Peers
    BY <1>1 DEF Addresses
<1>3. UNCHANGED peer
    BY DEF Backend, Connected, Disconnected, Discovered, Undiscovered, Completes
<1> DEFINE up == [slot[s] EXCEPT !.state = "ESTABLISHED"]
           on == [slot[s] EXCEPT !.state = "CONNECTED"]
           known == [slot[s] EXCEPT !.state = "ESTABLISHED", !.discovered = TRUE]
<1>4. /\ up \in Slot /\ up.address = slot[s].address /\ up.state = "ESTABLISHED"
      /\ on \in Slot /\ on.address = slot[s].address /\ on.state = "CONNECTED"
      /\ known \in Slot /\ known.address = slot[s].address /\ known.state = "ESTABLISHED"
    BY <1>1 DEF Slot, States
<1>5. CASE Connected(s)
  <2>1. \/ backend' = [backend EXCEPT ![s] = "closing"] /\ (UNCHANGED slot \/ ResetConnection(s))
        \/ backend' = [backend EXCEPT ![s] = "up"] /\ SendConnectedReply(s, up)
        \/ backend' = [backend EXCEPT ![s] = "exploring"] /\ Becomes(s, on)
        \/ DisconnectFrom(s, on, "up")
    BY <1>5 DEF Connected, Unwanted, Establish, Undiscoverable
  <2> HIDE DEF up, on, known
  <2>2. CASE backend' = [backend EXCEPT ![s] = "closing"] /\ (UNCHANGED slot \/ ResetConnection(s))
    BY <1>1, <1>3, <2>2, ResetServes DEF Served
  <2>3. CASE backend' = [backend EXCEPT ![s] = "up"] /\ SendConnectedReply(s, up)
    BY <1>1, <1>3, <1>4, <2>3, ReplyServes
  <2>4. CASE backend' = [backend EXCEPT ![s] = "exploring"] /\ Becomes(s, on)
    <3>1. Moves(s, on)
      BY <1>4, <2>4 DEF Moves
    <3>2. QED
      BY <1>1, <1>3, <1>4, <2>4, <3>1, MoveServes
  <2>5. CASE DisconnectFrom(s, on, "up")
    BY <1>1, <1>3, <1>4, <2>5, DisconnectServes
  <2>6. QED
    BY <2>1, <2>2, <2>3, <2>4, <2>5
<1>6. CASE Disconnected(s)
  <2>1. backend' = [backend EXCEPT ![s] = "none"]
        /\ ((slot[s].address = NoOne /\ UNCHANGED slot) \/ ResetConnection(s))
    BY <1>6 DEF Disconnected
  <2>2. QED
    BY <1>1, <1>3, <2>1, ResetServes DEF Served
<1>7. CASE Discovered(s)
  <2> DEFINE b == IF backend[s] = "exploring" THEN "settled" ELSE "closing"
  <2>1. /\ backend' = [backend EXCEPT ![s] = b] /\ SendConnectedReply(s, known)
        /\ b \in BackendStates /\ b # "none"
    BY <1>1, <1>7 DEF Discovered
  <2> HIDE DEF up, on, known, b
  <2>2. QED
    BY <1>3, <1>4, <2>1, ReplyServes
<1>8. CASE Undiscovered(s)
  <2> DEFINE b == IF backend[s] = "exploring" THEN "failed" ELSE "closing"
  <2>1. DisconnectFrom(s, slot[s], b) /\ b \in BackendStates /\ b # "none"
    BY <1>1, <1>8 DEF Undiscovered
  <2> HIDE DEF b
  <2>2. QED
    BY <1>1, <1>3, <2>1, DisconnectServes
<1>9. CASE Completes(s)
  <2>1. UNCHANGED backend /\ op[s] \in Ops /\ wants \in [Peers -> Ops \cup {NoOp}] /\ TypeOK
    BY <1>9 DEF Completes, TypeInv, TypeOK, ConnectionTypeOK
  <2>2. UNCHANGED slot \/ Moves(s, slot[s])
    <3>1. ASSUME slot[s].address # NoOne, NEW kind \in AckKinds, NEW h \in Handles \cup {NoHandle},
                 SendAck(s, slot[s], wants, kind, h)
          PROVE  Moves(s, slot[s])
      BY <1>1, <1>2, <2>1, <3>1, AckTypes
    <3>2. op[s].handle \in Handles
      BY <2>1 DEF Ops
    <3>3. QED
      BY <1>9, <3>1, <3>2 DEF Completes, AckKinds
  <2>3. backend' = [backend EXCEPT ![s] = backend[s]]
    BY <1>1, <2>1
  <2>4. CASE UNCHANGED slot
    BY <1>3, <2>1, <2>4 DEF Served
  <2>5. CASE Moves(s, slot[s])
    BY <1>1, <1>3, <2>3, <2>5, MoveServes
  <2>6. QED
    BY <2>2, <2>4, <2>5
<1>10. QED
    BY <1>5, <1>6, <1>7, <1>8, <1>9 DEF Backend

LEMMA LoopServes ==
    ASSUME TypeInv, NEW s \in Slots, Loop(s)
    PROVE  Served(s)
<1>1. /\ slot[s] \in Slot /\ backend[s] \in BackendStates /\ Quiet(slot[s], backend[s])
    BY DEF TypeInv, TypeOK, ConnectionTypeOK, FreedIsQuiet
<1>2. CASE StreamServices(s)
  <2>1. slot[s].cursor \in 0 .. ServiceCount /\ UNCHANGED peer
    BY <1>2 DEF StreamServices
  <2>2. slot[s].address # NoOne
    BY <1>1, <2>1, NamedCursors DEF Quiet
  <2> DEFINE r == [slot[s] EXCEPT !.cursor = DONE_SENDING_SERVICES]
  <2>3. r \in Slot /\ r.address = slot[s].address /\ r.state = slot[s].state
    BY <1>1, CursorSlot, NamedCursors
  <2>4. \/ SendServicesDone(s, slot[s], got) /\ UNCHANGED backend
        \/ SendBatch(s) /\ UNCHANGED backend
        \/ DisconnectFrom(s, r, backend[s])
    BY <1>2 DEF StreamServices, AbortServiceStream
  <2> HIDE DEF r
  <2>5. CASE (SendServicesDone(s, slot[s], got) \/ SendBatch(s)) /\ UNCHANGED backend
    BY <2>1, <2>2, <2>5, DoneTypes, BatchAdvances, AdvanceServes
  <2>6. CASE DisconnectFrom(s, r, backend[s])
    BY <1>1, <2>1, <2>3, <2>6, DisconnectServes
  <2>7. QED
    BY <2>4, <2>5, <2>6
<1>3. CASE Sweep(s)
  <2>1. DisconnectFrom(s, slot[s], backend[s]) /\ UNCHANGED peer
    BY <1>3 DEF Sweep
  <2>2. QED
    BY <1>1, <2>1, DisconnectServes
<1>4. CASE FlushOwedReplies(s)
  <2>1. UNCHANGED <<backend, peer>>
    BY <1>4 DEF FlushOwedReplies, backendVars
  <2>2. QED
    BY <1>4, <2>1, FlushAdvances, AdvanceServes
<1>5. QED
    BY <1>2, <1>3, <1>4 DEF Loop

LEMMA ConnectServes ==
    ASSUME TypeInv, SlotIsServed, NEW p \in Peers, Connect(p)
    PROVE  SlotIsServed'
<1>1. /\ slot \in [Slots -> Slot] /\ backend \in [Slots -> BackendStates]
      /\ peer \in [Slots -> Addresses] /\ "asked" \in BackendStates
    BY DEF TypeInv, TypeOK, ConnectionTypeOK, BackendStates
<1>2. CASE NoSlotLeft(p)
    BY <1>2 DEF NoSlotLeft, SlotIsServed
<1>3. ASSUME NEW s \in Reservable(p)
      PROVE  /\ s \in Slots /\ slot[s] \in Slot /\ backend[s] \in BackendStates
             /\ Reserved(slot[s], p) \in Slot /\ Reserved(slot[s], p).address = p
    BY <1>1, <1>3, ReservableSlot, ReservedSlot
<1>4. ASSUME NEW s \in Reservable(p), AlreadyConnected(s, p)
      PROVE  SlotIsServed'
  <2>1. SendConnectedReply(s, slot[s]) /\ UNCHANGED <<backend, peer>>
    BY <1>4 DEF AlreadyConnected
  <2>2. backend' = [backend EXCEPT ![s] = backend[s]]
    BY <1>1, <2>1
  <2>3. QED
    BY <1>3, <2>1, <2>2, ReplyServes, ServedStep
<1>5. ASSUME NEW s \in Reservable(p), IgnoreRequest(s, p)
      PROVE  SlotIsServed'
    BY <1>5 DEF IgnoreRequest, SlotIsServed
<1>6. ASSUME NEW s \in Reservable(p), NEW cached \in BOOLEAN, Initiate(s, p, cached)
      PROVE  SlotIsServed'
  <2> DEFINE r == Reserved(slot[s], p)
             q == [r EXCEPT !.cached = cached, !.state = "CONNECTING"]
  <2>1. /\ Becomes(s, q) /\ backend' = [backend EXCEPT ![s] = "asked"]
        /\ peer' = [peer EXCEPT ![s] = p]
    BY <1>6 DEF Initiate
  <2>2. r \in Slot /\ r.address = p
    BY <1>3
  <2> HIDE DEF r
  <2>3. q.address = p /\ q.state = "CONNECTING"
    BY <2>2 DEF Slot
  <2> HIDE DEF q
  <2>4. QED
    BY <1>1, <1>3, <2>1, <2>3 DEF Becomes, SlotIsServed
<1>7. ASSUME NEW s \in Reservable(p), NEW cached \in BOOLEAN, FailToInitiate(s, p, cached)
      PROVE  SlotIsServed'
  <2> DEFINE r == Reserved(slot[s], p)
             q == [Freed(r) EXCEPT !.cached = cached]
  <2>1. Becomes(s, q) /\ UNCHANGED <<backend, peer>>
    BY <1>7 DEF FailToInitiate
  <2>2. Freed(r) \in Slot /\ Freed(r).address = NoOne
    BY <1>3, FreedSlot
  <2> HIDE DEF r
  <2>3. q.address = NoOne
    BY <2>2 DEF Slot
  <2> HIDE DEF q
  <2>4. QED
    BY <1>1, <1>3, <2>1, <2>3 DEF Becomes, SlotIsServed
<1>8. QED
    BY <1>2, <1>4, <1>5, <1>6, <1>7 DEF Connect, ConnectionTypes

LEMMA OtherServes ==
    ASSUME TypeInv, SlotIsServed,
           \/ \E p \in Peers : \/ ConnectV1(p) \/ Disconnect(p) \/ GetServices(p)
                               \/ ClientEndsList(p) \/ ClientGivesUp(p) \/ DrainPool(p)
                               \/ \E request \in Ops : Operation(p, request)
           \/ Subscribe \/ Unsubscribe \/ AskForSlots \/ ResendConnectionsFree
    PROVE  SlotIsServed'
<1>1. slot \in [Slots -> Slot] /\ backend \in [Slots -> BackendStates]
    BY DEF TypeInv, TypeOK, ConnectionTypeOK
<1>2. UNCHANGED <<slot, backend, peer>> => SlotIsServed'
    BY DEF SlotIsServed
<1>3. ASSUME NEW p \in Peers, ConnectV1(p) \/ ClientEndsList(p) \/ DrainPool(p)
      PROVE  SlotIsServed'
    BY <1>2, <1>3 DEF ConnectV1, ClientEndsList, DrainPool, backendVars
<1>4. ASSUME NEW p \in Peers, Disconnect(p) PROVE SlotIsServed'
  <2>1. UNCHANGED peer
    BY <1>4 DEF Disconnect
  <2>2. ASSUME NEW s \in SlotsOf(p), DisconnectFrom(s, slot[s], backend[s])
        PROVE  SlotIsServed'
    <3>1. s \in Slots /\ slot[s] \in Slot /\ backend[s] \in BackendStates
      BY <1>1 DEF SlotsOf
    <3>2. QED
      BY <2>1, <2>2, <3>1, DisconnectServes, ServedStep
  <2>3. QED
    BY <1>2, <1>4, <2>1, <2>2 DEF Disconnect
<1>5. ASSUME NEW p \in Peers,
             GetServices(p) \/ \E request \in Ops : Operation(p, request)
      PROVE  SlotIsServed'
  <2>1. UNCHANGED <<backend, peer>>
    BY <1>5 DEF GetServices, Operation, backendVars
  <2>2. UNCHANGED slot \/ \E s \in Slots : Advances(s)
    BY <1>5, ServicesAdvance, OperationAdvances DEF SlotsOf
  <2>3. QED
    BY <1>2, <2>1, <2>2, AdvanceServes, ServedStep
<1>6. ASSUME NEW p \in Peers, ClientGivesUp(p) PROVE SlotIsServed'
  <2>1. UNCHANGED <<backend, peer>>
    BY <1>6 DEF ClientGivesUp, backendVars
  <2>2. QED
    BY <1>6, <2>1, GivenUpSlot DEF SlotIsServed
<1>7. CASE Subscribe \/ Unsubscribe
  <2>1. ResetOwedReplies /\ UNCHANGED <<backend, peer>>
    BY <1>7 DEF Subscribe, Unsubscribe
  <2>2. \A s \in Slots : slot'[s].address = slot[s].address /\ slot'[s].state = slot[s].state
    BY <1>1, <2>1, ParkedSlot DEF ResetOwedReplies
  <2>3. QED
    BY <2>1, <2>2 DEF SlotIsServed
<1>8. CASE AskForSlots \/ ResendConnectionsFree
    BY <1>2, <1>8 DEF AskForSlots, ResendConnectionsFree, backendVars
<1>9. QED
    BY <1>3, <1>4, <1>5, <1>6, <1>7, <1>8

LEMMA SlotIsServedStep ==
    ASSUME "untyped" \notin Requests, TypeInv, SlotIsServed, [Next]_vars
    PROVE  SlotIsServed'
<1>1. \A p \in Peers : ~ConnectUntyped(p)
    BY DEF ConnectUntyped
<1>2. CASE Next
    BY <1>1, <1>2, BackendServes, LoopServes, ServedStep, ConnectServes, OtherServes
       DEF Next, Client
<1>3. CASE UNCHANGED vars
    BY <1>3 DEF vars, slotVars, backendVars, SlotIsServed
<1>4. QED
    BY <1>2, <1>3

(* A taken slot has a backend at work for its own device, so that an event to come  *)
(* frees it: no order of requests, refusals and late completions leaves a slot that  *)
(* nothing will ever free, unless a connect request without an address type does.    *)
THEOREM ProxySlotIsServed ==
    ASSUME "untyped" \notin Requests
    PROVE  Spec => []SlotIsServed
<1>1. Init => SlotIsServed
    BY DEF Init, ConnectionInit, NewSlot, SlotIsServed
<1>2. TypeInv /\ SlotIsServed /\ [Next]_vars => SlotIsServed'
    BY SlotIsServedStep
<1>3. QED
    BY <1>1, <1>2, ProxyTypes, PTL DEF Spec, TypeInv

-----------------------------------------------------------------------------
(* Owed answers.  Nothing is owed for a free slot; a step that latches or  *)
(* drops at most what one slot owes, and opens no request, keeps every     *)
(* owed answer current.                                                    *)

OwedIsTaken == \A s \in Slots : slot[s].ack # NoAck => slot[s].address # NoOne

AckInv == OwedIsTaken /\ OwedAnswerIsCurrent

WantsShrink == \A p \in Peers : wants'[p] \in {wants[p], NoOp}

KeepsAck(s, q) ==
    /\ Becomes(s, q)
    /\ q.ack # NoAck => q.ack = slot[s].ack /\ q.address = slot[s].address

LEMMA AckKept ==
    ASSUME TypeInv, AckInv, WantsShrink,
           UNCHANGED slot \/ \E s \in Slots, q \in Slot : KeepsAck(s, q)
    PROVE  AckInv'
<1>1. slot \in [Slots -> Slot] /\ \A s \in Slots : slot[s].address \in Addresses
    BY DEF TypeInv, TypeOK, ConnectionTypeOK, Slot
<1>2. \A s \in Slots : slot'[s].ack # NoAck =>
          slot'[s].ack = slot[s].ack /\ slot'[s].address = slot[s].address
    BY <1>1 DEF KeepsAck, Becomes
<1>3. \A kind, h : ~Answers(kind, h, NoOp)
    BY DEF Answers
<1>4. \A s \in Slots : slot'[s].ack # NoAck => slot[s].address \in Peers
    BY <1>1, <1>2 DEF AckInv, OwedIsTaken, Addresses
<1>5. OwedIsTaken'
    BY <1>2 DEF AckInv, OwedIsTaken
<1>6. ASSUME NEW s \in Slots, slot'[s].ack # NoAck
      PROVE  /\ slot'[s].ack.to = slot'[s].address
             /\ slot'[s].ack.stale =>
                   ~Answers(slot'[s].ack.kind, slot'[s].ack.handle, wants'[slot'[s].address])
  <2>1. /\ slot'[s].ack = slot[s].ack /\ slot'[s].address = slot[s].address
        /\ slot[s].address \in Peers
    BY <1>2, <1>4, <1>6
  <2>2. wants'[slot[s].address] \in {wants[slot[s].address], NoOp}
    BY <2>1 DEF WantsShrink
  <2>3. QED
    BY <1>3, <1>6, <2>1, <2>2 DEF AckInv, OwedAnswerIsCurrent
<1>7. OwedAnswerIsCurrent'
    BY <1>6 DEF OwedAnswerIsCurrent
<1>8. QED
    BY <1>5, <1>7 DEF AckInv

LEMMA FreedOwes ==
    ASSUME NEW r \in Slot
    PROVE  Freed(r).ack = NoAck
BY DEF Freed, WithAddress, ClearOwed, Slot

LEMMA ReservedOwes ==
    ASSUME NEW r \in Slot, NEW p \in Peers
    PROVE  Reserved(r, p).ack # NoAck => r.address = p /\ Reserved(r, p).ack = r.ack
BY DEF Reserved, WithAddress, ClearOwed, Slot

LEMMA ResetKeepsAck ==
    ASSUME TypeInv, NEW s \in Slots, ResetConnection(s)
    PROVE  \E q \in Slot : KeepsAck(s, q)
<1>1. slot[s] \in Slot
    BY DEF TypeInv, TypeOK, ConnectionTypeOK
<1>2. QED
    BY <1>1, FreedSlot, FreedOwes DEF ResetConnection, KeepsAck

LEMMA DisconnectKeepsAck ==
    ASSUME TypeInv, NEW s \in Slots, NEW r \in Slot, NEW b,
           r.address = slot[s].address, r.ack = slot[s].ack, DisconnectFrom(s, r, b)
    PROVE  \E q \in Slot : KeepsAck(s, q)
<1> DEFINE q == [r EXCEPT !.state = "DISCONNECTING"]
<1>1. q \in Slot /\ q.address = r.address /\ q.ack = r.ack
    BY DEF Slot, States
<1>2. Becomes(s, r) \/ Becomes(s, q) \/ ResetConnection(s)
    BY DEF DisconnectFrom
<1> HIDE DEF q
<1>3. CASE Becomes(s, r) \/ Becomes(s, q)
    BY <1>1, <1>3 DEF KeepsAck
<1>4. CASE ResetConnection(s)
    BY <1>4, ResetKeepsAck
<1>5. QED
    BY <1>2, <1>3, <1>4

LEMMA ReplyKeepsAck ==
    ASSUME NEW s \in Slots, NEW r \in Slot,
           r.address = slot[s].address, r.ack = slot[s].ack, SendConnectedReply(s, r)
    PROVE  \E q \in Slot : KeepsAck(s, q)
<1>1. PICK b \in BOOLEAN : Becomes(s, [r EXCEPT !.owedUp = b])
    BY DEF SendConnectedReply
<1> DEFINE q == [r EXCEPT !.owedUp = b]
<1>2. q \in Slot /\ q.address = r.address /\ q.ack = r.ack
    BY DEF Slot
<1> HIDE DEF q
<1>3. Becomes(s, q)
    BY <1>1 DEF q
<1>4. QED
    BY <1>2, <1>3 DEF KeepsAck

LEMMA CursorKeepsAck ==
    ASSUME NEW s \in Slots, slot[s] \in Slot, NEW c \in Cursors,
           Becomes(s, [slot[s] EXCEPT !.cursor = c])
    PROVE  \E q \in Slot : KeepsAck(s, q)
<1> DEFINE q == [slot[s] EXCEPT !.cursor = c]
<1>1. q \in Slot /\ q.address = slot[s].address /\ q.ack = slot[s].ack
    BY DEF Slot
<1> HIDE DEF q
<1>2. Becomes(s, q)
    BY DEF q
<1>3. QED
    BY <1>1, <1>2 DEF KeepsAck

LEMMA DoneKeepsAck ==
    ASSUME NEW s \in Slots, slot[s] \in Slot, NEW g, SendServicesDone(s, slot[s], g)
    PROVE  \E q \in Slot : KeepsAck(s, q)
<1>1. \E c \in Cursors : Becomes(s, [slot[s] EXCEPT !.cursor = c])
    BY NamedCursors DEF SendServicesDone
<1>2. QED
    BY <1>1, CursorKeepsAck

LEMMA AckOne ==
    ASSUME TypeInv, AckInv, NEW s \in Slots, NEW q, Becomes(s, q),
           q.ack # NoAck =>
              /\ q.address # NoOne /\ q.ack.to = q.address
              /\ q.ack.stale => ~Answers(q.ack.kind, q.ack.handle, wants'[q.address]),
           \A t \in Slots \ {s} : slot[t].address \in Peers =>
              wants'[slot[t].address] \in {wants[slot[t].address], NoOp}
    PROVE  AckInv'
<1>1. slot \in [Slots -> Slot] /\ \A t \in Slots : slot[t].address \in Addresses
    BY DEF TypeInv, TypeOK, ConnectionTypeOK, Slot
<1>2. slot'[s] = q /\ \A t \in Slots \ {s} : slot'[t] = slot[t]
    BY <1>1 DEF Becomes
<1>3. \A kind, h : ~Answers(kind, h, NoOp)
    BY DEF Answers
<1>4. OwedIsTaken'
    BY <1>2 DEF AckInv, OwedIsTaken
<1>5. ASSUME NEW t \in Slots, slot'[t].ack # NoAck
      PROVE  /\ slot'[t].ack.to = slot'[t].address
             /\ slot'[t].ack.stale =>
                   ~Answers(slot'[t].ack.kind, slot'[t].ack.handle, wants'[slot'[t].address])
  <2>1. CASE t = s
    BY <1>2, <1>5, <2>1
  <2>2. CASE t # s
    <3>1. slot'[t] = slot[t] /\ slot[t].address \in Peers
      BY <1>1, <1>2, <1>5, <2>2 DEF AckInv, OwedIsTaken, Addresses
    <3>2. wants'[slot[t].address] \in {wants[slot[t].address], NoOp}
      BY <2>2, <3>1
    <3>3. QED
      BY <1>3, <1>5, <3>1, <3>2 DEF AckInv, OwedAnswerIsCurrent
  <2>3. QED
    BY <2>1, <2>2
<1>6. OwedAnswerIsCurrent'
    BY <1>5 DEF OwedAnswerIsCurrent
<1>7. QED
    BY <1>4, <1>6 DEF AckInv

\* What a refused answer leaves behind is the answer of the slot's own device.
LEMMA SendAckCurrent ==
    ASSUME TypeInv, AckInv, NEW s \in Slots, NEW r \in Slot,
           NEW w \in [Peers -> Ops \cup {NoOp}],
           r.address = slot[s].address, r.address \in Peers,
           r.ack # NoAck => /\ r.ack.to = r.address
                            /\ r.ack.stale => ~Answers(r.ack.kind, r.ack.handle, w[r.address]),
           \A t \in Slots \ {s} : slot[t].address \in Peers =>
              w[slot[t].address] \in {wants[slot[t].address], NoOp},
           NEW kind \in AckKinds, NEW h \in Handles \cup {NoHandle}, SendAck(s, r, w, kind, h)
    PROVE  AckInv'
<1>1. r.address # NoOne
    BY ProxyAssumption
<1>2. \A k, e : ~Answers(k, e, NoOp)
    BY DEF Answers
<1> DEFINE a == [kind |-> kind, handle |-> h, to |-> r.address,
                 stale |-> ~Answers(kind, h, w[r.address])]
           q == [r EXCEPT !.ack = a]
<1>3. /\ q.ack = a /\ q.address = r.address
      /\ a.to = r.address /\ a.kind = kind /\ a.handle = h
      /\ a.stale = ~Answers(kind, h, w[r.address])
    BY DEF Slot
<1>4. \/ /\ wants' = IF Answers(kind, h, w[r.address]) THEN [w EXCEPT ![r.address] = NoOp] ELSE w
         /\ Becomes(s, r)
      \/ Becomes(s, q) /\ wants' = w
    BY DEF SendAck
<1> HIDE DEF a, q
<1>5. CASE /\ wants' = IF Answers(kind, h, w[r.address]) THEN [w EXCEPT ![r.address] = NoOp] ELSE w
           /\ Becomes(s, r)
  <2>1. \A p \in Peers : wants'[p] \in {w[p], NoOp}
    BY <1>5
  <2>2. r.ack # NoAck =>
           /\ r.address # NoOne /\ r.ack.to = r.address
           /\ r.ack.stale => ~Answers(r.ack.kind, r.ack.handle, wants'[r.address])
    BY <1>1, <1>2, <2>1
  <2>3. \A t \in Slots \ {s} : slot[t].address \in Peers =>
           wants'[slot[t].address] \in {wants[slot[t].address], NoOp}
    BY <2>1
  <2>4. QED
    BY <1>5, <2>2, <2>3, AckOne
<1>6. CASE Becomes(s, q) /\ wants' = w
  <2>1. q.ack # NoAck =>
           /\ q.address # NoOne /\ q.ack.to = q.address
           /\ q.ack.stale => ~Answers(q.ack.kind, q.ack.handle, wants'[q.address])
    BY <1>1, <1>3, <1>6
  <2>2. QED
    BY <1>6, <2>1, AckOne
<1>7. QED
    BY <1>4, <1>5, <1>6

LEMMA OwedIsCurrent ==
    ASSUME AckInv, NEW s \in Slots
    PROVE  slot[s].ack # NoAck =>
              /\ slot[s].ack.to = slot[s].address
              /\ slot[s].ack.stale =>
                    ~Answers(slot[s].ack.kind, slot[s].ack.handle, wants[slot[s].address])
BY DEF AckInv, OwedAnswerIsCurrent

LEMMA BackendAck ==
    ASSUME TypeInv, AckInv, NEW s \in Slots, Backend(s)
    PROVE  AckInv'
<1>1. /\ slot[s] \in Slot /\ slot[s].address \in Addresses
      /\ wants \in [Peers -> Ops \cup {NoOp}]
    BY DEF TypeInv, TypeOK, ConnectionTypeOK, Slot
<1> DEFINE up == [slot[s] EXCEPT !.state = "ESTABLISHED"]
           on == [slot[s] EXCEPT !.state = "CONNECTED"]
           known == [slot[s] EXCEPT !.state = "ESTABLISHED", !.discovered = TRUE]
<1>2. /\ up \in Slot /\ up.address = slot[s].address /\ up.ack = slot[s].ack
      /\ on \in Slot /\ on.address = slot[s].address /\ on.ack = slot[s].ack
      /\ known \in Slot /\ known.address = slot[s].address /\ known.ack = slot[s].ack
    BY <1>1 DEF Slot, States
<1>3. CASE Completes(s)
  <2>1. op[s] \in Ops /\ op[s].handle \in Handles
    BY <1>3 DEF Completes, Ops, TypeInv, TypeOK, ConnectionTypeOK
  <2>2. CASE UNCHANGED slot /\ (UNCHANGED wants \/ \E kind, h : Reply(slot[s].address, kind, h))
    <3>1. WantsShrink
      BY <1>1, <2>2 DEF WantsShrink, Reply
    <3>2. QED
      BY <2>2, <3>1, AckKept
  <2>3. ASSUME slot[s].address # NoOne, NEW kind \in AckKinds, NEW h \in Handles \cup {NoHandle},
               SendAck(s, slot[s], wants, kind, h)
        PROVE  AckInv'
    <3>1. slot[s].address \in Peers
      BY <1>1, <2>3 DEF Addresses
    <3>2. QED
      BY <1>1, <2>3, <3>1, OwedIsCurrent, SendAckCurrent
  <2>4. QED
    BY <1>3, <2>1, <2>2, <2>3 DEF Completes, AckKinds
<1>4. CASE ~Completes(s)
  <2>1. WantsShrink
    BY <1>4 DEF Backend, Connected, Disconnected, Discovered, Undiscovered, clientVars, WantsShrink
  <2>2. \/ UNCHANGED slot
        \/ ResetConnection(s)
        \/ SendConnectedReply(s, up) \/ SendConnectedReply(s, known)
        \/ Becomes(s, on)
        \/ \E b : DisconnectFrom(s, on, b) \/ DisconnectFrom(s, slot[s], b)
    BY <1>4 DEF Backend, Connected, Unwanted, Establish, Undiscoverable, Disconnected,
                Discovered, Undiscovered
  <2> HIDE DEF up, on, known
  <2>3. Becomes(s, on) => KeepsAck(s, on)
    BY <1>2 DEF KeepsAck
  <2>4. UNCHANGED slot \/ \E q \in Slot : KeepsAck(s, q)
    BY <1>1, <1>2, <2>2, <2>3, ResetKeepsAck, ReplyKeepsAck, DisconnectKeepsAck
  <2>5. QED
    BY <2>1, <2>4, AckKept
<1>5. QED
    BY <1>3, <1>4

LEMMA FlushKeepsAck ==
    ASSUME TypeInv, NEW s \in Slots, FlushOwedReplies(s)
    PROVE  WantsShrink /\ \E q \in Slot : KeepsAck(s, q)
<1>1. slot[s] \in Slot /\ wants \in [Peers -> Ops \cup {NoOp}]
    BY DEF TypeInv, TypeOK, ConnectionTypeOK
<1>2. ASSUME NEW r \in Slot, r.ack = slot[s].ack, r.address = slot[s].address,
             Becomes(s, r) \/ Becomes(s, [r EXCEPT !.ack = NoAck])
      PROVE  \E q \in Slot : KeepsAck(s, q)
  <2> DEFINE q == [r EXCEPT !.ack = NoAck]
  <2>1. q \in Slot /\ q.ack = NoAck
    BY DEF Slot
  <2>2. Becomes(s, r) \/ Becomes(s, q)
    BY <1>2
  <2> HIDE DEF q
  <2>3. QED
    BY <1>2, <2>1, <2>2 DEF KeepsAck
<1>3. ASSUME NEW r \in Slot, NEW q \in DoneRefused(r)
      PROVE  q \in Slot /\ q.ack = r.ack /\ q.address = r.address
  <2>1. q = r \/ q = [r EXCEPT !.cursor = DONE_SENDING_SERVICES]
    BY <1>3 DEF DoneRefused
  <2>2. [r EXCEPT !.cursor = DONE_SENDING_SERVICES].ack = r.ack
    BY DEF Slot
  <2>3. q.ack = r.ack
    BY <2>1, <2>2
  <2>4. q \in Slot /\ q.address = r.address
    BY <1>3, RefusedSlot
  <2>5. QED
    BY <2>3, <2>4
<1>4. ASSUME NEW r \in Slot, FlushAck(s, r)
      PROVE  /\ Becomes(s, r) \/ Becomes(s, [r EXCEPT !.ack = NoAck])
             /\ WantsShrink
  <2>1. UNCHANGED wants \/ Reply(r.address, r.ack.kind, r.ack.handle)
    BY <1>4 DEF FlushAck
  <2>2. WantsShrink
    BY <1>1, <2>1 DEF Reply, WantsShrink
  <2>3. QED
    BY <1>4, <2>2 DEF FlushAck
<1>5. CASE FlushDeferred(s)
  <2>1. PICK r \in DoneRefused(slot[s]) :
            Becomes(s, r) \/ Becomes(s, [r EXCEPT !.ack = NoAck])
    BY <1>5 DEF FlushDeferred
  <2>2. r \in Slot /\ r.ack = slot[s].ack /\ r.address = slot[s].address
    BY <1>1, <1>3
  <2>3. WantsShrink
    BY <1>5 DEF FlushDeferred, clientVars, WantsShrink
  <2>4. QED
    BY <1>2, <2>1, <2>2, <2>3
<1>6. CASE FlushAll(s)
  <2> DEFINE up == [slot[s] EXCEPT !.owedUp = FALSE]
             sent == [up EXCEPT !.cursor = DONE_SENDING_SERVICES]
  <2>1. up \in Slot /\ up.address = slot[s].address /\ up.ack = slot[s].ack
    BY <1>1 DEF Slot
  <2>2. FlushAck(s, sent) \/ \E r \in DoneRefused(up) : FlushAck(s, r)
    BY <1>6 DEF FlushAll
  <2> HIDE DEF up
  <2>3. sent \in Slot /\ sent.address = up.address /\ sent.ack = up.ack
    BY <2>1, CursorSlot, NamedCursors DEF Slot
  <2> HIDE DEF sent
  <2>4. PICK r \in Slot : FlushAck(s, r) /\ r.ack = slot[s].ack /\ r.address = slot[s].address
    BY <1>3, <2>1, <2>2, <2>3
  <2>5. QED
    BY <1>2, <1>4, <2>4
<1>7. QED
    BY <1>5, <1>6 DEF FlushOwedReplies

LEMMA LoopAck ==
    ASSUME TypeInv, AckInv, NEW s \in Slots, Loop(s)
    PROVE  AckInv'
<1>1. slot[s] \in Slot
    BY DEF TypeInv, TypeOK, ConnectionTypeOK
<1>2. CASE StreamServices(s)
  <2>1. WantsShrink /\ slot[s].cursor \in 0 .. ServiceCount
    BY <1>2 DEF StreamServices, WantsShrink
  <2> DEFINE r == [slot[s] EXCEPT !.cursor = DONE_SENDING_SERVICES]
  <2>2. r \in Slot /\ r.address = slot[s].address /\ r.ack = slot[s].ack
    BY <1>1, CursorSlot, NamedCursors DEF Slot
  <2>3. \/ SendServicesDone(s, slot[s], got) \/ SendBatch(s)
        \/ DisconnectFrom(s, r, backend[s])
    BY <1>2 DEF StreamServices, AbortServiceStream
  <2> HIDE DEF r
  <2>4. SendBatch(s) => \E c \in Cursors : Becomes(s, [slot[s] EXCEPT !.cursor = c])
    <3>1. SUFFICES ASSUME SendBatch(s)
                   PROVE  \E c \in Cursors : Becomes(s, [slot[s] EXCEPT !.cursor = c])
      OBVIOUS
    <3>2. PICK n \in slot[s].cursor + 1 .. Entries(s) : Becomes(s, [slot[s] EXCEPT !.cursor = n])
      BY <3>1 DEF SendBatch
    <3>3. n \in Cursors
      BY <2>1, ConnectionAssumption, NamedCursors DEF Entries
    <3>4. QED
      BY <3>2, <3>3
  <2>5. \E q \in Slot : KeepsAck(s, q)
    BY <1>1, <2>2, <2>3, <2>4, DoneKeepsAck, CursorKeepsAck, DisconnectKeepsAck
  <2>6. QED
    BY <2>1, <2>5, AckKept
<1>3. CASE Sweep(s)
  <2>1. DisconnectFrom(s, slot[s], backend[s]) /\ WantsShrink
    BY <1>3 DEF Sweep, clientVars, WantsShrink
  <2>2. QED
    BY <1>1, <2>1, DisconnectKeepsAck, AckKept
<1>4. CASE FlushOwedReplies(s)
    BY <1>4, FlushKeepsAck, AckKept
<1>5. QED
    BY <1>2, <1>3, <1>4 DEF Loop

LEMMA ConnectAck ==
    ASSUME TypeInv, AckInv, NEW p \in Peers, Connect(p) \/ ConnectUntyped(p)
    PROVE  AckInv'
<1>1. slot \in [Slots -> Slot]
    BY DEF TypeInv, TypeOK, ConnectionTypeOK
<1>2. WantsShrink
    BY DEF Connect, ConnectUntyped, clientVars, WantsShrink
<1>3. ASSUME NEW s \in Reservable(p)
      PROVE  /\ s \in Slots /\ slot[s] \in Slot
             /\ Reserved(slot[s], p) \in Slot /\ Reserved(slot[s], p).address = p
             /\ Reserved(slot[s], p).ack # NoAck =>
                   slot[s].address = p /\ Reserved(slot[s], p).ack = slot[s].ack
    BY <1>1, <1>3, ReservableSlot, ReservedSlot, ReservedOwes
<1>4. ASSUME NEW s \in Reservable(p), AlreadyConnected(s, p)
      PROVE  \E q \in Slot : KeepsAck(s, q)
    BY <1>3, <1>4, ReplyKeepsAck DEF AlreadyConnected
<1>5. ASSUME NEW s \in Reservable(p), NEW cached \in BOOLEAN, Initiate(s, p, cached)
      PROVE  \E q \in Slot : KeepsAck(s, q)
  <2> DEFINE r == Reserved(slot[s], p)
             q == [r EXCEPT !.cached = cached, !.state = "CONNECTING"]
  <2>1. Becomes(s, q)
    BY <1>5 DEF Initiate
  <2>2. /\ r \in Slot /\ r.address = p
        /\ r.ack # NoAck => slot[s].address = p /\ r.ack = slot[s].ack
    BY <1>3
  <2> HIDE DEF r
  <2>3. q \in Slot /\ q.address = r.address /\ q.ack = r.ack
    BY <2>2 DEF Slot, States
  <2> HIDE DEF q
  <2>4. QED
    BY <2>1, <2>2, <2>3 DEF KeepsAck
<1>6. ASSUME NEW s \in Reservable(p), NEW cached \in BOOLEAN, FailToInitiate(s, p, cached)
      PROVE  \E q \in Slot : KeepsAck(s, q)
  <2> DEFINE r == Reserved(slot[s], p)
             q == [Freed(r) EXCEPT !.cached = cached]
  <2>1. Becomes(s, q)
    BY <1>6 DEF FailToInitiate
  <2>2. Freed(r) \in Slot /\ Freed(r).ack = NoAck
    BY <1>3, FreedSlot, FreedOwes
  <2> HIDE DEF r
  <2>3. q \in Slot /\ q.ack = NoAck
    BY <2>2 DEF Slot
  <2> HIDE DEF q
  <2>4. QED
    BY <2>1, <2>3 DEF KeepsAck
<1>7. ASSUME NEW s \in Reservable(p), Becomes(s, Reserved(slot[s], p))
      PROVE  \E q \in Slot : KeepsAck(s, q)
  <2>1. KeepsAck(s, Reserved(slot[s], p))
    BY <1>3, <1>7 DEF KeepsAck
  <2>2. QED
    BY <1>3, <2>1
<1>8. UNCHANGED slot \/ \E s \in Slots, q \in Slot : KeepsAck(s, q)
  <2>1. CASE ConnectUntyped(p)
    <3>1. PICK s \in Reservable(p) : Becomes(s, Reserved(slot[s], p))
      BY <2>1 DEF ConnectUntyped
    <3>2. QED
      BY <1>3, <1>7, <3>1
  <2>2. CASE Connect(p)
    <3>1. NoSlotLeft(p) => UNCHANGED slot
      BY DEF NoSlotLeft
    <3>2. \A s : IgnoreRequest(s, p) => UNCHANGED slot
      BY DEF IgnoreRequest
    <3>3. QED
      BY <1>3, <1>4, <1>5, <1>6, <2>2, <3>1, <3>2 DEF Connect, ConnectionTypes
  <2>3. QED
    BY <2>1, <2>2
<1>9. QED
    BY <1>2, <1>8, AckKept

\* A new request: what the device's slot owes for its handle is dropped, and no other
\* slot is the device's.
LEMMA OperationAck ==
    ASSUME TypeInv, OneSlotPerDevice, AckInv, NEW p \in Peers, NEW request \in Ops,
           Operation(p, request)
    PROVE  AckInv'
<1> DEFINE w == [wants EXCEPT ![p] = request]
<1>1. /\ wants \in [Peers -> Ops \cup {NoOp}] /\ slot \in [Slots -> Slot]
      /\ w \in [Peers -> Ops \cup {NoOp}] /\ w[p] = request
      /\ \A q \in Peers \ {p} : w[q] = wants[q]
    BY DEF TypeInv, TypeOK, ConnectionTypeOK
<1>2. request.kind \in {"read", "write", "notify"} /\ request.handle \in Handles
    BY DEF Ops
<1>3. \/ NotConnected(p, w)
      \/ \E s \in SlotsOf(p) :
            LET r == Superseded(slot[s], request.handle, request.kind)
            IN  \/ OperationRefused(s, r, w, request.handle)
                \/ OperationStarted(s, r, w, request)
                \/ OperationDone(s, r, w, request)
    BY DEF Operation
<1> HIDE DEF w
<1>4. CASE NotConnected(p, w)
  <2>1. PICK s \in Slots : TRUE
    BY ProxyAssumption
  <2>2. \A t \in Slots : slot[t].address # p
    BY <1>4 DEF NotConnected, SlotsOf
  <2>3. UNCHANGED slot /\ wants' \in {wants, w}
    BY <1>4 DEF NotConnected
  <2>4. \A t \in Slots : slot[t].address \in Peers =>
            wants'[slot[t].address] = wants[slot[t].address]
    BY <1>1, <2>2, <2>3
  <2>5. Becomes(s, slot[s])
    BY <1>1, <2>3 DEF Becomes
  <2>6. slot[s].ack # NoAck => slot[s].address # NoOne /\ slot[s].address \in Peers
    BY <1>1 DEF AckInv, OwedIsTaken, Slot, Addresses
  <2>7. slot[s].ack # NoAck =>
           /\ slot[s].address # NoOne /\ slot[s].ack.to = slot[s].address
           /\ slot[s].ack.stale =>
                 ~Answers(slot[s].ack.kind, slot[s].ack.handle, wants'[slot[s].address])
    BY <2>4, <2>6, OwedIsCurrent
  <2>8. QED
    BY <2>4, <2>5, <2>7, AckOne
<1>5. ASSUME NEW s \in SlotsOf(p), NEW r \in Slot, r.address = p,
             r.ack # NoAck => /\ r.ack.to = r.address
                              /\ ~Answers(r.ack.kind, r.ack.handle, w[r.address]),
             \/ OperationRefused(s, r, w, request.handle)
             \/ OperationStarted(s, r, w, request)
             \/ OperationDone(s, r, w, request)
      PROVE  AckInv'
  <2>1. s \in Slots /\ slot[s].address = p /\ p # NoOne
    BY ProxyAssumption DEF SlotsOf
  <2>2. \A t \in Slots \ {s} : slot[t].address \in Peers =>
            w[slot[t].address] \in {wants[slot[t].address], NoOp}
    BY <1>1, <2>1 DEF OneSlotPerDevice
  <2>3. CASE OperationStarted(s, r, w, request)
    <3>1. Becomes(s, r) /\ wants' = w
      BY <2>3 DEF OperationStarted
    <3>2. QED
      BY <1>5, <2>1, <2>2, <3>1, AckOne
  <2>4. CASE OperationRefused(s, r, w, request.handle)
    <3>1. SendAck(s, r, w, "error", request.handle)
      BY <2>4 DEF OperationRefused
    <3>2. QED
      BY <1>1, <1>2, <1>5, <2>1, <2>2, <3>1, SendAckCurrent DEF AckKinds
  <2>5. CASE OperationDone(s, r, w, request)
    <3>1. SendAck(s, r, w, request.kind, request.handle) /\ request.kind \in AckKinds
      BY <1>2, <2>5 DEF OperationDone, AckKinds
    <3>2. QED
      BY <1>1, <1>2, <1>5, <2>1, <2>2, <3>1, SendAckCurrent
  <2>6. QED
    BY <1>5, <2>3, <2>4, <2>5
<1>6. ASSUME NEW s \in SlotsOf(p)
      PROVE  LET r == Superseded(slot[s], request.handle, request.kind)
             IN  /\ r \in Slot /\ r.address = p
                 /\ r.ack # NoAck => /\ r.ack.to = r.address
                                     /\ ~Answers(r.ack.kind, r.ack.handle, w[r.address])
  <2>1. s \in Slots /\ slot[s].address = p /\ slot[s] \in Slot
    BY <1>1 DEF SlotsOf
  <2> DEFINE r == Superseded(slot[s], request.handle, request.kind)
  <2>2. r \in Slot /\ r.address = p
    BY <2>1, SupersededSlot
  <2>3. r.ack # NoAck => /\ r.ack = slot[s].ack
                         /\ ~(/\ slot[s].ack.handle = request.handle
                              /\ slot[s].ack.kind \in {"error", request.kind})
    BY <2>1 DEF Superseded, Slot
  <2> HIDE DEF r
  <2>4. r.ack # NoAck => r.ack.to = p
    BY <2>1, <2>3, OwedIsCurrent
  <2>5. r.ack # NoAck => ~Answers(r.ack.kind, r.ack.handle, w[p])
    BY <1>1, <2>3 DEF Answers
  <2>6. QED
    BY <2>2, <2>4, <2>5 DEF r
<1>7. QED
    BY <1>3, <1>4, <1>5, <1>6

LEMMA OtherAck ==
    ASSUME TypeInv, AckInv,
           \/ \E p \in Peers : \/ ConnectV1(p) \/ Disconnect(p) \/ GetServices(p)
                               \/ ClientEndsList(p) \/ ClientGivesUp(p) \/ DrainPool(p)
           \/ Subscribe \/ Unsubscribe \/ AskForSlots \/ ResendConnectionsFree
    PROVE  AckInv'
<1>1. slot \in [Slots -> Slot] /\ wants \in [Peers -> Ops \cup {NoOp}]
    BY DEF TypeInv, TypeOK, ConnectionTypeOK
<1>2. UNCHANGED <<slot, wants>> => AckInv'
    BY AckKept DEF WantsShrink
<1>3. ASSUME NEW p \in Peers, ConnectV1(p) \/ ClientEndsList(p) \/ DrainPool(p)
      PROVE  AckInv'
    BY <1>2, <1>3 DEF ConnectV1, ClientEndsList, DrainPool, clientVars
<1>4. ASSUME NEW p \in Peers, Disconnect(p) PROVE AckInv'
  <2>1. UNCHANGED wants
    BY <1>4 DEF Disconnect, clientVars
  <2>2. ASSUME NEW s \in SlotsOf(p), DisconnectFrom(s, slot[s], backend[s])
        PROVE  AckInv'
    <3>1. s \in Slots /\ slot[s] \in Slot
      BY <1>1 DEF SlotsOf
    <3>2. QED
      BY <2>1, <2>2, <3>1, DisconnectKeepsAck, AckKept DEF WantsShrink
  <2>3. QED
    BY <1>2, <1>4, <2>1, <2>2 DEF Disconnect
<1>5. ASSUME NEW p \in Peers, GetServices(p) PROVE AckInv'
  <2>1. UNCHANGED wants
    BY <1>5 DEF GetServices
  <2>2. PICK g : \/ ServicesRefused(p, g)
                 \/ \E s \in SlotsOf(p) : SendServicesDone(s, slot[s], g) \/ RestartStream(s, g)
    BY <1>5 DEF GetServices
  <2>3. ASSUME NEW s \in SlotsOf(p), SendServicesDone(s, slot[s], g) \/ RestartStream(s, g)
        PROVE  AckInv'
    <3>1. s \in Slots /\ slot[s] \in Slot
      BY <1>1 DEF SlotsOf
    <3>2. RestartStream(s, g) => \E c \in Cursors : Becomes(s, [slot[s] EXCEPT !.cursor = c])
      BY NamedCursors DEF RestartStream
    <3>3. \E q \in Slot : KeepsAck(s, q)
      BY <2>3, <3>1, <3>2, DoneKeepsAck, CursorKeepsAck
    <3>4. QED
      BY <2>1, <3>1, <3>3, AckKept DEF WantsShrink
  <2>4. QED
    BY <1>2, <2>1, <2>2, <2>3 DEF ServicesRefused
<1>6. ASSUME NEW p \in Peers, ClientGivesUp(p) PROVE AckInv'
  <2>1. wants' = [wants EXCEPT ![p] = NoOp]
    BY <1>6 DEF ClientGivesUp
  <2>2. ASSUME NEW s \in Slots
        PROVE  /\ slot'[s].address = slot[s].address
               /\ slot'[s].ack # NoAck =>
                     /\ slot[s].ack # NoAck
                     /\ slot'[s].ack.to = slot[s].ack.to
                     /\ slot[s].address # p => slot'[s].ack = slot[s].ack
    <3>1. slot'[s] = IF slot[s].address = p /\ slot[s].ack # NoAck
                     THEN [slot[s] EXCEPT !.ack.stale = TRUE] ELSE slot[s]
      BY <1>6 DEF ClientGivesUp
    <3>2. slot[s] \in Slot /\ (slot[s].ack # NoAck => slot[s].ack \in Acks)
      BY <1>1 DEF Slot
    <3> DEFINE a == [slot[s].ack EXCEPT !.stale = TRUE]
    <3>3. slot[s].ack # NoAck => a.to = slot[s].ack.to
      BY <3>2 DEF Acks
    <3>4. slot[s].ack # NoAck => [slot[s] EXCEPT !.ack = a] = [slot[s] EXCEPT !.ack.stale = TRUE]
      BY <3>2 DEF Slot
    <3> HIDE DEF a
    <3>5. QED
      BY <3>1, <3>2, <3>3, <3>4 DEF Slot
  <2>3. OwedIsTaken'
    BY <2>2 DEF AckInv, OwedIsTaken
  <2>4. ASSUME NEW s \in Slots, slot'[s].ack # NoAck
        PROVE  /\ slot'[s].ack.to = slot'[s].address
               /\ slot'[s].ack.stale =>
                     ~Answers(slot'[s].ack.kind, slot'[s].ack.handle, wants'[slot'[s].address])
    <3>1. slot'[s].ack.to = slot'[s].address
      BY <2>2, <2>4, OwedIsCurrent
    <3>2. CASE slot[s].address = p
      <4>1. wants'[slot'[s].address] = NoOp
        BY <1>1, <2>1, <2>2, <3>2
      <4>2. QED
        BY <3>1, <4>1 DEF Answers
    <3>3. CASE slot[s].address # p
      <4>1. slot[s].address \in Peers
        BY <1>1, <2>2, <2>4 DEF AckInv, OwedIsTaken, Slot, Addresses
      <4>2. wants'[slot'[s].address] = wants[slot[s].address]
        BY <1>1, <2>1, <2>2, <3>3, <4>1
      <4>3. QED
        BY <2>2, <2>4, <3>1, <3>3, <4>2, OwedIsCurrent
    <3>4. QED
      BY <3>2, <3>3
  <2>5. QED
    BY <2>3, <2>4 DEF AckInv, OwedAnswerIsCurrent
<1>7. CASE Subscribe \/ Unsubscribe
  <2>1. slot' = [s \in Slots |-> ClearOwed(Parked(slot[s]))]
    BY <1>7 DEF Subscribe, Unsubscribe, ResetOwedReplies
  <2>2. \A r \in Slot : ClearOwed(Parked(r)).ack = NoAck
    BY DEF ClearOwed, Parked, Slot
  <2>3. \A s \in Slots : slot'[s].ack = NoAck
    BY <1>1, <2>1, <2>2
  <2>4. QED
    BY <2>3 DEF AckInv, OwedIsTaken, OwedAnswerIsCurrent
<1>8. CASE AskForSlots \/ ResendConnectionsFree
    BY <1>2, <1>8 DEF AskForSlots, ResendConnectionsFree, clientVars
<1>9. QED
    BY <1>3, <1>4, <1>5, <1>6, <1>7, <1>8

LEMMA AckStep ==
    ASSUME TypeInv, OneSlotPerDevice, AckInv, [Next]_vars
    PROVE  AckInv'
<1>1. CASE Next
    BY <1>1, BackendAck, LoopAck, ConnectAck, OperationAck, OtherAck DEF Next, Client
<1>2. CASE UNCHANGED vars
    BY <1>2, AckKept DEF vars, slotVars, clientVars, WantsShrink
<1>3. QED
    BY <1>1, <1>2

(* An owed answer is for the device on the slot (clear_owed_flags_ at a change of *)
(* hands), and is not the answer to a request made after the one it answered         *)
(* (supersede_pending_ack_): for any number of slots, devices and handles.           *)
THEOREM ProxyAnswers == Spec => []OwedAnswerIsCurrent
<1>1. Init => AckInv
    BY DEF Init, ConnectionInit, NewSlot, AckInv, OwedIsTaken, OwedAnswerIsCurrent
<1>2. TypeInv /\ OneSlotPerDevice /\ AckInv /\ [Next]_vars => AckInv'
    BY AckStep
<1>3. AckInv => OwedAnswerIsCurrent
    BY DEF AckInv
<1>4. QED
    BY <1>1, <1>2, <1>3, ProxyTypes, ProxySlots, PTL DEF Spec, TypeInv


-----------------------------------------------------------------------------
(* Service lists.  A device without a cache has its own services in the    *)
(* table from the moment its connection is established, until they were    *)
(* all sent; and what its client holds is what the cursor says was sent.   *)
(* So nothing is proved of how the list grows but that a batch appended to *)
(* the services before it makes the services up to it.                     *)

Listed(a, n) == [i \in 1 .. n |-> <<a, i>>]

Sent(c) == IF c = SERVICES_DONE_PENDING THEN ServiceCount ELSE c

Streaming == {SERVICES_DONE_PENDING} \cup 0 .. ServiceCount

TableIsReady(r, b, t) ==
    /\ r.state \in {"CONNECTING", "CONNECTED"} => r.cursor = INIT_SENDING_SERVICES
    /\ b \in {"asked", "exploring", "failed"} =>
          r.cursor = INIT_SENDING_SERVICES /\ r.state # "ESTABLISHED"
    /\ ~r.cached =>
          /\ r.state = "ESTABLISHED" => r.discovered
          /\ \/ r.cursor \in 0 .. ServiceCount
             \/ r.cursor = INIT_SENDING_SERVICES /\ r.state = "ESTABLISHED"
             => t = r.address

HoldsWhatWasSent(r, g) ==
    g # NoList /\ ~g.known /\ r.cursor \in Streaming =>
        ~r.cached /\ ~g.done /\ g.list = Listed(r.address, Sent(r.cursor))

Lists == [list : Seq(Addresses \X Nat), done : BOOLEAN, known : BOOLEAN]

Whole(p, g) ==
    g # NoList => g \in Lists /\ (g.done /\ ~g.known => g.list = ListOf(p))

SlotStreams(s) ==
    slot[s].address # NoOne =>
        /\ TableIsReady(slot[s], backend[s], table[s])
        /\ HoldsWhatWasSent(slot[s], got[slot[s].address])

StreamInv ==
    /\ \A s \in Slots : SlotStreams(s)
    /\ \A p \in Peers : Whole(p, got[p])
    /\ DOMAIN got = Peers

LEMMA CursorsDiffer ==
    /\ 0 \in 0 .. ServiceCount
    /\ DONE_SENDING_SERVICES \notin 0 .. ServiceCount
    /\ INIT_SENDING_SERVICES \notin 0 .. ServiceCount
    /\ SERVICES_DONE_PENDING \notin 0 .. ServiceCount
    /\ DONE_SENDING_SERVICES # INIT_SENDING_SERVICES
    /\ DONE_SENDING_SERVICES # SERVICES_DONE_PENDING
    /\ INIT_SENDING_SERVICES # SERVICES_DONE_PENDING
BY ConnectionAssumption
   DEF DONE_SENDING_SERVICES, INIT_SENDING_SERVICES, SERVICES_DONE_PENDING

LEMMA NothingListed ==
    ASSUME NEW a
    PROVE  Listed(a, 0) = <<>>
<1> DEFINE S == {<<a, i>> : i \in Nat}
<1>1. Listed(a, 0) \in Seq(S) /\ Len(Listed(a, 0)) = 0
    BY DEF Listed
<1> HIDE DEF S
<1>2. QED
    BY <1>1, EmptySeq

LEMMA BatchAppends ==
    ASSUME NEW a, NEW c \in Nat, NEW n \in Nat, c < n
    PROVE  Listed(a, c) \o [i \in 1 .. n - c |-> <<a, c + i>>] = Listed(a, n)
<1> DEFINE batch == [i \in 1 .. n - c |-> <<a, c + i>>]
           S == {<<a, i>> : i \in Nat}
<1>1. Listed(a, c) \in Seq(S) /\ Len(Listed(a, c)) = c
    BY DEF Listed
<1>2. batch \in Seq(S) /\ Len(batch) = n - c
    OBVIOUS
<1>3. Listed(a, n) \in Seq(S) /\ Len(Listed(a, n)) = n
    BY DEF Listed
<1>4. \A i \in 1 .. c : Listed(a, c)[i] = <<a, i>>
    BY DEF Listed
<1>5. \A i \in 1 .. n - c : batch[i] = <<a, c + i>>
    OBVIOUS
<1>6. \A i \in 1 .. n : Listed(a, n)[i] = <<a, i>>
    BY DEF Listed
<1> HIDE DEF batch, S
<1>7. Listed(a, c) \o batch \in Seq(S) /\ Len(Listed(a, c) \o batch) = n
    BY <1>1, <1>2
<1>8. ASSUME NEW i \in 1 .. n
      PROVE  (Listed(a, c) \o batch)[i] = <<a, i>>
  <2>1. CASE i <= c
    BY <1>1, <1>2, <1>4, <2>1
  <2>2. CASE i > c
    <3>1. PICK j \in 1 .. n - c : i = c + j
      BY <2>2
    <3>2. (Listed(a, c) \o batch)[i] = batch[j]
      BY <1>1, <1>2, <2>2, <3>1
    <3>3. batch[j] = <<a, i>>
      BY <1>5, <3>1
    <3>4. QED
      BY <3>2, <3>3
  <2>3. i <= c \/ i > c
    OBVIOUS
  <2>4. QED
    BY <2>1, <2>2, <2>3, Zenon
<1>9. Listed(a, c) \o batch = Listed(a, n)
    BY <1>3, <1>6, <1>7, <1>8, SeqEqual
<1>10. QED
    BY <1>9 DEF batch

\* A step of one slot, which writes to no list but that of the device it had.
LEMMA StreamOne ==
    ASSUME TypeInv, OneSlotPerDevice, StreamInv, NEW s \in Slots, NEW q \in Slot,
           Becomes(s, q),
           \A t \in Slots \ {s} : backend'[t] = backend[t] /\ table'[t] = table[t],
           DOMAIN got' = Peers,
           \A p \in Peers \ {slot[s].address} : got'[p] = got[p],
           slot[s].address \in Peers => Whole(slot[s].address, got'[slot[s].address]),
           q.address # NoOne => /\ TableIsReady(q, backend'[s], table'[s])
                                /\ HoldsWhatWasSent(q, got'[q.address])
    PROVE  StreamInv'
<1>1. slot \in [Slots -> Slot] /\ \A t \in Slots : slot[t].address \in Addresses
    BY DEF TypeInv, TypeOK, ConnectionTypeOK, Slot
<1>2. slot'[s] = q /\ \A t \in Slots \ {s} : slot'[t] = slot[t]
    BY <1>1 DEF Becomes
<1>3. SlotStreams(s)'
    BY <1>2 DEF SlotStreams
<1>4. ASSUME NEW t \in Slots \ {s}
      PROVE  SlotStreams(t)'
  <2>1. slot[t].address # NoOne => slot[t].address \in Peers \ {slot[s].address}
    BY <1>1 DEF Addresses, OneSlotPerDevice
  <2>2. slot[t].address # NoOne => got'[slot[t].address] = got[slot[t].address]
    BY <2>1
  <2>3. SlotStreams(t)
    BY DEF StreamInv
  <2>4. QED
    BY <1>2, <2>2, <2>3 DEF SlotStreams
<1>5. \A p \in Peers : Whole(p, got'[p])
    BY DEF StreamInv
<1>6. QED
    BY <1>3, <1>4, <1>5 DEF StreamInv

\* Lists that are not written to are whole still.
LEMMA ListsKept ==
    ASSUME StreamInv, UNCHANGED got
    PROVE  /\ DOMAIN got' = Peers
           /\ \A p \in Peers : got'[p] = got[p] /\ Whole(p, got'[p])
BY DEF StreamInv

\* What sending again changes of a slot: at most, an owed services-done is given up.
Like(q, r) ==
    /\ q.address = r.address /\ q.state = r.state
    /\ q.cached = r.cached /\ q.discovered = r.discovered
    /\ \/ q.cursor = r.cursor
       \/ r.cursor = SERVICES_DONE_PENDING /\ q.cursor = DONE_SENDING_SERVICES

LEMMA LikeStreams ==
    ASSUME TypeInv, OneSlotPerDevice, StreamInv, NEW s \in Slots, NEW q \in Slot,
           Becomes(s, q), Like(q, slot[s]), UNCHANGED <<backend, table, got>>
    PROVE  StreamInv'
<1>1. /\ DOMAIN got' = Peers
      /\ \A p \in Peers : got'[p] = got[p] /\ Whole(p, got'[p])
    BY ListsKept
<1>2. SlotStreams(s)
    BY DEF StreamInv
<1>3. q.address # NoOne => /\ TableIsReady(q, backend'[s], table'[s])
                           /\ HoldsWhatWasSent(q, got'[q.address])
  <2>1. DONE_SENDING_SERVICES \notin {INIT_SENDING_SERVICES} \cup Streaming
    BY CursorsDiffer DEF Streaming
  <2>2. 0 .. ServiceCount \subseteq Streaming
    BY DEF Streaming
  <2>3. CASE q.cursor = slot[s].cursor
    BY <1>2, <2>3 DEF Like, SlotStreams, TableIsReady, HoldsWhatWasSent
  <2>4. CASE q.cursor # slot[s].cursor
    <3>1. slot[s].cursor = SERVICES_DONE_PENDING /\ q.cursor = DONE_SENDING_SERVICES
      BY <2>4 DEF Like
    <3>2. slot[s].cursor # INIT_SENDING_SERVICES
      BY <3>1, NamedCursors
    <3>3. QED
      BY <1>2, <2>1, <2>2, <3>1, <3>2
         DEF Like, SlotStreams, TableIsReady, HoldsWhatWasSent
  <2>5. QED
    BY <2>3, <2>4
<1>4. QED
    BY <1>1, <1>3, StreamOne

\* A slot that is freed has nothing to keep.
LEMMA FreedStreams ==
    ASSUME TypeInv, OneSlotPerDevice, StreamInv, NEW s \in Slots, NEW q \in Slot,
           Becomes(s, q), q.address = NoOne,
           \A t \in Slots \ {s} : backend'[t] = backend[t] /\ table'[t] = table[t],
           UNCHANGED got
    PROVE  StreamInv'
BY ListsKept, StreamOne

LEMMA ResetStreams ==
    ASSUME TypeInv, OneSlotPerDevice, StreamInv, NEW s \in Slots, ResetConnection(s),
           \A t \in Slots \ {s} : backend'[t] = backend[t], UNCHANGED got
    PROVE  StreamInv'
<1>1. slot[s] \in Slot /\ table \in [Slots -> Addresses]
    BY DEF TypeInv, TypeOK, ConnectionTypeOK
<1>2. \A t \in Slots \ {s} : table'[t] = table[t]
    BY <1>1 DEF ResetConnection
<1>3. QED
    BY <1>1, <1>2, FreedSlot, FreedStreams DEF ResetConnection

\* A teardown: what the table holds and what was sent stay what they were.
LEMMA DisconnectStreams ==
    ASSUME TypeInv, OneSlotPerDevice, StreamInv, NEW s \in Slots, NEW r \in Slot, NEW b,
           r.address = slot[s].address,
           r.address # NoOne => /\ TableIsReady(r, b, table[s])
                                /\ HoldsWhatWasSent(r, got[r.address]),
           DisconnectFrom(s, r, b), UNCHANGED got
    PROVE  StreamInv'
<1>1. backend \in [Slots -> BackendStates]
    BY DEF TypeInv, TypeOK, ConnectionTypeOK
<1> DEFINE q == [r EXCEPT !.state = "DISCONNECTING"]
<1>2. /\ q \in Slot /\ q.address = r.address /\ q.state = "DISCONNECTING"
      /\ q.cached = r.cached /\ q.cursor = r.cursor
    BY DEF Slot, States
<1>3. \/ Becomes(s, r) /\ backend' = [backend EXCEPT ![s] = b] /\ UNCHANGED table
      \/ Becomes(s, q) /\ backend' = [backend EXCEPT ![s] = Torn(b)] /\ UNCHANGED table
      \/ ResetConnection(s) /\ backend' = [backend EXCEPT ![s] = Torn(b)]
    BY DEF DisconnectFrom
<1> HIDE DEF q
<1>4. /\ DOMAIN got' = Peers
      /\ \A p \in Peers : got'[p] = got[p] /\ Whole(p, got'[p])
    BY ListsKept
<1>5. CASE Becomes(s, r) /\ backend' = [backend EXCEPT ![s] = b] /\ UNCHANGED table
    BY <1>1, <1>4, <1>5, StreamOne
<1>6. CASE Becomes(s, q) /\ backend' = [backend EXCEPT ![s] = Torn(b)] /\ UNCHANGED table
  <2>1. Torn(b) \in {"asked", "exploring", "failed"} => b \in {"asked", "exploring", "failed"}
    BY DEF Torn
  <2>2. r.address # NoOne => TableIsReady(q, Torn(b), table[s])
    BY <1>2, <2>1 DEF TableIsReady
  <2>3. HoldsWhatWasSent(r, got[r.address]) => HoldsWhatWasSent(q, got[r.address])
    BY <1>2 DEF HoldsWhatWasSent
  <2>4. QED
    BY <1>1, <1>2, <1>4, <1>6, <2>2, <2>3, StreamOne
<1>7. CASE ResetConnection(s) /\ backend' = [backend EXCEPT ![s] = Torn(b)]
    BY <1>1, <1>7, ResetStreams
<1>8. QED
    BY <1>3, <1>5, <1>6, <1>7

LEMMA DoneIsWhole ==
    ASSUME NEW p, NEW g, Whole(p, g), g # NoList,
           ~g.known => g.list = ListOf(p)
    PROVE  Whole(p, [g EXCEPT !.done = TRUE])
<1> DEFINE h == [g EXCEPT !.done = TRUE]
<1>1. g \in Lists
    BY DEF Whole
<1>2. h \in Lists /\ h.list = g.list /\ h.known = g.known
    BY <1>1 DEF Lists
<1> HIDE DEF h
<1>3. Whole(p, h)
    BY <1>2 DEF Whole
<1>4. QED
    BY <1>3 DEF h

\* Services-done reaches the client of a whole list.
LEMMA DoneStreams ==
    ASSUME TypeInv, OneSlotPerDevice, StreamInv, NEW s \in Slots, NEW q \in Slot,
           Becomes(s, q), slot[s].address \in Peers,
           q.address = slot[s].address, q.state = slot[s].state,
           q.cached = slot[s].cached, q.discovered = slot[s].discovered,
           q.cursor = DONE_SENDING_SERVICES, slot[s].cursor # INIT_SENDING_SERVICES,
           got' = Finished(got, slot[s].address),
           LET g == got[slot[s].address]
           IN  g # NoList /\ ~g.known => g.list = ListOf(slot[s].address),
           UNCHANGED backend, \A t \in Slots \ {s} : table'[t] = table[t]
    PROVE  StreamInv'
<1> DEFINE a == slot[s].address
<1>1. /\ DOMAIN got' = Peers
      /\ \A p \in Peers \ {a} : got'[p] = got[p]
      /\ got'[a] = IF got[a] # NoList THEN [got[a] EXCEPT !.done = TRUE] ELSE got[a]
    BY DEF Finished
<1>2. Whole(a, got[a])
    BY DEF StreamInv
<1>3. Whole(a, got'[a])
  <2>1. CASE got[a] = NoList
    BY <1>1, <1>2, <2>1
  <2>2. CASE got[a] # NoList
    BY <1>1, <1>2, <2>2, DoneIsWhole
  <2>3. QED
    BY <2>1, <2>2
<1>4. SlotStreams(s) /\ a # NoOne
    BY ProxyAssumption DEF StreamInv
<1>5. DONE_SENDING_SERVICES \notin {INIT_SENDING_SERVICES} \cup Streaming
    BY CursorsDiffer DEF Streaming
<1>6. 0 .. ServiceCount \subseteq Streaming
    BY DEF Streaming
<1>7. TableIsReady(q, backend'[s], table'[s]) /\ HoldsWhatWasSent(q, got'[q.address])
    BY <1>4, <1>5, <1>6 DEF SlotStreams, TableIsReady, HoldsWhatWasSent
<1>8. QED
    BY <1>1, <1>3, <1>7, StreamOne

LEMMA ReplyStreams ==
    ASSUME TypeInv, OneSlotPerDevice, StreamInv, NEW s \in Slots, NEW r \in Slot,
           SendConnectedReply(s, r),
           r.address = slot[s].address,
           \A t \in Slots \ {s} : backend'[t] = backend[t] /\ table'[t] = table[t],
           UNCHANGED got,
           r.address # NoOne => /\ TableIsReady(r, backend'[s], table'[s])
                                /\ HoldsWhatWasSent(r, got[r.address])
    PROVE  StreamInv'
<1>1. PICK b \in BOOLEAN : Becomes(s, [r EXCEPT !.owedUp = b])
    BY DEF SendConnectedReply
<1> DEFINE q == [r EXCEPT !.owedUp = b]
<1>2. /\ q \in Slot /\ q.address = r.address /\ q.state = r.state /\ q.cached = r.cached
      /\ q.discovered = r.discovered /\ q.cursor = r.cursor
    BY DEF Slot
<1> HIDE DEF q
<1>3. Becomes(s, q)
    BY <1>1 DEF q
<1>4. q.address # NoOne => /\ TableIsReady(q, backend'[s], table'[s])
                           /\ HoldsWhatWasSent(q, got'[q.address])
    BY <1>2 DEF TableIsReady, HoldsWhatWasSent
<1>5. QED
    BY <1>2, <1>3, <1>4, ListsKept, StreamOne

LEMMA AckStreams ==
    ASSUME TypeInv, OneSlotPerDevice, StreamInv, NEW s \in Slots, NEW r \in Slot,
           Like(r, slot[s]), NEW w, NEW kind \in AckKinds, NEW h \in Handles \cup {NoHandle},
           SendAck(s, r, w, kind, h), r.address \in Addresses,
           UNCHANGED <<backend, table, got>>
    PROVE  StreamInv'
<1> DEFINE a == [kind |-> kind, handle |-> h, to |-> r.address,
                 stale |-> ~Answers(kind, h, w[r.address])]
           q == [r EXCEPT !.ack = a]
<1>1. a \in Acks
    BY DEF Acks
<1>2. q \in Slot /\ Like(q, slot[s])
    BY <1>1 DEF Slot, Like
<1>3. Becomes(s, r) \/ Becomes(s, q)
    BY DEF SendAck
<1> HIDE DEF a, q
<1>4. QED
    BY <1>2, <1>3, LikeStreams

LEMMA BackendStreams ==
    ASSUME TypeInv, OneSlotPerDevice, SlotIsServed, StreamInv, NEW s \in Slots, Backend(s)
    PROVE  StreamInv'
<1>1. /\ slot \in [Slots -> Slot] /\ slot[s] \in Slot /\ slot[s].address \in Addresses
      /\ backend \in [Slots -> BackendStates] /\ table \in [Slots -> Addresses]
    BY DEF TypeInv, TypeOK, ConnectionTypeOK, Slot
<1>2. slot[s].address # NoOne =>
          /\ TableIsReady(slot[s], backend[s], table[s])
          /\ HoldsWhatWasSent(slot[s], got[slot[s].address])
          /\ peer[s] = slot[s].address
    BY DEF StreamInv, SlotStreams, SlotIsServed
<1>3. INIT_SENDING_SERVICES \notin Streaming
    BY CursorsDiffer DEF Streaming
<1>4. INIT_SENDING_SERVICES \notin 0 .. ServiceCount
    BY NamedCursors
<1> DEFINE up == [slot[s] EXCEPT !.state = "ESTABLISHED"]
           on == [slot[s] EXCEPT !.state = "CONNECTED"]
           known == [slot[s] EXCEPT !.state = "ESTABLISHED", !.discovered = TRUE]
<1>5. /\ up \in Slot /\ up.address = slot[s].address /\ up.state = "ESTABLISHED"
      /\ up.cached = slot[s].cached /\ up.cursor = slot[s].cursor
      /\ on \in Slot /\ on.address = slot[s].address /\ on.state = "CONNECTED"
      /\ on.cached = slot[s].cached /\ on.cursor = slot[s].cursor
      /\ known \in Slot /\ known.address = slot[s].address /\ known.state = "ESTABLISHED"
      /\ known.cached = slot[s].cached /\ known.cursor = slot[s].cursor /\ known.discovered = TRUE
    BY <1>1 DEF Slot, States
<1>6. UNCHANGED got
    BY DEF Backend, Connected, Disconnected, Discovered, Undiscovered, Completes, clientVars
<1>7. CASE Connected(s)
  <2>1. backend[s] = "asked"
    BY <1>7 DEF Connected
  <2>2. slot[s].address # NoOne =>
            slot[s].cursor = INIT_SENDING_SERVICES /\ slot[s].state # "ESTABLISHED"
    BY <1>2, <2>1 DEF TableIsReady
  <2>3. \/ /\ backend' = [backend EXCEPT ![s] = "closing"]
           /\ UNCHANGED <<slot, table>> \/ ResetConnection(s)
        \/ /\ slot[s].cached /\ backend' = [backend EXCEPT ![s] = "up"]
           /\ SendConnectedReply(s, up) /\ UNCHANGED table
        \/ /\ backend' = [backend EXCEPT ![s] = "exploring"] /\ Becomes(s, on)
           /\ table' = [table EXCEPT ![s] = NoOne]
        \/ DisconnectFrom(s, on, "up")
    BY <1>7 DEF Connected, Unwanted, Establish, Undiscoverable
  <2> HIDE DEF up, on, known
  <2>4. CASE backend' = [backend EXCEPT ![s] = "closing"] /\ UNCHANGED <<slot, table>>
    <3>1. Becomes(s, slot[s])
      BY <1>1, <2>4 DEF Becomes
    <3>2. slot[s].address # NoOne => TableIsReady(slot[s], "closing", table[s])
      BY <1>2 DEF TableIsReady
    <3>3. slot[s].address # NoOne => slot[s].address \in Peers
      BY <1>1 DEF Addresses
    <3>4. QED
      BY <1>1, <1>2, <1>6, <2>4, <3>1, <3>2, <3>3, ListsKept, StreamOne
  <2>5. CASE backend' = [backend EXCEPT ![s] = "closing"] /\ ResetConnection(s)
    BY <1>1, <1>6, <2>5, ResetStreams
  <2>6. CASE /\ slot[s].cached /\ backend' = [backend EXCEPT ![s] = "up"]
             /\ SendConnectedReply(s, up) /\ UNCHANGED table
    <3>1. up.address # NoOne => /\ TableIsReady(up, "up", table[s])
                                /\ HoldsWhatWasSent(up, got[up.address])
      BY <1>3, <1>5, <2>2, <2>6 DEF TableIsReady, HoldsWhatWasSent
    <3>2. QED
      BY <1>1, <1>5, <1>6, <2>6, <3>1, ReplyStreams
  <2>7. CASE /\ backend' = [backend EXCEPT ![s] = "exploring"] /\ Becomes(s, on)
             /\ table' = [table EXCEPT ![s] = NoOne]
    <3>1. on.address # NoOne => /\ TableIsReady(on, "exploring", NoOne)
                                /\ HoldsWhatWasSent(on, got[on.address])
      BY <1>3, <1>4, <1>5, <2>2 DEF TableIsReady, HoldsWhatWasSent
    <3>2. on.address # NoOne => on.address \in Peers
      BY <1>1, <1>5 DEF Addresses
    <3>3. QED
      BY <1>1, <1>5, <1>6, <2>7, <3>1, <3>2, ListsKept, StreamOne
  <2>8. CASE DisconnectFrom(s, on, "up")
    <3>1. on.address # NoOne => /\ TableIsReady(on, "up", table[s])
                                /\ HoldsWhatWasSent(on, got[on.address])
      BY <1>3, <1>4, <1>5, <2>2 DEF TableIsReady, HoldsWhatWasSent
    <3>2. QED
      BY <1>5, <1>6, <2>8, <3>1, DisconnectStreams
  <2>9. QED
    BY <2>3, <2>4, <2>5, <2>6, <2>7, <2>8
<1>8. CASE Disconnected(s)
  <2>1. /\ backend' = [backend EXCEPT ![s] = "none"]
        /\ (slot[s].address = NoOne /\ UNCHANGED <<slot, table>>) \/ ResetConnection(s)
    BY <1>8 DEF Disconnected
  <2>2. slot[s].address = NoOne /\ UNCHANGED <<slot, table>> => Becomes(s, slot[s])
    BY <1>1 DEF Becomes
  <2>3. QED
    BY <1>1, <1>6, <2>1, <2>2, ResetStreams, FreedStreams
<1>9. CASE Discovered(s)
  <2> DEFINE b == IF backend[s] = "exploring" THEN "settled" ELSE "closing"
  <2>1. /\ backend' = [backend EXCEPT ![s] = b] /\ SendConnectedReply(s, known)
        /\ b \in {"settled", "closing"} /\ table' = [table EXCEPT ![s] = peer[s]]
        /\ backend[s] \in {"exploring", "failed"}
    BY <1>1, <1>9 DEF Discovered
  <2> HIDE DEF up, on, known, b
  <2>2. known.address # NoOne => /\ TableIsReady(known, b, peer[s])
                                 /\ HoldsWhatWasSent(known, got[known.address])
    BY <1>2, <1>3, <1>5, <2>1 DEF TableIsReady, HoldsWhatWasSent
  <2>3. QED
    BY <1>1, <1>5, <1>6, <2>1, <2>2, ReplyStreams
<1>10. CASE Undiscovered(s)
  <2> DEFINE b == IF backend[s] = "exploring" THEN "failed" ELSE "closing"
  <2>1. DisconnectFrom(s, slot[s], b) /\ b \in {"failed", "closing"}
    BY <1>1, <1>10 DEF Undiscovered
  <2>2. slot[s].address # NoOne => TableIsReady(slot[s], b, table[s])
    BY <1>2 DEF TableIsReady
  <2> HIDE DEF b
  <2>3. QED
    BY <1>1, <1>2, <1>6, <2>1, <2>2, DisconnectStreams
<1>11. CASE Completes(s)
  <2>1. /\ UNCHANGED <<backend, table>> /\ op[s].handle \in Handles
        /\ Like(slot[s], slot[s])
    BY <1>11 DEF Completes, Ops, TypeInv, TypeOK, ConnectionTypeOK, Like
  <2>2. UNCHANGED slot => Becomes(s, slot[s])
    BY <1>1 DEF Becomes
  <2>3. \/ UNCHANGED slot
        \/ \E kind \in AckKinds, h \in Handles \cup {NoHandle} :
              SendAck(s, slot[s], wants, kind, h)
    BY <1>11, <2>1 DEF Completes, AckKinds
  <2>4. QED
    BY <1>1, <1>6, <2>1, <2>2, <2>3, LikeStreams, AckStreams
<1>12. QED
    BY <1>7, <1>8, <1>9, <1>10, <1>11 DEF Backend

\* A batch: the client's list grows up to the new cursor.
LEMMA BatchStreams ==
    ASSUME TypeInv, OneSlotPerDevice, StreamInv, NEW s \in Slots, slot[s].address # NoOne,
           slot[s].cursor \in 0 .. ServiceCount, SendBatch(s), UNCHANGED backend
    PROVE  StreamInv'
<1> DEFINE a == slot[s].address
           c == slot[s].cursor
           g == got[a]
<1>1. slot[s] \in Slot /\ table[s] \in Addresses /\ a \in Addresses /\ a \in Peers
    BY DEF TypeInv, TypeOK, ConnectionTypeOK, Slot, Addresses
<1>2. PICK n \in c + 1 .. Entries(s) :
          /\ Becomes(s, [slot[s] EXCEPT !.cursor = n])
          /\ got' = [p \in Peers |->
                       IF p = a /\ got[p] # NoList
                       THEN [got[p] EXCEPT !.list = @ \o [i \in 1 .. n - c |-> <<table[s], c + i>>]]
                       ELSE got[p]]
          /\ UNCHANGED table
    BY DEF SendBatch
<1>3. /\ n \in 1 .. ServiceCount /\ n \in Cursors /\ n \in Nat /\ c \in Nat /\ c < n
      /\ table[s] # NoOne
    BY <1>2, ConnectionAssumption, NamedCursors DEF Entries
<1> DEFINE q == [slot[s] EXCEPT !.cursor = n]
           batch == [i \in 1 .. n - c |-> <<table[s], c + i>>]
           h == [g EXCEPT !.list = @ \o batch]
<1>4. /\ q \in Slot /\ q.address = a /\ q.state = slot[s].state /\ q.cursor = n
      /\ q.cached = slot[s].cached /\ q.discovered = slot[s].discovered
    BY <1>1, <1>3 DEF Slot
<1>5. /\ DOMAIN got' = Peers
      /\ \A p \in Peers \ {a} : got'[p] = got[p]
      /\ got'[a] = IF g # NoList THEN h ELSE g
    BY <1>1, <1>2
<1>6. Becomes(s, q) /\ UNCHANGED table
    BY <1>2
<1>7. /\ TableIsReady(slot[s], backend[s], table[s]) /\ HoldsWhatWasSent(slot[s], g)
      /\ Whole(a, g)
    BY <1>1 DEF StreamInv, SlotStreams
<1>8. batch \in Seq(Addresses \X Nat)
    BY <1>1, <1>3
<1>9. c \in Streaming /\ n \in Streaming /\ Sent(c) = c /\ Sent(n) = n
    BY <1>3 DEF Streaming, Sent, SERVICES_DONE_PENDING
<1>10. Listed(a, c) \o [i \in 1 .. n - c |-> <<a, c + i>>] = Listed(a, n)
    BY <1>3, BatchAppends
<1> HIDE DEF q, batch
<1>11. ASSUME g # NoList
       PROVE  h \in Lists /\ h.list = g.list \o batch /\ h.done = g.done /\ h.known = g.known
  <2>1. g \in Lists /\ g.list \in Seq(Addresses \X Nat)
    BY <1>7, <1>11 DEF Whole, Lists
  <2>2. g.list \o batch \in Seq(Addresses \X Nat)
    BY <1>8, <2>1
  <2>3. QED
    BY <2>1, <2>2 DEF Lists
<1> HIDE DEF h
<1>12. g # NoList /\ ~g.known =>
           ~q.cached /\ ~g.done /\ g.list = Listed(a, c) /\ table[s] = a
    BY <1>4, <1>7, <1>9 DEF HoldsWhatWasSent, TableIsReady
<1>13. table[s] = a => batch = [i \in 1 .. n - c |-> <<a, c + i>>]
    BY DEF batch
<1>14. g # NoList /\ ~g.known => h.list = Listed(a, n)
    BY <1>10, <1>11, <1>12, <1>13
<1>15. Whole(a, got'[a])
    BY <1>5, <1>7, <1>11, <1>12 DEF Whole
<1>16. HoldsWhatWasSent(q, got'[a])
    BY <1>4, <1>5, <1>9, <1>11, <1>12, <1>14 DEF HoldsWhatWasSent
<1>17. TableIsReady(q, backend'[s], table'[s])
    BY <1>3, <1>4, <1>6, <1>7, NamedCursors DEF TableIsReady
<1>18. QED
    BY <1>1, <1>4, <1>5, <1>6, <1>15, <1>16, <1>17, StreamOne

\* The end of the stream: all of the services were sent.
LEMMA EndStreams ==
    ASSUME TypeInv, OneSlotPerDevice, StreamInv, NEW s \in Slots, slot[s].address # NoOne,
           slot[s].cursor \in 0 .. ServiceCount, slot[s].cursor >= Entries(s),
           table' = [table EXCEPT ![s] = NoOne], SendServicesDone(s, slot[s], got),
           UNCHANGED backend
    PROVE  StreamInv'
<1> DEFINE a == slot[s].address
           g == got[a]
           done == [slot[s] EXCEPT !.cursor = DONE_SENDING_SERVICES]
           owed == [slot[s] EXCEPT !.cursor = SERVICES_DONE_PENDING]
<1>1. slot[s] \in Slot /\ a \in Peers /\ table \in [Slots -> Addresses]
    BY DEF TypeInv, TypeOK, ConnectionTypeOK, Slot, Addresses
<1>2. /\ TableIsReady(slot[s], backend[s], table[s]) /\ HoldsWhatWasSent(slot[s], g)
    BY DEF StreamInv, SlotStreams
<1>3. slot[s].cursor \in Streaming /\ Sent(slot[s].cursor) = slot[s].cursor
    BY DEF Streaming, Sent, SERVICES_DONE_PENDING
<1>4. ~slot[s].cached => slot[s].cursor = ServiceCount
    BY <1>2, ConnectionAssumption DEF TableIsReady, Entries
<1>5. g # NoList /\ ~g.known => ~slot[s].cached /\ ~g.done /\ g.list = ListOf(a)
    BY <1>2, <1>3, <1>4 DEF HoldsWhatWasSent, Listed, ListOf
<1>6. \A r \in {done, owed} :
          /\ r \in Slot /\ r.address = a /\ r.state = slot[s].state
          /\ r.cached = slot[s].cached /\ r.discovered = slot[s].discovered
    BY <1>1, NamedCursors DEF Slot
<1>7. /\ done.cursor = DONE_SENDING_SERVICES /\ owed.cursor = SERVICES_DONE_PENDING
      /\ slot[s].cursor # SERVICES_DONE_PENDING /\ slot[s].cursor # INIT_SENDING_SERVICES
    BY <1>1, NamedCursors DEF Slot, SERVICES_DONE_PENDING
<1>8. \/ Becomes(s, done) /\ got' = Finished(got, a)
      \/ Becomes(s, owed) /\ UNCHANGED got
    BY <1>7 DEF SendServicesDone
<1>9. \A t \in Slots \ {s} : table'[t] = table[t]
    BY <1>1
<1> HIDE DEF done, owed
<1>10. CASE Becomes(s, done) /\ got' = Finished(got, a)
    BY <1>1, <1>5, <1>6, <1>7, <1>9, <1>10, DoneStreams
<1>11. CASE Becomes(s, owed) /\ UNCHANGED got
  <2>1. SERVICES_DONE_PENDING \notin {INIT_SENDING_SERVICES} \cup 0 .. ServiceCount
    BY CursorsDiffer
  <2>2. TableIsReady(owed, backend'[s], table'[s])
    BY <1>2, <1>6, <1>7, <2>1 DEF TableIsReady
  <2>3. HoldsWhatWasSent(owed, g)
    BY <1>5, <1>6, <1>7 DEF HoldsWhatWasSent, Sent, Listed, ListOf
  <2>4. QED
    BY <1>1, <1>6, <1>9, <1>11, <2>2, <2>3, ListsKept, StreamOne
<1>12. QED
    BY <1>8, <1>10, <1>11

LEMMA FlushStreams ==
    ASSUME TypeInv, OneSlotPerDevice, StreamInv, NEW s \in Slots, FlushOwedReplies(s)
    PROVE  StreamInv'
<1>1. /\ slot[s] \in Slot /\ slot[s].address \in Addresses /\ UNCHANGED <<backend, table>>
      /\ slot[s].address = NoOne => slot[s].cursor = INIT_SENDING_SERVICES
    BY DEF TypeInv, TypeOK, ConnectionTypeOK, Slot, FlushOwedReplies, backendVars,
           FreedIsQuiet, Quiet
<1>2. ASSUME NEW r \in Slot
      PROVE  /\ [r EXCEPT !.ack = NoAck] \in Slot
             /\ Like([r EXCEPT !.ack = NoAck], r)
    BY DEF Slot, Like
<1>3. ASSUME NEW r \in Slot, NEW q \in DoneRefused(r)
      PROVE  q \in Slot /\ Like(q, r)
    BY <1>3, NamedCursors DEF DoneRefused, Like, Slot
<1>4. \A q, r, t : q.cursor = r.cursor /\ Like(q, r) /\ Like(r, t) => Like(q, t)
    BY DEF Like
<1> DEFINE up == [slot[s] EXCEPT !.owedUp = FALSE]
           sent == [up EXCEPT !.cursor = DONE_SENDING_SERVICES]
           noAck == [sent EXCEPT !.ack = NoAck]
<1>5. /\ up \in Slot /\ up.cursor = slot[s].cursor /\ up.address = slot[s].address
      /\ up.state = slot[s].state /\ up.cached = slot[s].cached
      /\ up.discovered = slot[s].discovered
    BY <1>1 DEF Slot
<1>6. ASSUME NEW r \in Slot, Like(r, slot[s]), UNCHANGED got,
             Becomes(s, r) \/ Becomes(s, [r EXCEPT !.ack = NoAck])
      PROVE  StreamInv'
  <2> DEFINE q == [r EXCEPT !.ack = NoAck]
  <2>1. q \in Slot /\ Like(q, slot[s])
    BY <1>6 DEF Slot, Like
  <2>2. Becomes(s, r) \/ Becomes(s, q)
    BY <1>6
  <2> HIDE DEF q
  <2>3. QED
    BY <1>1, <1>6, <2>1, <2>2, LikeStreams
<1>7. CASE FlushDeferred(s)
  <2>1. PICK r \in DoneRefused(slot[s]) :
            Becomes(s, r) \/ Becomes(s, [r EXCEPT !.ack = NoAck])
    BY <1>7 DEF FlushDeferred
  <2>2. UNCHANGED got
    BY <1>7 DEF FlushDeferred, clientVars
  <2>3. QED
    BY <1>1, <1>3, <1>6, <2>1, <2>2
<1>8. CASE FlushAll(s)
  <2>1. \/ up.cursor = SERVICES_DONE_PENDING /\ got' = Finished(got, up.address) /\ FlushAck(s, sent)
        \/ (\E r \in DoneRefused(up) : FlushAck(s, r)) /\ UNCHANGED got
    BY <1>8 DEF FlushAll
  <2> HIDE DEF up
  <2>2. /\ sent \in Slot /\ sent.address = up.address /\ sent.state = up.state
        /\ sent.cached = up.cached /\ sent.discovered = up.discovered
        /\ sent.cursor = DONE_SENDING_SERVICES
    BY <1>5, NamedCursors DEF Slot
  <2> HIDE DEF sent
  <2>3. /\ noAck \in Slot /\ noAck.address = sent.address /\ noAck.state = sent.state
        /\ noAck.cached = sent.cached /\ noAck.discovered = sent.discovered
        /\ noAck.cursor = sent.cursor
    BY <2>2 DEF Slot
  <2> HIDE DEF noAck
  <2>4. CASE up.cursor = SERVICES_DONE_PENDING /\ got' = Finished(got, up.address) /\ FlushAck(s, sent)
    <3>1. Becomes(s, sent) \/ Becomes(s, noAck)
      BY <2>4 DEF FlushAck, noAck
    <3>2. slot[s].cursor # INIT_SENDING_SERVICES /\ slot[s].address # NoOne
      BY <1>1, <1>5, <2>4, NamedCursors
    <3>3. HoldsWhatWasSent(slot[s], got[slot[s].address])
      BY <3>2 DEF StreamInv, SlotStreams
    <3>4. LET g == got[slot[s].address]
          IN  g # NoList /\ ~g.known => g.list = ListOf(slot[s].address)
      BY <1>5, <2>4, <3>3 DEF HoldsWhatWasSent, Streaming, Sent, Listed, ListOf
    <3>5. slot[s].address \in Peers
      BY <1>1, <3>2 DEF Addresses
    <3>6. QED
      BY <1>1, <1>5, <2>2, <2>3, <2>4, <3>1, <3>2, <3>4, <3>5, DoneStreams
  <2>5. CASE (\E r \in DoneRefused(up) : FlushAck(s, r)) /\ UNCHANGED got
    <3>1. PICK r \in DoneRefused(up) : FlushAck(s, r)
      BY <2>5
    <3>2. r \in Slot /\ Like(r, up)
      BY <1>3, <1>5, <3>1
    <3>3. Like(r, slot[s])
      BY <1>5, <3>2 DEF Like
    <3>4. Becomes(s, r) \/ Becomes(s, [r EXCEPT !.ack = NoAck])
      BY <3>1 DEF FlushAck
    <3>5. QED
      BY <1>6, <2>5, <3>2, <3>3, <3>4
  <2>6. QED
    BY <2>1, <2>4, <2>5
<1>9. QED
    BY <1>7, <1>8 DEF FlushOwedReplies

LEMMA LoopStreams ==
    ASSUME TypeInv, OneSlotPerDevice, StreamInv, NEW s \in Slots, Loop(s)
    PROVE  StreamInv'
<1>1. /\ slot[s] \in Slot /\ Quiet(slot[s], backend[s])
      /\ slot[s].address # NoOne =>
            /\ TableIsReady(slot[s], backend[s], table[s])
            /\ HoldsWhatWasSent(slot[s], got[slot[s].address])
    BY DEF TypeInv, TypeOK, ConnectionTypeOK, FreedIsQuiet, StreamInv, SlotStreams
<1>2. CASE StreamServices(s)
  <2>1. slot[s].cursor \in 0 .. ServiceCount
    BY <1>2 DEF StreamServices
  <2>2. slot[s].address # NoOne
    BY <1>1, <2>1, NamedCursors DEF Quiet
  <2>3. CASE /\ slot[s].cursor >= Entries(s)
             /\ table' = [table EXCEPT ![s] = NoOne]
             /\ SendServicesDone(s, slot[s], got) /\ UNCHANGED backend
    BY <2>1, <2>2, <2>3, EndStreams
  <2>4. CASE SendBatch(s) /\ UNCHANGED backend
    BY <2>1, <2>2, <2>4, BatchStreams
  <2>5. CASE AbortServiceStream(s)
    <3> DEFINE r == [slot[s] EXCEPT !.cursor = DONE_SENDING_SERVICES]
    <3>1. DisconnectFrom(s, r, backend[s]) /\ UNCHANGED got
      BY <2>5 DEF AbortServiceStream
    <3>2. /\ r \in Slot /\ r.address = slot[s].address /\ r.state = slot[s].state
          /\ r.cached = slot[s].cached /\ r.discovered = slot[s].discovered
          /\ r.cursor = DONE_SENDING_SERVICES
      BY <1>1, NamedCursors DEF Slot
    <3> HIDE DEF r
    <3>3. DONE_SENDING_SERVICES \notin {INIT_SENDING_SERVICES} \cup Streaming
      BY CursorsDiffer DEF Streaming
    <3>4. TableIsReady(r, backend[s], table[s])
      BY <1>1, <2>1, <2>2, <3>2, <3>3, NamedCursors DEF TableIsReady, Streaming
    <3>5. HoldsWhatWasSent(r, got[r.address])
      BY <3>2, <3>3 DEF HoldsWhatWasSent
    <3>6. QED
      BY <3>1, <3>2, <3>4, <3>5, DisconnectStreams
  <2>6. QED
    BY <1>2, <2>3, <2>4, <2>5 DEF StreamServices
<1>3. CASE Sweep(s)
  <2>1. DisconnectFrom(s, slot[s], backend[s]) /\ UNCHANGED got
    BY <1>3 DEF Sweep, clientVars
  <2>2. QED
    BY <1>1, <2>1, DisconnectStreams
<1>4. CASE FlushOwedReplies(s)
    BY <1>4, FlushStreams
<1>5. QED
    BY <1>2, <1>3, <1>4 DEF Loop

LEMMA ConnectStreams ==
    ASSUME TypeInv, OneSlotPerDevice, SlotIsServed, StreamInv, NEW p \in Peers, Connect(p)
    PROVE  StreamInv'
<1>1. /\ slot \in [Slots -> Slot] /\ backend \in [Slots -> BackendStates]
      /\ table \in [Slots -> Addresses] /\ p # NoOne
    BY ProxyAssumption DEF TypeInv, TypeOK, ConnectionTypeOK
<1>2. UNCHANGED got
    BY DEF Connect, clientVars
<1>3. UNCHANGED <<slot, backend, table>> => StreamInv'
    BY <1>2 DEF StreamInv, SlotStreams
<1>4. ASSUME NEW s \in Reservable(p)
      PROVE  /\ s \in Slots /\ slot[s] \in Slot
             /\ Reserved(slot[s], p) \in Slot /\ Reserved(slot[s], p).address = p
    BY <1>1, <1>4, ReservableSlot, ReservedSlot
<1>5. ASSUME NEW s \in Reservable(p), AlreadyConnected(s, p)
      PROVE  StreamInv'
  <2>1. SendConnectedReply(s, slot[s]) /\ UNCHANGED <<backend, table>>
    BY <1>5 DEF AlreadyConnected
  <2>2. slot[s].address # NoOne => /\ TableIsReady(slot[s], backend[s], table[s])
                                   /\ HoldsWhatWasSent(slot[s], got[slot[s].address])
    BY <1>4 DEF StreamInv, SlotStreams
  <2>3. QED
    BY <1>2, <1>4, <2>1, <2>2, ReplyStreams
<1>6. ASSUME NEW s \in Reservable(p), NEW cached \in BOOLEAN, Initiate(s, p, cached)
      PROVE  StreamInv'
  <2> DEFINE r == Reserved(slot[s], p)
             q == [r EXCEPT !.cached = cached, !.state = "CONNECTING"]
  <2>1. /\ Becomes(s, q) /\ backend' = [backend EXCEPT ![s] = "asked"]
        /\ UNCHANGED table /\ r.state = "INIT"
    BY <1>6 DEF Initiate
  <2>2. slot[s].address # p
    BY <1>1, <1>4, <2>1, ReservedSlot DEF SlotIsServed
  <2>3. r \in Slot /\ r.address = p /\ r.cursor = INIT_SENDING_SERVICES
    BY <1>4, <2>2 DEF Reserved, WithAddress, ClearOwed, Slot
  <2> HIDE DEF r
  <2>4. /\ q \in Slot /\ q.address = p /\ q.state = "CONNECTING"
        /\ q.cursor = INIT_SENDING_SERVICES
    BY <2>3 DEF Slot, States
  <2> HIDE DEF q
  <2>5. INIT_SENDING_SERVICES \notin Streaming \cup 0 .. ServiceCount
    BY NamedCursors DEF Streaming
  <2>6. TableIsReady(q, "asked", table[s]) /\ HoldsWhatWasSent(q, got[p])
    BY <2>4, <2>5 DEF TableIsReady, HoldsWhatWasSent
  <2>7. QED
    BY <1>1, <1>2, <1>4, <2>1, <2>4, <2>6, ListsKept, StreamOne
<1>7. ASSUME NEW s \in Reservable(p), NEW cached \in BOOLEAN, FailToInitiate(s, p, cached)
      PROVE  StreamInv'
  <2> DEFINE r == Reserved(slot[s], p)
             q == [Freed(r) EXCEPT !.cached = cached]
  <2>1. /\ Becomes(s, q) /\ UNCHANGED backend
        /\ table' = [table EXCEPT ![s] = NoOne]
    BY <1>7 DEF FailToInitiate
  <2>2. Freed(r) \in Slot /\ Freed(r).address = NoOne
    BY <1>4, FreedSlot
  <2> HIDE DEF r
  <2>3. q \in Slot /\ q.address = NoOne
    BY <2>2 DEF Slot
  <2> HIDE DEF q
  <2>4. QED
    BY <1>1, <1>2, <1>4, <2>1, <2>3, FreedStreams
<1>8. NoSlotLeft(p) \/ (\E s : IgnoreRequest(s, p)) => UNCHANGED <<slot, backend, table>>
    BY DEF NoSlotLeft, IgnoreRequest
<1>9. QED
    BY <1>3, <1>5, <1>6, <1>7, <1>8 DEF Connect, ConnectionTypes

\* GetServices: from here on the client collects, and the stream starts from the top.
LEMMA ServicesStream ==
    ASSUME "services while ending" \notin Requests,
           TypeInv, OneSlotPerDevice, SlotIsServed, StreamInv, NEW p \in Peers, GetServices(p)
    PROVE  StreamInv'
<1> DEFINE known == \E s \in SlotsOf(p) : slot[s].cached
           new == [list |-> <<>>, done |-> FALSE, known |-> known]
           g == [got EXCEPT ![p] = new]
<1>1. /\ slot \in [Slots -> Slot] /\ p # NoOne
      /\ \A s \in SlotsOf(p) : s \in Slots /\ slot[s] \in Slot /\ slot[s].address = p
    BY ProxyAssumption DEF TypeInv, TypeOK, ConnectionTypeOK, SlotsOf
<1>2. /\ UNCHANGED <<backend, table>>
      /\ ~Ending(p)
      /\ \/ ServicesRefused(p, g)
         \/ \E s \in SlotsOf(p) :
               /\ slot[s].state = "ESTABLISHED"
               /\ \/ ~slot[s].discovered /\ SendServicesDone(s, slot[s], g)
                  \/ RestartStream(s, g)
    BY DEF GetServices, backendVars
<1>3. known \in BOOLEAN /\ \A s \in SlotsOf(p) : slot[s].cached => known
    OBVIOUS
<1>4. /\ new \in Lists /\ new.list = <<>> /\ new.known = known /\ Whole(p, new)
      /\ ~new.done
  <2> HIDE DEF known
  <2>1. <<>> \in Seq(Addresses \X Nat)
    BY EmptySeq
  <2>2. new \in Lists /\ new.list = <<>> /\ new.known = known /\ new.done = FALSE
    BY <1>3, <2>1 DEF Lists
  <2>3. QED
    BY <2>2 DEF Whole
<1> HIDE DEF known, new
<1>5. /\ DOMAIN g = Peers /\ g[p] = new
      /\ \A d \in Peers \ {p} : g[d] = got[d]
    BY DEF StreamInv
<1> HIDE DEF g
<1>6. ASSUME NEW s \in SlotsOf(p)
      PROVE  TableIsReady(slot[s], backend[s], table[s]) /\ HoldsWhatWasSent(slot[s], got[p])
    BY <1>1, <1>6 DEF StreamInv, SlotStreams
<1>7. CASE ServicesRefused(p, g)
  <2>1. UNCHANGED slot /\ got' \in {got, g}
    BY <1>7 DEF ServicesRefused
  <2>2. ASSUME NEW s \in SlotsOf(p)
        PROVE  slot[s].cursor = INIT_SENDING_SERVICES
    <3>1. slot[s].state \notin {"IDLE", "INIT", "ESTABLISHED", "DISCONNECTING"}
      BY <1>1, <1>2, <1>7 DEF ServicesRefused, SlotIsServed, Ending
    <3>2. slot[s].state \in {"CONNECTING", "CONNECTED"}
      BY <1>1, <3>1 DEF Slot, States
    <3>3. QED
      BY <1>6, <3>2 DEF TableIsReady
  <2>3. INIT_SENDING_SERVICES \notin Streaming
    BY NamedCursors DEF Streaming
  <2>4. ASSUME NEW s \in Slots
        PROVE  SlotStreams(s)'
    <3>1. SlotStreams(s) /\ slot[s] \in Slot
      BY <1>1 DEF StreamInv
    <3>2. slot[s].address = p => HoldsWhatWasSent(slot[s], got'[p])
      BY <2>2, <2>3 DEF SlotsOf, HoldsWhatWasSent
    <3>3. slot[s].address \in Peers \ {p} => got'[slot[s].address] = got[slot[s].address]
      BY <1>5, <2>1
    <3>4. slot[s].address # NoOne => slot[s].address \in Peers
      BY <3>1 DEF Slot, Addresses
    <3>5. QED
      BY <1>2, <2>1, <3>1, <3>2, <3>3, <3>4 DEF SlotStreams
  <2>5. DOMAIN got' = Peers /\ \A d \in Peers : Whole(d, got'[d])
    BY <1>4, <1>5, <2>1 DEF StreamInv
  <2>6. QED
    BY <2>4, <2>5 DEF StreamInv
<1>8. ASSUME NEW s \in SlotsOf(p), slot[s].state = "ESTABLISHED",
             NEW c \in {DONE_SENDING_SERVICES, SERVICES_DONE_PENDING, 0},
             Becomes(s, [slot[s] EXCEPT !.cursor = c]),
             c = 0 => slot[s].cursor \notin Spent,
             DOMAIN got' = Peers, \A d \in Peers \ {p} : got'[d] = got[d],
             Whole(p, got'[p]),
             c = 0 => got'[p] = new,
             c = SERVICES_DONE_PENDING /\ got'[p] # NoList => got'[p].known
      PROVE  StreamInv'
  <2> DEFINE q == [slot[s] EXCEPT !.cursor = c]
  <2>1. /\ q \in Slot /\ q.address = p /\ q.state = "ESTABLISHED" /\ q.cursor = c
        /\ q.cached = slot[s].cached /\ q.discovered = slot[s].discovered
    BY <1>1, <1>8, NamedCursors DEF Slot
  <2>2. Becomes(s, q)
    BY <1>8
  <2> HIDE DEF q
  <2>3. c \in Streaming => c \in {SERVICES_DONE_PENDING, 0}
    BY <1>8, CursorsDiffer DEF Streaming
  <2>4. c # INIT_SENDING_SERVICES /\ (c \in 0 .. ServiceCount => c = 0)
    BY <1>8, CursorsDiffer
  <2>5. ~slot[s].cached /\ slot[s].cursor \notin Spent => table[s] = p
    <3>1. slot[s].cursor \in Cursors
      BY <1>1 DEF Slot
    <3>2. QED
      BY <1>1, <1>6, <1>8, <3>1 DEF TableIsReady, Cursors, Spent
  <2>6. TableIsReady(q, backend'[s], table'[s])
    BY <1>2, <1>6, <1>8, <2>1, <2>4, <2>5 DEF TableIsReady
  <2>7. HoldsWhatWasSent(q, got'[p])
    <3>1. CASE c = 0
      <4>1. Sent(0) = 0 /\ Listed(p, 0) = <<>>
        BY CursorsDiffer, NothingListed DEF Sent
      <4>2. ~new.known => ~q.cached
        BY <1>3, <1>4, <2>1
      <4>3. QED
        BY <1>4, <1>8, <2>1, <3>1, <4>1, <4>2 DEF HoldsWhatWasSent
    <3>2. CASE c # 0
      BY <1>8, <2>1, <2>3, <3>2 DEF HoldsWhatWasSent
    <3>3. QED
      BY <3>1, <3>2
  <2>8. QED
    BY <1>1, <1>2, <1>8, <2>1, <2>2, <2>6, <2>7, StreamOne
<1>9. ASSUME NEW s \in SlotsOf(p), slot[s].state = "ESTABLISHED", RestartStream(s, g)
      PROVE  StreamInv'
  <2>1. PICK c \in {DONE_SENDING_SERVICES, 0} :
            /\ Becomes(s, [slot[s] EXCEPT !.cursor = c])
            /\ c = 0 => slot[s].cursor \notin Spent
    BY <1>9, CursorsDiffer DEF RestartStream
  <2>2. got' = g
    BY <1>9 DEF RestartStream
  <2>3. c # SERVICES_DONE_PENDING
    BY <2>1, CursorsDiffer
  <2>4. QED
    BY <1>4, <1>5, <1>8, <1>9, <2>1, <2>2, <2>3
<1>10. ASSUME NEW s \in SlotsOf(p), slot[s].state = "ESTABLISHED",
              ~slot[s].discovered, SendServicesDone(s, slot[s], g)
       PROVE  StreamInv'
  <2>1. known
    BY <1>3, <1>6, <1>10 DEF TableIsReady
  <2> DEFINE h == [new EXCEPT !.done = TRUE]
  <2>2. Whole(p, h) /\ h.known
    <3>1. h.known
      BY <1>4, <2>1 DEF Lists
    <3> HIDE DEF h
    <3>2. h \in Lists
      BY <1>4 DEF Lists, h
    <3>3. QED
      BY <3>1, <3>2 DEF Whole
  <2>3. PICK c \in {DONE_SENDING_SERVICES, SERVICES_DONE_PENDING} :
            Becomes(s, [slot[s] EXCEPT !.cursor = c])
    BY <1>10 DEF SendServicesDone
  <2>4. got' = g \/ got' = Finished(g, p)
    BY <1>1, <1>10 DEF SendServicesDone
  <2>5. got'[p] \in {new, h} /\ DOMAIN got' = Peers /\ \A d \in Peers \ {p} : got'[d] = got[d]
    BY <1>5, <2>4 DEF Finished
  <2> HIDE DEF h
  <2>6. Whole(p, got'[p]) /\ (got'[p] # NoList => got'[p].known)
    BY <1>4, <2>1, <2>2, <2>5
  <2>7. c # 0
    BY <2>3, CursorsDiffer
  <2>8. c \in {DONE_SENDING_SERVICES, SERVICES_DONE_PENDING, 0}
    BY <2>3
  <2>9. DOMAIN got' = Peers /\ \A d \in Peers \ {p} : got'[d] = got[d]
    BY <2>5
  <2>10. QED
    BY <1>8, <1>10, <2>3, <2>6, <2>7, <2>8, <2>9, Zenon
<1>11. QED
    BY <1>2, <1>7, <1>9, <1>10

\* Attribute operations touch only what is owed for them.
LEMMA OperationStreams ==
    ASSUME TypeInv, OneSlotPerDevice, StreamInv, NEW p \in Peers, NEW request \in Ops,
           Operation(p, request)
    PROVE  StreamInv'
<1> DEFINE w == [wants EXCEPT ![p] = request]
<1>1. /\ UNCHANGED <<backend, table, got>>
      /\ request.kind \in AckKinds \cup {"read"} /\ request.handle \in Handles
    BY DEF Operation, Ops, AckKinds
<1>2. \/ NotConnected(p, w)
      \/ \E s \in SlotsOf(p) :
            LET r == Superseded(slot[s], request.handle, request.kind)
            IN  \/ OperationRefused(s, r, w, request.handle)
                \/ OperationStarted(s, r, w, request)
                \/ OperationDone(s, r, w, request)
    BY DEF Operation
<1> HIDE DEF w
<1>3. CASE NotConnected(p, w)
    BY <1>1, <1>3 DEF NotConnected, StreamInv, SlotStreams
<1>4. ASSUME NEW s \in SlotsOf(p), NEW r \in Slot, Like(r, slot[s]), r.address \in Addresses,
             \/ OperationRefused(s, r, w, request.handle)
             \/ OperationStarted(s, r, w, request)
             \/ OperationDone(s, r, w, request)
      PROVE  StreamInv'
  <2>1. s \in Slots
    BY DEF SlotsOf
  <2>2. Becomes(s, r) \/ \E kind \in AckKinds : SendAck(s, r, w, kind, request.handle)
    BY <1>1, <1>4 DEF OperationRefused, OperationStarted, OperationDone, AckKinds
  <2>3. QED
    BY <1>1, <1>4, <2>1, <2>2, LikeStreams, AckStreams
<1>5. ASSUME NEW s \in SlotsOf(p)
      PROVE  LET r == Superseded(slot[s], request.handle, request.kind)
             IN  r \in Slot /\ Like(r, slot[s]) /\ r.address \in Addresses
  <2>1. slot[s] \in Slot
    BY DEF SlotsOf, TypeInv, TypeOK, ConnectionTypeOK
  <2>2. QED
    BY <2>1 DEF Superseded, Like, Slot
<1>6. QED
    BY <1>2, <1>3, <1>4, <1>5

LEMMA GivenUpStreams ==
    ASSUME TypeInv, StreamInv, NEW p \in Peers, ClientGivesUp(p)
    PROVE  StreamInv'
<1>1. UNCHANGED <<backend, table, got>>
    BY DEF ClientGivesUp, backendVars
<1>2. ASSUME NEW s \in Slots
      PROVE  /\ slot'[s].address = slot[s].address /\ slot'[s].state = slot[s].state
             /\ slot'[s].cached = slot[s].cached /\ slot'[s].discovered = slot[s].discovered
             /\ slot'[s].cursor = slot[s].cursor
  <2>1. slot'[s] = IF slot[s].address = p /\ slot[s].ack # NoAck
                   THEN [slot[s] EXCEPT !.ack.stale = TRUE] ELSE slot[s]
    BY DEF ClientGivesUp
  <2>2. slot[s] \in Slot
    BY DEF TypeInv, TypeOK, ConnectionTypeOK
  <2> DEFINE a == [slot[s].ack EXCEPT !.stale = TRUE]
  <2>3. slot'[s] \in {slot[s], [slot[s] EXCEPT !.ack = a]}
    BY <2>1, <2>2 DEF Slot
  <2> HIDE DEF a
  <2>4. QED
    BY <2>2, <2>3 DEF Slot
<1>3. ASSUME NEW s \in Slots
      PROVE  SlotStreams(s)'
  <2>1. SlotStreams(s)
    BY DEF StreamInv
  <2>2. QED
    BY <1>1, <1>2, <2>1 DEF SlotStreams, TableIsReady, HoldsWhatWasSent
<1>4. QED
    BY <1>1, <1>3 DEF StreamInv

\* A new subscriber collects nothing, and no stream goes on for it.
LEMMA SubscriptionStreams ==
    ASSUME TypeInv, StreamInv, Subscribe \/ Unsubscribe
    PROVE  StreamInv'
<1>1. /\ slot' = [s \in Slots |-> ClearOwed(Parked(slot[s]))]
      /\ table' = [s \in Slots |-> IF slot[s].cursor \in 0 .. ServiceCount THEN NoOne ELSE table[s]]
      /\ got' = [p \in Peers |-> NoList]
      /\ UNCHANGED backend
    BY DEF Subscribe, Unsubscribe, ResetOwedReplies, KnowsNothing
<1>2. ASSUME NEW s \in Slots, slot[s].address # NoOne
      PROVE  TableIsReady(slot'[s], backend'[s], table'[s])
  <2>1. slot[s] \in Slot /\ TableIsReady(slot[s], backend[s], table[s])
    BY <1>2 DEF TypeInv, TypeOK, ConnectionTypeOK, StreamInv, SlotStreams
  <2> DEFINE q == ClearOwed(Parked(slot[s]))
  <2>2. /\ q.address = slot[s].address /\ q.state = slot[s].state
        /\ q.cached = slot[s].cached /\ q.discovered = slot[s].discovered
        /\ IF slot[s].cursor = INIT_SENDING_SERVICES
           THEN q.cursor = INIT_SENDING_SERVICES ELSE q.cursor = DONE_SENDING_SERVICES
    BY <2>1 DEF ClearOwed, Parked, Slot
  <2>3. slot'[s] = q /\ backend'[s] = backend[s]
        /\ (slot[s].cursor = INIT_SENDING_SERVICES => table'[s] = table[s])
    BY <1>1, CursorsDiffer
  <2> HIDE DEF q
  <2>4. QED
    BY <2>1, <2>2, <2>3, CursorsDiffer DEF TableIsReady
<1>3. \A s \in Slots : slot'[s].address = slot[s].address
    BY <1>1, ParkedSlot DEF TypeInv, TypeOK, ConnectionTypeOK
<1>4. \A s \in Slots : slot[s].address # NoOne => slot[s].address \in Peers
    BY DEF TypeInv, TypeOK, ConnectionTypeOK, Slot, Addresses
<1>5. \A s \in Slots : SlotStreams(s)'
    BY <1>1, <1>2, <1>3, <1>4 DEF SlotStreams, HoldsWhatWasSent
<1>6. DOMAIN got' = Peers /\ \A p \in Peers : Whole(p, got'[p])
    BY <1>1 DEF Whole
<1>7. QED
    BY <1>5, <1>6 DEF StreamInv

LEMMA OtherStreams ==
    ASSUME TypeInv, OneSlotPerDevice, StreamInv,
           \/ \E p \in Peers : ConnectV1(p) \/ Disconnect(p) \/ ClientEndsList(p) \/ DrainPool(p)
           \/ AskForSlots \/ ResendConnectionsFree
    PROVE  StreamInv'
<1>1. UNCHANGED <<slot, backend, table, got>> => StreamInv'
    BY DEF StreamInv, SlotStreams
<1>2. CASE \E p \in Peers : ConnectV1(p) \/ DrainPool(p)
    BY <1>1, <1>2 DEF ConnectV1, DrainPool, backendVars, clientVars
<1>3. CASE AskForSlots \/ ResendConnectionsFree
    BY <1>1, <1>3 DEF AskForSlots, ResendConnectionsFree, backendVars, clientVars
<1>4. ASSUME NEW p \in Peers, Disconnect(p) PROVE StreamInv'
  <2>1. UNCHANGED got
    BY <1>4 DEF Disconnect, clientVars
  <2>2. ASSUME NEW s \in SlotsOf(p), DisconnectFrom(s, slot[s], backend[s])
        PROVE  StreamInv'
    <3>1. s \in Slots /\ slot[s] \in Slot
      BY DEF SlotsOf, TypeInv, TypeOK, ConnectionTypeOK
    <3>2. slot[s].address # NoOne => /\ TableIsReady(slot[s], backend[s], table[s])
                                     /\ HoldsWhatWasSent(slot[s], got[slot[s].address])
      BY <3>1 DEF StreamInv, SlotStreams
    <3>3. QED
      BY <2>1, <2>2, <3>1, <3>2, DisconnectStreams
  <2>3. QED
    BY <1>1, <1>4, <2>1, <2>2 DEF Disconnect
<1>5. ASSUME NEW p \in Peers, ClientEndsList(p) PROVE StreamInv'
  <2>1. got' = [got EXCEPT ![p] = NoList] /\ UNCHANGED <<slot, backend, table>>
    BY <1>5 DEF ClientEndsList, backendVars
  <2>2. DOMAIN got' = Peers /\ \A d \in Peers : got'[d] \in {got[d], NoList}
    BY <2>1 DEF StreamInv
  <2>3. \A d \in Peers : Whole(d, got'[d])
    BY <2>2 DEF StreamInv, Whole
  <2>4. ASSUME NEW s \in Slots
        PROVE  SlotStreams(s)'
    <3>1. SlotStreams(s)
      BY DEF StreamInv
    <3>2. slot[s].address # NoOne => slot[s].address \in Peers
      BY DEF TypeInv, TypeOK, ConnectionTypeOK, Slot, Addresses
    <3>3. QED
      BY <2>1, <2>2, <3>1, <3>2 DEF SlotStreams, HoldsWhatWasSent
  <2>5. QED
    BY <2>2, <2>3, <2>4 DEF StreamInv
<1>6. QED
    BY <1>2, <1>3, <1>4, <1>5

LEMMA StreamStep ==
    ASSUME "untyped" \notin Requests, "services while ending" \notin Requests,
           TypeInv, OneSlotPerDevice, SlotIsServed, StreamInv, [Next]_vars
    PROVE  StreamInv'
<1>1. \A p \in Peers : ~ConnectUntyped(p)
    BY DEF ConnectUntyped
<1>2. CASE Next
    BY <1>1, <1>2, BackendStreams, LoopStreams, ConnectStreams, ServicesStream,
       OperationStreams, GivenUpStreams, SubscriptionStreams, OtherStreams DEF Next, Client
<1>3. CASE UNCHANGED vars
    BY <1>3 DEF vars, slotVars, backendVars, clientVars, StreamInv, SlotStreams
<1>4. QED
    BY <1>2, <1>3

(* A list that ended with services-done is the device's whole list, in order and    *)
(* once (process_pending_services, send_services_done_), for any number of slots and *)
(* devices and every length of the list: no order of batches, refusals, teardowns,  *)
(* restarts and late discoveries ends a partial list or another device's.  It needs *)
(* the slots to be served, and clients that ask for no services of an ending link.  *)
THEOREM ProxyStreamsWhole ==
    ASSUME "untyped" \notin Requests, "services while ending" \notin Requests
    PROVE  Spec => []StreamIsWhole
<1>1. Init => StreamInv
  <2>1. SUFFICES ASSUME Init PROVE StreamInv
    OBVIOUS
  <2>2. \A s \in Slots : slot[s].address = NoOne
    BY <2>1 DEF Init, ConnectionInit, NewSlot
  <2>3. got = [p \in Peers |-> NoList]
    BY <2>1 DEF Init, ConnectionInit
  <2>4. QED
    BY <2>2, <2>3 DEF StreamInv, SlotStreams, Whole
<1>2. TypeInv /\ OneSlotPerDevice /\ SlotIsServed /\ StreamInv /\ [Next]_vars => StreamInv'
    BY StreamStep
<1>3. StreamInv => StreamIsWhole
    BY DEF StreamInv, Whole, StreamIsWhole
<1>4. QED
    BY <1>1, <1>2, <1>3, ProxyTypes, ProxySlots, ProxySlotIsServed, PTL DEF Spec, TypeInv
=============================================================================
