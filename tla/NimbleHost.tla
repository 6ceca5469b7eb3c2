----------------------------- MODULE NimbleHost -----------------------------
(***************************************************************************)
(* The NimBLE host task as the GATT client engines see it, and the queue   *)
(* between the two.  The host is a library outside the repository: its     *)
(* actions are what the engines' calls and callbacks in nimble_gattc.cpp   *)
(* rely on.  It holds at most one connection procedure, any number of      *)
(* links, and the GATT procedures running on each link.  Its callbacks     *)
(* only copy an event into the queue, which drops it when it is full.      *)
(***************************************************************************)
EXTENDS Integers, Sequences, FiniteSets

CONSTANTS
    Engines,        \* the NimbleGattEngine instances
    Peers,          \* the addresses they connect to
    Handles,        \* connection handles; the controller reuses them
    NoOne, NoHandle, NoLink, NoDial,
    QueueCapacity,  \* ESPHOME_BLE_GATT_CLIENT_COUNT * 16 in the firmware
    MaxProcs,       \* GATT procedures the host can run on one link
    Allowed         \* the circumstances a run admits, see Circumstances

\* "overflow":  events may arrive faster than the main loop drains the queue.
\* "late":      a completion may cross the deadline, or the next connect().
\* "backoff":   users call connect() while the machine is in BACKOFF.
\* "cached":    users may leave a connected peer undiscovered.
\* "setup":     users connect in setup(), before the first loop().
\* "refuse":    the host may refuse a call for want of resources.
\* "reuse":     a handle may be reused while the end of its last link is queued.
Circumstances == {"overflow", "late", "backoff", "cached", "setup", "refuse", "reuse"}

Ops == {"READ", "WRITE"}

Events ==
    [type   : {"CONNECT_OK", "CONNECT_FAIL", "DISCONNECT", "DISC_DONE",
               "ATTR_OP", "OTHER"},
     owner  : Engines,
     handle : Handles \cup {NoHandle},
     op     : Ops \cup {"NONE"}]

Procs == [kind : Ops \cup {"DISC"}, owner : Engines]

Dials == [owner : Engines, peer : Peers, cancelled : BOOLEAN]

Links == [owner : Engines,
          peer  : Peers,
          phase : {"up", "closing", "broken"},
          procs : Seq(Procs)]

ASSUME HostAssumption ==
    /\ NoOne \notin Engines
    /\ NoHandle \notin Handles
    /\ QueueCapacity \in Nat \ {0}
    /\ MaxProcs \in Nat \ {0}
    /\ NoLink \notin Links /\ NoDial \notin Dials
    /\ Allowed \subseteq Circumstances

VARIABLES
    queue,      \* the events pushed and not yet popped
    capacity,   \* the capacity the queue was created with, NoQueue before
    dial,       \* the connection procedure in progress
    link        \* the link on each handle

hostVars == <<queue, capacity, dial, link>>

NoQueue == -1

QueueTypeOK ==
    /\ queue \in Seq(Events)
    /\ Len(queue) <= QueueCapacity
    /\ capacity \in {NoQueue, 0, QueueCapacity}

LinkTypeOK == link \in [Handles -> Links \cup {NoLink}]

HostTypeOK == QueueTypeOK /\ LinkTypeOK /\ dial \in Dials \cup {NoDial}

HostInit ==
    /\ queue = <<>>
    /\ capacity = IF "setup" \in Allowed THEN NoQueue ELSE QueueCapacity
    /\ dial = NoDial
    /\ link = [h \in Handles |-> NoLink]

-----------------------------------------------------------------------------
(* The queue: nimble_event.cpp.                                            *)

Event(type, e, h, op) == [type |-> type, owner |-> e, handle |-> h, op |-> op]

\* gatt_event_queue(hint): the first caller's hint is the capacity for good.
Created(hint) == IF capacity = NoQueue THEN hint ELSE capacity

\* Variant: room for one more than the capacity.
HasRoomForOneMore == Len(queue) <= Created(0)

HasRoom == Len(queue) < Created(0)

\* push_from_host_task drops what the queue has no room for.  The callbacks pass a
\* capacity of 0.
Push(ev) ==
    /\ capacity' = Created(0)
    /\ queue' = IF HasRoom THEN Append(queue, ev) ELSE queue

\* The main loop keeps up, unless overflow is among the circumstances.
KeepsUp == HasRoom \/ capacity = NoQueue \/ "overflow" \in Allowed

EndQueued(h) ==
    \E i \in 1 .. Len(queue) : queue[i].type = "DISCONNECT" /\ queue[i].handle = h

QueuedFor(e, types) ==
    \E i \in 1 .. Len(queue) : queue[i].owner = e /\ queue[i].type \in types

-----------------------------------------------------------------------------
(* Steps of the host task.                                                 *)

DialSucceeds(h) ==
    /\ KeepsUp
    /\ dial # NoDial
    /\ dial.cancelled => "late" \in Allowed
    /\ link[h] = NoLink
    /\ EndQueued(h) => "reuse" \in Allowed
    /\ link' = [link EXCEPT ![h] = [owner |-> dial.owner, peer |-> dial.peer,
                                    phase |-> "up", procs |-> <<>>]]
    /\ dial' = NoDial
    /\ Push(Event("CONNECT_OK", dial.owner, h, "NONE"))

\* Refused by the peer, cancelled, or out of the 10 s connect() gives it.
DialFails ==
    /\ KeepsUp
    /\ dial # NoDial
    /\ dial' = NoDial
    /\ Push(Event("CONNECT_FAIL", dial.owner, NoHandle, "NONE"))
    /\ UNCHANGED link

\* The oldest procedure of a link completes: an item less to wait for, or the
\* error that a broken link ends every procedure with.
ProcEnds(h) ==
    /\ KeepsUp
    /\ link[h] # NoLink
    /\ link[h].procs # <<>>
    /\ LET p == Head(link[h].procs)
       IN  Push(IF p.kind = "DISC"
                THEN Event("DISC_DONE", p.owner, NoHandle, "NONE")
                ELSE Event("ATTR_OP", p.owner, NoHandle, p.kind))
    /\ link' = [link EXCEPT ![h].procs = Tail(@)]
    /\ UNCHANGED dial

\* The peer, its absence or our own terminate ends the link ...
LinkBreaks(h) ==
    /\ link[h] # NoLink
    /\ link[h].phase \in {"up", "closing"}
    /\ link' = [link EXCEPT ![h].phase = "broken"]
    /\ UNCHANGED <<queue, capacity, dial>>

\* ... and it is gone once its procedures have been failed.
LinkGone(h) ==
    /\ KeepsUp
    /\ link[h] # NoLink
    /\ link[h].phase = "broken" /\ link[h].procs = <<>>
    /\ Push(Event("DISCONNECT", link[h].owner, h, "NONE"))
    /\ link' = [link EXCEPT ![h] = NoLink]
    /\ UNCHANGED dial

\* A notification, an MTU or encryption change, one item of a discovery.
Chatter(h) ==
    /\ KeepsUp
    /\ link[h] # NoLink
    /\ link[h].phase # "broken"
    /\ Push(Event("OTHER", link[h].owner, NoHandle, "NONE"))
    /\ UNCHANGED <<dial, link>>

HostStep ==
    \/ DialFails
    \/ \E h \in Handles : \/ DialSucceeds(h) \/ ProcEnds(h) \/ LinkBreaks(h)
                          \/ LinkGone(h) \/ Chatter(h)

-----------------------------------------------------------------------------
(* Calls of the main thread into the host: when the host accepts (returns  *)
(* 0), and what an accepted call does to dial and link.                    *)

CanDial(p) ==
    /\ dial = NoDial
    /\ \E h \in Handles : link[h] = NoLink
    /\ \A h \in Handles : link[h] # NoLink => link[h].peer # p

\* ble_gap_conn_cancel: cancels the procedure in progress, whoever began it.
CancelDial == dial' = IF dial = NoDial THEN NoDial ELSE [dial EXCEPT !.cancelled = TRUE]

CanTerminate(h) == h \in Handles /\ link[h] # NoLink /\ link[h].phase = "up"

Terminate(h) ==
    link' = IF CanTerminate(h) THEN [link EXCEPT ![h].phase = "closing"] ELSE link

CanRun(h) ==
    /\ h \in Handles
    /\ link[h] # NoLink
    /\ link[h].phase # "broken"
    /\ Len(link[h].procs) < MaxProcs

RunProc(h, kind, e) ==
    link' = [link EXCEPT ![h].procs = Append(@, [kind |-> kind, owner |-> e])]
=============================================================================
