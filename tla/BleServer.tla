------------------------------ MODULE BleServer ------------------------------
(***************************************************************************)
(* The GATT server (esp32_ble_server) and what it needs of esp32_ble and   *)
(* the NimBLE controller: bringing the host up, and advertising.  The host *)
(* task calls the server when links form and end, when a central           *)
(* subscribes, and when it reads or writes; the main loop learns of it     *)
(* from a queue of events, which may be full.                              *)
(*                                                                         *)
(* A client of the server connects to what is advertised, and advertising  *)
(* stops when it does: nothing but the end of the link starts it again.    *)
(***************************************************************************)
EXTENDS Naturals, SequencesExt

CONSTANTS
    Handles,         \* of connections, used again
    Characteristics,
    Descriptors,
    OnWrite,         \* the attributes with an on_write callback
    Values,
    QueueCapacity,   \* of server_event_queue()
    MaxClients,
    NoWrite

Attributes == Characteristics \cup Descriptors

\* A write, as the queue carries it.
Writes == [type : {"write"}, handle : Handles, target : Attributes, data : Values]

ASSUME AttributesAssumption ==
    /\ OnWrite \subseteq Attributes /\ Characteristics \cap Descriptors = {}
    /\ IsFiniteSet(Characteristics)
ASSUME NoWriteAssumption == NoWrite \notin Writes
ASSUME CapacitiesAssumption == QueueCapacity \in Nat \ {0} /\ MaxClients \in Nat \ {0}

VARIABLES
    advertisingWanted, \* advertising_wanted_
    booted,      \* the setup()s that have run, in their order
    active,      \* esp32_ble is enabled
    synced,      \* the host runs
    started,     \* the table of services is registered
    advertising, \* advertising_ of the controller
    advertised,  \* who gets the events of the link to come: "server", "nobody", or "off"
    link,        \* by handle, who gets its events, or "off"
    subscribed,  \* by handle and characteristic: "no", "notify" or "indicate"
    value,
    writing,     \* a write the host task has yet to queue
    queue,
    clients,     \* clients_, in order
    toNotify,    \* clients_to_notify_ of each characteristic
    unreported,  \* the writes no callback was told of, oldest first, until one is lost
    lost,        \* the queue dropped an event
    silenced     \* advertising was refused or stopped

bleVars == <<advertisingWanted, booted, active, synced, started, advertising>>
hostVars == <<advertised, link, subscribed, silenced>>
valueVars == <<value, writing, unreported>>
loopVars == <<clients, toNotify>>
vars == <<bleVars, hostVars, valueVars, loopVars, queue, lost>>

ServerLinks == {h \in Handles : link[h] = "server"}

-----------------------------------------------------------------------------
(* Advertising.                                                            *)

\* start_advertising(): refused without a host, and by the host when it advertises
\* already, or for reasons of its own.
StartAdvertising(events, from, hostUp) ==
    \/ /\ hostUp /\ from = "off"
       /\ advertised' = events /\ advertising' = TRUE
       /\ UNCHANGED silenced
    \/ /\ advertised' = from /\ silenced' = TRUE
       /\ UNCHANGED advertising

StopAdvertising ==
    \/ advertising /\ advertised' = "off" /\ advertising' = FALSE
    \/ advertised' = advertised /\ UNCHANGED advertising

-----------------------------------------------------------------------------
(* Setup, and the enable and disable actions.                              *)

\* The controller's setup(): the host comes up in time, or late, or does not.
Enable ==
    \/ /\ active' = TRUE /\ synced' = TRUE
       /\ \/ advertisingWanted /\ StartAdvertising("nobody", advertised, TRUE)
          \/ ~advertisingWanted /\ UNCHANGED <<advertised, advertising, silenced>>
    \/ synced' \in {synced, TRUE} /\ silenced' = TRUE
       /\ UNCHANGED <<active, advertised, advertising>>

\* With enable_on_boot_, or without.
SetupBle ==
    /\ booted = "nothing" /\ booted' = "ble"
    /\ \/ Enable
       \/ UNCHANGED <<active, synced, advertised, advertising, silenced>>
    /\ UNCHANGED <<advertisingWanted, started, link, subscribed, valueVars, loopVars, queue, lost>>

\* The table is registered, or refused.
SetupServer ==
    /\ booted = "ble" /\ booted' = "server"
    /\ \/ started' = TRUE /\ StartAdvertising("server", advertised, synced)
       \/ started' = FALSE /\ UNCHANGED <<advertised, advertising, silenced>>
    /\ UNCHANGED <<advertisingWanted, active, synced, link, subscribed, valueVars, loopVars, queue, lost>>

EnableAction ==
    /\ booted = "server" /\ ~active
    /\ Enable
    /\ UNCHANGED <<advertisingWanted, booted, started, link, subscribed, valueVars, loopVars, queue, lost>>

\* Links stay up.
DisableAction ==
    /\ booted = "server" /\ active /\ active' = FALSE
    /\ StopAdvertising
    /\ silenced' = TRUE
    /\ UNCHANGED <<advertisingWanted, booted, synced, started, link, subscribed, valueVars, loopVars, queue, lost>>

-----------------------------------------------------------------------------
(* The host task.  It does one thing at a time.                            *)

\* push_from_host_task() of each: a full queue drops what does not fit.
Push(events) ==
    LET fit == SubSeq(events, 1, Min({Len(events), QueueCapacity - Len(queue)}))
    IN  queue' = queue \o fit /\ lost' = (lost \/ fit # events)

GapEvent(type, h) == [type |-> type, handle |-> h]
Subscription(h, c, kind) == [type |-> "subscribe", handle |-> h, target |-> c, kind |-> kind]

LinkForms(h) ==
    /\ writing = NoWrite /\ advertised # "off" /\ link[h] = "off"
    /\ link' = [link EXCEPT ![h] = advertised]
    /\ IF advertised = "server" THEN Push(<<GapEvent("connect", h)>>) ELSE UNCHANGED <<queue, lost>>
    /\ advertised' = "off"
    /\ UNCHANGED <<bleVars, subscribed, silenced, valueVars, loopVars>>

\* Variant: only the end of a link starts advertising again.
LinkFailsQuietly ==
    /\ writing = NoWrite /\ advertised # "off"
    /\ advertised' = "off"
    /\ UNCHANGED <<bleVars, link, subscribed, silenced, valueVars, loopVars, queue, lost>>

\* No end of it will follow.
LinkFails ==
    /\ writing = NoWrite /\ advertised # "off"
    /\ \/ /\ advertised = "server"
          /\ StartAdvertising("server", "off", synced)
       \/ /\ advertised # "server" /\ advertised' = "off"
          /\ UNCHANGED <<advertising, silenced>>
    /\ UNCHANGED <<advertisingWanted, booted, active, synced, started, link, subscribed, valueVars, loopVars, queue, lost>>

\* The host ends the subscriptions of a link before it reports the end of the link.
Farewell(h) ==
    LET subs == SetToSeq({c \in Characteristics : subscribed[h][c] # "no"})
    IN  [i \in DOMAIN subs |-> Subscription(h, subs[i], "no")] \o <<GapEvent("disconnect", h)>>

Nothing == [c \in Characteristics |-> "no"]

LinkEnds(h) ==
    /\ writing = NoWrite /\ link[h] # "off"
    /\ link' = [link EXCEPT ![h] = "off"]
    /\ subscribed' = [subscribed EXCEPT ![h] = Nothing]
    /\ IF link[h] = "server"
       THEN Push(Farewell(h)) /\ StartAdvertising("server", advertised, synced)
       ELSE UNCHANGED <<queue, lost, advertised, advertising, silenced>>
    /\ UNCHANGED <<advertisingWanted, booted, active, synced, started, valueVars, loopVars>>

\* The host restarts: links and advertising are gone, and the starting of it that
\* the ends of links ask for is refused.
HostReset ==
    /\ writing = NoWrite /\ synced
    /\ Push(FlattenSeq([i \in DOMAIN SetToSeq(ServerLinks) |-> Farewell(SetToSeq(ServerLinks)[i])]))
    /\ link' = [h \in Handles |-> "off"]
    /\ subscribed' = [h \in Handles |-> Nothing]
    /\ synced' = FALSE /\ advertised' = "off" /\ silenced' = TRUE
    /\ UNCHANGED <<advertisingWanted, booted, active, started, advertising, valueVars, loopVars>>

HostSynced ==
    /\ active /\ ~synced /\ synced' = TRUE
    /\ UNCHANGED <<advertisingWanted, booted, active, started, advertising, hostVars, valueVars, loopVars, queue, lost>>

\* A central writes the client configuration of a characteristic.
Subscribe(h, c, kind) ==
    /\ writing = NoWrite /\ link[h] = "server" /\ subscribed[h][c] # kind
    /\ subscribed' = [subscribed EXCEPT ![h][c] = kind]
    /\ Push(<<Subscription(h, c, kind)>>)
    /\ UNCHANGED <<bleVars, advertised, link, silenced, valueVars, loopVars>>

\* The access callback of a write sets the value, then queues the callback's call.
Write(h, a, data) ==
    /\ writing = NoWrite /\ link[h] # "off"
    /\ value' = [value EXCEPT ![a] = data]
    /\ LET w == [type |-> "write", handle |-> h, target |-> a, data |-> data]
       IN  \/ /\ a \in OnWrite /\ writing' = w
              /\ unreported' = IF lost THEN <<>> ELSE Append(unreported, w)
           \/ a \notin OnWrite /\ UNCHANGED <<writing, unreported>>
    /\ UNCHANGED <<bleVars, hostVars, loopVars, queue, lost>>

QueueWrite ==
    /\ writing # NoWrite
    /\ Push(<<writing>>)
    /\ writing' = NoWrite
    /\ unreported' = IF lost' THEN <<>> ELSE unreported
    /\ UNCHANGED <<bleVars, hostVars, value, loopVars>>

-----------------------------------------------------------------------------
(* The main loop.                                                          *)

\* A lambda, the set_value actions, and notify, which sets the value of an action
\* again; the host task does, too, when such a characteristic is read.
SetValue(a, data) ==
    /\ booted = "server"
    /\ value' = [value EXCEPT ![a] = data]
    /\ UNCHANGED <<bleVars, hostVars, writing, unreported, loopVars, queue, lost>>

Has(s, h) == \E i \in DOMAIN s : s[i] = h

AddClient(h) ==
    clients' = IF ~Has(clients, h) /\ Len(clients) < MaxClients THEN Append(clients, h) ELSE clients

\* The last client takes the place of the one that left.
RemoveClient(h) ==
    clients' = IF ~Has(clients, h) THEN clients
               ELSE LET i == CHOOSE j \in DOMAIN clients : clients[j] = h
                    IN  Front([clients EXCEPT ![i] = Last(clients)])

HandleSubscribe(c, h, kind) ==
    LET entries == toNotify[c]
        known == \E i \in DOMAIN entries : entries[i].handle = h
        at == CHOOSE i \in DOMAIN entries :
                 entries[i].handle = h /\ \A j \in 1 .. i - 1 : entries[j].handle # h
    IN  toNotify' = [toNotify EXCEPT ![c] =
                        IF ~known THEN IF kind = "no" THEN entries
                                       ELSE Append(entries, [handle |-> h, kind |-> kind])
                        ELSE IF kind = "no" THEN RemoveAt(entries, at)
                        ELSE [entries EXCEPT ![at].kind = kind]]

\* Variant: the value at the time of the call.
ReportedNow(e) == [e EXCEPT !.data = value[e.target]]

\* What on_write is called with.
Reported(e) == e

HandleWrite(e) ==
    unreported' = IF unreported # <<>> /\ Head(unreported) = Reported(e) THEN Tail(unreported) ELSE unreported

HandleEvent ==
    LET e == Head(queue)
    IN  /\ booted = "server" /\ queue # <<>>
        /\ queue' = Tail(queue)
        /\ \/ e.type = "connect" /\ AddClient(e.handle) /\ UNCHANGED <<toNotify, unreported>>
           \/ e.type = "disconnect" /\ RemoveClient(e.handle) /\ UNCHANGED <<toNotify, unreported>>
           \/ e.type = "subscribe" /\ HandleSubscribe(e.target, e.handle, e.kind)
                /\ UNCHANGED <<clients, unreported>>
           \/ e.type = "write" /\ HandleWrite(e) /\ UNCHANGED loopVars
        /\ UNCHANGED <<bleVars, hostVars, value, writing, lost>>

-----------------------------------------------------------------------------
Init ==
    /\ advertisingWanted \in BOOLEAN
    /\ booted = "nothing" /\ active = FALSE /\ synced = FALSE /\ started = FALSE
    /\ advertising = FALSE /\ advertised = "off" /\ silenced = FALSE
    /\ link = [h \in Handles |-> "off"]
    /\ subscribed = [h \in Handles |-> Nothing]
    /\ value \in [Attributes -> Values] /\ writing = NoWrite
    /\ unreported = <<>> /\ queue = <<>> /\ lost = FALSE
    /\ clients = <<>> /\ toNotify = [c \in Characteristics |-> <<>>]

Boot == SetupBle \/ SetupServer \/ EnableAction \/ DisableAction

Gap(h) ==
    \/ LinkForms(h) \/ LinkEnds(h)
    \/ \E c \in Characteristics : \E kind \in {"no", "notify", "indicate"} : Subscribe(h, c, kind)

Access(h) == \E a \in Attributes : \E data \in Values : Write(h, a, data)

Host == LinkFails \/ HostReset \/ HostSynced \/ QueueWrite \/ \E h \in Handles : Gap(h) \/ Access(h)

MainLoop == HandleEvent \/ \E a \in Attributes : \E data \in Values : SetValue(a, data)

Next == Boot \/ Host \/ MainLoop

Spec == Init /\ [][Next]_vars

-----------------------------------------------------------------------------
(* Properties.                                                             *)

\* With the queue drained and nothing dropped, the loop's picture is the host's: the
\* clients are the links, a characteristic notifies its subscribers, once and as they
\* asked, and every write was reported as it was written, in order, whatever was set
\* or written since.
ServerIsCurrent ==
    queue = <<>> /\ writing = NoWrite /\ ~lost /\ booted = "server" =>
        /\ ToSet(clients) = ServerLinks /\ Len(clients) = Cardinality(ServerLinks)
        /\ \A c \in Characteristics :
              LET subscribers == {h \in Handles : subscribed[h][c] # "no"}
              IN  /\ ToSet(toNotify[c]) = {[handle |-> h, kind |-> subscribed[h][c]] : h \in subscribers}
                  /\ Len(toNotify[c]) = Cardinality(subscribers)
        /\ unreported = <<>>

\* A server without a link advertises, and with one does not: a central can find it
\* again after every link that ended or did not come about.  (Unless advertising was
\* refused or stopped once: nothing starts it again.)
ServerIsFound ==
    booted = "server" /\ started /\ ~silenced =>
        /\ advertised = "server" <=> ServerLinks = {}
        /\ Cardinality(ServerLinks) <= 1
=============================================================================
