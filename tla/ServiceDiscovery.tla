-------------------------- MODULE ServiceDiscovery --------------------------
(***************************************************************************)
(* How the GATT engine builds the table of a device's services             *)
(* (nimble_gattc.cpp).  The host explores one range of handles at a time   *)
(* and reports what it finds through the event queue; the engine follows   *)
(* with two cursors, first the characteristics service by service, then    *)
(* the descriptors characteristic by characteristic, and learns where a    *)
(* characteristic ends from the one after it.  Its user reads the table by *)
(* index ranges, and may release it.                                       *)
(*                                                                         *)
(* An attribute is its handle; its UUID and properties are carried along   *)
(* and left out.  Connecting is NimbleGattEngine's: here a connection is   *)
(* up when its CONNECT event has been handled.                             *)
(***************************************************************************)
EXTENDS Integers, SequencesExt

CONSTANTS
    MaxHandle,      \* devices have handles 1 .. MaxHandle at most
    QueueCapacity,  \* of the event queue
    Users,          \* who connects: a subset of {"proxy", "client"}
    NoProc

ASSUME MaxHandleAssumption == MaxHandle \in Nat \ {0}
ASSUME QueueCapacityAssumption == QueueCapacity \in Nat \ {0}
ASSUME UsersAssumption == Users \subseteq {"proxy", "client"}
ASSUME NoProcAssumption ==
    NoProc \notin [kind : {"services", "characteristics", "descriptors"}, next : Int, last : Int]

VARIABLES
    user,      \* who has the engine
    db,        \* the attributes of the device, by handle
    linked,    \* the host has a connection
    proc,      \* the host's exploration, or NoProc
    queue,     \* events, oldest first
    connected, \* conn_handle_ is valid
    exploring, \* the state machine is DISCOVERING
    table,     \* services_, characteristics_ and descriptors_
    svcIndex, chrIndex, \* discover_svc_index_ and discover_chr_index_
    outcome,   \* the last on_service_discovery_done()
    whole,     \* nothing of this discovery was dropped or cut short
    released,  \* the table was released since it was begun
    undefined  \* an event indexed what is not there

hostVars == <<db, linked, proc, queue>>
engineVars == <<connected, exploring, table, svcIndex, chrIndex, outcome, released, undefined>>
vars == <<user, hostVars, engineVars, whole>>

-----------------------------------------------------------------------------
(* Devices.                                                                *)

Roles == {"svc", "chr", "val", "dsc", "gap"}

\* A declaration is followed by its value, everything belongs to a service, and
\* descriptors to a characteristic.
WellFormed(d) ==
    \A h \in 1 .. Len(d) :
        LET before == {i \in 1 .. h - 1 : d[i] # "gap"}
            last   == IF before = {} THEN "none" ELSE d[CHOOSE i \in before : \A j \in before : j <= i]
        IN  /\ d[h] = "chr" => last # "none" /\ h < Len(d) /\ d[h + 1] = "val"
            /\ d[h] = "val" => h > 1 /\ d[h - 1] = "chr"
            /\ d[h] = "dsc" => last \in {"val", "dsc"}
            /\ d[Len(d)] # "gap"

Databases == {d \in UNION {[1 .. n -> Roles] : n \in 0 .. MaxHandle} : WellFormed(d)}

\* The last handle of the service that starts at h.
ServiceEnd(d, h) ==
    LET next == {i \in h + 1 .. Len(d) : d[i] = "svc"}
    IN  IF next = {} THEN Len(d) ELSE (CHOOSE i \in next : \A j \in next : i <= j) - 1

-----------------------------------------------------------------------------
(* The host's side.                                                        *)

\* What the exploration has yet to report: everything between a value and the end
\* of its characteristic counts as a descriptor.
Left(p) ==
    {h \in p.next .. p.last : h <= Len(db) /\
        \/ p.kind = "descriptors" /\ db[h] # "gap"
        \/ p.kind = "services" /\ db[h] = "svc"
        \/ p.kind = "characteristics" /\ db[h] = "chr"}

\* What a discovery callback tells of an attribute.
Found(kind, h) ==
    CASE kind = "services"        -> [type |-> kind, handle |-> h, handle2 |-> ServiceEnd(db, h)]
      [] kind = "characteristics" -> [type |-> kind, handle |-> h, handle2 |-> h + 1]
      [] kind = "descriptors"     -> [type |-> kind, handle |-> h, handle2 |-> h]

NoAttribute == 0

Done(kind) == [type |-> kind, handle |-> NoAttribute, handle2 |-> NoAttribute]
Disconnect == [type |-> "disconnect", handle |-> NoAttribute, handle2 |-> NoAttribute]

\* push_from_host_task() of each: a full queue drops what does not fit.
Fitting(events) == SubSeq(events, 1, Min({Len(events), QueueCapacity - Len(queue)}))

Push(event) ==
    /\ queue' = queue \o Fitting(<<event>>)
    /\ whole' = (whole /\ Fitting(<<event>>) # <<>>)

Report ==
    /\ proc # NoProc /\ Left(proc) # {}
    /\ LET h == CHOOSE i \in Left(proc) : \A j \in Left(proc) : i <= j
       IN  /\ Push(Found(proc.kind, h))
           /\ proc' = [proc EXCEPT !.next = h + 1]
    /\ UNCHANGED <<user, db, linked, engineVars>>

ProcDone ==
    /\ proc # NoProc /\ Left(proc) = {}
    /\ Push(Done(proc.kind))
    /\ proc' = NoProc
    /\ UNCHANGED <<user, db, linked, engineVars>>

\* The device answers with an error, or not at all.
CutShort ==
    /\ proc # NoProc /\ Left(proc) # {}
    /\ queue' = queue \o Fitting(<<Done(proc.kind)>>)
    /\ whole' = FALSE
    /\ proc' = NoProc
    /\ UNCHANGED <<user, db, linked, engineVars>>

\* The connection ends, and with it the exploration.
LinkGone ==
    /\ linked /\ linked' = FALSE
    /\ LET events == IF proc = NoProc THEN <<Disconnect>> ELSE <<Done(proc.kind), Disconnect>>
       IN  queue' = queue \o Fitting(events)
    /\ whole' = (whole /\ proc = NoProc)
    /\ proc' = NoProc
    /\ UNCHANGED <<user, db, engineVars>>

-----------------------------------------------------------------------------
(* The table.                                                              *)

EmptyTable == [services |-> <<>>, characteristics |-> <<>>, descriptors |-> <<>>]

AddService(t, e) ==
    [t EXCEPT !.services = Append(@, [start |-> e.handle, end |-> e.handle2, first |-> 0, count |-> 0])]

\* The last characteristic found ends at h.
EndLast(t, h) == [t EXCEPT !.characteristics[Len(t.characteristics)].end = h]

\* The event's characteristic, of service i, ends the one before it.
AddCharacteristic(t, i, e) ==
    LET u == IF t.services[i].count > 0 THEN EndLast(t, e.handle - 1) ELSE t
        c == [value |-> e.handle2, end |-> 0, first |-> 0, count |-> 0]
    IN  [u EXCEPT !.characteristics = Append(@, c), !.services[i].count = @ + 1]

\* Variant: the last characteristic of a service never learns its end.
LeaveOpen(t, i) == t

\* The service's end is its last characteristic's.
EndService(t, i) == IF t.services[i].count > 0 THEN EndLast(t, t.services[i].end) ELSE t

AddDescriptor(t, i, e) ==
    [t EXCEPT !.descriptors = Append(@, e.handle), !.characteristics[i].count = @ + 1]

\* Variant: the services stay.
ReleasedButServices(t) == [EmptyTable EXCEPT !.services = t.services]

\* release_services()
Released(t) == EmptyTable

-----------------------------------------------------------------------------
(* The engine.                                                             *)

\* The proxy frees the slot of a failed discovery at once, since its disconnect()
\* is refused: the engine is closing the connection already.
FinishDiscovery(t, result) ==
    LET frees == user = "proxy" /\ result = "failed"
    IN  /\ outcome' = result /\ exploring' = FALSE
        /\ table' = IF frees /\ ~released THEN Released(t) ELSE t
        /\ released' = (released \/ frees)

\* A procedure of the host, which may refuse it and does without a link.
Explore(t, kind, first, last) ==
    \/ /\ linked
       /\ proc' = [kind |-> kind, next |-> first, last |-> last]
       /\ table' = t
       /\ UNCHANGED <<exploring, outcome, released>>
    \/ UNCHANGED proc /\ FinishDiscovery(t, "failed")

\* start_next_chr_dsc_discovery_() from characteristic c on: those without room for
\* descriptors are skipped.
StartNextDescriptors(t, c) ==
    LET chrs == t.characteristics
        open == {i \in c + 1 .. Len(chrs) : chrs[i].end > chrs[i].value}
        i    == Min(open)
    IN  \/ /\ open = {}
           /\ chrIndex' = Max({c, Len(chrs)})
           /\ UNCHANGED proc /\ FinishDiscovery(t, "complete")
        \/ /\ open # {}
           /\ chrIndex' = i - 1
           /\ Explore([t EXCEPT !.characteristics[i].first = Len(t.descriptors)], "descriptors",
                      chrs[i].value + 1, chrs[i].end)

\* start_next_service_chr_discovery_() at service s.
StartNextCharacteristics(t, s) ==
    /\ svcIndex' = s
    /\ \/ s >= Len(t.services) /\ StartNextDescriptors(t, 0)
       \/ /\ s < Len(t.services)
          /\ Explore([t EXCEPT !.services[s + 1].first = Len(t.characteristics)], "characteristics",
                     t.services[s + 1].start, t.services[s + 1].end)
          /\ UNCHANGED chrIndex

\* A discovery event outside the service phase finds its entry at the cursor.
AtEntry(e) ==
    CASE e.type = "characteristics" -> svcIndex < Len(table.services)
      [] e.type = "descriptors"     -> e.handle # NoAttribute => chrIndex < Len(table.characteristics)
      [] OTHER                      -> TRUE

Stores(t) == table' = t /\ UNCHANGED <<proc, exploring, svcIndex, chrIndex, outcome, released>>

Disconnected ==
    /\ connected' = FALSE /\ exploring' = FALSE
    /\ table' = IF user = "proxy" THEN Released(table) ELSE table
    /\ released' = (released \/ user = "proxy")
    /\ outcome' = "none" /\ whole' = TRUE /\ db' = <<>>
    /\ UNCHANGED <<proc, svcIndex, chrIndex>>

HandleEvent ==
    LET e == Head(queue)
        found == e.handle # NoAttribute
    IN  /\ queue # <<>> /\ AtEntry(e)
        /\ queue' = Tail(queue)
        /\ \/ e.type = "disconnect" /\ Disconnected
           \/ /\ e.type # "disconnect" /\ UNCHANGED <<connected, whole, db>>
              /\ \/ e.type = "services" /\ found /\ Stores(AddService(table, e))
                 \/ e.type = "services" /\ ~found /\ StartNextCharacteristics(table, 0)
                 \/ e.type = "characteristics" /\ found
                       /\ Stores(AddCharacteristic(table, svcIndex + 1, e))
                 \/ e.type = "characteristics" /\ ~found
                       /\ StartNextCharacteristics(EndService(table, svcIndex + 1), svcIndex + 1)
                 \/ e.type = "descriptors" /\ found
                       /\ Stores(AddDescriptor(table, chrIndex + 1, e))
                 \/ e.type = "descriptors" /\ ~found
                       /\ StartNextDescriptors(table, chrIndex + 1) /\ UNCHANGED svcIndex
        /\ UNCHANGED <<user, linked, undefined>>

\* The program's behaviour is undefined from here on, and no event handled.
MissEntry ==
    /\ ~undefined /\ queue # <<>> /\ ~AtEntry(Head(queue))
    /\ undefined' = TRUE
    /\ UNCHANGED <<user, hostVars, whole, connected, exploring, table, svcIndex, chrIndex, outcome, released>>

-----------------------------------------------------------------------------
(* The user's calls, and the deadline.                                     *)

\* discover_services() of a connection that has come up; when it is refused, the
\* user disconnects.
Discover ==
    /\ ~linked /\ ~connected /\ queue = <<>>
    /\ db' \in Databases /\ linked' = TRUE /\ connected' = TRUE
    /\ table' = EmptyTable /\ svcIndex' = 0 /\ chrIndex' = 0
    /\ outcome' = "none" /\ released' = FALSE /\ whole' = TRUE
    /\ \/ proc' = [kind |-> "services", next |-> 1, last |-> MaxHandle] /\ exploring' = TRUE
       \/ proc' = NoProc /\ exploring' = FALSE
    /\ UNCHANGED <<user, queue, undefined>>

\* DISCOVERING is over its deadline; the engine closes the connection.
DeadlinePasses ==
    /\ exploring
    /\ FinishDiscovery(table, "failed")
    /\ UNCHANGED <<user, hostVars, connected, svcIndex, chrIndex, undefined, whole>>

\* The proxy has streamed the table, or a connect request for the slot it freed is
\* refused.
ReleaseServices ==
    /\ user = "proxy" /\ connected
    /\ outcome = "complete" \/ released
    /\ table' = Released(table) /\ released' = TRUE
    /\ UNCHANGED <<user, hostVars, whole, connected, exploring, svcIndex, chrIndex, outcome, undefined>>

-----------------------------------------------------------------------------
Init ==
    /\ user \in Users
    /\ db = <<>> /\ linked = FALSE /\ proc = NoProc /\ queue = <<>>
    /\ connected = FALSE /\ exploring = FALSE
    /\ table = EmptyTable /\ svcIndex = 0 /\ chrIndex = 0
    /\ outcome = "none" /\ whole = TRUE /\ released = FALSE /\ undefined = FALSE

Host == Report \/ ProcDone \/ CutShort \/ LinkGone

Engine == HandleEvent \/ MissEntry \/ DeadlinePasses \/ ReleaseServices \/ Discover

Next == Host \/ Engine

Spec == Init /\ [][Next]_vars

-----------------------------------------------------------------------------
(* Properties.                                                             *)

\* The entries of s from position first (from 0), count of them.
Entries(s, first, count) == SubSeq(s, first + 1, first + count)

\* What a user reads, depth first: each service, its characteristics, and their
\* descriptors, by index range.
ReadCharacteristic(c) ==
    <<<<"val", c.value>>>> \o
    [i \in 1 .. c.count |-> <<"dsc", Entries(table.descriptors, c.first, c.count)[i]>>]

ReadService(s) ==
    LET chrs == Entries(table.characteristics, s.first, s.count)
    IN  <<<<"svc", s.start>>>> \o FlattenSeq([i \in DOMAIN chrs |-> ReadCharacteristic(chrs[i])])

ReadTable == FlattenSeq([i \in DOMAIN table.services |-> ReadService(table.services[i])])

\* The same of the device: its attributes in order, less the declarations of
\* characteristics.
Database ==
    FlattenSeq([h \in DOMAIN db |->
        IF db[h] \in {"svc", "val", "dsc"} THEN <<<<db[h], h>>>> ELSE <<>>])

\* A table reported complete is the device's database, when no event of its discovery
\* was dropped or cut short: the proxy's clients keep it for good, and a client's
\* nodes find their characteristics in it.
TableIsDatabase == outcome = "complete" /\ whole /\ ~released => ReadTable = Database

RangesFit ==
    /\ \A i \in DOMAIN table.services :
          LET s == table.services[i] IN s.count = 0 \/ s.first + s.count <= Len(table.characteristics)
    /\ \A i \in DOMAIN table.characteristics :
          LET c == table.characteristics[i] IN c.count = 0 \/ c.first + c.count <= Len(table.descriptors)

\* Dropped events and cut short procedures or not, a table that is read has no index
\* range outside it (the consumer that looks finds none, bluetooth_connection_hub.cpp:
\* 514-542; get_characteristic() does not look).  And as long as the table is not
\* released, each event of its discovery finds its entry.
IndexesFit ==
    /\ outcome = "complete" => RangesFit
    /\ undefined => released
=============================================================================
