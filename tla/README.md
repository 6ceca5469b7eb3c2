# NimbleBLE-Esphome in TLA+

NimbleBLE-Esphome replaces ESPHome's Bluetooth stack by NimBLE. Its components
run on two threads: the *host task* of NimBLE, whose callbacks must do nothing
but copy an event into a queue, and the *main loop* of ESPHome, which calls the
`loop()` of every component in turn and does everything else. Most of what is
hard in this code comes from that split: what a callback saw may no longer be
true when the main loop handles it, an event may be dropped by a full queue, a
deadline may fire while the answer it waited for is already queued.

This directory models those parts, checks them with TLC and proves some of
their properties with TLAPS. `PROJECT.json` lists components, runs, the source
lines behind each definition, hazards, disagreements between code and comments,
and theorems; this page explains them. Paths without a directory are under
`src/components/`.

## 1. The system

| Part | State it keeps | Operations |
|---|---|---|
| Connection state machine, `nimble_ble/ble_connection_fsm` | state, absolute deadline (32-bit ms), failure count (16-bit) | `handle_event`, `poll_timeout` |
| Reconnect backoff, `nimble_ble/connect_backoff` | none | `compute_connect_backoff_delay_ms` |
| GATT event queue, `nimble_ble/nimble_event` | one fixed-capacity FIFO, created by its first user | `push_from_host_task` (host), `pop` (main) |
| GATT client engine, `nimble_ble/nimble_gattc` | one machine, connection handle, "result reported" flag, pending attribute operation | connect, retry, disconnect, discover, read, write, notify, pair; `loop()` |
| Service table, in the engine | services, characteristics, descriptors, two discovery cursors | the events of a discovery, `release_services`, reads by index range |
| BLE client, `esp32_ble_client`, `ble_client` | client state, backoff start and delay, nodes | `setup`, `loop`, `connect`, `disconnect`, listener callbacks, automations |
| API connection slot, `bluetooth_connection` | device address, streaming cursor, owed acknowledgement, owed flags | listener callbacks, the client's requests, service streaming |
| Proxy, `bluetooth_proxy` | slots, owed disconnect reports, advertisement batch, subscription | one handler per API message, `loop()` |
| Tracker, `esp32_ble_tracker` | scanner state, scan parameters, advertisement queue | `start_scan`, `stop_scan`, `loop`, GAP callback |
| Scan response merger, `ble_device_base/scan_response_merger` | at most 8 advertisements waiting for their scan response | stash, submit, sweep, flush, scan end |
| GATT server, `esp32_ble_server` | connected clients, subscriptions, characteristic values, event queue | GAP and access callbacks (host), `loop`, `set_value`, `notify` |
| Controller, `nimble_ble/nimble_controller`, `esp32_ble` | started or not, host in sync, advertising | bring-up, enable and disable, host reset, start/stop advertising |
| Parsing and decryption, `ble_device_base` | none | advertisement parsing, AES-CCM |
| Code generation, `tools/gen_state_machine`, `*.py` | none | build time only |

How they interact:

- An engine calls NimBLE (`ble_gap_connect`, `ble_gap_terminate`, `ble_gattc_*`);
  NimBLE answers on the host task through callbacks that push into the one GATT
  event queue. Whichever engine's `loop()` runs first drains the events of *all*
  engines; each event carries its owner.
- An engine reports to one *listener*: a `BLEClientBase` (YAML clients) or a
  `BluetoothConnection` (slots of the proxy). Listener callbacks run inside the
  drain or the deadline poll and call back into the engine.
- The tracker's scan is cancelled by every `connect()`; it notices through its
  own event queue and restarts.
- The proxy gives slots to API requests and sends what slots report; when the
  API's send buffer is full the reply is *owed* and retried from `loop()`.
- The server shares nothing with the client side but the host task. It has an event
  queue of its own, and competes with `esp32_ble` for the one advertising set.

What is hard in each part, and what makes it correct:

- **State machine**: a deadline must fire, on time, never early, whatever
  sequence of events led to the state, and both deadlines together must bound
  the attempt. The clock wraps.
- **Engine**: one answer per accepted `connect()`; no link left without an
  owner; no handle used that belongs to another; answers matched to questions;
  every teardown ends; every attempt and discovery ends although the host may
  never answer and the queue may drop events.
- **Service table**: what is reported complete is the device's database, unless the device
  cut a procedure short or the queue dropped an event; the index ranges fit even then.
- **BLE client**: nodes told of a connection exactly while there is one;
  whatever was begun ends; `auto_connect` tries for ever.
- **Connection slot and proxy**: a device occupies one slot; a reply owed to one
  device is not sent for another after the slot changed hands; each request is
  answered once; the free count is right; a client hears the end of every connection it
  was told of; service batches are streamed whole.
- **Tracker and merger**: each advertisement is delivered once, merged with its
  own scan response, whatever listeners call meanwhile; a scan that is wanted runs.
- **Server and controller**: only connected, subscribed clients are notified; the value a
  write callback sees is the one written; a server without a link can be found.

## 2. Modules

| Module | Models |
|---|---|
| `BleConnectionTable` | the transition table of `handle_event`: `Accepts` and `Target` are its switch, `Deadlined` is `has_deadline` |
| `BleConnectionFsm` | the class as a record and one operator per method, with its integer widths |
| `BleConnectionFsmClock` | one machine under the millisecond clock, polled at the latest every `LoopGap` |
| `ConnectionAttempt` | abstract: what a slot promises about the duration of an attempt |
| `ConnectBackoff` | the delay computation and the run of failures it is called for |
| `NimbleHost` | the GATT event queue (source), and the NimBLE host as far as the engines rely on it (external) |
| `NimbleGattEngine` | any number of engines over one host and one queue |
| `GattClientContract` | abstract: what a backend promises its listener |
| `BleClient` | `BLEClientBase` and `BLEClient`, the users and listeners of the engines |
| `ScanResponseMerger` | the table of advertisements that wait for their scan response |
| `BleTracker` | the tracker, its queue and the host's discovery procedure, over the merger |
| `AdvertDelivery` | abstract: what the scanner promises the listeners |
| `ServiceDiscovery` | how the engine builds the service table, event by event, and its release |
| `ProxyReplies` | what the proxy tells its subscriber: the pool of owed reports, the account of slots |
| `BluetoothConnection` | one API connection slot, the listener of an abstract backend |
| `BluetoothProxy` | the requests of the client, subscriptions and the loop, over any number of slots |
| `BleServer` | the GATT server, with the controller and `esp32_ble` as far as advertising goes |
| `*_proofs` | the theorems of section 5 |
| `MC_*` | model values and symmetry for TLC |

`BleClient` extends `NimbleGattEngine`, which extends `NimbleHost` and
`BleConnectionTable`. `NimbleGattEngine` uses the table without the clock: a poll
finds a deadline reached or not, which is every possibility;
`BleConnectionFsmClock` says what the deadline itself guarantees. `BleTracker`
extends `ScanResponseMerger` and meets the engines only in `EngineConnects`, their
cancelling of the scan. `BluetoothProxy` extends `BluetoothConnection`, which extends
`ProxyReplies`; the engines under its slots are abstract: a backend does what
`GattClientContract` allows, which `engine_contract` shows of the engine (without the
circumstances `late` and `backoff`, in which the engine breaks it), and what the calls
return is open.
`ServiceDiscovery` and `BleServer` stand alone.

The repository has a generated specification of its own,
`spec/ble_state_machine.tla`, of the machine alone: its time stops at the
deadline, its clock does not wrap, its timeouts are separate actions, and
nothing drives it. The modules here are translated from the C++ instead, and its
`BoundedWait` and the existence of the deadline are restated for the code.

### State and actions of `NimbleGattEngine`

`state`, `connHandle`, `reported`, `pendingOp` are `fsm_.state()`,
`conn_handle_`, `connect_result_reported_`, `pending_op_`. `main` is the place of
the main thread in a `loop()`: idle, draining, about to poll. `cb` is the
listener callback being made. `session` and `target` are history: what the
listener knows (`none`, `asked`, `up`, `settled`), and the peer of the last
accepted `connect()`.

Every call of a user is one action (`Connect`, `RetryConnect`, `GattDisconnect`,
`StartOp`); a `loop()` is `LoopBegins`, one `Pop` per event, `DrainEnds`, and
`PollQuiet` or `PollFires`. The host may step between any two of them, and
between a callback and what the listener does in it (`CallbackReturns`), because
the host task preempts the main loop. Each step of the code that raises a
callback raises it as its last statement, so the split is at the right place.
The main thread alone decides the state of an engine; that is why no finer
grain is needed on that side.

A refused call that changes nothing is not an action. `RetryRefused` is: a
`retry_connect()` that is refused has already left BACKOFF.

Discovery is a sequence of `DISC` procedures: each completion starts another,
fails to, or is the last. How many there are depends on the peer and is left
open; `ServiceDiscovery` has the table they fill. Of the other events (MTU, notify,
encryption, connection update) only their place in the queue is modelled.

`NimbleHost` lets the host do what the callbacks show it can do: end the one
connection procedure with a link or without; complete the procedures of a link in
order; break a link, fail its procedures, then report its end; reuse a handle.
`ble_gap_connect` is refused while a procedure runs, when no handle is free, and
when the peer is already connected.

### Circumstances

`Allowed` names what a run admits beyond the ordinary:

| Circumstance | In the code | 
|---|---|
| `overflow` | events arrive faster than the main loop drains them and the queue drops them |
| `late` | a completion is queued when its deadline is polled, or when the next `connect()` is made |
| `backoff` | a user calls `connect()`, not `retry_connect()`, in BACKOFF, as `BluetoothConnection::initiate_connection` does |
| `cached` | a user leaves a new connection undiscovered, as a `V3_WITH_CACHE` request does |
| `setup` | a user connects in `setup()`, before the first `loop()` has created the queue |
| `refuse` | the host refuses a call for want of memory |
| `reuse` | a handle is reused while the end of its last link is still queued |

All seven are real. They are separate because each of `late`, `backoff`,
`cached`, `overflow` breaks a promise of the code (section 4), and a run that
admits it says nothing about the other promises. A theorem excludes only those that
its statement names (section 5).

### State and actions of `BleClient`

`clientState` is `state_`, `backingOff` is `backoff_started_at_ # 0`. A client's
`loop()` is the engine's (`ClientLoopBegins`, `EngineLoops`) and then one of
`NotInBackoff`, `BackoffBegins`, `BackoffGoesOn`, `BackoffElapses`. Automations
connect in IDLE and disconnect in ESTABLISHED, or (`anytime`) do both in every
state. The listener methods replace the engine's open-ended `CallbackReturns`.
A call that a node makes *from inside* a callback is modelled as made after the
`loop()`. An address is called by the name of its client: two clients of one
address are not modelled.

### State and actions of the scanner

`held` is the set of used entries of `pending_adv_`; the order in which the code
walks over them depends on which slots were free and is left open. An entry's age
is not kept: a sweep delivers any of them or none, which is every possibility.
`queue`, `scanner`, `continuous` are `adv_queue_`, `scanner_state_`,
`scan_continuous_`; `scanning` and `connecting` are the host's procedures.

Delivery calls listeners, and a listener's automation may call `stop_scan()`, which
flushes the merger, which calls listeners again. `agenda` is therefore the call
stack of the main thread: `Deliver` puts the listeners on top of what the caller has
still to do (reuse the entry, go on with the sweep, become IDLE), and `MaxAgenda`
bounds the nesting. The host task steps in at any point.

An advertisement is known by its number, and a scan response carries the number of
the advertisement it answers: the code sees only the address, and `MergedIsOwn` asks
whether that is enough. `given` is history: what each advertisement was merged with,
each time the listeners had it.

Two circumstances are kept out of the run, for they break `ScannerStateIsTrue`:
`restart`, a scan started while the end of the last is still to be handled, and `lost
end`, a queue that is full when a scan ends (section 4). Without `lost end`, reports
leave one place of the queue free.

### State and actions of the proxy

A member of `slot` holds the fields of a `BluetoothConnection`: `address_`, `state_`,
whether the connection is `cached` and its services `discovered`, the `cursor`
`send_service_` with its three markers, `owedUp` and `ack` for the owed connected reply
and the owed acknowledgement. `pool` is `pending_disconnections_`; `free` and `allocated`
are the response `connections_free_response_`, which the code keeps up incrementally;
`freeOwed` is `connections_free_pending_`. `backend`, `peer`, `table`, `op` say what the
slot's engine is at, for which device it was last asked to connect, whose services its
table holds and what it is to answer.

`told`, `toldFree`, `wants`, `got` are the client's side (history): the connections it
believes in, whether its picture of the slots is current, its open request, the service
list it has collected. They are what the properties compare the proxy with. The client
keeps to what the code says of it: one attribute request at a time for a device, a
service list asked for again only after the last was given up (`ClientEndsList`), and no
request but a connect about a device it believes unconnected.

A request is one action with the whole of its handler. The API accepts or refuses every
frame for itself, at any time: each send is a choice, except that with nobody subscribed
it counts as sent. A handler that sends twice may have the first frame accepted and the
second refused (`SendConnectionsFreeTwice`). The `loop()` is one action per slot and owed
frame, so every interleaving of its parts with requests and with backend events is
there, and more than the code has. The retry counters that give up an owed
frame are not kept: an owed acknowledgement or services-done may be given up at any flush.

`Requests` names what clients ask for beyond connecting and disconnecting:

| Circumstance | In the code |
|---|---|
| `with cache` | a V3 request of a client that has the services already |
| `untyped` | a connect request without an address type, which is answered as failed and keeps the slot it reserved |
| `services` | `GetServices` |
| `services while ending` | `GetServices` for a device whose disconnect was requested |
| `operations` | reads, writes and notify requests |

### State and actions of `ServiceDiscovery`

A device is a sequence of attribute roles by handle (`db`): service, characteristic
declaration, its value, descriptor, or a gap. `proc` is the range the host explores; it
reports one attribute after the other (`Report`) and then the end (`ProcDone`), or is
`CutShort`, and `LinkGone` ends it with the connection. `HandleEvent` is `handle_event_`
with what it starts next: one disjunct per event type, with and without an attribute.
`svcIndex` and `chrIndex` are the cursors. `DeadlinePasses` and `ReleaseServices` come at
any time the code allows; who uses the engine decides which: the proxy frees a slot whose
discovery failed and releases what it has streamed, a YAML client keeps the table.
`whole` and `released` are history. `undefined` marks an event that
indexes an entry that is not there, after which the model handles no more: the code
reads outside a vector.

### State and actions of `BleServer`

`booted` goes through the two `setup()`s in their order; `active`, `synced`, `started`,
`advertising` are the flags of `esp32_ble`, the controller and the server. `advertised`
and `link` are the host's: to whose callback the events of the link to come, or of each
link, will go. `clients` and `toNotify` are `clients_` and the `clients_to_notify_` of each
characteristic. The host task steps in between any two steps of the main loop; it does one
thing at a time, and a write is two steps (`Write` assigns the value, `QueueWrite` queues the
callback), between which the main loop may set the value. `unreported` (history) is the
sequence of writes whose callback is still to be called; `lost` and `silenced` record that the
queue dropped an event and that advertising was refused or stopped.

## 3. Runs that pass

| Run | Shows | Bounds |
|---|---|---|
| `fsm_clock` | `BoundedWait`: a state with a deadline is left within it plus one poll interval. `NoEarlyTimeout`: never before it. `KeepsAttemptPromise`: the machine implements `ConnectionAttempt`. `TimingInv`: the invariant the proofs use | deadlines 2 and 3, polls at most 2 apart, 12 ticks: one whole attempt, a backoff and a second attempt; the count wraps at 4. 20,796 states |
| `backoff_delay` | `DelayIsDocumented`: base times a power of two, capped, within the jitter | the firmware's own constants, every draw, up to 256 failures in a row. 10,701 states |
| `engine_contract` | two engines sharing host and queue: no link is orphaned, no handle is foreign, an attempt has a deadline, a connection reported is the one asked for, answers match operations, a discovery deadline ends only a discovery, and the engines implement `GattClientContract` | 2 engines, 2 peers, 2 handles, queue of 3, 2 procedures per link, 2 events per drain: enough for two attempts to overlap, for one engine to drain another's events, for a drain to stop with events left. `refuse`. 394,612 states up to symmetry |
| `engine_progress` | `ConnectAnswered`, `DiscoveryEnds`, even with events dropped; `AttemptIsOpen` | 1 engine, queue of 2, every circumstance but `late` and `backoff`, which void the promise. 11,870 states |
| `client_sessions` | a client believes in no connection whose end was reported, with automations at any time and late completions | 2 clients, one with `auto_connect`, queue of 2. 1,486,462 states up to symmetry |
| `client_settles` | what a client began, its nodes see the end of; an accepted teardown ends in a report | 1 client, queue of 3, 2 procedures, 2 events per drain, `refuse`. 3,333 states |
| `scan_delivery` | `KeepsDelivery`: the scanner implements `AdvertDelivery`, so an advertisement that the queue took is given once, whatever listeners call in a delivery; `EachIsGiven`: in the end; `MergedIsOwn`: with its own response, unless the queue dropped the advertisement that was answered; `ScannerStateIsTrue`: `scan_running()` is true, up to an end still to be handled; `ScanGoesOn`: a scan wanted for good, with no connection in the way, runs again and again | 2 devices, 3 advertisements, a table of 1, queue of 3, calls nested to a stack of 4: a full table, a device that advertises again, a full queue, a stop inside a sweep and inside an end of scan. 80,814 states |
| `proxy_slots` | `OneSlotPerDevice`; `SlotsAreCounted`: the incremental account; `OldPictureIsOwed`, `EndIsOwed`: what a refused frame leaves unsaid is owed, and nothing is owed that would shadow a new connection; `SlotIsServed`: a taken slot has an event to come that frees it | 2 slots, 3 devices: slots run out, change hands, and the pool can overflow. 190,807 states up to symmetry |
| `slot_replies` | `StreamIsWhole`: a list that ends with services-done is the whole list, once and in order; `OwedAnswerIsCurrent`; `EndIsHeard`, `LeftSlotIsFreed`: what a client was told of ends for it, what it leaves is torn down | 1 slot, 1 device with 2 services, 1 handle: a batch that is refused half-way, a request repeated mid-stream, an answer owed while the next request is made. `with cache`, `untyped`, `services`, `operations`. 194,158 states |
| `service_discovery` | `TableIsDatabase`: read by index ranges, a table reported complete is the device's attributes in order; `IndexesFit`: even of a discovery with dropped or missing events the ranges lie in the table, and no event misses its entry unless the table was released | every well-formed device of up to 7 handles, a queue of 2. With 7 there are two services with characteristics, two characteristics with descriptors in a service, a service without any, gaps. 8 handles take more than five minutes |
| `ble_server` | `ServerIsCurrent`: once the queue is drained, with nothing dropped, the loop's lists are the host's and every write was reported as written; `ServerIsFound`: a server without a link advertises | 2 handles, 1 characteristic with `on_write`, 2 values, queue of 2, 2 clients: a handle used again while events of its last link are queued, a write overtaken by another. 3,468,701 states up to symmetry |

Of the proxy, a run with two slots has no streams and the run with streams has one slot:
streams and acknowledgements of two slots meet only in the pool and in the account of
slots, which `proxy_slots` has. A slot changes hands in `slot_replies` through its one
device; the theorems below are for any number of both.

A liveness run cannot use symmetry, and the fairness below costs much with two
clients: one client suffices for these, because clients interfere only in being
refused, which `refuse` stands for.

Firmware bounds that were scaled: the drain handles 32 events per `loop()`
(`MaxEventsPerDrain`), the queue holds 16 per engine (`QueueCapacity`). Nothing
in the code depends on their values, only on whether they are reached, and with
2 or 3 they are.

### Fairness

- The main thread finishes its `loop()` and begins that of every component again
  (`WF` on the steps of a loop, `SF` on `LoopBegins` of each engine: users' calls
  can come in between, but ESPHome's scheduler calls every component in turn).
- A deadline that is polled again and again in one state comes due (`ComesDue`):
  time passes. The same for a backoff delay (`BackoffComesToEnd`).
- The host ends every connection procedure: `connect()` gives it 10 s, and NimBLE
  reports a cancelled one. A link that is closing breaks, a broken link fails its
  procedures and reports its end: NimBLE's supervision timeout.
- Nothing obliges a *peer* to answer: procedures on a link that is up may hang.
  That is the hang the state machine exists for (`DiscoveryEnds`).

- The tracker's main thread likewise (`WF` on a step of a `loop()`, `SF` on its
  beginning). An entry that is swept again and again is delivered: it becomes older
  than 300 ms. The host owes nothing: a scan may run for ever, a connection may
  never come to its end.

- A pooled report of an end is taken in the end (`SF` on `FrameTaken`), or the subscriber
  goes: a send buffer that never empties makes the API close the connection. The sweep of
  slots left behind runs again and again. A backend that was asked to connect has an
  outcome, and one that is closing ends: that is what `GattClientContract` promises and
  `engine_progress` checks. Nothing obliges a client to do anything.

Deadlock is checked in every run but `service_discovery`: when the queue drops the
DISCONNECT of a link, the engine waits for it for good (section 4), and after an event that
missed its entry the model handles no more.

## 4. Where code and comments disagree

The run `late_orphan` finds `NoOrphanLink` violated in the circumstance `late`: a link
that came up as its deadline fired stays up. `finish_connect_` returns early, nobody
terminates the link, every later `connect()` is refused; the deadline's comment says
that it tears down what exists "so it cannot deliver a stale completion into the next
connection attempt" (`nimble_gattc.cpp:405-406`).

Others are reproduced by a change to the configuration of a run:

| The sentence | What happens | To reproduce |
|---|---|---|
| "BoundedWait a runtime guarantee" (`ble_connection_fsm.h:69-70`) | `now_ms + 5000` wraps to exactly 0 once in 49.7 days, and 0 means no deadline (`.cpp:162`) | `MC_BleConnectionFsmClock.cfg` with `StartMillis = 62`: `BoundedWait` |
| "our own FSM deadline (set right below) is the real timeout authority" (`nimble_gattc.cpp:231-232`) | `connect()` in BACKOFF, as the proxy's slots call it, is accepted by NimBLE and ignored by the machine: no deadline, and no state follows the outcome | `EngineContract.cfg` with `Allowed = {"backoff"}`: `AttemptHasDeadline` |
| "the connection itself is fine, only discovery hung" (`nimble_gattc.cpp:424`) | the discovery deadline ends a connection that nobody meant to discover, 8 s after it came up | `EngineContract.cfg` with `Allowed = {"cached"}`: `OnlyDiscoveryTimesOut` |
| "The only self-driven 'keep trying forever' loop" (`connect_backoff.h:12-14`) | a retry refused at the end of a backoff (the old link is closing, or another client connects) is the last | `ClientSettles.cfg` with `KeepsTrying` as its property |
| "services-done is sent only after every batch was accepted" (`bluetooth_connection_hub.cpp:15`) | the stream goes on while the link is ending; a `GetServices` made then is refused, and if the API refuses that error frame too, the client collects the end of the old stream and its services-done as the answer | `SlotReplies.cfg` with `"services while ending"` among `Requests`: `StreamIsWhole` |
| "Fail fast" for a request without address type (`bluetooth_proxy.cpp:328`) | the slot stays reserved, with no attempt under way: nothing but the next request for the device, or the subscriber's going, frees it | `ProxySlots.cfg` with `Requests = {"untyped"}`: `SlotIsServed` |

Further disagreements that the same modules show and no run is spent on: a
deadline computed across the wrap is a small number and fires at the next poll;
the failure count wraps to 0 after 65536 failures; the shift count is cut to 8
bits before it is capped, so the 257th failure in a row has the shortest delay
(`backoff_delay` with `MaxFailures = 257`); a late completion after the next
`connect()` is reported as the outcome of that one (`UpIsForThePeer` under
`late`); a host callback that precedes the first `loop()` creates the queue with
capacity 0 (`setup`); `gatt_disconnect()` on a link that is already closing
returns an error although its completion follows; a discovery that timed out may
be reported a second time, as a success, when the teardown fails its procedures;
`connect()` on a connected client makes its nodes hear that it is over; a DISCONNECT
event that a full queue drops leaves the engine with a stale handle, every `connect()`
refused and an accepted teardown without an end, where `ble_gatt_client.h:112-113` says
it "always reaches a terminal on_connection_state" (`TeardownCompletes` under
`overflow`).

In the proxy: a slot that is freed while its backend still connects, and reserved for
another device by a request without address type, reports the old device's connection as the
new one's, and streams its services; the theorems of section 5 that exclude this assume typed
requests. `on_service_discovery_done` does not look whether the slot was freed
(`bluetooth_connection_hub.cpp:173`): a late success makes a free slot ESTABLISHED with
address 0 (`Discovered` in the model; no harm follows, `FreedIsQuiet`), a late error stays
latched and becomes the cause that is reported of the next device's end. A read that fails without an attribute is reported for handle 0
(`attr_cb_`, `nimble_gattc.cpp:182`), so that the client's request stays open. "No duplicate
risk" (`bluetooth_proxy.cpp:489-491`) supposes that no batch is under way when the client
asks again: frames of the old stream that are in transit would be collected with the new
one; transit is not modelled.

In the discovery: the status of a procedure's end is not looked at
(`nimble_gattc.cpp:561`), so a discovery that the device or the link cut short is
reported complete, and the proxy streams a shortened list followed by services-done where
`bluetooth_connection_hub.cpp:6-13` forbids exactly that (`TableIsDatabase` without `whole`).
When a discovery reaches its deadline, the proxy frees its slot and releases the table;
events of that discovery that were queued by then index a vector that is empty (`MissEntry`
is reachable: `~undefined` in place of `IndexesFit`).

In the server: `esp32_ble/ble.h:37-43` says that the server's advertising call "simply
takes over", but `ble_gap_adv_start` is refused while advertising is on, so a device with
`advertising: true` answers connections with the other component's callback and the server
never hears of them (`ServerIsFound` without `silenced`). `max_clients` may be above 1,
but nothing advertises while a link is up. After a host reset, after `disable()` and
`enable()`, with `enable_on_boot: false`, or after a refused start, nothing starts
the server's advertising again; after `disable()` the end of a link does, although the stack
is off. A notification may go to a central that did not subscribe, when its handle was used
again while the events of the last link are queued. The read callback is replaced
on the main loop while the host task may be in it (`ble_characteristic.cpp:110`): a data
race, whose outcomes cannot be enumerated.

In the scanner: a scan end that a full queue drops leaves the tracker RUNNING without a
scan, so that `loop()` never restarts it, where `nimble_gattc.cpp:218-219` says it does
"on its own next tick" (`ScanGoesOn` under `lost end`). `stop_scan()` ends the scan at
once, and its cancelled procedure queues an end as well: listeners hear `on_scan_end`
twice, and the state callback fires from IDLE to IDLE, where `esp32_ble_tracker.h:91-93`
says "only from the real RUNNING/IDLE transitions". When the scan was started again in
between, the second end makes the tracker IDLE while the host scans: `stop_scan()` then
does nothing, and `loop()` logs refused starts until the duration ends
(`ScannerStateIsTrue` under `restart`). `ble_tracker.start_scan` with `continuous: false`
scans continuously, because `start_scan()` overwrites what the action has just set. An
advertisement still in the queue at `stop_scan()` reaches the listeners after
`on_scan_end`, although the flush is meant to come "before on_scan_end fires"
(`scan_response_merger.h:107-108`). An `on_scan_end` automation that calls `stop_scan()`
enters itself without end; `MaxAgenda` cuts this off.

## 5. Proofs

`BleConnectionFsmClock_proofs`, for every pair of deadlines, poll interval and
length of observation, provided nothing wraps (`NoWrap`: neither `millis()` nor a
deadline reaches `ClockModulus` during the observation; section 4 shows why it is
needed):

- `TimingCorrect`: `Spec => []TimingInv`. `BoundedWait` is not inductive, for it
  does not say what the deadline is. `TimingInv` adds that a deadline in force is
  the true time of entry plus the relative deadline and that the last poll came
  before it (`DeadlineIsTrue`), that polls are at most `LoopGap` apart, and, for
  the whole attempt, when it began (`ConnectingJustBegan`, `DiscoveringBegan`).
  One lemma covers every accepted event, one every step that accepts none.
- `WaitIsBounded`, `TimeoutsAreDue`: `BoundedWait` and `NoEarlyTimeout` from it.
- `AttemptPromiseKept`: `Spec => KeepsAttemptPromise`, the refinement of
  `ConnectionAttempt` under the mapping `Phase`, `Age`. The bound is both
  deadlines plus `LoopGap - 1` for each.

The same module holds the theorem of `ConnectBackoff`, whose `BackoffSpec` stands beside the
machine's `Spec`:

- `DelaysAreDocumented`: `BackoffSpec => []DelayIsDocumented`, for every width of the shift
  count and any draws, assuming `MaxFailures <= ShiftModulus`: the failures in a row are no
  more than the shift count can tell apart. One failure more and the property fails
  (section 4). `CappedIsDocumented` is about the cap, `JitterIsBounded` about the jitter.

`NimbleGattEngine_proofs`, for any engines, peers, handles and capacities:

- `EngineTypes`: `Spec => []TypeOK`, whatever is in `Allowed`. That the queue never exceeds
  its capacity and a drain never its budget is part of it.
- `AttemptStaysOpen`: `Spec => []AttemptIsOpen`, whatever is in `Allowed`. While an engine is
  CONNECTING nothing has been reported and it holds no handle, so a completion and the
  deadline cannot both report one attempt. Inductive together with `TypeOK`; one lemma per
  action.
- `HandlesAreMine`: `HandleIsMine`, without `overflow`. An engine learns of its link from a
  queued event, so the invariant (`HandlesInv`) speaks of three places: a handle that an
  engine has, or will be given by a queued CONNECT_OK, is of a link of its own, or the
  DISCONNECT of that link comes behind. It survives the reuse of handles because the end of
  the old link is queued before the handle is free. A dropped DISCONNECT breaks it.
- `AttemptsHaveDeadline`: `AttemptHasDeadline`, without `late` and `backoff`, also when events
  are dropped. `AttemptsInv` says that an attempt and its outcome on the way are never both
  there, and find the machine driving no link: then the machine takes the events that start
  the clock.

`GattEngineSessions_proofs`, in orderly circumstances: none of `late`, `overflow`, `reuse`,
which break the promises below, nor of `setup`, in which the queue is created with capacity
0 and the engine hears nothing. `refuse` is admitted throughout, `backoff` and `cached` unless
excluded.

- `UpForThePeer`, `EnginesKeepContract`: `UpIsForThePeer`, and `Spec => KeepsContract`, the
  refinement of `GattClientContract`. The invariant (`LifeInv`) is the life of a connection
  as it is spread over host, queue and engine: an attempt is all its engine has; its outcome
  comes before every other event of the engine, and alone if it is a failure; everything else
  finds the engine connected, or comes behind the event that connects it; the end of a link
  is the last. `SessionInv` then relates it to what the listener was told. The steps are
  grouped by what they do to that life (a host step, an event handled, a call that only
  asks), and each group is shown to be a step of the contract or to leave it.
- `NoLinkIsOrphan`: `NoOrphanLink`, without `backoff`: who knows a link that is up is in a state
  that drives it (`DriveInv`).
- `AnswersAreMatched`, `TimeoutsEndDiscoveries`: `AnswersMatch` and `OnlyDiscoveryTimesOut`,
  without `cached`. `ProcsInv` follows a procedure from the link to the queue: the
  operation an engine waits for is the one of its link or the one of its queued answer and
  there is no second, and a machine in DISCOVERING has a discovery under way, or its end on
  the way, or is about to begin it. With `cached` a connection is discovered by nobody.

`BleClient_proofs`, for any clients, whatever automations do:

- `ClientsUseEngines`: `ClientSpec => Spec`. A client's steps are steps of a user of the
  engines or leave them alone, so that the theorems above hold of the clients' engines.
- `ClientTypes`, `BelievedIsSettled`: `ClientTypeOK` and `EstablishedHasSession`, in every
  circumstance. A client is ESTABLISHED only while its engine's listener session is settled,
  but for the callback that is about to tell it otherwise (`BelievedInv`), which is over
  before a deadline is polled.
- `ClientsKeepToAddress`: a client talks to its configured address only, without `overflow`:
  `HandleIsMine`, and that links and attempts are to the address of their owner.

`BleTracker_proofs`, for any devices, advertisements, table and queue sizes and any nesting
of calls:

- `TrackerTypes`: `Spec => []TypeOK`, in every circumstance. What makes it inductive is
  `SlotInv`: the entry that `stash_adv()` uses again is free until the listeners return,
  whatever they call meanwhile.
- `ScannerIsTrue`: `ScannerStateIsTrue`, without `restart` and `lost end`, which break it.
  `ScanInv`: while the host scans the tracker is RUNNING and no end is queued or being
  handled; while the tracker is RUNNING one of the three is the case; there is room in the
  queue for the end; and no scan is started while one is still to be handled.
- `TrackerKeepsDelivery`: `Spec => KeepsDelivery`, the refinement of `AdvertDelivery`, in every
  circumstance. `WaitInv`: what was given, what the table or the stack holds, and what is
  queued are different advertisements, and those in the queue are the youngest, in their
  order. So taking one from the queue, or from the table, gives one that was never given.
- `MergedWithOwn`: `MergedIsOwn`, in every circumstance. The merger compares addresses only;
  `AnswersInv` says why that suffices: when a response is handled, or was not even reported
  yet, no younger advertisement of its device has been taken from the queue.

`ServiceDiscovery_proofs`, for every device, queue and user:

- `ReadsStayInside`: `Spec => []IndexesFit`. The events of a discovery come in phases
  (services, then the characteristics of each service, then the descriptors of each
  characteristic); what is under way or queued is of one phase, and the phase's end is its
  last event (`QueueInv`). In each phase only the range at the cursor grows, and it ends
  where the table ends (`TableInv`); so the ranges fit after every event, and a discovery
  that stops anywhere leaves them so.
  An event that misses its entry does so for good, and only of a table that was released
  (`StuckInv`).
- `TableMirrorsDevice`: `Spec => []TableIsDatabase`. What is read and what the device has are
  sequences in order of handles, and such sequences are equal when they have the same elements
  (`OrderedEqual`). So there is no induction over the table: it suffices that each of its lists
  is, in order, the handles that the device has in the span of the entry the list belongs to
  (`Mirrors`, `ReadsTable`). `MirrorInv` says how that comes about: as long as nothing was
  dropped or cut short, the lists before the cursor are complete, and the one at the cursor,
  the events that are queued and what the host has left make up the handles of its span
  (`Follows`), in this order. The end of a characteristic is only known when the next one
  arrives, or the service ends; until then it is the one entry that need not be true.

`BleServer_proofs`, for any handles, attributes, values and capacities:

- `ServerStaysFound`: `ServerIsFound`. `LinkInv`: the server has one link at most and none
  while it is advertised, and only its links have subscriptions.
- `ServerStaysCurrent`: `ServerIsCurrent`. The property speaks of an empty queue, so it is
  far from inductive. `KnownInv`: the events in the queue, handled one by one, lead from
  what the loop knows to what the host knows (`Replays`), each of them applicable when its
  turn comes. The host's steps append what they changed (`PushKnown`; the end of a link is
  the replay of its whole farewell), a write is added to both pictures at once
  (`ReplaysMore`), and the loop takes the first event (`HandleKnown`). That the lists of
  subscribers have one entry for each rests on `ListBecomes`, which covers the insertion,
  the change and the removal of an entry.

`BluetoothProxy_proofs`, for any finite set of slots, any devices, handles, length of service
lists and any `Requests` unless one is named:

- `ProxyTypes`: `Spec => []TypeOK`, together with `FreedIsQuiet`: a slot without an address
  streams nothing, and its backend is at most on its way up or down for the device that was
  there before. `TypeOK` alone is not inductive: it takes this to know that no late event
  frees such a slot again, which would report the end of address 0.
- `ProxyAccount`, `ProxySlots`, `ProxyOwesTheEnd`: `SlotsAreCounted`, `OneSlotPerDevice`,
  `EndIsOwed`. Every step is shown to be of one of a few kinds (`Hands`): it leaves the
  addresses as they are, ends one slot and reports it, or gives one reservable slot to a
  device. The three invariants follow from the kind, and not from each of the thirty-odd
  actions anew.
- `ProxyPicture`, `ProxySlotIsServed`: `OldPictureIsOwed` and `SlotIsServed`, assuming
  `"untyped" \notin Requests`: a request without address type moves a slot without a word to
  the client and without asking the backend.
- `ProxyAnswers`: `OwedAnswerIsCurrent`, strengthened by: only a taken slot owes an
  answer (`AckInv`). It rests on `ProxySlots`: a device on two slots could have its
  request superseded on one and answered from the other.
- `ProxyStreamsWhole`: `StreamIsWhole`, for every length of the service list. `StreamInv`
  ties the list to the cursor: a device without a cache has its own services in the table
  from the moment its connection is established until they were all sent (`TableIsReady`),
  and what its client holds is what the cursor says was sent (`HoldsWhatWasSent`). So there
  is no induction over the list: a batch appended to the services before it makes the
  services up to the new cursor (`BatchAppends`). It rests on `ProxySlots` and
  `ProxySlotIsServed`, and assumes of `Requests` that neither `"untyped"` nor `"services
  while ending"` is in it. Both are needed: with either, TLC finds `StreamIsWhole` violated,
  with two devices on one slot for the first (a slot reserved without asking the backend
  gets the link, and the list, of the device that had it before), and as the disagreement
  of section 4 for the second.

Assumptions are the named `ASSUME`s of the modules: positive moduli and bounds,
deadlines between 1 and the modulus, the markers `NoOne`, `NoHandle`, `NoLink`,
`NoDial`, `NoCall` distinct from what they stand beside; for the proxy a finite, nonempty set
of slots, `NoOne` no device, `NoHandle` no handle, and service lists that are not empty; for
the server finitely many characteristics, `NoWrite` no write, and capacities above 0; for the
service table `NoProc` no procedure.

Only model-checked is all liveness: fairness and `ENABLED` are out of the prover's reach. Every
invariant and every action property that a passing run checks is stated by a theorem.

## 6. Not modelled

- Advertisement parsing and AES-CCM: pure functions of bytes, with unit tests.
- Code generation and the validation of configurations: Python at build time. The generated
  table is `BleConnectionTable`.
- In the engine: the MTU, pairing results and the payload of notifications; UUIDs and
  properties in the service table.
- In the BLE client: the nodes' own loops, `set_address` and the lookup of characteristics
  (configuration), two clients of one address.
- In a connection slot: pairing, notification data, connection parameters, the latched cause
  of an end. Only *that* an end is reported is modelled, not its error code.
- In the proxy: pairing, unpairing, clearing of caches, connection parameters, the batching
  of advertisements, the scanner-state frame.
- In the server: which `set_value` action is in force, the frames of `notify()`.
- In the tracker: `disable()` of `esp32_ble`, and scan parameters other than the wish to go on.
- Logging and the drop counters that are only logged.

## 7. Plan

Done: the machine, the backoff, the engine, the client, the scanner, the proxy with its slots,
the service table, the server and the controller; theorems about each of them. What is left, in this order:

1. The proxy over real engines instead of the contract, with `backoff` and `late`: which of
   its theorems survive there. `EnginesKeepContract` covers the orderly circumstances.
2. Pairing and the connection parameters of a slot; the advertisement batch.
