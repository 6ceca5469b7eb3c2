------------------------------ MODULE BleTracker ------------------------------
(***************************************************************************)
(* The tracker (esp32_ble_tracker) and its merger over the NimBLE host's   *)
(* discovery procedure.  Host callbacks only queue reports and the end of  *)
(* a scan; loop() drains the queue, sweeps the merger, and starts a scan   *)
(* again when one is wanted.  Engines cancel the scan for every connect(). *)
(***************************************************************************)
EXTENDS ScanResponseMerger

CONSTANTS
    NoDevice,
    AdvQueueCapacity,   \* 64 in the firmware
    MaxAgenda,          \* bound: how deep listeners' calls nest
    Allowed             \* the circumstances a run admits

\* "restart":  a scan is started while the end of the last is still to be handled.
\* "lost end": the queue may be full when a scan ends.
Circumstances == {"restart", "lost end"}

ASSUME TrackerAssumption ==
    /\ NoDevice \notin Devices
    /\ AdvQueueCapacity \in Nat \ {0}
    /\ MaxAgenda \in Nat
    /\ Allowed \subseteq Circumstances

VARIABLES
    queue,          \* adv_queue_
    scanner,        \* scanner_state_
    continuous,     \* scan_continuous_
    main,           \* where the main thread is in loop()
    scanning,       \* whether the host's discovery procedure runs
    connecting,     \* whether its connection procedure runs
    sent,           \* advertisements the host has reported
    awaited         \* the advertisement each device may still answer for

hostVars == <<scanning, connecting, sent, awaited>>
trackerVars == <<scanner, continuous, main>>
vars == <<mergerVars, queue, trackerVars, hostVars>>

Reports == [type : {"STASH_ADV", "DIRECT", "SCAN_RSP"}, id : AdvertIds, device : Devices]
ScanComplete == [type |-> "SCAN_COMPLETE", id |-> 0, device |-> NoDevice]

TypeOK ==
    /\ MergerTypeOK
    /\ queue \in Seq(Reports \cup {ScanComplete})
    /\ Len(queue) <= AdvQueueCapacity
    /\ scanner \in {"IDLE", "RUNNING"}
    /\ continuous \in BOOLEAN
    /\ main \in {"idle", "drain", "restart"}
    /\ scanning \in BOOLEAN /\ connecting \in BOOLEAN
    /\ sent \in 0 .. MaxAdverts
    /\ awaited \in [Devices -> 0 .. MaxAdverts]

NothingAwaited == [d \in Devices |-> 0]

\* setup() does what the end of loop() does: start a scan if one is wanted.
Init ==
    /\ MergerInit
    /\ agenda = <<>>
    /\ queue = <<>>
    /\ scanner = "IDLE"
    /\ continuous \in BOOLEAN
    /\ main = "restart"
    /\ scanning = FALSE /\ connecting = FALSE
    /\ sent = 0
    /\ awaited = NothingAwaited

EndQueued == \E i \in 1 .. Len(queue) : queue[i] = ScanComplete

\* Unless scan ends may be lost, reports leave room for one.
Reserved(ev) ==
    IF ev = ScanComplete \/ EndQueued \/ "lost end" \in Allowed THEN 0 ELSE 1

\* Variant: room for one more than the capacity.
HasRoomForOneMore(ev) == Len(queue) <= AdvQueueCapacity

HasRoom(ev) == Len(queue) + Reserved(ev) < AdvQueueCapacity

\* push_from_host_task
Push(ev) == queue' = IF HasRoom(ev) THEN Append(queue, ev) ELSE queue

-----------------------------------------------------------------------------
(* The host task.                                                          *)

Advertise(d) ==
    /\ scanning /\ sent < MaxAdverts
    /\ sent' = sent + 1
    /\ \E type \in {"STASH_ADV", "DIRECT"} :
          /\ Push([type |-> type, id |-> sent + 1, device |-> d])
          /\ awaited' = [awaited EXCEPT ![d] = IF type = "DIRECT" THEN 0 ELSE sent + 1]
    /\ UNCHANGED <<scanning, connecting>>

Respond(d) ==
    /\ scanning /\ awaited[d] # 0
    /\ Push([type |-> "SCAN_RSP", id |-> awaited[d], device |-> d])
    /\ awaited' = [awaited EXCEPT ![d] = 0]
    /\ UNCHANGED <<scanning, connecting, sent>>

\* The discovery procedure ends, after its duration or by ble_gap_disc_cancel().
EndDiscovery ==
    /\ scanning' = FALSE
    /\ awaited' = NothingAwaited
    /\ Push(ScanComplete)

ScanTimesOut == scanning /\ EndDiscovery /\ UNCHANGED <<connecting, sent>>

ConnectEnds == connecting /\ connecting' = FALSE /\ UNCHANGED <<queue, scanning, sent, awaited>>

HostStep ==
    /\ \/ \E d \in Devices : Advertise(d) \/ Respond(d)
       \/ ScanTimesOut \/ ConnectEnds
    /\ UNCHANGED <<mergerVars, trackerVars>>

CancelDiscovery ==
    IF scanning THEN EndDiscovery ELSE UNCHANGED <<queue, scanning, awaited>>

\* ble_gap_disc() is refused during either procedure.
CanScan == ~scanning /\ ~connecting

-----------------------------------------------------------------------------
(* What the main thread does of the agenda.                                *)

\* start_scan_
StartScan ==
    IF scanner = "IDLE" /\ CanScan
    THEN scanner' = "RUNNING" /\ scanning' = TRUE
    ELSE UNCHANGED <<scanner, scanning>>

\* Variant: the tracker does not become IDLE.
EndWithoutIdle == <<Op("flush"), Op("listeners")>>

\* The held advertisements, then on_scan_end, then the state.
EndOfScan == <<Op("flush"), Op("listeners"), Op("idle")>>

BecomeIdle ==
    /\ Doing("idle")
    /\ scanner' = "IDLE"
    /\ agenda' = Tail(agenda)
    /\ UNCHANGED <<held, given, queue, continuous, main, hostVars>>

\* stop_scan
Stop ==
    /\ Doing("stop")
    /\ continuous' = FALSE
    /\ IF scanner = "RUNNING"
       THEN CancelDiscovery /\ agenda' = EndOfScan \o Tail(agenda)
       ELSE UNCHANGED <<queue, scanning, awaited>> /\ agenda' = Tail(agenda)
    /\ UNCHANGED <<held, given, scanner, main, connecting, sent>>

\* The ble_tracker.start_scan action: its parameter is overwritten by start_scan().
Start ==
    /\ Doing("start")
    /\ StartScan
    /\ continuous' \in IF scanner = "IDLE" THEN {TRUE} ELSE BOOLEAN
    /\ agenda' = Tail(agenda)
    /\ UNCHANGED <<held, given, queue, main, connecting, sent, awaited>>

\* set_scan_continuous(true), after the stop_scan() of a change of scan mode.
Again ==
    /\ Doing("again")
    /\ continuous' = TRUE
    /\ agenda' = Tail(agenda)
    /\ UNCHANGED <<held, given, queue, scanner, main, hostVars>>

\* A scan can be started without its predecessor's end being taken for its own.
MayStart ==
    \/ "restart" \in Allowed
    \/ /\ ~EndQueued
       /\ \/ scanner = "RUNNING"
          \/ \A i \in 1 .. Len(agenda) : agenda[i].what # "idle"

\* dispatch() and on_scan_end() run automations, which may stop or start the scan.
Listeners ==
    /\ Doing("listeners")
    /\ \/ agenda' = Tail(agenda)
       \/ Len(agenda) < MaxAgenda /\ agenda' = <<Op("stop")>> \o Tail(agenda)
       \/ Len(agenda) < MaxAgenda /\ MayStart /\ agenda' = <<Op("start")>> \o Tail(agenda)
    /\ UNCHANGED <<held, given, queue, trackerVars, hostVars>>

OutsideMerger == UNCHANGED <<queue, trackerVars, hostVars>>

Agenda ==
    \/ BecomeIdle \/ Stop \/ Start \/ Again \/ Listeners
    \/ (KeepAdv \/ Sweep \/ Flush) /\ OutsideMerger

-----------------------------------------------------------------------------
(* loop(), and the calls made between two of them.                         *)

At(place) == main = place /\ agenda = <<>>

LoopBegins ==
    /\ At("idle")
    /\ main' = "drain"
    /\ UNCHANGED <<mergerVars, queue, scanner, continuous, hostVars>>

Pop ==
    /\ At("drain") /\ queue # <<>>
    /\ queue' = Tail(queue)
    /\ LET ev  == Head(queue)
           adv == [id |-> ev.id, device |-> ev.device]
       IN  CASE ev.type = "SCAN_RSP"  -> SubmitScanRsp(adv)
             [] ev.type = "STASH_ADV" -> StashAdv(adv)
             [] ev.type = "DIRECT"    -> Deliver(adv, NoResponse, <<>>) /\ UNCHANGED held
             [] OTHER                 -> agenda' = EndOfScan /\ UNCHANGED <<held, given>>
    /\ UNCHANGED <<trackerVars, hostVars>>

DrainEnds ==
    /\ At("drain") /\ queue = <<>>
    /\ main' = "restart"
    /\ agenda' = IF held = {} THEN <<>> ELSE <<Op("sweep")>>
    /\ UNCHANGED <<held, given, queue, scanner, continuous, hostVars>>

Restart ==
    /\ At("restart")
    /\ main' = "idle"
    /\ IF continuous THEN StartScan ELSE UNCHANGED <<scanner, scanning>>
    /\ UNCHANGED <<mergerVars, queue, continuous, connecting, sent, awaited>>

\* Automations, and the proxy's change of scan mode.
UserCalls ==
    /\ At("idle")
    /\ \/ agenda' = <<Op("stop")>>
       \/ MayStart /\ agenda' = <<Op("start")>>
       \/ agenda' = <<Op("stop"), Op("again")>>
    /\ UNCHANGED <<held, given, queue, trackerVars, hostVars>>

\* An engine's connect(), which the host may still refuse after the scan is cancelled.
EngineConnects ==
    /\ At("idle") /\ ~connecting
    /\ CancelDiscovery
    /\ connecting' \in BOOLEAN
    /\ UNCHANGED <<mergerVars, trackerVars, sent>>

MainStep == Agenda \/ Pop \/ DrainEnds \/ Restart

Next == HostStep \/ MainStep \/ LoopBegins \/ UserCalls \/ EngineConnects

Spec == Init /\ [][Next]_vars

\* The main thread finishes its loop() and begins another; an entry that is swept
\* again and again becomes old enough.
Fairness ==
    /\ WF_vars(MainStep)
    /\ SF_vars(LoopBegins)
    /\ \A i \in AdvertIds :
          SF_vars(Sweep /\ (\E adv \in held \ held' : adv.id = i) /\ OutsideMerger)

FairSpec == Spec /\ Fairness

-----------------------------------------------------------------------------

\* The advertisements taken in and not yet given to listeners.
Waiting ==
    {adv.id : adv \in held}
      \cup {agenda[i].adv.id : i \in {j \in 1 .. Len(agenda) : agenda[j].what = "keep"}}
      \cup {queue[i].id : i \in {j \in 1 .. Len(queue) :
                                   queue[j].type \in {"STASH_ADV", "DIRECT"}}}

Delivery == INSTANCE AdvertDelivery
              WITH Advert <- AdvertIds, waiting <- Waiting,
                   times <- [i \in AdvertIds |-> Len(given[i])]

\* "reuse the slot, so no frame is ever lost": an advertisement that the queue took
\* is given to the listeners, and only once, whatever they call meanwhile.
KeepsDelivery == Delivery!Spec

\* An advertisement is merged with the response to itself, unless the queue dropped
\* the advertisement that the response was for.
MergedIsOwn ==
    \A i \in AdvertIds : \A k \in 1 .. Len(given[i]) :
        LET response == given[i][k]
        IN  \/ response \in {NoResponse, i}
            \/ given[response] = <<>> /\ response \notin Waiting

\* What scan_running() says is true of the host's procedure, up to an end that is
\* still to be handled: stop_scan() stops a scan, loop() resumes one.
ScannerStateIsTrue ==
    /\ scanning => scanner = "RUNNING"
    /\ scanner = "RUNNING" => scanning \/ EndQueued \/ agenda # <<>>

\* Every advertisement taken in is given to the listeners in the end.
EachIsGiven == \A i \in AdvertIds : i \in Waiting ~> given[i] # <<>>

\* "its own loop() then restarts the scan on its own next tick if scan_continuous_ is
\* set": a scan wanted for good, with no connection in the way, runs again and again.
ScanGoesOn == <>[](continuous /\ ~connecting) => []<>scanning
=============================================================================
