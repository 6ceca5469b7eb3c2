----------------------- MODULE NimbleGattEngine_proofs -----------------------
(***************************************************************************)
(* Proofs about NimbleGattEngine, for any number of engines, peers and     *)
(* handles and any queue: its types and attempts in every circumstance,    *)
(* then its links in all but the circumstances a theorem names.            *)
(***************************************************************************)
EXTENDS NimbleGattEngine, TLAPS

\* The state a machine is left in is one of the table's, and only a request can
\* leave it connecting that was not.
LEMMA TableStep ==
    ASSUME NEW s \in ConnStates, NEW ev
    PROVE  /\ After(s, ev) \in ConnStates
           /\ ev # "CONNECT_REQUEST" /\ After(s, ev) = "CONNECTING"
                => s = "CONNECTING" /\ ev \notin Accepts(s)
BY DEF ConnStates, After, Accepts, Target

LEMMA PushTypes ==
    ASSUME QueueTypeOK, NEW ev \in Events, Push(ev)
    PROVE  QueueTypeOK'
<1>1. QueueCapacity \in Nat \ {0}
    BY HostAssumption
<1>2. capacity' \in {0, QueueCapacity}
    BY DEF QueueTypeOK, Push, Created
<1>3. CASE HasRoom
  <2>1. queue' = Append(queue, ev) /\ Len(queue) + 1 <= QueueCapacity
    BY <1>1, <1>3 DEF QueueTypeOK, Push, HasRoom, Created, NoQueue
  <2>2. queue' \in Seq(Events) /\ Len(queue') = Len(queue) + 1
    BY <2>1 DEF QueueTypeOK
  <2>3. QED
    BY <1>2, <2>1, <2>2 DEF QueueTypeOK
<1>4. CASE ~HasRoom
    BY <1>2, <1>4 DEF QueueTypeOK, Push
<1>5. QED
    BY <1>3, <1>4

LEMMA TerminateTypes ==
    ASSUME LinkTypeOK, NEW h, Terminate(h)
    PROVE  LinkTypeOK'
<1>1. CASE CanTerminate(h)
  <2>1. h \in Handles /\ link[h] \in Links
    BY <1>1 DEF CanTerminate, LinkTypeOK
  <2>2. [link[h] EXCEPT !.phase = "closing"] \in Links
    BY <2>1 DEF Links
  <2>3. QED
    BY <1>1, <2>1, <2>2 DEF Terminate, LinkTypeOK
<1>2. CASE ~CanTerminate(h)
    BY <1>2 DEF Terminate, LinkTypeOK
<1>3. QED
    BY <1>1, <1>2

LEMMA RunProcTypes ==
    ASSUME LinkTypeOK, NEW h, CanRun(h), NEW kind \in Ops \cup {"DISC"},
           NEW e \in Engines, RunProc(h, kind, e)
    PROVE  LinkTypeOK'
<1>1. h \in Handles /\ link[h] \in Links
    BY DEF CanRun, LinkTypeOK
<1> DEFINE p == [kind |-> kind, owner |-> e]
<1>2. p \in Procs
    BY DEF Procs
<1>3. Append(link[h].procs, p) \in Seq(Procs)
    BY <1>1, <1>2 DEF Links
<1>4. [link[h] EXCEPT !.procs = Append(@, p)] \in Links
    BY <1>1, <1>3 DEF Links
<1>5. QED
    BY <1>1, <1>4 DEF RunProc, LinkTypeOK

LEMMA HostTypes ==
    ASSUME HostTypeOK, HostStep
    PROVE  HostTypeOK'
<1>1. CASE DialFails
  <2>1. Event("CONNECT_FAIL", dial.owner, NoHandle, "NONE") \in Events
    BY <1>1 DEF DialFails, HostTypeOK, Dials, Event, Events
  <2>2. QED
    BY <1>1, <2>1, PushTypes DEF DialFails, HostTypeOK, LinkTypeOK
<1>2. ASSUME NEW h \in Handles, DialSucceeds(h) PROVE HostTypeOK'
  <2>1. dial \in Dials
    BY <1>2 DEF DialSucceeds, HostTypeOK
  <2>2. Event("CONNECT_OK", dial.owner, h, "NONE") \in Events
    BY <2>1 DEF Dials, Event, Events
  <2>3. [owner |-> dial.owner, peer |-> dial.peer, phase |-> "up", procs |-> <<>>] \in Links
    BY <2>1 DEF Dials, Links
  <2>4. QED
    BY <1>2, <2>2, <2>3, PushTypes DEF DialSucceeds, HostTypeOK, LinkTypeOK
<1>3. ASSUME NEW h \in Handles, ProcEnds(h) PROVE HostTypeOK'
  <2>1. link[h] \in Links /\ link[h].procs # <<>>
    BY <1>3 DEF ProcEnds, HostTypeOK, LinkTypeOK
  <2>2. Head(link[h].procs) \in Procs /\ Tail(link[h].procs) \in Seq(Procs)
    BY <2>1 DEF Links
  <2>3. \A p \in Procs : /\ Event("DISC_DONE", p.owner, NoHandle, "NONE") \in Events
                         /\ p.kind # "DISC"
                              => Event("ATTR_OP", p.owner, NoHandle, p.kind) \in Events
    BY DEF Procs, Event, Events
  <2>4. QueueTypeOK'
    BY <1>3, <2>2, <2>3, PushTypes DEF ProcEnds, HostTypeOK
  <2>5. [link[h] EXCEPT !.procs = Tail(@)] \in Links
    BY <2>1, <2>2 DEF Links
  <2>6. QED
    BY <1>3, <2>4, <2>5 DEF ProcEnds, HostTypeOK, LinkTypeOK
<1>4. ASSUME NEW h \in Handles, LinkBreaks(h) PROVE HostTypeOK'
  <2>1. link[h] \in Links
    BY <1>4 DEF LinkBreaks, HostTypeOK, LinkTypeOK
  <2>2. [link[h] EXCEPT !.phase = "broken"] \in Links
    BY <2>1 DEF Links
  <2>3. QED
    BY <1>4, <2>2 DEF LinkBreaks, HostTypeOK, LinkTypeOK, QueueTypeOK
<1>5. ASSUME NEW h \in Handles, LinkGone(h) PROVE HostTypeOK'
  <2>1. Event("DISCONNECT", link[h].owner, h, "NONE") \in Events
    BY <1>5 DEF LinkGone, HostTypeOK, LinkTypeOK, Links, Event, Events
  <2>2. QED
    BY <1>5, <2>1, PushTypes DEF LinkGone, HostTypeOK, LinkTypeOK
<1>6. ASSUME NEW h \in Handles, Chatter(h) PROVE HostTypeOK'
  <2>1. Event("OTHER", link[h].owner, NoHandle, "NONE") \in Events
    BY <1>6 DEF Chatter, HostTypeOK, LinkTypeOK, Links, Event, Events
  <2>2. QED
    BY <1>6, <2>1, PushTypes DEF Chatter, HostTypeOK, LinkTypeOK
<1>7. QED
    BY <1>1, <1>2, <1>3, <1>4, <1>5, <1>6 DEF HostStep

-----------------------------------------------------------------------------
(* The inductive invariant.  AttemptIsOpen needs nothing but the types:    *)
(* connect() alone leaves a machine connecting, and resets both fields.    *)

Inv == TypeOK /\ AttemptIsOpen

LEMMA InitInv == Init => Inv
<1> SUFFICES ASSUME Init PROVE Inv
    OBVIOUS
<1>1. QueueTypeOK
  <2>1. <<>> \in Seq(Events) /\ Len(<<>>) = 0
    OBVIOUS
  <2>2. QED
    BY <2>1, HostAssumption DEF Init, HostInit, QueueTypeOK
<1>2. LinkTypeOK /\ dial = NoDial
    BY DEF Init, HostInit, LinkTypeOK
<1>3. main \in [at : {"idle", "drain", "poll"}, engine : Engines \cup {NoOne},
                popped : 0 .. MaxEventsPerDrain]
    BY EngineAssumption DEF Init, Idle
<1>4. QED
    BY <1>1, <1>2, <1>3 DEF Init, Inv, TypeOK, HostTypeOK, AttemptIsOpen, ConnStates

\* What Raise leaves in cb and session has its type.
LEMMA RaiseTypes ==
    ASSUME TypeOK, NEW e \in Engines,
           NEW kind \in {"up", "down", "discovered", "undiscovered"}, Raise(e, kind)
    PROVE  /\ cb' \in Callbacks \cup {NoCall}
           /\ session' \in [Engines -> {"none", "asked", "up", "settled"}]
BY DEF TypeOK, Raise, Callbacks

-----------------------------------------------------------------------------
(* One lemma per call of an engine's user.                                 *)

LEMMA ConnectInv ==
    ASSUME Inv, NEW e \in Engines, NEW p \in Peers, NEW s \in ConnStates,
           ConnectFrom(e, p, s), UNCHANGED main
    PROVE  Inv'
<1>1. After(s, "CONNECT_REQUEST") \in ConnStates
    BY TableStep
<1>2. dial' \in Dials
    BY DEF ConnectFrom, Dials
<1>3. TypeOK'
    BY <1>1, <1>2 DEF ConnectFrom, Inv, TypeOK, HostTypeOK, QueueTypeOK, LinkTypeOK
<1>4. AttemptIsOpen'
    BY <1>1 DEF ConnectFrom, MayConnect, Inv, TypeOK, AttemptIsOpen
<1>5. QED
    BY <1>3, <1>4 DEF Inv

LEMMA RetryRefusedInv ==
    ASSUME Inv, NEW e \in Engines, NEW p \in Peers, RetryRefused(e, p), UNCHANGED main
    PROVE  Inv'
<1>1. /\ After(state[e], "BACKOFF_ELAPSED") \in ConnStates
      /\ After(state[e], "BACKOFF_ELAPSED") = "CONNECTING" => state[e] = "CONNECTING"
    BY TableStep DEF Inv, TypeOK
<1>2. TypeOK'
    BY <1>1 DEF RetryRefused, HandleFsmEvent, Inv, TypeOK, hostVars, HostTypeOK,
                QueueTypeOK, LinkTypeOK
<1>3. AttemptIsOpen'
    BY <1>1 DEF RetryRefused, HandleFsmEvent, Inv, TypeOK, AttemptIsOpen
<1>4. QED
    BY <1>2, <1>3 DEF Inv

\* gatt_disconnect(), without what its caller does to cb and session.
LEMMA GattDisconnectInv ==
    ASSUME Inv, NEW e \in Engines, GattDisconnect(e), UNCHANGED <<main, session>>,
           cb' \in Callbacks \cup {NoCall}
    PROVE  Inv'
<1>1. /\ After(state[e], "DISCONNECT_REQUEST") \in ConnStates
      /\ After(state[e], "DISCONNECT_REQUEST") = "CONNECTING" => state[e] = "CONNECTING"
    BY TableStep DEF Inv, TypeOK
<1>2. dial' \in Dials \cup {NoDial}
    BY DEF GattDisconnect, CancelDial, Dials, Inv, TypeOK, HostTypeOK
<1>3. LinkTypeOK'
    BY TerminateTypes DEF GattDisconnect, Inv, TypeOK, HostTypeOK, LinkTypeOK
<1>4. state' \in [Engines -> ConnStates]
    BY <1>1 DEF GattDisconnect, HandleFsmEvent, Inv, TypeOK
<1>5. TypeOK'
    BY <1>2, <1>3, <1>4 DEF GattDisconnect, Inv, TypeOK, HostTypeOK, QueueTypeOK
<1>6. AttemptIsOpen'
    BY <1>1 DEF GattDisconnect, HandleFsmEvent, Inv, TypeOK, AttemptIsOpen
<1>7. QED
    BY <1>5, <1>6 DEF Inv

LEMMA StartOpInv ==
    ASSUME Inv, NEW e \in Engines, NEW op \in Ops, StartOp(e, op), UNCHANGED main
    PROVE  Inv'
<1>1. LinkTypeOK'
    BY RunProcTypes DEF StartOp, MayStart, Inv, TypeOK, HostTypeOK
<1>2. QED
    BY <1>1 DEF StartOp, Inv, TypeOK, HostTypeOK, QueueTypeOK, AttemptIsOpen

LEMMA DiscoverServicesInv ==
    ASSUME Inv, NEW e \in Engines, DiscoverServices(e), UNCHANGED main,
           cb' \in Callbacks \cup {NoCall}
    PROVE  Inv'
<1>1. LinkTypeOK'
    BY RunProcTypes DEF DiscoverServices, Inv, TypeOK, HostTypeOK
<1>2. QED
    BY <1>1 DEF DiscoverServices, engineVars, Inv, TypeOK, HostTypeOK, QueueTypeOK,
                AttemptIsOpen

LEMMA UserCallInv ==
    ASSUME Inv, NEW e \in Engines, UserCall(e)
    PROVE  Inv'
<1>1. state[e] \in ConnStates /\ After(state[e], "BACKOFF_ELAPSED") \in ConnStates
    BY TableStep DEF Inv, TypeOK
<1>2. UNCHANGED main
    BY DEF UserCall
<1>3. CASE \E p \in Peers : Connect(e, p) \/ RetryConnect(e, p)
    BY <1>1, <1>2, <1>3, ConnectInv DEF Connect, RetryConnect
<1>4. CASE \E p \in Peers : RetryRefused(e, p)
    BY <1>2, <1>4, RetryRefusedInv
<1>5. CASE GattDisconnect(e) /\ UNCHANGED <<cb, session>>
    BY <1>2, <1>5, GattDisconnectInv DEF Inv, TypeOK
<1>6. CASE \E op \in Ops : StartOp(e, op)
    BY <1>2, <1>6, StartOpInv
<1>7. QED
    BY <1>3, <1>4, <1>5, <1>6 DEF UserCall

LEMMA CallbackInv ==
    ASSUME Inv, CallbackReturns
    PROVE  Inv'
<1>1. cb \in Callbacks /\ cb' \in Callbacks \cup {NoCall} /\ UNCHANGED <<main, session>>
    BY DEF CallbackReturns, Inv, TypeOK
<1>2. cb.to \in Engines
    BY <1>1 DEF Callbacks
<1>3. CASE DiscoverServices(cb.to)
    BY <1>1, <1>2, <1>3, DiscoverServicesInv
<1>4. CASE GattDisconnect(cb.to)
    BY <1>1, <1>2, <1>4, GattDisconnectInv
<1>5. CASE UNCHANGED <<hostVars, engineVars, target>>
    BY <1>1, <1>5 DEF hostVars, engineVars, Inv, TypeOK, HostTypeOK, QueueTypeOK,
                      LinkTypeOK, AttemptIsOpen
<1>6. QED
    BY <1>3, <1>4, <1>5 DEF CallbackReturns

-----------------------------------------------------------------------------
(* One lemma per event handler.  Each leaves queue, main, dial, capacity   *)
(* and target to Pop, so it speaks of the rest of the invariant only.      *)

\* What the handlers may disturb of Inv.
HandledInv ==
    /\ LinkTypeOK
    /\ state \in [Engines -> ConnStates]
    /\ connHandle \in [Engines -> Handles \cup {NoHandle}]
    /\ reported \in [Engines -> BOOLEAN]
    /\ pendingOp \in [Engines -> Ops \cup {"NONE"}]
    /\ cb \in Callbacks \cup {NoCall}
    /\ session \in [Engines -> {"none", "asked", "up", "settled"}]
    /\ AttemptIsOpen

\* finish_connect_ leaves the machine out of CONNECTING: a reported attempt was over
\* already, and both outcomes end one that is not.
LEMMA FinishConnectLeaves ==
    ASSUME Inv, NEW e \in Engines,
           NEW ev \in {"GAP_CONNECT_OK", "GAP_CONNECT_FAIL"},
           NEW kind \in {"up", "down"}, FinishConnect(e, ev, kind)
    PROVE  /\ state' \in [Engines -> ConnStates] /\ reported' \in [Engines -> BOOLEAN]
           /\ cb' \in Callbacks \cup {NoCall}
           /\ session' \in [Engines -> {"none", "asked", "up", "settled"}]
           /\ state'[e] # "CONNECTING"
           /\ \A f \in Engines \ {e} : state'[f] = state[f] /\ reported'[f] = reported[f]
<1>1. /\ After(state[e], ev) \in ConnStates
      /\ After(state[e], ev) # "CONNECTING"
    BY DEF Inv, TypeOK, ConnStates, After, Accepts, Target
<1>2. CASE reported[e]
    BY <1>2 DEF FinishConnect, RaiseNothing, Inv, TypeOK, AttemptIsOpen
<1>3. CASE ~reported[e]
  <2>1. ReportOutcome(e, ev, kind)
    BY <1>3 DEF FinishConnect
  <2>2. /\ cb' \in Callbacks \cup {NoCall}
        /\ session' \in [Engines -> {"none", "asked", "up", "settled"}]
    BY <2>1, RaiseTypes DEF ReportOutcome, Inv
  <2>3. QED
    BY <1>1, <2>1, <2>2 DEF ReportOutcome, HandleFsmEvent, Inv, TypeOK
<1>4. QED
    BY <1>2, <1>3

LEMMA ConnectEventInv ==
    ASSUME Inv, NEW e \in Engines,
           \/ \E h \in Handles \cup {NoHandle} : HandleConnectOk(e, h)
           \/ HandleConnectFail(e)
    PROVE  HandledInv'
<1>1. PICK ev \in {"GAP_CONNECT_OK", "GAP_CONNECT_FAIL"}, kind \in {"up", "down"} :
          FinishConnect(e, ev, kind)
    BY DEF HandleConnectOk, HandleConnectFail
<1>2. PICK h \in Handles \cup {NoHandle} :
          connHandle' = [connHandle EXCEPT ![e] = h] /\ UNCHANGED <<link, pendingOp>>
    BY DEF HandleConnectOk, HandleConnectFail
<1>3. AttemptIsOpen'
    BY <1>1, <1>2, FinishConnectLeaves DEF Inv, TypeOK, AttemptIsOpen
<1>4. QED
    BY <1>1, <1>2, <1>3, FinishConnectLeaves DEF HandledInv, Inv, TypeOK, HostTypeOK,
                                                 LinkTypeOK

LEMMA DisconnectEventInv ==
    ASSUME Inv, NEW e \in Engines, HandleDisconnect(e)
    PROVE  HandledInv'
<1>1. /\ After(state[e], "GAP_DISCONNECT_EVT") \in ConnStates
      /\ After(state[e], "GAP_DISCONNECT_EVT") = "CONNECTING" => state[e] = "CONNECTING"
    BY TableStep DEF Inv, TypeOK
<1>2. /\ cb' \in Callbacks \cup {NoCall}
      /\ session' \in [Engines -> {"none", "asked", "up", "settled"}]
    BY RaiseTypes DEF HandleDisconnect, ReportEnd, Inv
<1>3. AttemptIsOpen'
    BY <1>1 DEF HandleDisconnect, ForgetLink, ReportEnd, HandleFsmEvent, Inv, TypeOK,
                AttemptIsOpen
<1>4. QED
    BY <1>1, <1>2, <1>3 DEF HandleDisconnect, ForgetLink, ReportEnd, HandleFsmEvent,
                            HandledInv, Inv, TypeOK, HostTypeOK, LinkTypeOK

LEMMA DiscoveryEventInv ==
    ASSUME Inv, NEW e \in Engines, HandleDiscDone(e)
    PROVE  HandledInv'
<1>1. \A ev \in {"DISCOVER_DONE", "DISCOVER_TIMEOUT"} :
          /\ After(state[e], ev) \in ConnStates
          /\ After(state[e], ev) = "CONNECTING" => state[e] = "CONNECTING"
    BY TableStep DEF Inv, TypeOK
<1>2. UNCHANGED <<connHandle, reported, pendingOp>>
    BY DEF HandleDiscDone
<1>3. CASE /\ CanRun(connHandle[e]) /\ RunProc(connHandle[e], "DISC", e)
           /\ RaiseNothing /\ UNCHANGED state
  <2>1. LinkTypeOK'
    BY <1>3, RunProcTypes DEF Inv, TypeOK, HostTypeOK
  <2>2. QED
    BY <1>2, <1>3, <2>1 DEF RaiseNothing, HandledInv, Inv, TypeOK, AttemptIsOpen
<1>4. CASE Undiscovered(e)
  <2>1. LinkTypeOK'
    BY <1>4, TerminateTypes DEF Undiscovered, Inv, TypeOK, HostTypeOK
  <2>2. /\ cb' \in Callbacks \cup {NoCall}
        /\ session' \in [Engines -> {"none", "asked", "up", "settled"}]
    BY <1>4, RaiseTypes DEF Undiscovered, Inv
  <2>3. QED
    BY <1>1, <1>2, <1>4, <2>1, <2>2
       DEF Undiscovered, HandleFsmEvent, HandledInv, Inv, TypeOK, AttemptIsOpen
<1>5. CASE Discovered(e)
  <2>1. /\ cb' \in Callbacks \cup {NoCall}
        /\ session' \in [Engines -> {"none", "asked", "up", "settled"}]
    BY <1>5, RaiseTypes DEF Discovered, Inv
  <2>2. QED
    BY <1>1, <1>2, <1>5, <2>1
       DEF Discovered, HandleFsmEvent, HandledInv, Inv, TypeOK, HostTypeOK, LinkTypeOK,
           AttemptIsOpen
<1>6. QED
    BY <1>3, <1>4, <1>5 DEF HandleDiscDone

LEMMA OtherEventInv ==
    ASSUME Inv, NEW e \in Engines, HandleAttrOp(e) \/ HandleOther(e)
    PROVE  HandledInv'
BY DEF HandleAttrOp, HandleOther, RaiseNothing, engineVars, HandledInv, Inv, TypeOK,
       HostTypeOK, LinkTypeOK, AttemptIsOpen

-----------------------------------------------------------------------------
(* The steps of loop().                                                    *)

LEMMA PopInv ==
    ASSUME Inv, Pop
    PROVE  Inv'
<1> DEFINE ev == Head(queue)
<1>1. ev \in Events /\ queue' \in Seq(Events) /\ Len(queue') <= QueueCapacity
  <2>1. queue \in Seq(Events) /\ queue # <<>> /\ queue' = Tail(queue)
    BY DEF Pop, Inv, TypeOK, HostTypeOK, QueueTypeOK
  <2>2. Len(queue) \in Nat /\ Len(queue') = Len(queue) - 1
    BY <2>1
  <2>3. QED
    BY <2>1, <2>2, HostAssumption DEF Inv, TypeOK, HostTypeOK, QueueTypeOK
<1>2. ev.owner \in Engines /\ ev.handle \in Handles \cup {NoHandle}
    BY <1>1 DEF Events
<1>3. \/ HandleConnectOk(ev.owner, ev.handle)
      \/ HandleConnectFail(ev.owner)
      \/ HandleDisconnect(ev.owner)
      \/ HandleDiscDone(ev.owner)
      \/ HandleAttrOp(ev.owner)
      \/ HandleOther(ev.owner)
  <2>1. ev.type \in {"CONNECT_OK", "CONNECT_FAIL", "DISCONNECT", "DISC_DONE",
                     "ATTR_OP", "OTHER"}
    BY <1>1 DEF Events
  <2>2. CASE ev.type = "CONNECT_OK"
    BY <2>2 DEF Pop, Receiver
  <2>3. CASE ev.type = "CONNECT_FAIL"
    BY <2>3 DEF Pop, Receiver
  <2>4. CASE ev.type = "DISCONNECT"
    BY <2>4 DEF Pop, Receiver
  <2>5. CASE ev.type = "DISC_DONE"
    BY <2>5 DEF Pop, Receiver
  <2>6. CASE ev.type = "ATTR_OP"
    BY <2>6 DEF Pop, Receiver
  <2>7. CASE ev.type = "OTHER"
    BY <2>7 DEF Pop, Receiver
  <2>8. QED
    BY <2>1, <2>2, <2>3, <2>4, <2>5, <2>6, <2>7
<1>4. HandledInv'
    BY <1>2, <1>3, ConnectEventInv, DisconnectEventInv, DiscoveryEventInv, OtherEventInv
<1>5. main' \in [at : {"idle", "drain", "poll"}, engine : Engines \cup {NoOne},
                 popped : 0 .. MaxEventsPerDrain]
  <2>1. main.popped + 1 \in 0 .. MaxEventsPerDrain
    BY EngineAssumption DEF Pop, Inv, TypeOK
  <2>2. QED
    BY <2>1 DEF Pop, Inv, TypeOK
<1>6. QED
    BY <1>1, <1>4, <1>5 DEF Pop, HandledInv, Inv, TypeOK, HostTypeOK, QueueTypeOK

LEMMA LoopBeginsInv ==
    ASSUME Inv, NEW e \in Engines, LoopBegins(e)
    PROVE  Inv'
<1>1. capacity' \in {NoQueue, 0, QueueCapacity}
    BY DEF LoopBegins, Created, Inv, TypeOK, HostTypeOK, QueueTypeOK
<1>2. 0 \in 0 .. MaxEventsPerDrain
    BY EngineAssumption
<1>3. QED
    BY <1>1, <1>2 DEF LoopBegins, engineVars, Inv, TypeOK, HostTypeOK, QueueTypeOK,
                      LinkTypeOK, AttemptIsOpen

LEMMA LoopMovesOnInv ==
    ASSUME Inv, DrainEnds \/ PollQuiet
    PROVE  Inv'
<1>1. 0 \in 0 .. MaxEventsPerDrain
    BY EngineAssumption
<1>2. main' \in [at : {"idle", "drain", "poll"}, engine : Engines \cup {NoOne},
                 popped : 0 .. MaxEventsPerDrain]
    BY <1>1 DEF DrainEnds, PollQuiet, Idle, Inv, TypeOK
<1>3. UNCHANGED <<hostVars, engineVars, cb, session, target>>
    BY DEF DrainEnds, PollQuiet
<1>4. QED
    BY <1>2, <1>3 DEF hostVars, engineVars, Inv, TypeOK, HostTypeOK, QueueTypeOK,
                      LinkTypeOK, AttemptIsOpen

LEMMA PollFiresInv ==
    ASSUME Inv, NEW e \in Engines, PollFires(e)
    PROVE  Inv'
<1> DEFINE next == After(state[e], TimeoutEvent(state[e]))
<1>1. next \in ConnStates /\ next # "CONNECTING"
    BY DEF PollFires, Deadlined, Inv, TypeOK, ConnStates, TimeoutEvent, After, Accepts,
           Target
<1>2. state' = [state EXCEPT ![e] = next]
    BY DEF PollFires, HandleFsmEvent
<1>3. UNCHANGED <<queue, capacity, connHandle, target>>
    BY DEF PollFires
<1>4. dial' \in Dials \cup {NoDial}
    BY DEF PollFires, CancelDial, Dials, Inv, TypeOK, HostTypeOK
<1>5. LinkTypeOK'
    BY TerminateTypes DEF PollFires, Inv, TypeOK, HostTypeOK, LinkTypeOK
<1>6. /\ cb' \in Callbacks \cup {NoCall}
      /\ session' \in [Engines -> {"none", "asked", "up", "settled"}]
    BY RaiseTypes DEF PollFires, RaiseNothing, Inv, TypeOK
<1>7. /\ reported' \in [Engines -> BOOLEAN]
      /\ \A f \in Engines \ {e} : reported'[f] = reported[f]
    BY DEF PollFires, Inv, TypeOK
<1>8. pendingOp' \in [Engines -> Ops \cup {"NONE"}]
    BY DEF PollFires, Inv, TypeOK
<1>9. main' \in [at : {"idle", "drain", "poll"}, engine : Engines \cup {NoOne},
                 popped : 0 .. MaxEventsPerDrain]
    BY EngineAssumption DEF PollFires, Idle
<1>10. TypeOK'
    BY <1>1, <1>2, <1>3, <1>4, <1>5, <1>6, <1>7, <1>8, <1>9
       DEF Inv, TypeOK, HostTypeOK, QueueTypeOK
<1>11. AttemptIsOpen'
    BY <1>1, <1>2, <1>3, <1>7 DEF Inv, TypeOK, AttemptIsOpen
<1>12. QED
    BY <1>10, <1>11 DEF Inv

-----------------------------------------------------------------------------

LEMMA NextInv == Inv /\ [Next]_vars => Inv'
<1> SUFFICES ASSUME Inv, [Next]_vars PROVE Inv'
    OBVIOUS
<1>1. CASE HostStep /\ UNCHANGED <<engineVars, main, cb, session, target>>
    BY <1>1, HostTypes DEF engineVars, Inv, TypeOK, AttemptIsOpen
<1>2. ASSUME NEW e \in Engines, UserCall(e) PROVE Inv'
    BY <1>2, UserCallInv
<1>3. ASSUME NEW e \in Engines, Loop(e) PROVE Inv'
    BY <1>3, LoopBeginsInv, PollFiresInv DEF Loop
<1>4. CASE Pop
    BY <1>4, PopInv
<1>5. CASE DrainEnds \/ PollQuiet
    BY <1>5, LoopMovesOnInv
<1>6. CASE CallbackReturns
    BY <1>6, CallbackInv
<1>7. CASE UNCHANGED vars
    BY <1>7 DEF vars, hostVars, engineVars, Inv, TypeOK, HostTypeOK, QueueTypeOK,
                LinkTypeOK, AttemptIsOpen
<1>8. QED
    BY <1>1, <1>2, <1>3, <1>4, <1>5, <1>6, <1>7 DEF Next

LEMMA InvHolds == Spec => []Inv
BY InitInv, NextInv, PTL DEF Spec

\* The engines, the queue and the host keep to their types: in particular the queue
\* never outgrows its capacity and the drain never its budget, whatever the host
\* and the users do.
THEOREM EngineTypes == Spec => []TypeOK
<1>1. Inv => TypeOK
    BY DEF Inv
<1>2. QED
    BY <1>1, InvHolds, PTL

\* A deadline and a late completion never both report one connect(): as long as the
\* deadline can fire, the attempt is unreported and no link is taken for its own.
\* Holds under every circumstance, late and lost events included.
THEOREM AttemptStaysOpen == Spec => []AttemptIsOpen
<1>1. Inv => AttemptIsOpen
    BY DEF Inv
<1>2. QED
    BY <1>1, InvHolds, PTL
-----------------------------------------------------------------------------
(* What an engine knows of its links.  Between the host and the engines    *)
(* lies the queue, so every fact about the two is a fact about three       *)
(* places: the host's connection procedure and links, the events on their  *)
(* way, and the engines' fields.  Each theorem names the circumstances it  *)
(* excludes.                                                               *)

Positions == 1 .. Len(queue)

\* The event at position i is about engine e.
IsFor(i, e) == queue[i].owner = e
Started(i, e, h) == queue[i].type = "CONNECT_OK" /\ queue[i].owner = e /\ queue[i].handle = h
Ended(i, e, h) == queue[i].type = "DISCONNECT" /\ queue[i].owner = e /\ queue[i].handle = h

Owns(e, h) == link[h] # NoLink /\ link[h].owner = e

Dialing(e) == dial # NoDial /\ dial.owner = e

-----------------------------------------------------------------------------
(* Lemmas about the queue.                                                 *)

LEMMA Appended ==
    ASSUME queue \in Seq(Events), NEW ev \in Events, queue' = Append(queue, ev)
    PROVE  /\ Len(queue) \in Nat
           /\ Len(queue') = Len(queue) + 1
           /\ Positions' = Positions \cup {Len(queue) + 1}
           /\ queue'[Len(queue) + 1] = ev
           /\ \A i \in Positions : queue'[i] = queue[i] /\ i < Len(queue) + 1
BY DEF Positions

LEMMA Popped ==
    ASSUME queue \in Seq(Events), queue # <<>>, queue' = Tail(queue)
    PROVE  /\ Len(queue) \in Nat /\ Len(queue') = Len(queue) - 1
           /\ Head(queue) = queue[1] /\ 1 \in Positions
           /\ \A i \in Positions' : i + 1 \in Positions /\ queue'[i] = queue[i + 1]
           /\ \A i \in Positions : i # 1 => i - 1 \in Positions' /\ queue'[i - 1] = queue[i]
BY DEF Positions

\* The queue drops nothing while the main loop keeps up, but what comes before it was
\* created.
LEMMA PushKeeps ==
    ASSUME QueueTypeOK, NEW ev \in Events, Push(ev), KeepsUp, "overflow" \notin Allowed
    PROVE  /\ capacity = QueueCapacity => capacity' = capacity /\ queue' = Append(queue, ev)
           /\ capacity # QueueCapacity => capacity' # QueueCapacity /\ queue' = queue
<1>1. Len(queue) \in Nat /\ capacity \in {NoQueue, 0, QueueCapacity} /\ QueueCapacity \in Nat \ {0}
    BY HostAssumption DEF QueueTypeOK
<1>2. CASE capacity = NoQueue
    BY <1>1, <1>2 DEF Push, HasRoom, Created, NoQueue
<1>3. CASE capacity # NoQueue
  <2>1. HasRoom /\ Len(queue) < capacity
    BY <1>3 DEF KeepsUp, HasRoom, Created
  <2>2. QED
    BY <1>1, <1>3, <2>1 DEF Push, Created
<1>4. QED
    BY <1>2, <1>3

LEMMA EventTypes ==
    ASSUME NEW i \in Positions, queue \in Seq(Events)
    PROVE  /\ queue[i] \in Events /\ queue[i].owner \in Engines
           /\ queue[i].handle \in Handles \cup {NoHandle}
           /\ queue[i].type \in {"CONNECT_OK", "CONNECT_FAIL", "DISCONNECT", "DISC_DONE",
                                 "ATTR_OP", "OTHER"}
           /\ i \in Nat /\ 1 <= i
<1>1. queue[i] \in Events /\ i \in Nat /\ 1 <= i
    BY DEF Positions
<1>2. QED
    BY <1>1 DEF Events
-----------------------------------------------------------------------------
(* Steps that begin and end no link, and put nothing in the queue.         *)

\* A call into the host leaves a link its owner and its peer, and runs a procedure on it
\* only for the engine whose handle it is.
LinkKept(h) ==
    IF link[h] = NoLink THEN link'[h] = NoLink
    ELSE /\ link'[h] # NoLink
         /\ link'[h].owner = link[h].owner /\ link'[h].peer = link[h].peer
         /\ \/ link'[h].procs = link[h].procs
            \/ \E e \in Engines, k \in Ops \cup {"DISC"} :
                  /\ connHandle[e] = h
                  /\ link'[h].procs = Append(link[h].procs, [kind |-> k, owner |-> e])

LinksKept == \A h \in Handles : LinkKept(h)

Calm ==
    /\ LinksKept
    /\ dial' = dial \/ (dial # NoDial /\ dial' = [dial EXCEPT !.cancelled = TRUE])
    /\ capacity' \in {capacity, Created(QueueCapacity)}
    /\ UNCHANGED <<queue, connHandle, target>>

LEMMA TerminateKeeps ==
    ASSUME LinkTypeOK, NEW h, Terminate(h)
    PROVE  LinksKept
<1>1. LinkTypeOK'
    BY TerminateTypes
<1> SUFFICES ASSUME NEW k \in Handles PROVE LinkKept(k)
    BY DEF LinksKept
<1>2. CASE CanTerminate(h) /\ k = h
  <2>1. link[h] \in Links /\ link'[h] = [link[h] EXCEPT !.phase = "closing"]
    BY <1>2 DEF Terminate, CanTerminate, LinkTypeOK
  <2>2. link'[h] \in Links /\ NoLink \notin Links
    BY <2>1, HostAssumption DEF Links
  <2>3. QED
    BY <1>2, <2>1, <2>2 DEF LinkKept, Links
<1>3. CASE ~(CanTerminate(h) /\ k = h)
    BY <1>3 DEF Terminate, CanTerminate, LinkTypeOK, LinkKept
<1>4. QED
    BY <1>2, <1>3

LEMMA RunProcKeeps ==
    ASSUME LinkTypeOK, NEW e \in Engines, NEW kind \in Ops \cup {"DISC"},
           CanRun(connHandle[e]), RunProc(connHandle[e], kind, e)
    PROVE  LinksKept
<1> DEFINE h == connHandle[e]
<1>1. LinkTypeOK' /\ h \in Handles
    BY RunProcTypes DEF CanRun
<1> SUFFICES ASSUME NEW k \in Handles PROVE LinkKept(k)
    BY DEF LinksKept
<1>2. CASE k = h
  <2>1. /\ link[h] \in Links
        /\ link'[h] = [link[h] EXCEPT !.procs = Append(@, [kind |-> kind, owner |-> e])]
    BY <1>1, <1>2 DEF RunProc, CanRun, LinkTypeOK
  <2>2. /\ link'[h].owner = link[h].owner /\ link'[h].peer = link[h].peer
        /\ link'[h].procs = Append(link[h].procs, [kind |-> kind, owner |-> e])
    BY <2>1 DEF Links
  <2>3. link'[h] # NoLink /\ link[h] # NoLink
    <3>1. link'[h] \in Links \cup {NoLink}
        BY <1>1 DEF LinkTypeOK
    <3>2. [link[h] EXCEPT !.procs = Append(@, [kind |-> kind, owner |-> e])] \in Links
      <4>1. [kind |-> kind, owner |-> e] \in Procs
          BY DEF Procs
      <4>2. Append(link[h].procs, [kind |-> kind, owner |-> e]) \in Seq(Procs)
          BY <2>1, <4>1 DEF Links
      <4>3. QED
          BY <2>1, <4>2 DEF Links
    <3>3. QED
        BY <2>1, <3>2, HostAssumption
  <2>4. QED
    BY <1>2, <2>2, <2>3 DEF LinkKept
<1>3. CASE k # h
    BY <1>1, <1>3 DEF RunProc, LinkTypeOK, LinkKept
<1>4. QED
    BY <1>2, <1>3

LEMMA Untouched ==
    ASSUME UNCHANGED link
    PROVE  LinksKept
BY DEF LinksKept, LinkKept

\* GattDisconnect, the calls that run a procedure, and the polls.
LEMMA CallsAreCalm ==
    ASSUME Inv, NEW e \in Engines,
           \/ GattDisconnect(e)
           \/ \E op \in Ops : StartOp(e, op)
           \/ DiscoverServices(e)
           \/ PollFires(e)
    PROVE  Calm
<1>1. LinkTypeOK
    BY DEF Inv, TypeOK, HostTypeOK
<1>2. CASE GattDisconnect(e)
  <2>1. LinksKept
    BY <1>1, <1>2, TerminateKeeps, Untouched DEF GattDisconnect
  <2>2. QED
    BY <1>2, <2>1 DEF GattDisconnect, CancelDial, Calm
<1>3. ASSUME NEW op \in Ops, StartOp(e, op) PROVE Calm
  <2>1. LinksKept
    BY <1>1, <1>3, RunProcKeeps DEF StartOp, MayStart
  <2>2. QED
    BY <1>3, <2>1 DEF StartOp, Calm
<1>4. CASE DiscoverServices(e)
  <2>1. LinksKept
    BY <1>1, <1>4, RunProcKeeps DEF DiscoverServices
  <2>2. QED
    BY <1>4, <2>1 DEF DiscoverServices, engineVars, Calm
<1>5. CASE PollFires(e)
  <2>1. LinksKept
    BY <1>1, <1>5, TerminateKeeps, Untouched DEF PollFires
  <2>2. QED
    BY <1>5, <2>1 DEF PollFires, CancelDial, Calm
<1>6. QED
    BY <1>2, <1>3, <1>4, <1>5

\* A step of the host, an accepted connect(), an event of the queue, or a calm step.
LEMMA StepKinds ==
    ASSUME Inv, [Next]_vars
    PROVE  \/ HostStep /\ UNCHANGED <<connHandle, target>>
           \/ \E e \in Engines, p \in Peers, s \in ConnStates :
                 ConnectFrom(e, p, s) /\ NothingLate(e)
           \/ Pop
           \/ Calm
<1>1. CASE HostStep /\ UNCHANGED <<engineVars, main, cb, session, target>>
    BY <1>1 DEF engineVars
<1>2. ASSUME NEW e \in Engines, UserCall(e)
      PROVE  \/ Calm
             \/ \E p \in Peers, s \in ConnStates : ConnectFrom(e, p, s) /\ NothingLate(e)
  <2>1. state[e] \in ConnStates /\ After(state[e], "BACKOFF_ELAPSED") \in ConnStates
    BY TableStep DEF Inv, TypeOK
  <2>2. ASSUME NEW p \in Peers, RetryRefused(e, p) PROVE Calm
    BY <2>2, Untouched DEF RetryRefused, hostVars, Calm
  <2>3. QED
    BY <1>2, <2>1, <2>2, CallsAreCalm DEF UserCall, Connect, RetryConnect
<1>3. CASE CallbackReturns
  <2>1. cb.to \in Engines
    BY <1>3 DEF CallbackReturns, Inv, TypeOK, Callbacks
  <2>2. CASE UNCHANGED <<hostVars, engineVars, target>>
    BY <2>2, Untouched DEF hostVars, engineVars, Calm
  <2>3. QED
    BY <1>3, <2>1, <2>2, CallsAreCalm DEF CallbackReturns
<1>4. ASSUME NEW e \in Engines, LoopBegins(e) PROVE Calm
    BY <1>4, Untouched DEF LoopBegins, engineVars, Calm
<1>5. CASE DrainEnds \/ PollQuiet
    BY <1>5, Untouched DEF DrainEnds, PollQuiet, hostVars, engineVars, Calm
<1>6. CASE UNCHANGED vars
    BY <1>6, Untouched DEF vars, hostVars, engineVars, Calm
<1>7. QED
    BY <1>1, <1>2, <1>3, <1>4, <1>5, <1>6, CallsAreCalm DEF Next, Loop

\* What handling an event does, apart from the machine and the listener.
LEMMA PopKinds ==
    ASSUME Inv, Pop
    PROVE  LET ev == Head(queue)
           IN  /\ queue # <<>> /\ queue' = Tail(queue)
               /\ LinksKept
               /\ UNCHANGED <<capacity, dial, target>>
               /\ connHandle' = CASE ev.type = "CONNECT_OK" ->
                                        [connHandle EXCEPT ![ev.owner] = ev.handle]
                                  [] ev.type \in {"CONNECT_FAIL", "DISCONNECT"} ->
                                        [connHandle EXCEPT ![ev.owner] = NoHandle]
                                  [] OTHER -> connHandle
<1> DEFINE ev == Head(queue)
           e == ev.owner
<1>1. queue # <<>> /\ queue' = Tail(queue) /\ UNCHANGED <<capacity, dial, target>>
    BY DEF Pop
<1>2. LinkTypeOK /\ ev \in Events /\ e \in Engines
  <2>1. queue \in Seq(Events)
    BY DEF Inv, TypeOK, HostTypeOK, QueueTypeOK
  <2>2. ev \in Events
    BY <1>1, <2>1
  <2>3. QED
    BY <2>2 DEF Events, Inv, TypeOK, HostTypeOK
<1>3. CASE ev.type = "CONNECT_OK"
  <2>1. HandleConnectOk(e, ev.handle)
    BY <1>3 DEF Pop, Receiver
  <2>2. QED
    BY <1>1, <1>3, <2>1, Untouched DEF HandleConnectOk
<1>4. CASE ev.type = "CONNECT_FAIL"
  <2>1. HandleConnectFail(e)
    BY <1>4 DEF Pop, Receiver
  <2>2. QED
    BY <1>1, <1>4, <2>1, Untouched DEF HandleConnectFail
<1>5. CASE ev.type = "DISCONNECT"
  <2>1. HandleDisconnect(e)
    BY <1>5 DEF Pop, Receiver
  <2>2. QED
    BY <1>1, <1>5, <2>1, Untouched DEF HandleDisconnect, ForgetLink
<1>6. CASE ev.type = "DISC_DONE"
  <2>1. HandleDiscDone(e)
    BY <1>6 DEF Pop, Receiver
  <2>2. LinksKept
    BY <1>2, <2>1, Untouched, TerminateKeeps, RunProcKeeps
       DEF HandleDiscDone, Undiscovered, Discovered
  <2>3. QED
    BY <1>1, <1>6, <2>1, <2>2 DEF HandleDiscDone
<1>7. CASE ev.type \in {"ATTR_OP", "OTHER"}
  <2>1. HandleAttrOp(e) \/ HandleOther(e)
    BY <1>7 DEF Pop, Receiver
  <2>2. QED
    BY <1>1, <1>7, <2>1, Untouched DEF HandleAttrOp, HandleOther, engineVars
<1>8. QED
    BY <1>2, <1>3, <1>4, <1>5, <1>6, <1>7 DEF Events

-----------------------------------------------------------------------------
(* The events of the host's steps.                                         *)

SendsFail(ev) ==
    /\ Dialing(ev.owner) /\ dial' = NoDial /\ UNCHANGED link
    /\ ev = Event("CONNECT_FAIL", ev.owner, NoHandle, "NONE")

SendsOk(ev, h) ==
    /\ Dialing(ev.owner) /\ dial' = NoDial
    /\ dial.cancelled => "late" \in Allowed
    /\ EndQueued(h) => "reuse" \in Allowed
    /\ link[h] = NoLink /\ link'[h] # NoLink
    /\ link'[h].owner = ev.owner /\ link'[h].peer = dial.peer /\ link'[h].procs = <<>>
    /\ \A k \in Handles : k # h => link'[k] = link[k]
    /\ ev = Event("CONNECT_OK", ev.owner, h, "NONE")

SendsEnd(ev, h) ==
    /\ Owns(ev.owner, h) /\ link[h].procs = <<>> /\ link[h].phase = "broken"
    /\ link'[h] = NoLink
    /\ \A k \in Handles : k # h => link'[k] = link[k]
    /\ UNCHANGED dial
    /\ ev = Event("DISCONNECT", ev.owner, h, "NONE")

SendsAnswer(ev, h) ==
    /\ link[h] # NoLink /\ link'[h] # NoLink
    /\ link[h].procs # <<>> /\ link'[h].procs = Tail(link[h].procs)
    /\ link'[h].owner = link[h].owner /\ link'[h].peer = link[h].peer
    /\ link'[h].phase = link[h].phase
    /\ \A k \in Handles : k # h => link'[k] = link[k]
    /\ UNCHANGED dial
    /\ LET p == Head(link[h].procs)
       IN  /\ ev.owner = p.owner
           /\ IF p.kind = "DISC" THEN ev.type = "DISC_DONE"
              ELSE ev.type = "ATTR_OP" /\ ev.op = p.kind

SendsOther(ev, h) == Owns(ev.owner, h) /\ ev.type = "OTHER" /\ UNCHANGED <<dial, link>>

\* The link goes on to its end; who owns it and what runs on it stays.
Breaks(h) ==
    /\ link[h] # NoLink /\ link'[h] # NoLink
    /\ link'[h].owner = link[h].owner /\ link'[h].peer = link[h].peer
    /\ link'[h].procs = link[h].procs /\ link'[h].phase = "broken"
    /\ \A k \in Handles : k # h => link'[k] = link[k]
    /\ UNCHANGED <<queue, capacity, dial>>

LEMMA HostKinds ==
    ASSUME Inv, HostStep
    PROVE  \/ \E h \in Handles : Breaks(h)
           \/ \E ev \in Events :
                 /\ Push(ev) /\ KeepsUp
                 /\ \/ SendsFail(ev)
                    \/ \E h \in Handles : \/ SendsOk(ev, h) \/ SendsEnd(ev, h)
                                          \/ SendsAnswer(ev, h) \/ SendsOther(ev, h)
<1>1. LinkTypeOK /\ dial \in Dials \cup {NoDial} /\ NoLink \notin Links
    BY HostAssumption DEF Inv, TypeOK, HostTypeOK
<1> DEFINE Goal == \/ \E h \in Handles : Breaks(h)
                   \/ \E ev \in Events :
                         /\ Push(ev) /\ KeepsUp
                         /\ \/ SendsFail(ev)
                            \/ \E h \in Handles : \/ SendsOk(ev, h) \/ SendsEnd(ev, h)
                                                  \/ SendsAnswer(ev, h) \/ SendsOther(ev, h)
<1>2. CASE DialFails
  <2> DEFINE ev == Event("CONNECT_FAIL", dial.owner, NoHandle, "NONE")
  <2>1. ev \in Events /\ ev.owner = dial.owner
    BY <1>1, <1>2 DEF DialFails, Dials, Event, Events
  <2>2. SendsFail(ev)
    BY <1>2, <2>1 DEF DialFails, SendsFail, Dialing
  <2>3. QED
    BY <1>2, <2>1, <2>2 DEF DialFails
<1>3. ASSUME NEW h \in Handles, DialSucceeds(h) PROVE Goal
  <2>1. dial \in Dials /\ dial.owner \in Engines
    BY <1>1, <1>3 DEF DialSucceeds, Dials
  <2> DEFINE ev == Event("CONNECT_OK", dial.owner, h, "NONE")
             new == [owner |-> dial.owner, peer |-> dial.peer, phase |-> "up", procs |-> <<>>]
  <2>2. ev \in Events /\ ev.owner = dial.owner
    BY <2>1 DEF Event, Events
  <2>3. new \in Links
    BY <2>1 DEF Dials, Links
  <2>4. link[h] = NoLink /\ link' = [link EXCEPT ![h] = new] /\ Push(ev) /\ KeepsUp
    BY <1>3 DEF DialSucceeds
  <2>5. /\ link'[h] = new /\ new # NoLink /\ new.owner = dial.owner /\ new.peer = dial.peer
        /\ new.procs = <<>>
        /\ \A k \in Handles : k # h => link'[k] = link[k]
    BY <1>1, <2>3, <2>4 DEF LinkTypeOK
  <2>6. SendsOk(ev, h)
    BY <1>3, <2>2, <2>4, <2>5 DEF DialSucceeds, SendsOk, Dialing
  <2>7. QED
    BY <2>2, <2>4, <2>6
<1>4. ASSUME NEW h \in Handles, ProcEnds(h) PROVE Goal
  <2> DEFINE p == Head(link[h].procs)
             done == Event("DISC_DONE", p.owner, NoHandle, "NONE")
             answer == Event("ATTR_OP", p.owner, NoHandle, p.kind)
  <2>1. link[h] \in Links /\ link[h].procs # <<>> /\ p \in Procs
    BY <1>1, <1>4 DEF ProcEnds, LinkTypeOK, Links
  <2>2. p.owner \in Engines /\ p.kind \in Ops \cup {"DISC"}
    BY <2>1 DEF Procs
  <2>3. done \in Events /\ (p.kind # "DISC" => answer \in Events)
    BY <2>2 DEF Event, Events
  <2>4. PICK ev \in Events : /\ Push(ev) /\ KeepsUp /\ ev.owner = p.owner
                             /\ IF p.kind = "DISC" THEN ev.type = "DISC_DONE"
                                ELSE ev.type = "ATTR_OP" /\ ev.op = p.kind
    BY <1>4, <2>3 DEF ProcEnds, Event
  <2>5. /\ link'[h] = [link[h] EXCEPT !.procs = Tail(@)]
        /\ \A k \in Handles : k # h => link'[k] = link[k]
        /\ link[h] # NoLink /\ UNCHANGED dial
    BY <1>1, <1>4 DEF ProcEnds, LinkTypeOK
  <2>6. [link[h] EXCEPT !.procs = Tail(@)] \in Links
    <3> HIDE DEF Goal, p
    <3>1. Tail(link[h].procs) \in Seq(Procs)
        BY <2>1 DEF Links
    <3>2. QED
        BY <2>1, <3>1 DEF Links
  <2>7. SendsAnswer(ev, h)
    BY <1>1, <2>1, <2>4, <2>5, <2>6 DEF SendsAnswer, Links
  <2>8. QED
    BY <2>4, <2>7
<1>5. ASSUME NEW h \in Handles, LinkBreaks(h) PROVE Goal
  <2>1. link[h] \in Links
    BY <1>1, <1>5 DEF LinkBreaks, LinkTypeOK
  <2>2. [link[h] EXCEPT !.phase = "broken"] \in Links
    BY <2>1 DEF Links
  <2>3. Breaks(h)
    BY <1>1, <1>5, <2>1, <2>2 DEF LinkBreaks, LinkTypeOK, Links, Breaks
  <2>4. QED
    BY <2>3
<1>6. ASSUME NEW h \in Handles, LinkGone(h) PROVE Goal
  <2>1. link[h] \in Links /\ link[h].owner \in Engines
    BY <1>1, <1>6 DEF LinkGone, LinkTypeOK, Links
  <2> DEFINE ev == Event("DISCONNECT", link[h].owner, h, "NONE")
  <2>2. ev \in Events /\ ev.owner = link[h].owner
    BY <2>1 DEF Event, Events
  <2>3. SendsEnd(ev, h)
    BY <1>1, <1>6, <2>2 DEF LinkGone, LinkTypeOK, SendsEnd, Owns
  <2>4. QED
    BY <1>6, <2>2, <2>3 DEF LinkGone
<1>7. ASSUME NEW h \in Handles, Chatter(h) PROVE Goal
  <2>1. link[h].owner \in Engines
    BY <1>1, <1>7 DEF Chatter, LinkTypeOK, Links
  <2> DEFINE ev == Event("OTHER", link[h].owner, NoHandle, "NONE")
  <2>2. ev \in Events /\ ev.type = "OTHER" /\ ev.owner = link[h].owner
    BY <2>1 DEF Event, Events
  <2>3. SendsOther(ev, h)
    BY <1>7, <2>2 DEF Chatter, SendsOther, Owns
  <2>4. QED
    BY <1>7, <2>2, <2>3 DEF Chatter
<1>8. QED
    BY <1>2, <1>3, <1>4, <1>5, <1>6, <1>7 DEF HostStep

-----------------------------------------------------------------------------
(* The handles engines call NimBLE with.                                   *)

\* A queue created by the host's first event holds nothing, ever.
QueueInv ==
    capacity # QueueCapacity =>
        queue = <<>> /\ connHandle = [e \in Engines |-> NoHandle]

\* An engine's handle, or one it is about to be given, is of a link of its own unless
\* the end of that link comes behind.
HeldInv ==
    \A e \in Engines, h \in Handles : connHandle[e] = h =>
        Owns(e, h) \/ \E i \in Positions : Ended(i, e, h)

GivenInv ==
    \A e \in Engines, h \in Handles : \A i \in Positions : Started(i, e, h) =>
        Owns(e, h) \/ \E j \in Positions : i < j /\ Ended(j, e, h)

\* The events of the two ends of a link are of no operation.
PlainInv == \A i \in Positions : queue[i].type = "DISCONNECT" => queue[i].op = "NONE"

HandlesInv == QueueInv /\ HeldInv /\ GivenInv /\ PlainInv

\* An event appended that says nothing of a link's end or beginning but of the one that
\* the step ends or begins.
LEMMA HandlesPushed ==
    ASSUME Inv, HandlesInv, NEW ev \in Events, queue' = Append(queue, ev),
           UNCHANGED connHandle, capacity' = capacity, capacity = QueueCapacity,
           ev.type = "DISCONNECT" => ev.op = "NONE",
           \A e \in Engines, h \in Handles :
              /\ Owns(e, h) =>
                    \/ Owns(e, h)'
                    \/ ev.type = "DISCONNECT" /\ ev.owner = e /\ ev.handle = h
              /\ ev.type = "CONNECT_OK" /\ ev.owner = e /\ ev.handle = h => Owns(e, h)'
    PROVE  HandlesInv'
<1> DEFINE n == Len(queue) + 1
<1>1. /\ n \in Positions' /\ queue'[n] = ev
      /\ Positions' = Positions \cup {n}
      /\ \A i \in Positions : i \in Positions' /\ queue'[i] = queue[i] /\ i < n
    BY Appended DEF Inv, TypeOK, HostTypeOK, QueueTypeOK
<1>2. QueueInv'
    BY DEF QueueInv
<1>3. HeldInv'
  <2> SUFFICES ASSUME NEW e \in Engines, NEW h \in Handles, connHandle[e] = h
               PROVE  Owns(e, h)' \/ \E i \in Positions' : Ended(i, e, h)'
    BY DEF HeldInv
  <2>1. Owns(e, h) \/ \E i \in Positions : Ended(i, e, h)
    BY DEF HandlesInv, HeldInv
  <2>2. QED
    BY <1>1, <2>1 DEF Ended
<1>4. GivenInv'
  <2> SUFFICES ASSUME NEW e \in Engines, NEW h \in Handles, NEW i \in Positions', Started(i, e, h)'
               PROVE  \/ Owns(e, h)' \/ \E j \in Positions' : i < j /\ Ended(j, e, h)'
    BY DEF GivenInv
  <2>1. CASE i = n
    BY <1>1, <2>1 DEF Started
  <2>2. CASE i \in Positions
    <3>1. Started(i, e, h)
        BY <1>1, <2>2 DEF Started
    <3>2. Owns(e, h) \/ \E j \in Positions : i < j /\ Ended(j, e, h)
        BY <2>2, <3>1 DEF HandlesInv, GivenInv
    <3>3. QED
        BY <1>1, <2>2, <3>2 DEF Ended
  <2>3. QED
    BY <1>1, <2>1, <2>2
<1>5. PlainInv'
    BY <1>1 DEF HandlesInv, PlainInv
<1>6. QED
    BY <1>2, <1>3, <1>4, <1>5 DEF HandlesInv

\* A step of the host drops its event only when nothing was in the queue.
LEMMA HandlesHost ==
    ASSUME Inv, HandlesInv, "overflow" \notin Allowed,
           HostStep, UNCHANGED <<connHandle, target>>
    PROVE  HandlesInv'
<1>1. QueueTypeOK /\ LinkTypeOK /\ dial \in Dials \cup {NoDial} /\ NoLink \notin Links
    BY HostAssumption DEF Inv, TypeOK, HostTypeOK
<1>2. ASSUME NEW ev \in Events, Push(ev), KeepsUp,
             ev.type = "DISCONNECT" => ev.op = "NONE",
             \A e \in Engines, h \in Handles :
                /\ Owns(e, h) =>
                      \/ Owns(e, h)'
                      \/ ev.type = "DISCONNECT" /\ ev.owner = e /\ ev.handle = h
                /\ ev.type = "CONNECT_OK" /\ ev.owner = e /\ ev.handle = h => Owns(e, h)'
      PROVE  HandlesInv'
  <2>1. CASE capacity = QueueCapacity
    <3>1. capacity' = capacity /\ queue' = Append(queue, ev)
        BY <1>1, <1>2, <2>1, PushKeeps
    <3>2. QED
        BY <1>2, <2>1, <3>1, HandlesPushed
  <2>2. CASE capacity # QueueCapacity
    <3>1. queue' = <<>> /\ queue = <<>> /\ Positions' = {}
      <4>1. queue' = queue /\ queue = <<>>
          BY <1>1, <1>2, <2>2, PushKeeps DEF HandlesInv, QueueInv
      <4>2. QED
          BY <4>1 DEF Positions
    <3>2. \A e \in Engines : connHandle'[e] \notin Handles
        BY <2>2, HostAssumption DEF HandlesInv, QueueInv
    <3>3. QueueInv'
        BY <2>2, <3>1 DEF HandlesInv, QueueInv
    <3>4. QED
        BY <3>1, <3>2, <3>3 DEF HandlesInv, HeldInv, GivenInv, PlainInv
  <2>3. QED
    BY <2>1, <2>2
<1>3. ASSUME NEW h \in Handles, Breaks(h) PROVE HandlesInv'
  <2>1. \A e \in Engines, k \in Handles : Owns(e, k) <=> Owns(e, k)'
    BY <1>3 DEF Breaks, Owns
  <2>2. UNCHANGED <<queue, capacity>>
    BY <1>3 DEF Breaks
  <2>3. QED
    BY <2>1, <2>2 DEF HandlesInv, QueueInv, HeldInv, GivenInv, PlainInv, Positions,
                      Started, Ended
<1>4. ASSUME NEW ev \in Events, Push(ev), KeepsUp,
             \/ SendsFail(ev)
             \/ \E h \in Handles : \/ SendsOk(ev, h) \/ SendsEnd(ev, h)
                                   \/ SendsAnswer(ev, h) \/ SendsOther(ev, h)
      PROVE  HandlesInv'
  <2>1. CASE SendsFail(ev)
    BY <1>2, <1>4, <2>1 DEF SendsFail, Event, Owns
  <2>2. ASSUME NEW h \in Handles, SendsOk(ev, h) PROVE HandlesInv'
    BY <1>2, <1>4, <2>2 DEF SendsOk, Event, Owns
  <2>3. ASSUME NEW h \in Handles, SendsEnd(ev, h) PROVE HandlesInv'
    BY <1>2, <1>4, <2>3 DEF SendsEnd, Event, Owns
  <2>4. ASSUME NEW h \in Handles, SendsAnswer(ev, h) PROVE HandlesInv'
    <3>1. ev.type \notin {"DISCONNECT", "CONNECT_OK"}
        BY <2>4 DEF SendsAnswer
    <3>2. \A e \in Engines, k \in Handles : Owns(e, k) => Owns(e, k)'
        BY <2>4 DEF SendsAnswer, Owns
    <3>3. QED
        BY <1>2, <1>4, <3>1, <3>2
  <2>5. ASSUME NEW h \in Handles, SendsOther(ev, h) PROVE HandlesInv'
    BY <1>2, <1>4, <2>5 DEF SendsOther, Owns
  <2>6. QED
    BY <1>4, <2>1, <2>2, <2>3, <2>4, <2>5
<1>5. QED
    BY <1>3, <1>4, HostKinds

LEMMA HandlesCalm ==
    ASSUME Inv, HandlesInv, Calm
    PROVE  HandlesInv'
<1>1. /\ UNCHANGED <<queue, connHandle>>
      /\ capacity' # QueueCapacity => capacity # QueueCapacity
    BY DEF Calm, Created
<1>2. \A e \in Engines, h \in Handles : Owns(e, h) => Owns(e, h)'
    BY DEF Calm, LinksKept, LinkKept, Owns
<1>3. QED
    BY <1>1, <1>2 DEF HandlesInv, QueueInv, HeldInv, GivenInv, PlainInv, Positions,
                      Started, Ended

LEMMA HandlesPop ==
    ASSUME Inv, HandlesInv, Pop
    PROVE  HandlesInv'
<1> DEFINE ev == Head(queue)
           a == ev.owner
<1>1. /\ queue \in Seq(Events) /\ queue # <<>> /\ queue' = Tail(queue)
      /\ UNCHANGED capacity
      /\ connHandle \in [Engines -> Handles \cup {NoHandle}] /\ NoHandle \notin Handles
    BY PopKinds, HostAssumption DEF Inv, TypeOK, HostTypeOK, QueueTypeOK
<1>2. /\ ev = queue[1] /\ 1 \in Positions /\ a \in Engines
      /\ \A i \in Positions' : i \in Int /\ i + 1 \in Positions /\ queue'[i] = queue[i + 1]
      /\ \A i \in Positions : i \in Int /\ (i # 1 => i - 1 \in Positions' /\ queue'[i - 1] = queue[i])
    BY <1>1, Popped, EventTypes DEF Positions
<1>3. \A e \in Engines, h \in Handles : Owns(e, h) => Owns(e, h)'
    BY PopKinds DEF LinksKept, LinkKept, Owns
<1>4. QueueInv'
    BY <1>1 DEF HandlesInv, QueueInv
<1>5. HeldInv'
  <2> SUFFICES ASSUME NEW e \in Engines, NEW h \in Handles, connHandle'[e] = h
               PROVE  Owns(e, h)' \/ \E i \in Positions' : Ended(i, e, h)'
    BY DEF HeldInv
  <2>1. CASE a = e /\ ev.type = "CONNECT_OK"
    <3>1. h = ev.handle
        BY <1>1, <2>1, PopKinds
    <3>2. Started(1, e, h)
        BY <1>2, <2>1, <3>1 DEF Started
    <3>3. Owns(e, h) \/ \E j \in Positions : 1 < j /\ Ended(j, e, h)
        BY <1>2, <3>2 DEF HandlesInv, GivenInv
    <3>4. QED
        BY <1>2, <1>3, <3>3 DEF Ended
  <2>2. CASE ~(a = e /\ ev.type = "CONNECT_OK")
    <3>1. connHandle[e] = h /\ ~(a = e /\ ev.type = "DISCONNECT")
        BY <1>1, <2>2, PopKinds
    <3>2. Owns(e, h) \/ \E i \in Positions : Ended(i, e, h)
        BY <3>1 DEF HandlesInv, HeldInv
    <3>3. ~Ended(1, e, h)
        BY <1>2, <3>1 DEF Ended
    <3>4. QED
        BY <1>2, <1>3, <3>2, <3>3 DEF Ended
  <2>3. QED
    BY <2>1, <2>2
<1>6. GivenInv'
  <2> SUFFICES ASSUME NEW e \in Engines, NEW h \in Handles, NEW i \in Positions', Started(i, e, h)'
               PROVE  Owns(e, h)' \/ \E j \in Positions' : i < j /\ Ended(j, e, h)'
    BY DEF GivenInv
  <2>1. i + 1 \in Positions /\ Started(i + 1, e, h)
    BY <1>2 DEF Started
  <2>2. Owns(e, h) \/ \E j \in Positions : i + 1 < j /\ Ended(j, e, h)
    BY <2>1 DEF HandlesInv, GivenInv
  <2>3. ASSUME NEW j \in Positions, i + 1 < j, Ended(j, e, h)
        PROVE  j - 1 \in Positions' /\ i < j - 1 /\ Ended(j - 1, e, h)'
    BY <1>2, <2>1, <2>3 DEF Ended, Positions
  <2>4. QED
    BY <1>3, <2>2, <2>3
<1>7. PlainInv'
    BY <1>2 DEF HandlesInv, PlainInv
<1>8. QED
    BY <1>4, <1>5, <1>6, <1>7 DEF HandlesInv

LEMMA HandlesNext ==
    ASSUME "overflow" \notin Allowed, Inv, HandlesInv, [Next]_vars
    PROVE  HandlesInv'
<1>1. ASSUME NEW e \in Engines, NEW p \in Peers, NEW s \in ConnStates, ConnectFrom(e, p, s)
      PROVE  HandlesInv'
    BY <1>1 DEF ConnectFrom, HandlesInv, QueueInv, HeldInv, GivenInv, PlainInv, Positions,
                Started, Ended, Owns
<1>2. QED
    BY <1>1, StepKinds, HandlesHost, HandlesPop, HandlesCalm

\* While the queue overflows nothing, an engine never calls NimBLE with the handle of
\* a link that is another engine's without being about to hear that its own link is
\* gone (conn_handle_ in nimble_gattc.cpp): whatever crosses the deadline, is retried,
\* set up early, refused or reused.
THEOREM HandlesAreMine ==
    ASSUME "overflow" \notin Allowed
    PROVE  Spec => []HandleIsMine
<1>1. Init => HandlesInv
  <2> SUFFICES ASSUME Init PROVE HandlesInv
    OBVIOUS
  <2>1. Positions = {}
    BY DEF Init, HostInit, Positions
  <2>2. QED
    BY <2>1, HostAssumption DEF Init, HostInit, HandlesInv, QueueInv, HeldInv, GivenInv, PlainInv
<1>2. Inv /\ HandlesInv /\ [Next]_vars => HandlesInv'
    BY HandlesNext
<1>3. Inv /\ HandlesInv => HandleIsMine
  <2> SUFFICES ASSUME Inv, HandlesInv, NEW e \in Engines, connHandle[e] # NoHandle
               PROVE  \/ Owns(e, connHandle[e])
                      \/ \E i \in Positions : queue[i] = Event("DISCONNECT", e, connHandle[e], "NONE")
    BY DEF HandleIsMine, Owns, Positions
  <2>1. connHandle[e] \in Handles
    BY DEF Inv, TypeOK
  <2>2. Owns(e, connHandle[e]) \/ \E i \in Positions : Ended(i, e, connHandle[e])
    BY <2>1 DEF HandlesInv, HeldInv
  <2>3. ASSUME NEW i \in Positions, Ended(i, e, connHandle[e])
        PROVE  queue[i] = Event("DISCONNECT", e, connHandle[e], "NONE")
    <3>1. queue[i] \in Events /\ queue[i].op = "NONE"
        BY <2>3, EventTypes DEF Ended, HandlesInv, PlainInv, Inv, TypeOK, HostTypeOK, QueueTypeOK
    <3>2. QED
        BY <2>3, <3>1 DEF Ended, Event, Events
  <2>4. QED
    BY <2>2, <2>3
<1>4. QED
    BY <1>1, <1>2, <1>3, InvHolds, PTL DEF Spec

-----------------------------------------------------------------------------
(* The outcome of an attempt.                                              *)

Results == {"CONNECT_OK", "CONNECT_FAIL"}

\* The states a machine is in only while its engine has a link.
Driven == {"DISCOVERING", "READY", "DISCONNECTING"}

\* An engine's attempt, or its outcome on the way, is the only one, and finds the
\* machine driving no link.
OutcomeInv ==
    /\ \A e \in Engines : Dialing(e) =>
          state[e] \notin Driven /\ \A i \in Positions : IsFor(i, e) => queue[i].type \notin Results
    /\ \A i \in Positions : queue[i].type \in Results =>
          /\ state[queue[i].owner] \notin Driven
          /\ queue[i].type = "CONNECT_OK" => queue[i].handle \in Handles
          /\ \A j \in Positions : queue[j].owner = queue[i].owner /\ queue[j].type \in Results => i = j

DrivenInv ==
    \A e \in Engines :
        /\ state[e] \in Driven => connHandle[e] # NoHandle
        /\ state[e] # "SCANNING"

AttemptsInv == OutcomeInv /\ DrivenInv

LEMMA Moves ==
    ASSUME NEW s \in ConnStates, NEW ev
    PROVE  /\ After(s, ev) \in Driven => s \in Driven \/ (ev = "GAP_CONNECT_OK" /\ s = "CONNECTING")
           /\ After(s, ev) = "SCANNING" => s = "SCANNING" \/ ev = "SCAN_START"
           /\ After(s, "GAP_DISCONNECT_EVT") \notin Driven
           /\ s = "CONNECTING" /\ After(s, ev) # s =>
                 ev \in {"GAP_CONNECT_OK", "GAP_CONNECT_FAIL", "CONNECT_TIMEOUT",
                         "DROP_UNSOLICITED_PAIRING"}
BY DEF ConnStates, After, Accepts, Target, Driven

\* Nothing but the outcome of an attempt sets a machine driving a link, and nothing but
\* connect() makes a listener wait for one.
Steady(e) ==
    /\ state'[e] \in Driven => state[e] \in Driven
    /\ state'[e] = "SCANNING" => state[e] = "SCANNING"
    /\ session'[e] = "asked" =>
          /\ session[e] = "asked"
          /\ state[e] = "CONNECTING" => state'[e] = "CONNECTING"

LEMMA CalmIsSteady ==
    ASSUME Inv, [Next]_vars, ~Pop
    PROVE  \/ HostStep /\ UNCHANGED <<engineVars, main, cb, session, target>>
           \/ Calm /\ \A d \in Engines : Steady(d)
           \/ \E e \in Engines, p \in Peers, s \in ConnStates :
                 /\ ConnectFrom(e, p, s) /\ NothingLate(e)
                 /\ s = After(state[e], "BACKOFF_ELAPSED")
                       \/ (s = state[e] /\ (s = "BACKOFF" => "backoff" \in Allowed))
<1>1. /\ state \in [Engines -> ConnStates]
      /\ session \in [Engines -> {"none", "asked", "up", "settled"}]
    BY DEF Inv, TypeOK
<1> DEFINE Stays == \A d \in Engines : Steady(d)
<1>2. CASE HostStep /\ UNCHANGED <<engineVars, main, cb, session, target>>
    BY <1>2
<1>3. ASSUME NEW e \in Engines, NEW ev, HandleFsmEvent(e, ev), ev \notin {"GAP_CONNECT_OK", "SCAN_START"},
             \/ session'[e] = session[e] /\ ev \notin {"GAP_CONNECT_FAIL", "CONNECT_TIMEOUT", "DROP_UNSOLICITED_PAIRING"}
             \/ session'[e] # "asked",
             \A d \in Engines : d # e => session'[d] = session[d]
      PROVE  Stays
  <2>1. state' = [state EXCEPT ![e] = After(state[e], ev)]
    BY <1>3 DEF HandleFsmEvent
  <2>2. \A d \in Engines : d # e => state'[d] = state[d]
    BY <1>1, <2>1
  <2>3. state'[e] = After(state[e], ev) /\ state[e] \in ConnStates
    BY <1>1, <2>1
  <2>4. /\ After(state[e], ev) \in Driven => state[e] \in Driven
        /\ After(state[e], ev) = "SCANNING" => state[e] = "SCANNING"
        /\ state[e] = "CONNECTING" /\ After(state[e], ev) # state[e] =>
              ev \in {"GAP_CONNECT_FAIL", "CONNECT_TIMEOUT", "DROP_UNSOLICITED_PAIRING"}
    BY <1>3, <2>3, Moves
  <2>5. QED
    BY <1>3, <2>2, <2>3, <2>4 DEF Steady
<1>4. ASSUME NEW e \in Engines, GattDisconnect(e), UNCHANGED session PROVE Calm /\ Stays
  <2>1. HandleFsmEvent(e, "DISCONNECT_REQUEST") \/ UNCHANGED state
    BY <1>4 DEF GattDisconnect
  <2>2. QED
    BY <1>3, <1>4, <2>1, CallsAreCalm DEF Steady
<1>5. ASSUME NEW e \in Engines, UserCall(e)
      PROVE  \/ Calm /\ Stays
             \/ \E p \in Peers, s \in ConnStates :
                 /\ ConnectFrom(e, p, s) /\ NothingLate(e)
                 /\ s = After(state[e], "BACKOFF_ELAPSED")
                       \/ (s = state[e] /\ (s = "BACKOFF" => "backoff" \in Allowed))
  <2>1. state[e] \in ConnStates /\ After(state[e], "BACKOFF_ELAPSED") \in ConnStates
    BY <1>1, TableStep
  <2>2. ASSUME NEW p \in Peers, RetryRefused(e, p) PROVE Calm /\ Stays
    BY <1>3, <2>2, Untouched DEF RetryRefused, hostVars, Calm
  <2>3. ASSUME NEW op \in Ops, StartOp(e, op) PROVE Calm /\ Stays
    BY <2>3, CallsAreCalm DEF StartOp, Steady
  <2>4. QED
    BY <1>4, <1>5, <2>1, <2>2, <2>3 DEF UserCall, Connect, RetryConnect
<1>6. CASE CallbackReturns
  <2>1. cb.to \in Engines /\ UNCHANGED session
    BY <1>6 DEF CallbackReturns, Inv, TypeOK, Callbacks
  <2>2. CASE UNCHANGED <<hostVars, engineVars, target>>
    BY <2>1, <2>2, Untouched DEF hostVars, engineVars, Calm, Steady
  <2>3. CASE DiscoverServices(cb.to)
    BY <2>1, <2>3, CallsAreCalm DEF DiscoverServices, engineVars, Steady
  <2>4. QED
    BY <1>4, <1>6, <2>1, <2>2, <2>3 DEF CallbackReturns
<1>7. ASSUME NEW e \in Engines, LoopBegins(e) PROVE Calm /\ Stays
    BY <1>7, Untouched DEF LoopBegins, engineVars, Calm, Steady
<1>8. CASE DrainEnds \/ PollQuiet \/ UNCHANGED vars
    BY <1>8, Untouched DEF DrainEnds, PollQuiet, vars, hostVars, engineVars, Calm, Steady
<1>9. ASSUME NEW e \in Engines, PollFires(e) PROVE Calm /\ Stays
  <2>1. HandleFsmEvent(e, TimeoutEvent(state[e]))
    BY <1>9 DEF PollFires
  <2>2. /\ session'[e] # "asked"
        /\ \A d \in Engines : d # e => session'[d] = session[d]
    <3>1. state[e] = "CONNECTING" => ~reported[e]
        BY DEF Inv, AttemptIsOpen
    <3>2. Raise(e, "down") \/ Raise(e, "undiscovered")
        BY <1>9, <3>1 DEF PollFires
    <3>3. QED
        BY <1>1, <3>2 DEF Raise
  <2>3. TimeoutEvent(state[e]) \notin {"GAP_CONNECT_OK", "SCAN_START"}
    BY DEF TimeoutEvent
  <2>4. QED
    BY <1>3, <1>9, <2>1, <2>2, <2>3, CallsAreCalm
<1>10. QED
    BY <1>2, <1>5, <1>6, <1>7, <1>8, <1>9 DEF Next, Loop

LEMMA AttemptsHost ==
    ASSUME Inv, AttemptsInv, HostStep, UNCHANGED connHandle, UNCHANGED state
    PROVE  AttemptsInv'
<1>1. queue \in Seq(Events)
    BY DEF Inv, TypeOK, HostTypeOK, QueueTypeOK
<1>2. DrivenInv'
    BY DEF AttemptsInv, DrivenInv
<1>3. ASSUME NEW h \in Handles, Breaks(h) PROVE OutcomeInv'
    BY <1>3 DEF Breaks, AttemptsInv, OutcomeInv, Dialing, IsFor, Positions
<1>4. ASSUME NEW ev \in Events, Push(ev),
             \/ SendsFail(ev)
             \/ \E h \in Handles : \/ SendsOk(ev, h) \/ SendsEnd(ev, h)
                                   \/ SendsAnswer(ev, h) \/ SendsOther(ev, h)
      PROVE  OutcomeInv'
  <2>1. /\ ev.owner \in Engines
        /\ \A e \in Engines : Dialing(e)' => Dialing(e)
        /\ ev.type \in Results =>
              /\ Dialing(ev.owner) /\ dial' = NoDial
              /\ ev.type = "CONNECT_OK" => ev.handle \in Handles
    <3>1. \A h : SendsAnswer(ev, h) \/ SendsOther(ev, h) \/ SendsEnd(ev, h)
                    => ev.type \notin Results /\ UNCHANGED dial
        BY DEF SendsAnswer, SendsOther, SendsEnd, Event, Results
    <3>2. \A h \in Handles : SendsOk(ev, h) => Dialing(ev.owner) /\ dial' = NoDial /\ ev.handle \in Handles
        BY DEF SendsOk, Event
    <3>3. SendsFail(ev) => Dialing(ev.owner) /\ dial' = NoDial /\ ev.type = "CONNECT_FAIL"
        BY DEF SendsFail, Event
    <3>4. ev.owner \in Engines
        BY DEF Events
    <3>5. QED
        BY <1>4, <3>1, <3>2, <3>3, <3>4 DEF Dialing
  <2>2. CASE queue' = queue
    BY <2>1, <2>2 DEF AttemptsInv, OutcomeInv, IsFor, Positions
  <2>3. CASE queue' = Append(queue, ev)
    <3> DEFINE n == Len(queue) + 1
    <3>1. /\ n \in Positions' /\ queue'[n] = ev
          /\ Positions' = Positions \cup {n}
          /\ \A i \in Positions : i \in Positions' /\ queue'[i] = queue[i] /\ i < n
        BY <1>1, <2>3, Appended
    <3> HIDE DEF n
    <3>2. ASSUME NEW e \in Engines, Dialing(e)'
          PROVE  state'[e] \notin Driven /\ \A i \in Positions' : queue'[i].owner = e => queue'[i].type \notin Results
      <4>1. Dialing(e) /\ ev.type \notin Results
          BY <2>1, <3>2 DEF Dialing
      <4>2. QED
          BY <3>1, <4>1 DEF AttemptsInv, OutcomeInv, IsFor
    <3>3. ASSUME NEW i \in Positions', queue'[i].type \in Results
          PROVE  /\ state'[queue'[i].owner] \notin Driven
                 /\ queue'[i].type = "CONNECT_OK" => queue'[i].handle \in Handles
      <4>1. CASE i = n
          BY <2>1, <3>1, <3>3, <4>1 DEF AttemptsInv, OutcomeInv
      <4>2. CASE i \in Positions
          BY <3>1, <3>3, <4>2 DEF AttemptsInv, OutcomeInv
      <4>3. QED
          BY <3>1, <4>1, <4>2
    <3>4. ASSUME NEW i \in Positions', NEW j \in Positions', queue'[i].type \in Results,
                 queue'[j].owner = queue'[i].owner, queue'[j].type \in Results
          PROVE  i = j
      <4>1. ev.type \in Results => \A k \in Positions : queue[k].owner = ev.owner => queue[k].type \notin Results
          BY <2>1 DEF AttemptsInv, OutcomeInv, IsFor
      <4>2. CASE i \in Positions /\ j \in Positions
          BY <3>1, <3>4, <4>2 DEF AttemptsInv, OutcomeInv
      <4>3. CASE ~(i \in Positions /\ j \in Positions)
          BY <3>1, <3>4, <4>1, <4>3
      <4>4. QED
          BY <4>2, <4>3
    <3>5. QED
        BY <3>2, <3>3, <3>4 DEF OutcomeInv, IsFor
  <2>4. QED
    BY <1>4, <2>2, <2>3 DEF Push
<1>5. QED
    BY <1>2, <1>3, <1>4, HostKinds DEF AttemptsInv

LEMMA AttemptsConnect ==
    ASSUME Inv, AttemptsInv, "late" \notin Allowed,
           NEW e \in Engines, NEW p \in Peers, NEW s \in ConnStates, ConnectFrom(e, p, s),
           NothingLate(e), s = state[e] \/ s = After(state[e], "BACKOFF_ELAPSED")
    PROVE  AttemptsInv' /\ (s # "BACKOFF" => s = "IDLE" /\ state'[e] = "CONNECTING")
<1>1. state \in [Engines -> ConnStates]
    BY DEF Inv, TypeOK
<1>2. state[e] \notin Driven /\ state[e] # "SCANNING" /\ s # "CONNECTING"
    BY DEF ConnectFrom, MayConnect, AttemptsInv, DrivenInv
<1>3. s \in {"IDLE", "BACKOFF"}
    BY <1>1, <1>2 DEF ConnStates, After, Accepts, Target, Driven
<1>4. /\ After(s, "CONNECT_REQUEST") \in {"CONNECTING", "BACKOFF"}
      /\ s = "IDLE" => After(s, "CONNECT_REQUEST") = "CONNECTING"
    BY <1>3 DEF After, Accepts, Target
<1>5. /\ state'[e] = After(s, "CONNECT_REQUEST")
      /\ \A d \in Engines : d # e => state'[d] = state[d]
      /\ UNCHANGED <<queue, connHandle>>
    BY <1>1 DEF ConnectFrom
<1>6. \A i \in Positions : IsFor(i, e) => queue[i].type \notin Results
    BY DEF NothingLate, QueuedFor, Positions, IsFor, Results
<1>7. \A d \in Engines : Dialing(d)' => d = e
    BY DEF ConnectFrom, Dialing
<1>8. \A i \in Positions : queue[i].owner \in Engines
    BY EventTypes DEF Inv, TypeOK, HostTypeOK, QueueTypeOK
<1>9. OutcomeInv'
    BY <1>4, <1>5, <1>6, <1>7, <1>8 DEF AttemptsInv, OutcomeInv, IsFor, Positions, Driven
<1>10. DrivenInv'
    BY <1>4, <1>5 DEF AttemptsInv, DrivenInv, Driven
<1>11. QED
    BY <1>3, <1>4, <1>5, <1>9, <1>10 DEF AttemptsInv

LEMMA AttemptsCalm ==
    ASSUME Inv, AttemptsInv, Calm, \A d \in Engines : Steady(d)
    PROVE  AttemptsInv'
<1>1. UNCHANGED <<queue, connHandle>> /\ \A d \in Engines : Dialing(d)' => Dialing(d)
  <2>1. \A d \in Dials : [d EXCEPT !.cancelled = TRUE].owner = d.owner
    BY DEF Dials
  <2>2. QED
    BY <2>1 DEF Calm, Dialing, Inv, TypeOK, HostTypeOK
<1>2. \A i \in Positions : queue[i].owner \in Engines
    BY EventTypes DEF Inv, TypeOK, HostTypeOK, QueueTypeOK
<1>3. QED
    BY <1>1, <1>2 DEF Steady, AttemptsInv, OutcomeInv, DrivenInv, IsFor, Positions

\* What handling an event does to the machine, the listener and the pending operation.
Told(e, ev, kind, known) ==
    /\ state'[e] = After(state[e], ev)
    /\ session'[e] = known
    /\ cb' = [to |-> e, kind |-> kind]

Handled(e, t) ==
    CASE t = "CONNECT_OK" ->
           /\ pendingOp'[e] = pendingOp[e] /\ UNCHANGED link
           /\ IF reported[e] THEN UNCHANGED <<state, session, reported, cb>>
              ELSE reported'[e] /\ Told(e, "GAP_CONNECT_OK", "up", "up")
      [] t = "CONNECT_FAIL" ->
           /\ pendingOp'[e] = pendingOp[e] /\ UNCHANGED link
           /\ IF reported[e] THEN UNCHANGED <<state, session, reported, cb>>
              ELSE reported'[e] /\ Told(e, "GAP_CONNECT_FAIL", "down", "none")
      [] t = "DISCONNECT" ->
           /\ pendingOp'[e] = "NONE" /\ UNCHANGED <<link, reported>>
           /\ Told(e, "GAP_DISCONNECT_EVT", "down", "none")
      [] t = "DISC_DONE" ->
           /\ UNCHANGED <<pendingOp, reported>>
           /\ \/ /\ CanRun(connHandle[e]) /\ RunProc(connHandle[e], "DISC", e)
                 /\ UNCHANGED <<state, session, cb>>
              \/ Terminate(connHandle[e]) /\ Told(e, "DISCOVER_TIMEOUT", "undiscovered", "settled")
              \/ UNCHANGED link /\ Told(e, "DISCOVER_DONE", "discovered", "settled")
      [] t = "ATTR_OP" ->
           /\ pendingOp'[e] = "NONE"
           /\ UNCHANGED <<link, state, session, reported, cb>>
      [] t = "OTHER" -> UNCHANGED <<link, state, session, reported, cb, pendingOp>>

LEMMA PopMoves ==
    ASSUME Inv, Pop
    PROVE  LET ev == Head(queue)
           IN  /\ ev \in Events /\ Handled(ev.owner, ev.type)
               /\ \A d \in Engines : d # ev.owner =>
                     /\ state'[d] = state[d] /\ session'[d] = session[d]
                     /\ reported'[d] = reported[d] /\ pendingOp'[d] = pendingOp[d]
               /\ cb = NoCall /\ main.at = "drain" /\ main'.at = "drain"
<1> DEFINE ev == Head(queue)
           e == ev.owner
           Others == \A d \in Engines : d # e =>
                         /\ state'[d] = state[d] /\ session'[d] = session[d]
                         /\ reported'[d] = reported[d] /\ pendingOp'[d] = pendingOp[d]
<1>1. /\ state \in [Engines -> ConnStates]
      /\ session \in [Engines -> {"none", "asked", "up", "settled"}]
      /\ reported \in [Engines -> BOOLEAN]
      /\ pendingOp \in [Engines -> Ops \cup {"NONE"}]
    BY DEF Inv, TypeOK
<1>2. ev \in Events /\ e \in Engines
  <2>1. queue \in Seq(Events) /\ queue # <<>>
    BY DEF Inv, TypeOK, HostTypeOK, QueueTypeOK, Pop
  <2>2. ev \in Events
    BY <2>1
  <2>3. QED
    BY <2>2 DEF Events
<1>3. cb = NoCall /\ main.at = "drain" /\ main'.at = "drain"
    BY DEF Pop, Inv, TypeOK
<1> HIDE DEF ev
<1>4. ASSUME NEW t, NEW kind \in {"up", "down", "discovered", "undiscovered"},
             HandleFsmEvent(e, t), Raise(e, kind)
      PROVE  /\ Told(e, t, kind, IF kind = "up" THEN "up" ELSE IF kind = "down" THEN "none" ELSE "settled")
             /\ \A d \in Engines : d # e => state'[d] = state[d] /\ session'[d] = session[d]
    BY <1>1, <1>2, <1>4 DEF HandleFsmEvent, Raise, Told
<1>5. CASE ev.type = "CONNECT_OK"
  <2>1. HandleConnectOk(e, ev.handle)
    BY <1>5 DEF Pop, Receiver, ev
  <2>2. ASSUME reported[e] PROVE Handled(e, ev.type) /\ Others
    BY <1>1, <1>5, <2>1, <2>2 DEF HandleConnectOk, FinishConnect, RaiseNothing, Handled
  <2>3. ASSUME ~reported[e] PROVE Handled(e, ev.type) /\ Others
    <3>1. /\ reported' = [reported EXCEPT ![e] = TRUE] /\ UNCHANGED <<link, pendingOp>>
          /\ HandleFsmEvent(e, "GAP_CONNECT_OK") /\ Raise(e, "up")
        BY <2>1, <2>3 DEF HandleConnectOk, FinishConnect, ReportOutcome
    <3>2. QED
        BY <1>1, <1>2, <1>4, <1>5, <2>3, <3>1 DEF Handled
  <2>4. Handled(e, ev.type) /\ Others
    BY <2>2, <2>3
  <2>5. QED
    BY <1>2, <1>3, <2>4 DEF ev
<1>6. CASE ev.type = "CONNECT_FAIL"
  <2>1. HandleConnectFail(e)
    BY <1>6 DEF Pop, Receiver, ev
  <2>2. ASSUME reported[e] PROVE Handled(e, ev.type) /\ Others
    BY <1>1, <1>6, <2>1, <2>2 DEF HandleConnectFail, FinishConnect, RaiseNothing, Handled
  <2>3. ASSUME ~reported[e] PROVE Handled(e, ev.type) /\ Others
    <3>1. /\ reported' = [reported EXCEPT ![e] = TRUE] /\ UNCHANGED <<link, pendingOp>>
          /\ HandleFsmEvent(e, "GAP_CONNECT_FAIL") /\ Raise(e, "down")
        BY <2>1, <2>3 DEF HandleConnectFail, FinishConnect, ReportOutcome
    <3>2. QED
        BY <1>1, <1>2, <1>4, <1>6, <2>3, <3>1 DEF Handled
  <2>4. Handled(e, ev.type) /\ Others
    BY <2>2, <2>3
  <2>5. QED
    BY <1>2, <1>3, <2>4 DEF ev
<1>7. CASE ev.type = "DISCONNECT"
  <2>1. HandleDisconnect(e)
    BY <1>7 DEF Pop, Receiver, ev
  <2>2. /\ HandleFsmEvent(e, "GAP_DISCONNECT_EVT") /\ Raise(e, "down")
        /\ pendingOp' = [pendingOp EXCEPT ![e] = "NONE"] /\ UNCHANGED <<link, reported>>
    BY <2>1 DEF HandleDisconnect, ReportEnd, ForgetLink
  <2>3. Handled(e, ev.type) /\ Others
    BY <1>1, <1>2, <1>4, <1>7, <2>2 DEF Handled
  <2>4. QED
    BY <1>2, <1>3, <2>3 DEF ev
<1>8. CASE ev.type = "DISC_DONE"
  <2>1. HandleDiscDone(e)
    BY <1>8 DEF Pop, Receiver, ev
  <2>2. UNCHANGED <<pendingOp, reported>>
    BY <2>1 DEF HandleDiscDone
  <2>3. ASSUME CanRun(connHandle[e]), RunProc(connHandle[e], "DISC", e), UNCHANGED <<state, cb, session>>
        PROVE  Handled(e, ev.type) /\ Others
    BY <1>8, <2>2, <2>3 DEF Handled
  <2>4. ASSUME Undiscovered(e) PROVE Handled(e, ev.type) /\ Others
    BY <1>4, <1>8, <2>2, <2>4 DEF Handled, Undiscovered
  <2>5. ASSUME Discovered(e) PROVE Handled(e, ev.type) /\ Others
    BY <1>4, <1>8, <2>2, <2>5 DEF Handled, Discovered
  <2>6. Handled(e, ev.type) /\ Others
    BY <2>1, <2>3, <2>4, <2>5 DEF HandleDiscDone, RaiseNothing
  <2>7. QED
    BY <1>2, <1>3, <2>6 DEF ev
<1>9. CASE ev.type = "ATTR_OP"
  <2>1. HandleAttrOp(e)
    BY <1>9 DEF Pop, Receiver, ev
  <2>2. Handled(e, ev.type) /\ Others
    BY <1>1, <1>2, <1>9, <2>1 DEF HandleAttrOp, RaiseNothing, Handled
  <2>3. QED
    BY <1>2, <1>3, <2>2 DEF ev
<1>10. CASE ev.type = "OTHER"
  <2>1. HandleOther(e)
    BY <1>10 DEF Pop, Receiver, ev
  <2>2. Handled(e, ev.type) /\ Others
    BY <1>10, <2>1 DEF HandleOther, RaiseNothing, engineVars, Handled
  <2>3. QED
    BY <1>2, <1>3, <2>2 DEF ev
<1>11. QED
    BY <1>2, <1>5, <1>6, <1>7, <1>8, <1>9, <1>10 DEF Events

LEMMA AttemptsPop ==
    ASSUME Inv, AttemptsInv, Pop
    PROVE  /\ AttemptsInv'
           /\ \A d \in Engines : session'[d] = "asked" =>
                 session[d] = "asked" /\ (state[d] = "CONNECTING" => state'[d] = "CONNECTING")
<1> DEFINE ev == Head(queue)
           e == ev.owner
<1>1. /\ queue \in Seq(Events) /\ queue # <<>> /\ queue' = Tail(queue)
      /\ UNCHANGED <<capacity, dial, target>>
      /\ connHandle \in [Engines -> Handles \cup {NoHandle}] /\ NoHandle \notin Handles
      /\ state \in [Engines -> ConnStates]
    BY PopKinds, HostAssumption DEF Inv, TypeOK, HostTypeOK, QueueTypeOK
<1>2. /\ ev = queue[1] /\ 1 \in Positions /\ e \in Engines
      /\ \A i \in Positions' : i \in Int /\ i + 1 \in Positions /\ queue'[i] = queue[i + 1]
                               /\ queue'[i].owner \in Engines
    BY <1>1, Popped, EventTypes DEF Positions
<1>3. /\ ev.type \in {"CONNECT_OK", "CONNECT_FAIL", "DISCONNECT", "DISC_DONE", "ATTR_OP", "OTHER"}
      /\ Handled(e, ev.type)
      /\ \A d \in Engines : d # e =>
            state'[d] = state[d] /\ session'[d] = session[d] /\ connHandle'[d] = connHandle[d]
    BY <1>1, PopMoves, PopKinds DEF Events
<1>4. /\ connHandle'[e] = CASE ev.type = "CONNECT_OK" -> ev.handle
                            [] ev.type \in {"CONNECT_FAIL", "DISCONNECT"} -> NoHandle
                            [] OTHER -> connHandle[e]
    BY <1>1, <1>2, PopKinds
<1> HIDE DEF ev
<1>5. ev.type = "CONNECT_OK" => ev.handle # NoHandle
    BY <1>1, <1>2 DEF AttemptsInv, OutcomeInv, Results
<1>6. ev.type \in Results =>
         /\ state[e] \notin Driven /\ ~Dialing(e)
         /\ \A i \in Positions' : queue'[i].owner = e => queue'[i].type \notin Results
  <2> SUFFICES ASSUME ev.type \in Results
               PROVE  /\ state[e] \notin Driven /\ ~Dialing(e)
                      /\ \A i \in Positions' : queue'[i].owner = e => queue'[i].type \notin Results
    OBVIOUS
  <2>1. /\ queue[1].type \in Results /\ queue[1].owner = e
    BY <1>2
  <2>2. /\ state[e] \notin Driven
        /\ \A j \in Positions : queue[j].owner = e /\ queue[j].type \in Results => j = 1
    BY <1>2, <2>1 DEF AttemptsInv, OutcomeInv
  <2>3. ~Dialing(e)
    BY <1>2, <2>1 DEF AttemptsInv, OutcomeInv, IsFor
  <2>4. \A i \in Positions' : i + 1 # 1
    BY <1>2 DEF Positions
  <2>5. QED
    BY <1>2, <2>2, <2>3, <2>4
<1>7. /\ state'[e] \in Driven => state[e] \in Driven \/ ev.type = "CONNECT_OK"
      /\ state'[e] # "SCANNING"
      /\ state'[e] \in Driven => connHandle'[e] # NoHandle
      /\ session'[e] = "asked" =>
            session[e] = "asked" /\ (state[e] = "CONNECTING" => state'[e] = "CONNECTING")
  <2> DEFINE Goal == /\ state'[e] \in Driven => state[e] \in Driven \/ ev.type = "CONNECT_OK"
                     /\ state'[e] # "SCANNING"
                     /\ state'[e] \in Driven => connHandle'[e] # NoHandle
                     /\ session'[e] = "asked" =>
                           session[e] = "asked" /\ (state[e] = "CONNECTING" => state'[e] = "CONNECTING")
  <2>1. state[e] \in ConnStates /\ state[e] # "SCANNING" /\ (state[e] \in Driven => connHandle[e] # NoHandle)
    BY <1>1, <1>2 DEF AttemptsInv, DrivenInv
  <2>2. ASSUME NEW t \in {"GAP_CONNECT_FAIL", "GAP_DISCONNECT_EVT", "DISCOVER_TIMEOUT", "DISCOVER_DONE",
                          "GAP_CONNECT_OK"}
        PROVE  /\ After(state[e], t) # "SCANNING"
               /\ After(state[e], t) \in Driven => state[e] \in Driven \/ t = "GAP_CONNECT_OK"
               /\ t = "GAP_DISCONNECT_EVT" => After(state[e], t) \notin Driven
    BY <2>1, Moves
  <2>3. CASE UNCHANGED <<state, session>> /\ ev.type # "DISCONNECT"
    BY <1>4, <1>5, <1>6, <2>1, <2>3 DEF Results
  <2>4. ASSUME ~UNCHANGED <<state, session>> \/ ev.type = "DISCONNECT"
        PROVE  \E t \in {"GAP_CONNECT_FAIL", "GAP_DISCONNECT_EVT", "DISCOVER_TIMEOUT", "DISCOVER_DONE",
                         "GAP_CONNECT_OK"} :
                  /\ state'[e] = After(state[e], t) /\ session'[e] # "asked"
                  /\ t = "GAP_CONNECT_OK" => ev.type = "CONNECT_OK"
                  /\ t = "GAP_CONNECT_FAIL" => ev.type = "CONNECT_FAIL"
                  /\ t = "GAP_DISCONNECT_EVT" <=> ev.type = "DISCONNECT"
                  /\ t \in {"DISCOVER_TIMEOUT", "DISCOVER_DONE"} => ev.type = "DISC_DONE"
    BY <1>3, <2>4 DEF Handled, Told
  <2>5. QED
    BY <1>4, <1>5, <1>6, <2>1, <2>2, <2>3, <2>4 DEF Results
<1>8. DrivenInv'
    BY <1>3, <1>7 DEF AttemptsInv, DrivenInv
<1>9. OutcomeInv'
  <2>1. ASSUME NEW d \in Engines, Dialing(d)'
        PROVE  state'[d] \notin Driven /\ \A i \in Positions' : IsFor(i, d)' => queue'[i].type \notin Results
    <3>1. Dialing(d)
        BY <1>1, <2>1 DEF Dialing
    <3>2. state[d] \notin Driven /\ \A i \in Positions : IsFor(i, d) => queue[i].type \notin Results
        BY <3>1 DEF AttemptsInv, OutcomeInv
    <3>3. state'[d] \notin Driven
        BY <1>3, <1>6, <1>7, <3>1, <3>2 DEF Results
    <3>4. QED
        BY <1>2, <3>2, <3>3 DEF IsFor
  <2>2. ASSUME NEW i \in Positions', queue'[i].type \in Results
        PROVE  /\ state'[queue'[i].owner] \notin Driven
               /\ queue'[i].type = "CONNECT_OK" => queue'[i].handle \in Handles
               /\ \A j \in Positions' :
                     queue'[j].owner = queue'[i].owner /\ queue'[j].type \in Results => i = j
    <3>1. /\ i + 1 \in Positions /\ queue'[i] = queue[i + 1] /\ queue[i + 1].owner \in Engines
        BY <1>2
    <3>2. /\ state[queue[i + 1].owner] \notin Driven
          /\ queue[i + 1].type = "CONNECT_OK" => queue[i + 1].handle \in Handles
          /\ \A j \in Positions :
                queue[j].owner = queue[i + 1].owner /\ queue[j].type \in Results => i + 1 = j
        BY <2>2, <3>1 DEF AttemptsInv, OutcomeInv
    <3>3. state'[queue'[i].owner] \notin Driven
        BY <1>3, <1>6, <1>7, <2>2, <3>1, <3>2 DEF Results
    <3>4. QED
        BY <1>2, <3>1, <3>2, <3>3
  <2>3. QED
    BY <2>1, <2>2 DEF OutcomeInv
<1>10. QED
    BY <1>3, <1>7, <1>8, <1>9 DEF AttemptsInv

LEMMA AttemptsNext ==
    ASSUME "late" \notin Allowed, Inv, AttemptsInv, [Next]_vars
    PROVE  /\ AttemptsInv'
           /\ "backoff" \notin Allowed /\ AttemptHasDeadline => AttemptHasDeadline'
<1>1. CASE Pop
    BY <1>1, AttemptsPop DEF AttemptHasDeadline
<1>2. ASSUME NEW e \in Engines, NEW p \in Peers, NEW s \in ConnStates,
             ConnectFrom(e, p, s), NothingLate(e),
             \/ s = After(state[e], "BACKOFF_ELAPSED")
             \/ s = state[e] /\ (s = "BACKOFF" => "backoff" \in Allowed)
      PROVE  /\ AttemptsInv'
             /\ "backoff" \notin Allowed /\ AttemptHasDeadline => AttemptHasDeadline'
  <2>1. /\ AttemptsInv'
        /\ s # "BACKOFF" => s = "IDLE" /\ state'[e] = "CONNECTING"
    BY <1>2, AttemptsConnect
  <2>2. state[e] \in ConnStates
    BY DEF Inv, TypeOK
  <2>3. "backoff" \notin Allowed => s # "BACKOFF"
    BY <1>2, <2>2 DEF ConnStates, After, Accepts, Target
  <2>4. \A d \in Engines : d # e => state'[d] = state[d] /\ session'[d] = session[d]
    BY <1>2 DEF ConnectFrom, Inv, TypeOK
  <2>5. QED
    BY <2>1, <2>3, <2>4 DEF AttemptHasDeadline
<1>3. CASE HostStep /\ UNCHANGED <<engineVars, main, cb, session, target>>
    BY <1>3, AttemptsHost DEF engineVars, AttemptHasDeadline
<1>4. CASE Calm /\ \A d \in Engines : Steady(d)
    BY <1>4, AttemptsCalm DEF AttemptHasDeadline, Steady
<1>5. QED
    BY <1>1, <1>2, <1>3, <1>4, CalmIsSteady

LEMMA AttemptsStart == Init => AttemptsInv
<1> SUFFICES ASSUME Init PROVE AttemptsInv
    OBVIOUS
<1>1. Positions = {}
    BY DEF Init, HostInit, Positions
<1>2. QED
    BY <1>1 DEF Init, HostInit, AttemptsInv, OutcomeInv, DrivenInv, Dialing, Driven

\* Whoever waits for the outcome of a connect() waits under the machine's deadline
\* (connect() and retry_connect() in nimble_gattc.cpp), however many events are
\* dropped: unless a completion crosses the deadline or the next connect(), or
\* connect() is called in BACKOFF, where it starts no clock.
THEOREM AttemptsHaveDeadline ==
    ASSUME "late" \notin Allowed, "backoff" \notin Allowed
    PROVE  Spec => []AttemptHasDeadline
<1>1. Init => AttemptsInv /\ AttemptHasDeadline
    BY AttemptsStart DEF Init, AttemptHasDeadline
<1>2. Inv /\ AttemptsInv /\ AttemptHasDeadline /\ [Next]_vars => (AttemptsInv /\ AttemptHasDeadline)'
    BY AttemptsNext
<1>3. QED
    BY <1>1, <1>2, InvHolds, PTL DEF Spec
=============================================================================
