-------------------------- MODULE NimbleGattEngine --------------------------
(***************************************************************************)
(* The GATT client engines (nimble_gattc.cpp) over the NimBLE host.  Each  *)
(* engine is one connection slot.  Its code runs on the main thread only:  *)
(* calls of its user, and loop(), which drains the shared queue and then   *)
(* polls the deadline.  The host task interleaves between any two of those *)
(* steps, between two events of a drain and before a callback returns      *)
(* included.  Every callback is the last statement of the step raising it. *)
(*                                                                         *)
(* Time is abstract: a poll finds the deadline reached or not.  What the   *)
(* deadline promises is proved in BleConnectionFsmClock_proofs.            *)
(***************************************************************************)
EXTENDS NimbleHost, BleConnectionTable

CONSTANTS
    MaxEventsPerDrain,  \* 32 in the firmware
    NoCall

ASSUME EngineAssumption ==
    /\ MaxEventsPerDrain \in Nat \ {0}
    /\ NoCall \notin [to : Engines, kind : {"up", "down", "discovered", "undiscovered"}]

VARIABLES
    state,      \* fsm_.state() of each engine
    connHandle, \* conn_handle_
    reported,   \* connect_result_reported_
    pendingOp,  \* pending_op_: the attribute operation awaiting its answer
    main,       \* where the main thread is in a loop()
    cb,         \* the listener callback being made
    session,    \* history: what each engine last told its listener
    target      \* history: the peer of each engine's last accepted connect()

engineVars == <<state, connHandle, reported, pendingOp>>
vars == <<hostVars, engineVars, main, cb, session, target>>

Callbacks == [to : Engines, kind : {"up", "down", "discovered", "undiscovered"}]

Idle == [at |-> "idle", engine |-> NoOne, popped |-> 0]

TypeOK ==
    /\ HostTypeOK
    /\ state \in [Engines -> ConnStates]
    /\ connHandle \in [Engines -> Handles \cup {NoHandle}]
    /\ reported \in [Engines -> BOOLEAN]
    /\ pendingOp \in [Engines -> Ops \cup {"NONE"}]
    /\ main \in [at : {"idle", "drain", "poll"}, engine : Engines \cup {NoOne},
                 popped : 0 .. MaxEventsPerDrain]
    /\ cb \in Callbacks \cup {NoCall}
    /\ session \in [Engines -> {"none", "asked", "up", "settled"}]
    /\ target \in [Engines -> Peers \cup {NoOne}]

Init ==
    /\ HostInit
    /\ state = [e \in Engines |-> "IDLE"]
    /\ connHandle = [e \in Engines |-> NoHandle]
    /\ reported = [e \in Engines |-> FALSE]
    /\ pendingOp = [e \in Engines |-> "NONE"]
    /\ main = Idle
    /\ cb = NoCall
    /\ session = [e \in Engines |-> "none"]
    /\ target = [e \in Engines |-> NoOne]

-----------------------------------------------------------------------------

HandleFsmEvent(e, ev) == state' = [state EXCEPT ![e] = After(@, ev)]

\* The call of a listener method, and what the listener knows from then on.
Raise(e, kind) ==
    /\ cb' = [to |-> e, kind |-> kind]
    /\ session' = [session EXCEPT ![e] = CASE kind = "up"   -> "up"
                                           [] kind = "down" -> "none"
                                           [] OTHER         -> "settled"]

RaiseNothing == UNCHANGED <<cb, session>>

-----------------------------------------------------------------------------
(* Calls of the engine's user.                                             *)

\* Variant: connect() forgets to look at conn_handle_.
MayConnectTwice(e, s) == s # "CONNECTING"

MayConnect(e, s) == connHandle[e] = NoHandle /\ s # "CONNECTING"

\* connect() from state s; a refused connect() changes nothing.
ConnectFrom(e, p, s) ==
    /\ MayConnect(e, s)
    /\ CanDial(p)
    /\ dial' = [owner |-> e, peer |-> p, cancelled |-> FALSE]
    /\ reported' = [reported EXCEPT ![e] = FALSE]
    /\ state' = [state EXCEPT ![e] = After(s, "CONNECT_REQUEST")]
    /\ session' = [session EXCEPT ![e] = "asked"]
    /\ target' = [target EXCEPT ![e] = p]
    /\ UNCHANGED <<queue, capacity, link, connHandle, pendingOp, cb>>

Connect(e, p) ==
    /\ state[e] = "BACKOFF" => "backoff" \in Allowed
    /\ ConnectFrom(e, p, state[e])

\* Variant: the retry forgets that the machine is in BACKOFF.
RetryInBackoff(e, p) == ConnectFrom(e, p, state[e])

RetryConnect(e, p) == ConnectFrom(e, p, After(state[e], "BACKOFF_ELAPSED"))

\* connect() from state s may be refused, by the engine or by the host.
MayRefuse(e, p, s) == ~MayConnect(e, s) \/ ~CanDial(p) \/ "refuse" \in Allowed

\* The connect() in retry_connect() is refused: the machine has left BACKOFF.
RetryRefused(e, p) ==
    /\ MayRefuse(e, p, After(state[e], "BACKOFF_ELAPSED"))
    /\ HandleFsmEvent(e, "BACKOFF_ELAPSED")
    /\ UNCHANGED <<hostVars, connHandle, reported, pendingOp, cb, session, target>>

\* gatt_disconnect(), whatever it returns.
GattDisconnect(e) ==
    /\ IF state[e] = "CONNECTING"
       THEN CancelDial /\ UNCHANGED <<link, state>>
       ELSE IF connHandle[e] = NoHandle
            THEN UNCHANGED <<dial, link, state>>
            ELSE /\ HandleFsmEvent(e, "DISCONNECT_REQUEST")
                 /\ Terminate(connHandle[e])
                 /\ UNCHANGED dial
    /\ UNCHANGED <<queue, capacity, connHandle, reported, pendingOp, target>>

\* Variant: a second operation is not refused while one is pending.
MayStartTwo(e) == CanRun(connHandle[e])

MayStart(e) == pendingOp[e] = "NONE" /\ CanRun(connHandle[e])

\* read_* and write_* with response; a refused call changes nothing.
StartOp(e, op) ==
    /\ state[e] # "READY" => "cached" \in Allowed
    /\ MayStart(e)
    /\ pendingOp' = [pendingOp EXCEPT ![e] = op]
    /\ RunProc(connHandle[e], op, e)
    /\ UNCHANGED <<queue, capacity, dial, state, connHandle, reported, cb,
                   session, target>>

DiscoverServices(e) ==
    /\ CanRun(connHandle[e])
    /\ RunProc(connHandle[e], "DISC", e)
    /\ UNCHANGED <<queue, capacity, dial, engineVars, session, target>>

\* No completion of an earlier attempt is still on its way to the engine.
NothingLate(e) == "late" \in Allowed \/ ~QueuedFor(e, {"CONNECT_OK", "CONNECT_FAIL"})

UserCall(e) ==
    /\ main.at = "idle" /\ cb = NoCall
    /\ UNCHANGED main
    /\ \/ \E p \in Peers : NothingLate(e) /\ (Connect(e, p) \/ RetryConnect(e, p))
       \/ \E p \in Peers : RetryRefused(e, p)
       \/ GattDisconnect(e) /\ UNCHANGED <<cb, session>>
       \/ \E op \in Ops : StartOp(e, op)

\* What a listener does in its callback: a new connection is discovered, or torn
\* down again, or left alone by a user who knows the peer's services.
CallbackReturns ==
    /\ cb # NoCall
    /\ cb' = NoCall
    /\ UNCHANGED <<main, session>>
    /\ \/ cb.kind = "up" /\ DiscoverServices(cb.to)
       \/ cb.kind = "up" /\ GattDisconnect(cb.to)
       \/ /\ cb.kind = "up" => "cached" \in Allowed
          /\ UNCHANGED <<hostVars, engineVars, target>>

-----------------------------------------------------------------------------
(* loop(): the drain.                                                      *)

LoopBegins(e) ==
    /\ main.at = "idle" /\ cb = NoCall
    /\ main' = [at |-> "drain", engine |-> e, popped |-> 0]
    /\ capacity' = Created(QueueCapacity)
    /\ UNCHANGED <<queue, dial, link, engineVars, cb, session, target>>

\* The machine and the listener are told.  A variant of finish_connect_: one that
\* does not ask whether they were told already.
ReportOutcome(e, ev, kind) ==
    /\ reported' = [reported EXCEPT ![e] = TRUE]
    /\ HandleFsmEvent(e, ev)
    /\ Raise(e, kind)

\* finish_connect_
FinishConnect(e, ev, kind) ==
    IF reported[e]
    THEN RaiseNothing /\ UNCHANGED <<state, reported>>
    ELSE ReportOutcome(e, ev, kind)

\* The handle is stored even when the result is not reported.
HandleConnectOk(e, h) ==
    /\ connHandle' = [connHandle EXCEPT ![e] = h]
    /\ FinishConnect(e, "GAP_CONNECT_OK", "up")
    /\ UNCHANGED <<link, pendingOp>>

HandleConnectFail(e) ==
    /\ connHandle' = [connHandle EXCEPT ![e] = NoHandle]
    /\ FinishConnect(e, "GAP_CONNECT_FAIL", "down")
    /\ UNCHANGED <<link, pendingOp>>

\* Variant: only the operation is forgotten, not the handle.
ForgetOp(e) == pendingOp' = [pendingOp EXCEPT ![e] = "NONE"] /\ UNCHANGED connHandle

ForgetLink(e) ==
    /\ connHandle' = [connHandle EXCEPT ![e] = NoHandle]
    /\ pendingOp' = [pendingOp EXCEPT ![e] = "NONE"]

\* Variant: the end of a link is reported only if the machine was waiting for it.
EndIfExpected(e) ==
    /\ HandleFsmEvent(e, "GAP_DISCONNECT_EVT")
    /\ IF "GAP_DISCONNECT_EVT" \in Accepts(state[e]) THEN Raise(e, "down") ELSE RaiseNothing

ReportEnd(e) == HandleFsmEvent(e, "GAP_DISCONNECT_EVT") /\ Raise(e, "down")

\* finish_disconnect_, whichever link the event is about.
HandleDisconnect(e) ==
    /\ ForgetLink(e)
    /\ ReportEnd(e)
    /\ UNCHANGED <<link, reported>>

\* Variant: the machine is not told that the discovery is over.
DiscoveredQuietly(e) == Raise(e, "discovered") /\ UNCHANGED <<link, state>>

\* finish_discovery_(0)
Discovered(e) ==
    /\ HandleFsmEvent(e, "DISCOVER_DONE")
    /\ Raise(e, "discovered")
    /\ UNCHANGED link

\* Variant: the link stays up after a failed discovery.
UndiscoveredButUp(e) ==
    /\ HandleFsmEvent(e, "DISCOVER_TIMEOUT")
    /\ Raise(e, "undiscovered")
    /\ UNCHANGED link

\* finish_discovery_(rc)
Undiscovered(e) ==
    /\ HandleFsmEvent(e, "DISCOVER_TIMEOUT")
    /\ Terminate(connHandle[e])
    /\ Raise(e, "undiscovered")

\* A discovery procedure is over: start the next one, or finish_discovery_ when it
\* was the last or the next is refused.  The event's own status is not looked at.
HandleDiscDone(e) ==
    /\ \/ /\ CanRun(connHandle[e])
          /\ RunProc(connHandle[e], "DISC", e)
          /\ RaiseNothing /\ UNCHANGED state
       \/ /\ ~CanRun(connHandle[e]) \/ "refuse" \in Allowed
          /\ Undiscovered(e)
       \/ Discovered(e)
    /\ UNCHANGED <<connHandle, reported, pendingOp>>

\* The answer goes to whatever operation is pending, read or write.
HandleAttrOp(e) ==
    /\ pendingOp' = [pendingOp EXCEPT ![e] = "NONE"]
    /\ RaiseNothing
    /\ UNCHANGED <<link, state, connHandle, reported>>

HandleOther(e) == RaiseNothing /\ UNCHANGED <<link, engineVars>>

\* Variant: every event is handled by the engine whose loop() drains it.
DrainingEngine(ev) == main.engine

Receiver(ev) == ev.owner

\* drain_gatt_events pops one event and handles it in the engine that owns it.
Pop ==
    /\ main.at = "drain" /\ cb = NoCall
    /\ queue # <<>> /\ main.popped < MaxEventsPerDrain
    /\ queue' = Tail(queue)
    /\ main' = [main EXCEPT !.popped = @ + 1]
    /\ LET ev == Head(queue)
           e  == Receiver(ev)
       IN  CASE ev.type = "CONNECT_OK"   -> HandleConnectOk(e, ev.handle)
             [] ev.type = "CONNECT_FAIL" -> HandleConnectFail(e)
             [] ev.type = "DISCONNECT"   -> HandleDisconnect(e)
             [] ev.type = "DISC_DONE"    -> HandleDiscDone(e)
             [] ev.type = "ATTR_OP"      -> HandleAttrOp(e)
             [] ev.type = "OTHER"        -> HandleOther(e)
    /\ UNCHANGED <<capacity, dial, target>>

DrainEnds ==
    /\ main.at = "drain" /\ cb = NoCall
    /\ queue = <<>> \/ main.popped = MaxEventsPerDrain
    /\ main' = [main EXCEPT !.at = "poll"]
    /\ UNCHANGED <<hostVars, engineVars, cb, session, target>>

-----------------------------------------------------------------------------
(* loop(): poll_timeout and what follows a hit.                            *)

PollQuiet ==
    /\ main.at = "poll"
    /\ main' = Idle
    /\ UNCHANGED <<hostVars, engineVars, cb, session, target>>

PollFires(e) ==
    /\ main.at = "poll" /\ main.engine = e
    /\ state[e] \in Deadlined
    /\ NothingLate(e)
    /\ main' = Idle
    /\ HandleFsmEvent(e, TimeoutEvent(state[e]))
    /\ IF connHandle[e] # NoHandle
       THEN Terminate(connHandle[e]) /\ UNCHANGED dial
       ELSE CancelDial /\ UNCHANGED link
    /\ pendingOp' = [pendingOp EXCEPT ![e] = "NONE"]
    /\ IF state[e] = "CONNECTING"
       THEN IF reported[e]
            THEN RaiseNothing /\ UNCHANGED reported
            ELSE Raise(e, "down") /\ reported' = [reported EXCEPT ![e] = TRUE]
       ELSE Raise(e, "undiscovered") /\ UNCHANGED reported
    /\ UNCHANGED <<queue, capacity, connHandle, target>>

-----------------------------------------------------------------------------

Loop(e) == LoopBegins(e) \/ PollFires(e)

Next ==
    \/ HostStep /\ UNCHANGED <<engineVars, main, cb, session, target>>
    \/ \E e \in Engines : UserCall(e) \/ Loop(e)
    \/ Pop \/ DrainEnds \/ PollQuiet \/ CallbackReturns

Spec == Init /\ [][Next]_vars

\* The main thread finishes what it is at, and calls every engine's loop() again.
MainRuns == Pop \/ DrainEnds \/ CallbackReturns \/ PollQuiet \/ \E e \in Engines : PollFires(e)

Host(A) == A /\ UNCHANGED <<engineVars, main, cb, session, target>>

\* A deadline polled again and again in one state comes due.
ComesDue(e, s) ==
    \/ []<>(state[e] # s)
    \/ <>[](~ ENABLED <<PollFires(e)>>_vars)
    \/ []<><<PollFires(e)>>_vars

\* The host ends a connection procedure and a link that closes or broke, the latter
\* with the procedures on it.  Nothing obliges a peer to answer.
Fairness ==
    /\ WF_vars(MainRuns)
    /\ \A e \in Engines :
          /\ SF_vars(LoopBegins(e))
          /\ \A s \in Deadlined : ComesDue(e, s)
    /\ SF_vars(Host(DialFails))
    /\ \A h \in Handles :
          /\ WF_vars(Host(LinkBreaks(h) /\ link[h].phase = "closing"))
          /\ SF_vars(Host(ProcEnds(h) /\ link[h].phase = "broken"))
          /\ SF_vars(Host(LinkGone(h)))

FairSpec == Spec /\ Fairness

-----------------------------------------------------------------------------
(* Safety.                                                                 *)

\* While an engine is connecting, its attempt is still to be answered and no link
\* is taken for the attempt's: a timeout and a completion cannot both report it.
AttemptIsOpen ==
    \A e \in Engines :
        state[e] = "CONNECTING" => ~reported[e] /\ connHandle[e] = NoHandle

\* The handle an engine calls NimBLE with is that of a link of its own, or of one
\* whose end the engine is about to hear of.
HandleIsMine ==
    \A e \in Engines : connHandle[e] # NoHandle =>
        LET h == connHandle[e]
        IN  \/ link[h] # NoLink /\ link[h].owner = e
            \/ \E i \in 1 .. Len(queue) :
                  queue[i] = Event("DISCONNECT", e, h, "NONE")

\* No link is up that its engine does not know and drive: one nobody will close.
NoOrphanLink ==
    \A h \in Handles : link[h] # NoLink /\ link[h].phase = "up" =>
        LET e == link[h].owner
        IN  \/ connHandle[e] = h /\ state[e] \in {"DISCOVERING", "READY"}
            \/ \E i \in 1 .. Len(queue) :
                  queue[i] = Event("CONNECT_OK", e, h, "NONE")

\* "our own FSM deadline (set right below) is the real timeout authority": whoever
\* waits for the outcome of a connect() waits under a deadline.
AttemptHasDeadline ==
    \A e \in Engines : session[e] = "asked" => state[e] = "CONNECTING"

\* A connection reported up is the listener's own, to the peer it asked for last.
UpIsForThePeer ==
    cb # NoCall /\ cb.kind = "up" =>
        LET h == connHandle[cb.to]
        IN  link[h] # NoLink => link[h].owner = cb.to /\ link[h].peer = target[cb.to]

\* An answer is delivered as the answer to the operation it answers.
AnswersMatch ==
    [][Pop /\ Head(queue).type = "ATTR_OP"
         => pendingOp[Head(queue).owner] = Head(queue).op]_vars

\* A discovery deadline only ever ends a connection whose discovery is running or
\* whose link is over: "the connection itself is fine, only discovery hung".
OnlyDiscoveryTimesOut ==
    [][\A e \in Engines : PollFires(e) /\ state[e] = "DISCOVERING" =>
         \/ link[connHandle[e]] # NoLink => link[connHandle[e]].phase # "up"
         \/ \E p \in DOMAIN link[connHandle[e]].procs :
               link[connHandle[e]].procs[p].kind = "DISC"
         \/ QueuedFor(e, {"DISC_DONE"})]_vars

-----------------------------------------------------------------------------
(* Liveness.                                                               *)

\* Every accepted connect() is answered, whatever the queue drops.
ConnectAnswered == \A e \in Engines : session[e] = "asked" ~> session[e] # "asked"

\* "this is the bounded-exit guarantee that replaces Bluedroid's unbounded
\* esp_ble_gattc_search_service() hang".
DiscoveryEnds == \A e \in Engines : state[e] = "DISCOVERING" ~> state[e] # "DISCOVERING"

TearingDown(e) ==
    \/ dial # NoDial /\ dial.owner = e /\ dial.cancelled
    \/ connHandle[e] # NoHandle /\ \E h \in Handles :
          h = connHandle[e] /\ link[h] # NoLink /\ link[h].phase = "closing"

\* "an accepted teardown (0) always reaches a terminal on_connection_state".
TeardownCompletes == \A e \in Engines : TearingDown(e) ~> session[e] = "none"

-----------------------------------------------------------------------------
(* The listener's view: GattClientContract.                                *)

Contract == INSTANCE GattClientContract WITH Engine <- Engines

KeepsContract == Contract!Spec
=============================================================================
