------------------------------ MODULE BleClient ------------------------------
(***************************************************************************)
(* The ble_client component: BLEClientBase and BLEClient, each the user    *)
(* and the listener of an engine of its own.  A client connects in setup() *)
(* and again after every backoff when auto_connect is set, connects and    *)
(* disconnects when an automation asks, and tells its nodes.               *)
(*                                                                         *)
(* Each client is configured with one address, called here by the name of  *)
(* its engine.                                                             *)
(***************************************************************************)
EXTENDS NimbleGattEngine

CONSTANTS
    AutoConnect,    \* the clients with auto_connect
    Automations     \* what automations do: a subset of AutomationKinds

\* "connect", "disconnect": only when it makes sense, in IDLE and in ESTABLISHED.
\* "anytime": both, in any state.
AutomationKinds == {"connect", "disconnect", "anytime"}

ASSUME ClientAssumption ==
    /\ Engines \subseteq Peers
    /\ AutoConnect \subseteq Engines
    /\ Automations \subseteq AutomationKinds

VARIABLES
    clientState,    \* state_
    backingOff,     \* backoff_started_at_ # 0
    settingUp,      \* the clients whose setup() has not run
    looping         \* the client whose loop() is past engine_.loop()

clientVars == <<clientState, backingOff, settingUp, looping>>
allVars == <<vars, clientVars>>

ClientStates == {"IDLE", "CONNECTING", "CONNECTED", "ESTABLISHED", "DISCONNECTING"}

ClientTypeOK ==
    /\ TypeOK
    /\ clientState \in [Engines -> ClientStates]
    /\ backingOff \in [Engines -> BOOLEAN]
    /\ settingUp \subseteq Engines
    /\ looping \in Engines \cup {NoOne}

ClientInit ==
    /\ Init
    /\ clientState = [e \in Engines |-> "IDLE"]
    /\ backingOff = [e \in Engines |-> FALSE]
    /\ settingUp = Engines
    /\ looping = NoOne

\* set_state.  Nodes hear of each change to ESTABLISHED and of each change to IDLE.
SetState(e, s) == clientState' = [clientState EXCEPT ![e] = s]

StopBackoff(e) == backingOff' = [backingOff EXCEPT ![e] = FALSE]

\* The main thread is between two calls, and not inside a client's loop().
Free == main.at = "idle" /\ cb = NoCall /\ looping = NoOne

-----------------------------------------------------------------------------

EngineConnect(e) ==
    /\ NothingLate(e)
    /\ IF state[e] = "BACKOFF" THEN RetryConnect(e, e) ELSE Connect(e, e)
    /\ UNCHANGED main

\* The engine refuses; a machine in BACKOFF has left it all the same.
EngineRefuses(e) ==
    /\ IF state[e] = "BACKOFF"
       THEN RetryRefused(e, e)
       ELSE /\ MayRefuse(e, e, state[e])
            /\ UNCHANGED <<hostVars, engineVars, cb, session, target>>
    /\ UNCHANGED main

\* connect().  The CONNECTING that precedes a refusal only decides what nodes hear.
ClientConnect(e) ==
    /\ StopBackoff(e)
    /\ \/ EngineConnect(e) /\ SetState(e, "CONNECTING")
       \/ EngineRefuses(e) /\ SetState(e, "IDLE")

\* disconnect(), which does not look at what gatt_disconnect() returns.
ClientDisconnect(e) ==
    /\ SetState(e, "DISCONNECTING")
    /\ GattDisconnect(e)
    /\ UNCHANGED <<main, cb, session, backingOff>>

Setup(e) ==
    /\ Free /\ e \in settingUp
    /\ settingUp' = settingUp \ {e}
    /\ IF e \in AutoConnect
       THEN ClientConnect(e)
       ELSE UNCHANGED <<vars, clientState, backingOff>>
    /\ UNCHANGED looping

\* ble_client.connect and ble_client.disconnect actions.
Automation(e) ==
    /\ Free /\ settingUp = {}
    /\ \/ /\ \/ "connect" \in Automations /\ clientState[e] = "IDLE"
             \/ "anytime" \in Automations
          /\ ClientConnect(e)
       \/ /\ \/ "disconnect" \in Automations /\ clientState[e] = "ESTABLISHED"
             \/ "anytime" \in Automations
          /\ ClientDisconnect(e)
    /\ UNCHANGED <<settingUp, looping>>

-----------------------------------------------------------------------------
(* The listener: on_connection_state and on_service_discovery_done.        *)

OnConnected(e) ==
    /\ SetState(e, "CONNECTED")
    /\ \/ DiscoverServices(e)
       \/ /\ ~CanRun(connHandle[e]) \/ "refuse" \in Allowed
          /\ GattDisconnect(e) /\ UNCHANGED session

\* Variant: a client does not learn from its engine that the connection ended.
OnDisconnectedIgnored(e) == UNCHANGED clientState

OnDisconnected(e) == SetState(e, "IDLE")

OnDiscovered(e) == SetState(e, "ESTABLISHED")

Listener ==
    /\ cb # NoCall
    /\ cb' = NoCall
    /\ UNCHANGED <<main, backingOff, settingUp, looping>>
    /\ \/ cb.kind = "up" /\ OnConnected(cb.to)
       \/ /\ \/ cb.kind = "down" /\ OnDisconnected(cb.to)
             \/ cb.kind = "discovered" /\ OnDiscovered(cb.to)
             \/ cb.kind = "undiscovered" /\ UNCHANGED clientState
          /\ UNCHANGED <<hostVars, engineVars, session, target>>

-----------------------------------------------------------------------------
(* loop(): the engine's, then the backoff.                                 *)

ClientLoopBegins(e) ==
    /\ Free /\ settingUp = {}
    /\ LoopBegins(e)
    /\ looping' = e
    /\ UNCHANGED <<clientState, backingOff, settingUp>>

EngineLoops ==
    /\ Pop \/ DrainEnds \/ PollQuiet \/ \E e \in Engines : PollFires(e)
    /\ UNCHANGED clientVars

LoopEnds(e) ==
    /\ main.at = "idle" /\ cb = NoCall /\ looping = e
    /\ looping' = NoOne
    /\ UNCHANGED settingUp

NotInBackoff(e) ==
    /\ LoopEnds(e)
    /\ state[e] # "BACKOFF"
    /\ StopBackoff(e)
    /\ UNCHANGED <<vars, clientState>>

BackoffBegins(e) ==
    /\ LoopEnds(e)
    /\ state[e] = "BACKOFF" /\ ~backingOff[e]
    /\ backingOff' = [backingOff EXCEPT ![e] = TRUE]
    /\ UNCHANGED <<vars, clientState>>

BackoffGoesOn(e) ==
    /\ LoopEnds(e)
    /\ state[e] = "BACKOFF" /\ backingOff[e]
    /\ UNCHANGED <<vars, clientState, backingOff>>

BackoffElapses(e) ==
    /\ LoopEnds(e)
    /\ state[e] = "BACKOFF" /\ backingOff[e]
    /\ e \in AutoConnect
    /\ ClientConnect(e)

ClientLoop(e) ==
    \/ ClientLoopBegins(e) \/ NotInBackoff(e)
    \/ BackoffBegins(e) \/ BackoffGoesOn(e) \/ BackoffElapses(e)

-----------------------------------------------------------------------------

HostRuns == Host(HostStep) /\ UNCHANGED clientVars

ClientNext ==
    \/ HostRuns \/ EngineLoops \/ Listener
    \/ \E e \in Engines : Setup(e) \/ Automation(e) \/ ClientLoop(e)

ClientSpec == ClientInit /\ [][ClientNext]_allVars

\* A backoff delay polled again and again comes to its end.
BackoffComesToEnd(e) ==
    \/ []<>(state[e] # "BACKOFF")
    \/ <>[](~ ENABLED <<BackoffElapses(e)>>_allVars)
    \/ []<><<BackoffElapses(e)>>_allVars

\* The fairness of the engines' specification, for the clients' main thread.
ClientFairness ==
    /\ WF_allVars(\/ EngineLoops \/ Listener
                   \/ \E e \in Engines : Setup(e) \/ NotInBackoff(e) \/ BackoffBegins(e)
                                          \/ BackoffGoesOn(e) \/ BackoffElapses(e))
    /\ \A e \in Engines :
          /\ SF_allVars(ClientLoopBegins(e))
          /\ BackoffComesToEnd(e)
          /\ \A s \in Deadlined : ComesDue(e, s)
    /\ SF_allVars(Host(DialFails) /\ UNCHANGED clientVars)
    /\ \A h \in Handles :
          /\ WF_allVars(/\ Host(LinkBreaks(h)) /\ link[h].phase = "closing"
                        /\ UNCHANGED clientVars)
          /\ SF_allVars(/\ Host(ProcEnds(h)) /\ link[h].phase = "broken"
                        /\ UNCHANGED clientVars)
          /\ SF_allVars(Host(LinkGone(h)) /\ UNCHANGED clientVars)

FairClientSpec == ClientSpec /\ ClientFairness

-----------------------------------------------------------------------------

\* While the nodes of a client believe in a connection, its engine has not reported
\* that connection's end.
EstablishedHasSession ==
    \A e \in Engines :
        cb = NoCall /\ clientState[e] = "ESTABLISHED" => session[e] = "settled"

\* What a client began comes to an end its nodes can see.
Underway == {"CONNECTING", "CONNECTED", "DISCONNECTING"}

AttemptSettles == \A e \in Engines : clientState[e] \in Underway ~> clientState[e] \notin Underway

\* auto_connect: 'the only self-driven "keep trying forever" loop in this codebase'.
KeepsTrying == \A e \in AutoConnect : []<>(session[e] # "none")
=============================================================================
