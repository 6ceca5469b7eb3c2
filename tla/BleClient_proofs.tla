--------------------------- MODULE BleClient_proofs ---------------------------
(***************************************************************************)
(* Proofs about BleClient, for any number of clients.  What holds of the   *)
(* engines for every user holds for these: the clients' specification      *)
(* implements the engines'.  What a client tells its nodes follows from    *)
(* what its engine told it, in every circumstance.                         *)
(***************************************************************************)
EXTENDS BleClient, GattEngineSessions_proofs

-----------------------------------------------------------------------------
(* Clients are users of engines.                                           *)

\* A client's connect() is one of the engine's or leaves everything as it was.
LEMMA ConnectIsCall ==
    ASSUME NEW e \in Engines, ClientConnect(e), main.at = "idle", cb = NoCall
    PROVE  \/ UserCall(e) /\ ConnectFrom(e, e, IF state[e] = "BACKOFF" THEN "IDLE" ELSE state[e])
           \/ UserCall(e) /\ UNCHANGED <<cb, session, target>>
           \/ UNCHANGED vars
<1>1. e \in Peers
    BY ClientAssumption
<1>2. After("BACKOFF", "BACKOFF_ELAPSED") = "IDLE"
    BY DEF After, Accepts, Target
<1>3. CASE EngineConnect(e)
    BY <1>1, <1>2, <1>3 DEF EngineConnect, UserCall, RetryConnect, Connect
<1>4. CASE EngineRefuses(e)
  <2>1. CASE state[e] = "BACKOFF"
    BY <1>1, <1>4, <2>1 DEF EngineRefuses, UserCall, RetryRefused
  <2>2. CASE state[e] # "BACKOFF"
    BY <1>4, <2>2 DEF EngineRefuses, vars
  <2>3. QED
    BY <2>1, <2>2
<1>5. QED
    BY <1>3, <1>4 DEF ClientConnect

\* The steps of a client, by what they are to the engines.
LEMMA ClientKinds ==
    ASSUME ClientTypeOK, [ClientNext]_allVars
    PROVE  \/ HostRuns
           \/ EngineLoops
           \/ Listener
           \/ \E e \in Engines : ClientConnect(e) /\ main.at = "idle" /\ cb = NoCall
           \/ \E e \in Engines : ClientDisconnect(e) /\ main.at = "idle" /\ cb = NoCall
           \/ \E e \in Engines : LoopBegins(e) /\ UNCHANGED <<clientState, backingOff>>
           \/ UNCHANGED <<vars, clientState>>
BY DEF ClientNext, Setup, Automation, ClientLoop, ClientLoopBegins, Free, NotInBackoff,
       BackoffBegins, BackoffGoesOn, BackoffElapses, LoopEnds, allVars, clientVars

\* Whatever clients do is what users of the engines may do.
LEMMA ClientStep ==
    ASSUME ClientTypeOK, [ClientNext]_allVars
    PROVE  [Next]_vars
<1>1. CASE HostRuns
    BY <1>1 DEF HostRuns, Host, Next
<1>2. CASE EngineLoops
    BY <1>2 DEF EngineLoops, Next, Loop
<1>3. CASE Listener
  <2>1. CASE cb.kind = "up" /\ OnConnected(cb.to)
    <3>1. CASE DiscoverServices(cb.to)
        BY <1>3, <2>1, <3>1 DEF Listener, CallbackReturns, Next, DiscoverServices
    <3>2. CASE GattDisconnect(cb.to) /\ UNCHANGED session
        BY <1>3, <2>1, <3>2 DEF Listener, CallbackReturns, Next
    <3>3. QED
        BY <2>1, <3>1, <3>2 DEF OnConnected
  <2>2. CASE cb.kind # "up" /\ UNCHANGED <<hostVars, engineVars, session, target>>
    BY <1>3, <2>2 DEF Listener, CallbackReturns, Next
  <2>3. QED
    BY <1>3, <2>1, <2>2 DEF Listener
<1>4. ASSUME NEW e \in Engines, ClientConnect(e), main.at = "idle", cb = NoCall PROVE [Next]_vars
    BY <1>4, ConnectIsCall DEF Next
<1>5. ASSUME NEW e \in Engines, ClientDisconnect(e), main.at = "idle", cb = NoCall PROVE [Next]_vars
    BY <1>5 DEF ClientDisconnect, UserCall, Next
<1>6. ASSUME NEW e \in Engines, LoopBegins(e) PROVE [Next]_vars
    BY <1>6 DEF Next, Loop
<1>7. QED
    BY <1>1, <1>2, <1>3, <1>4, <1>5, <1>6, ClientKinds DEF allVars

-----------------------------------------------------------------------------
(* The inductive invariant.  A client that believes in a connection its    *)
(* engine no longer has is being called back about it this moment.         *)

\* No deadline is polled during a callback.
CallbackFirst == cb # NoCall => main.at # "poll"

BelievedInv ==
    \A e \in Engines : clientState[e] = "ESTABLISHED" /\ session[e] # "settled" =>
        cb # NoCall /\ cb.to = e /\ cb.kind \in {"up", "down"}

DiscoveredInv == cb # NoCall /\ cb.kind = "discovered" => session[cb.to] = "settled"

ClientInv == ClientTypeOK /\ Inv /\ CallbackFirst /\ BelievedInv /\ DiscoveredInv

LEMMA ClientTypesStep ==
    ASSUME ClientTypeOK, TypeOK', [ClientNext]_allVars
    PROVE  ClientTypeOK'
<1>1. /\ clientState \in [Engines -> ClientStates] /\ backingOff \in [Engines -> BOOLEAN]
      /\ settingUp \subseteq Engines /\ looping \in Engines \cup {NoOne}
    BY DEF ClientTypeOK
<1>2. CASE UNCHANGED clientVars
    BY <1>1, <1>2 DEF clientVars, ClientTypeOK
<1>3. ASSUME NEW e \in Engines, ClientConnect(e)
      PROVE  clientState' \in [Engines -> ClientStates] /\ backingOff' \in [Engines -> BOOLEAN]
    BY <1>1, <1>3 DEF ClientConnect, SetState, StopBackoff, ClientStates
<1>4. ASSUME NEW e \in Engines, ClientDisconnect(e)
      PROVE  clientState' \in [Engines -> ClientStates] /\ backingOff' \in [Engines -> BOOLEAN]
    BY <1>1, <1>4 DEF ClientDisconnect, SetState, ClientStates
<1>5. CASE Listener
    BY <1>1, <1>5 DEF Listener, OnConnected, OnDisconnected, OnDiscovered, SetState,
                      ClientStates, ClientTypeOK
<1>6. ASSUME NEW e \in Engines, Setup(e) \/ Automation(e) PROVE ClientTypeOK'
    BY <1>1, <1>3, <1>4, <1>6 DEF Setup, Automation, ClientTypeOK
<1>7. ASSUME NEW e \in Engines, ClientLoop(e) PROVE ClientTypeOK'
    BY <1>1, <1>3, <1>7
       DEF ClientLoop, ClientLoopBegins, NotInBackoff, BackoffBegins, BackoffGoesOn,
           BackoffElapses, LoopEnds, StopBackoff, ClientTypeOK
<1>8. QED
    BY <1>2, <1>5, <1>6, <1>7 DEF ClientNext, HostRuns, EngineLoops, allVars, clientVars

\* What a step of an engine's loop() tells the listener.
Tells(e) ==
    /\ \A d \in Engines : d # e => session'[d] = session[d]
    /\ cb' \in Callbacks /\ cb'.to = e
    /\ cb'.kind \in {"discovered", "undiscovered"} => session'[e] = "settled"

LEMMA LoopTells ==
    ASSUME Inv, CallbackFirst, EngineLoops
    PROVE  /\ cb = NoCall /\ UNCHANGED clientState
           /\ UNCHANGED <<cb, session>> \/ \E e \in Engines : Tells(e)
           /\ main'.at = "poll" => cb' = NoCall
<1>1. /\ session \in [Engines -> {"none", "asked", "up", "settled"}]
      /\ main.at \in {"idle", "drain", "poll"} /\ queue \in Seq(Events)
    BY DEF Inv, TypeOK, HostTypeOK, QueueTypeOK
<1>2. ASSUME NEW e \in Engines, NEW kind \in {"up", "down", "discovered", "undiscovered"},
             Raise(e, kind)
      PROVE  Tells(e)
    BY <1>1, <1>2 DEF Raise, Tells, Callbacks
<1>3. CASE Pop
  <2>1. /\ cb = NoCall /\ main'.at = "drain"
        /\ Head(queue) \in Events
    BY <1>1, <1>3, PopMoves
  <2>2. Head(queue).owner \in Engines
    BY <2>1 DEF Events
  <2>3. RaiseNothing \/ \E kind \in {"up", "down", "discovered", "undiscovered"} :
                            Raise(Head(queue).owner, kind)
    BY <1>3, <2>1 DEF Pop, Receiver, Events, HandleConnectOk, HandleConnectFail, FinishConnect,
       ReportOutcome, HandleDisconnect, ReportEnd, HandleDiscDone, Undiscovered, Discovered,
       HandleAttrOp, HandleOther
  <2>4. QED
    BY <1>2, <1>3, <2>1, <2>2, <2>3 DEF RaiseNothing, EngineLoops, clientVars
<1>4. CASE DrainEnds \/ PollQuiet
    BY <1>1, <1>4 DEF DrainEnds, PollQuiet, Idle, CallbackFirst, EngineLoops, clientVars
<1>5. ASSUME NEW e \in Engines, PollFires(e)
      PROVE  /\ cb = NoCall /\ main'.at # "poll"
             /\ UNCHANGED <<cb, session>> \/ \E d \in Engines : Tells(d)
    BY <1>2, <1>5 DEF PollFires, CallbackFirst, RaiseNothing, Idle
<1>6. QED
    BY <1>3, <1>4, <1>5 DEF EngineLoops, clientVars

LEMMA ClientInvNext ==
    ASSUME ClientInv, [ClientNext]_allVars
    PROVE  ClientInv'
<1>1. Inv' /\ ClientTypeOK'
    BY NextInv, ClientStep, ClientTypesStep DEF ClientInv, Inv
<1>2. /\ clientState \in [Engines -> ClientStates]
      /\ session \in [Engines -> {"none", "asked", "up", "settled"}]
      /\ cb \in Callbacks \cup {NoCall} /\ Inv
    BY DEF ClientInv, ClientTypeOK, TypeOK
<1>3. CASE HostRuns \/ UNCHANGED <<vars, clientState>>
  <2>1. UNCHANGED <<main, cb, session, clientState>>
    BY <1>3 DEF HostRuns, Host, vars, clientVars
  <2>2. QED
    BY <1>1, <2>1 DEF ClientInv, CallbackFirst, BelievedInv, DiscoveredInv
<1>4. CASE EngineLoops
  <2>1. /\ cb = NoCall /\ UNCHANGED clientState
        /\ UNCHANGED <<cb, session>> \/ \E e \in Engines : Tells(e)
        /\ main'.at = "poll" => cb' = NoCall
    BY <1>2, <1>4, LoopTells DEF ClientInv
  <2>2. \A e \in Engines : clientState[e] = "ESTABLISHED" => session[e] = "settled"
    BY <2>1 DEF ClientInv, BelievedInv
  <2>3. ASSUME NEW e \in Engines, Tells(e)
        PROVE  BelievedInv' /\ DiscoveredInv'
    BY <2>1, <2>2, <2>3, EngineAssumption DEF Tells, Callbacks, BelievedInv, DiscoveredInv
  <2>4. ASSUME UNCHANGED <<cb, session>>
        PROVE  BelievedInv' /\ DiscoveredInv'
    BY <2>1, <2>2, <2>4 DEF BelievedInv, DiscoveredInv
  <2>5. CallbackFirst' /\ BelievedInv' /\ DiscoveredInv'
    <3>1. CallbackFirst'
        BY <2>1 DEF CallbackFirst
    <3>2. QED
        BY <2>1, <2>3, <2>4, <3>1
  <2>6. QED
    BY <1>1, <2>5 DEF ClientInv
<1>5. CASE Listener
  <2>1. cb # NoCall /\ cb' = NoCall /\ cb \in Callbacks /\ cb.to \in Engines
    BY <1>2, <1>5 DEF Listener, Callbacks
  <2>2. UNCHANGED session
    BY <1>5 DEF Listener, OnConnected, DiscoverServices
  <2>3. /\ \A d \in Engines : d # cb.to => clientState'[d] = clientState[d]
        /\ clientState'[cb.to] = "ESTABLISHED" =>
              \/ cb.kind = "discovered"
              \/ cb.kind = "undiscovered" /\ clientState[cb.to] = "ESTABLISHED"
    BY <1>2, <1>5, <2>1 DEF Listener, OnConnected, OnDisconnected, OnDiscovered, SetState
  <2>4. \A d \in Engines : clientState'[d] = "ESTABLISHED" => session[d] = "settled"
    BY <2>1, <2>3 DEF ClientInv, BelievedInv, DiscoveredInv
  <2>5. QED
    BY <1>1, <2>1, <2>2, <2>4 DEF ClientInv, CallbackFirst, BelievedInv, DiscoveredInv
<1>6. ASSUME NEW e \in Engines, ClientConnect(e), main.at = "idle", cb = NoCall PROVE ClientInv'
  <2>1. /\ clientState'[e] # "ESTABLISHED" /\ cb' = NoCall
        /\ \A d \in Engines : d # e => clientState'[d] = clientState[d] /\ session'[d] = session[d]
    BY <1>2, <1>6, ConnectIsCall DEF ClientConnect, SetState, ConnectFrom, vars
  <2>2. QED
    BY <1>1, <1>6, <2>1 DEF ClientInv, CallbackFirst, BelievedInv, DiscoveredInv
<1>7. ASSUME NEW e \in Engines, ClientDisconnect(e), main.at = "idle", cb = NoCall PROVE ClientInv'
    BY <1>1, <1>2, <1>7 DEF ClientDisconnect, SetState, ClientInv, CallbackFirst,
                            BelievedInv, DiscoveredInv
<1>8. ASSUME NEW e \in Engines, LoopBegins(e), UNCHANGED <<clientState, backingOff>> PROVE ClientInv'
    BY <1>1, <1>8 DEF LoopBegins, ClientInv, CallbackFirst, BelievedInv, DiscoveredInv
<1>9. QED
    BY <1>3, <1>4, <1>5, <1>6, <1>7, <1>8, ClientKinds DEF ClientInv

LEMMA ClientInvHolds == ClientSpec => []ClientInv
<1>1. ClientInit => ClientInv
    BY InitInv DEF ClientInit, Init, ClientInv, ClientTypeOK, ClientStates, Inv, CallbackFirst,
                   BelievedInv, DiscoveredInv
<1>2. ClientInv /\ [ClientNext]_allVars => ClientInv'
    BY ClientInvNext
<1>3. QED
    BY <1>1, <1>2, PTL DEF ClientSpec

\* Clients use their engines as NimbleGattEngine has them used: what its theorems say
\* of the engines holds of the clients' (ble_client_base.cpp).
THEOREM ClientsUseEngines == ClientSpec => Spec
<1>1. ClientInit => Init
    BY DEF ClientInit
<1>2. ClientInv /\ [ClientNext]_allVars => [Next]_vars
    BY ClientStep DEF ClientInv
<1>3. QED
    BY <1>1, <1>2, ClientInvHolds, PTL DEF ClientSpec, Spec

\* Type correctness of clients and engines, whatever automations do.
THEOREM ClientTypes == ClientSpec => []ClientTypeOK
BY ClientInvHolds, PTL DEF ClientInv

\* A client whose nodes believe in a connection has not been told of its end by its
\* engine (on_connection_state and on_service_discovery_done in ble_client_base.cpp):
\* with late completions, dropped events, and automations at any time.
THEOREM BelievedIsSettled == ClientSpec => []EstablishedHasSession
<1>1. ClientInv => EstablishedHasSession
    BY DEF ClientInv, BelievedInv, EstablishedHasSession
<1>2. QED
    BY <1>1, ClientInvHolds, PTL

-----------------------------------------------------------------------------
(* Clients and addresses.                                                  *)

\* Every connection, begun or made, is to the address of the client it is for.
OwnPeers ==
    /\ dial # NoDial => dial.peer = dial.owner
    /\ \A h \in Handles : link[h] # NoLink => link[h].peer = link[h].owner

\* A client's handle is of a connection to its configured address, or of one whose end
\* it is about to hear of.
OwnAddress ==
    \A e \in Engines, h \in Handles : connHandle[e] = h =>
        \/ link[h] # NoLink /\ link[h].owner = e /\ link[h].peer = e
        \/ \E i \in 1 .. Len(queue) : queue[i] = Event("DISCONNECT", e, h, "NONE")

LEMMA OwnPeersKept ==
    ASSUME OwnPeers, LinksKept,
           dial' = dial \/ (dial # NoDial /\ dial' = [dial EXCEPT !.cancelled = TRUE]),
           dial \in Dials \cup {NoDial}
    PROVE  OwnPeers'
BY DEF OwnPeers, LinksKept, LinkKept, Dials

LEMMA OwnPeersNext ==
    ASSUME ClientInv, OwnPeers, [ClientNext]_allVars
    PROVE  OwnPeers'
<1>1. Inv /\ dial \in Dials \cup {NoDial} /\ LinkTypeOK /\ NoDial \notin Dials
    BY HostAssumption DEF ClientInv, Inv, TypeOK, HostTypeOK
<1>2. ASSUME Calm PROVE OwnPeers'
    BY <1>1, <1>2, OwnPeersKept DEF Calm
<1>3. ASSUME HostStep PROVE OwnPeers'
  <2>1. ASSUME NEW h \in Handles, Breaks(h) PROVE OwnPeers'
    BY <2>1 DEF Breaks, OwnPeers
  <2>2. ASSUME NEW ev \in Events, NEW h \in Handles,
               \/ SendsFail(ev) \/ SendsEnd(ev, h) \/ SendsAnswer(ev, h) \/ SendsOther(ev, h)
        PROVE  OwnPeers'
    BY <2>2 DEF SendsFail, SendsEnd, SendsAnswer, SendsOther, OwnPeers
  <2>3. ASSUME NEW ev \in Events, NEW h \in Handles, SendsOk(ev, h) PROVE OwnPeers'
    BY <2>3 DEF SendsOk, Dialing, OwnPeers
  <2>4. ASSUME NEW ev \in Events, SendsFail(ev) PROVE OwnPeers'
    BY <2>4 DEF SendsFail, OwnPeers
  <2>5. QED
    BY <1>1, <1>3, <2>1, <2>2, <2>3, <2>4, HostKinds
<1>4. CASE EngineLoops
  <2>1. CASE Pop
    BY <1>1, <2>1, PopKinds, OwnPeersKept
  <2>2. CASE DrainEnds \/ PollQuiet
    BY <1>1, <2>2, Untouched, OwnPeersKept DEF DrainEnds, PollQuiet, hostVars
  <2>3. ASSUME NEW e \in Engines, PollFires(e) PROVE OwnPeers'
    BY <1>1, <1>2, <2>3, CallsAreCalm
  <2>4. QED
    BY <1>4, <2>1, <2>2, <2>3 DEF EngineLoops
<1>5. CASE Listener
  <2>1. cb # NoCall /\ cb.to \in Engines
    BY <1>5 DEF Listener, ClientInv, ClientTypeOK, TypeOK, Callbacks
  <2>2. CASE UNCHANGED <<hostVars, engineVars, session, target>>
    BY <1>1, <2>2, Untouched, OwnPeersKept DEF hostVars
  <2>3. QED
    BY <1>1, <1>2, <1>5, <2>1, <2>2, CallsAreCalm DEF Listener, OnConnected
<1>6. ASSUME NEW e \in Engines, ClientConnect(e), main.at = "idle", cb = NoCall PROVE OwnPeers'
  <2>1. CASE EngineConnect(e)
    BY <2>1 DEF EngineConnect, RetryConnect, Connect, ConnectFrom, OwnPeers
  <2>2. CASE EngineRefuses(e)
    BY <1>1, <2>2, Untouched, OwnPeersKept DEF EngineRefuses, RetryRefused, hostVars
  <2>3. QED
    BY <1>6, <2>1, <2>2 DEF ClientConnect
<1>7. ASSUME NEW e \in Engines, ClientDisconnect(e) PROVE OwnPeers'
    BY <1>1, <1>2, <1>7, CallsAreCalm DEF ClientDisconnect
<1>8. ASSUME NEW e \in Engines, LoopBegins(e) PROVE OwnPeers'
    BY <1>1, <1>8, Untouched, OwnPeersKept DEF LoopBegins
<1>9. CASE UNCHANGED vars
    BY <1>1, <1>9, Untouched, OwnPeersKept DEF vars, hostVars
<1>10. QED
    BY <1>3, <1>4, <1>5, <1>6, <1>7, <1>8, <1>9, ClientKinds DEF ClientInv, HostRuns, Host

\* A client talks to its configured address only (connect() in ble_client_base.cpp passes
\* it, the engine keeps the handle of what came of it), if the queue drops nothing: also
\* with completions that come late and handles that are reused.
THEOREM ClientsKeepToAddress ==
    ASSUME "overflow" \notin Allowed
    PROVE  ClientSpec => []OwnAddress
<1>1. ClientInit => OwnPeers
    BY DEF ClientInit, Init, HostInit, OwnPeers
<1>2. ClientInv /\ OwnPeers /\ [ClientNext]_allVars => OwnPeers'
    BY OwnPeersNext
<1>3. OwnPeers /\ HandleIsMine => OwnAddress
    BY HostAssumption DEF OwnPeers, HandleIsMine, OwnAddress
<1>4. QED
    BY <1>1, <1>2, <1>3, ClientInvHolds, ClientsUseEngines, HandlesAreMine, PTL DEF ClientSpec
=============================================================================
