------------------------ MODULE BleConnectionFsmClock ------------------------
(***************************************************************************)
(* A BleConnectionFsm driven as the engine drives it: events arrive at any *)
(* time, and the main loop polls the deadline, at the latest LoopGap after *)
(* its last poll.  clock is true time since the observation began; the     *)
(* machine only sees it as millis(), modulo ClockModulus.                  *)
(***************************************************************************)
EXTENDS BleConnectionFsm

CONSTANTS
    StartMillis,    \* what millis() reads when the observation begins
    LoopGap,        \* longest time between two polls of the main loop
    MaxClock        \* bound: length of the observation

ASSUME ClockAssumption ==
    /\ StartMillis \in 0 .. ClockModulus - 1
    /\ LoopGap \in Nat \ {0}
    /\ MaxClock \in Nat

VARIABLES
    fsm,        \* the machine
    clock,      \* true time
    polled,     \* when poll_timeout was last called
    entered,    \* when the machine entered its state
    began       \* when the machine last entered CONNECTING

vars == <<fsm, clock, polled, entered, began>>

Millis == (StartMillis + clock) % ClockModulus

\* No read of millis() and no deadline crosses the wrap during the observation.
NoWrap ==
    /\ StartMillis + MaxClock + ConnectTimeoutMs < ClockModulus
    /\ StartMillis + MaxClock + DiscoverTimeoutMs < ClockModulus

-----------------------------------------------------------------------------

Init ==
    /\ fsm = NewFsm
    /\ clock = 0
    /\ polled = 0
    /\ entered = 0
    /\ began = 0

Handle(ev) ==
    /\ fsm' = HandleEvent(fsm, ev, Millis)
    /\ entered' = IF ev \in Accepts(fsm.state) THEN clock ELSE entered
    /\ began' = IF ev \in Accepts(fsm.state) /\ fsm'.state = "CONNECTING"
                THEN clock ELSE began
    /\ UNCHANGED <<clock, polled>>

Poll ==
    /\ fsm' = PollTimeout(fsm, Millis)
    /\ entered' = IF DeadlineReached(fsm, Millis) THEN clock ELSE entered
    /\ polled' = clock
    /\ UNCHANGED <<clock, began>>

Tick ==
    /\ clock < MaxClock
    /\ clock < polled + LoopGap
    /\ clock' = clock + 1
    /\ UNCHANGED <<fsm, polled, entered, began>>

Next == Tick \/ Poll \/ \E ev \in ConnEvents : Handle(ev)

Spec == Init /\ [][Next]_vars

-----------------------------------------------------------------------------

TypeOK ==
    /\ fsm \in FsmRecords
    /\ clock \in 0 .. MaxClock
    /\ polled \in 0 .. clock
    /\ entered \in 0 .. clock
    /\ began \in 0 .. entered

\* A state with a deadline is left before the deadline plus one poll interval:
\* what the comment on poll_timeout() calls BoundedWait, "a runtime guarantee".
BoundedWait ==
    fsm.state \in Deadlined => clock - entered < RelativeDeadline(fsm.state) + LoopGap

\* poll_timeout() never ends a state before its full deadline has elapsed.
NoEarlyTimeout ==
    [][Poll /\ fsm' # fsm => clock - entered >= RelativeDeadline(fsm.state)]_vars

\* The inductive strengthening of BoundedWait: the deadline is the true one, and
\* the last poll came before it.
DeadlineIsTrue ==
    fsm.state \in Deadlined =>
        /\ fsm.deadline = StartMillis + entered + RelativeDeadline(fsm.state)
        /\ StartMillis + polled < fsm.deadline

ConnectingJustBegan == fsm.state = "CONNECTING" => began = entered

DiscoveringBegan ==
    fsm.state = "DISCOVERING" => entered - began < ConnectTimeoutMs + LoopGap

PollIsRecent == clock <= polled + LoopGap

TimingInv ==
    /\ TypeOK
    /\ PollIsRecent
    /\ DeadlineIsTrue
    /\ ConnectingJustBegan
    /\ DiscoveringBegan

-----------------------------------------------------------------------------

\* Connecting and discovering share no timer, yet the whole attempt is bounded: by
\* the two deadlines together, and one poll interval for each.
MaxAttemptMs == ConnectTimeoutMs + DiscoverTimeoutMs + 2 * (LoopGap - 1)

Phase == CASE fsm.state \in {"IDLE", "SCANNING"}       -> "rest"
           [] fsm.state \in Deadlined                  -> "attempt"
           [] fsm.state \in {"READY", "DISCONNECTING"} -> "linked"
           [] fsm.state = "BACKOFF"                    -> "penalty"

Age == IF fsm.state \in Deadlined THEN clock - began ELSE 0

Attempt == INSTANCE ConnectionAttempt
             WITH MaxAttempt <- MaxAttemptMs, phase <- Phase, age <- Age

\* The machine driven by the clock keeps the promise of ConnectionAttempt.
KeepsAttemptPromise == Attempt!Spec
=============================================================================
