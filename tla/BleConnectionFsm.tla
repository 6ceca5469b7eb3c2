-------------------------- MODULE BleConnectionFsm --------------------------
(***************************************************************************)
(* One connection slot's state machine: the class BleConnectionFsm of      *)
(* components/nimble_ble.  The class is a value here: a record with its    *)
(* three fields, and one operator per method.  BleConnectionFsmClock runs  *)
(* it against the millisecond clock.                                       *)
(***************************************************************************)
EXTENDS Integers, BleConnectionTable

CONSTANTS
    ClockModulus,       \* millis() counts modulo this (2^32 in the firmware)
    CountModulus,       \* backoff_count_ counts modulo this (2^16)
    ConnectTimeoutMs,   \* deadline of CONNECTING, relative to its entry (5000)
    DiscoverTimeoutMs   \* deadline of DISCOVERING, relative to its entry (8000)

ASSUME FsmAssumption ==
    /\ ClockModulus \in Nat \ {0}
    /\ CountModulus \in Nat \ {0}
    /\ ConnectTimeoutMs \in 1 .. ClockModulus - 1
    /\ DiscoverTimeoutMs \in 1 .. ClockModulus - 1

-----------------------------------------------------------------------------

RelativeDeadline(s) ==
    CASE s = "CONNECTING"  -> ConnectTimeoutMs
      [] s = "DISCOVERING" -> DiscoverTimeoutMs
      [] OTHER             -> 0

FsmRecords == [state        : ConnStates,
               deadline     : 0 .. ClockModulus - 1,
               backoffCount : 0 .. CountModulus - 1]

NewFsm == [state |-> "IDLE", deadline |-> 0, backoffCount |-> 0]

\* Variant: a deadline still set is kept, as though the states shared one timer.
EnterKeepingDeadline(fsm, s, millis) ==
    [state        |-> s,
     deadline     |-> IF fsm.deadline # 0 THEN fsm.deadline
                      ELSE IF s \in Deadlined
                      THEN (millis + RelativeDeadline(s)) % ClockModulus ELSE 0,
     backoffCount |-> CASE s = "BACKOFF" -> (fsm.backoffCount + 1) % CountModulus
                        [] s = "READY"   -> 0
                        [] OTHER         -> fsm.backoffCount]

\* enter_: the count follows the state entered, the deadline is absolute and
\* wraps with the clock.
Enter(fsm, s, millis) ==
    [state        |-> s,
     deadline     |-> IF s \in Deadlined
                      THEN (millis + RelativeDeadline(s)) % ClockModulus ELSE 0,
     backoffCount |-> CASE s = "BACKOFF" -> (fsm.backoffCount + 1) % CountModulus
                        [] s = "READY"   -> 0
                        [] OTHER         -> fsm.backoffCount]

HandleEvent(fsm, ev, millis) ==
    IF ev \in Accepts(fsm.state)
    THEN Enter(fsm, Target(fsm.state, ev), millis)
    ELSE fsm

\* Variant: the deadline must have passed.
DeadlinePassed(fsm, millis) ==
    /\ fsm.state \in Deadlined
    /\ fsm.deadline # 0
    /\ millis > fsm.deadline

\* poll_timeout finds a deadline, and finds it reached.
DeadlineReached(fsm, millis) ==
    /\ fsm.state \in Deadlined
    /\ fsm.deadline # 0
    /\ millis >= fsm.deadline

PollTimeout(fsm, millis) ==
    IF DeadlineReached(fsm, millis)
    THEN HandleEvent(fsm, TimeoutEvent(fsm.state), millis)
    ELSE fsm
=============================================================================
