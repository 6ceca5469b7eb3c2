-------------------- MODULE BleConnectionFsmClock_proofs --------------------
(***************************************************************************)
(* Proofs about BleConnectionFsmClock, for every deadline, poll interval   *)
(* and length of observation in which millis() does not wrap; and about    *)
(* ConnectBackoff, the delay for which the machine stays in BACKOFF.       *)
(***************************************************************************)
EXTENDS BleConnectionFsmClock, ConnectBackoff, TLAPS

\* As long as nothing wraps, reading the clock and adding a deadline to it are
\* exact.
LEMMA ExactMillis ==
    ASSUME NoWrap, TypeOK
    PROVE  /\ Millis = StartMillis + clock
           /\ \A s \in Deadlined :
                 (Millis + RelativeDeadline(s)) % ClockModulus
                    = StartMillis + clock + RelativeDeadline(s)
<1>1. /\ StartMillis \in Nat /\ clock \in Nat /\ clock <= MaxClock /\ MaxClock \in Nat
      /\ ClockModulus \in Nat \ {0}
      /\ ConnectTimeoutMs \in Nat /\ DiscoverTimeoutMs \in Nat
    BY FsmAssumption, ClockAssumption DEF TypeOK
<1>2. ASSUME NEW n \in Nat, n < ClockModulus PROVE n % ClockModulus = n
    BY <1>1, <1>2
<1>3. StartMillis + clock < ClockModulus
    BY <1>1 DEF NoWrap
<1>4. Millis = StartMillis + clock
    BY <1>1, <1>2, <1>3 DEF Millis
<1>5. ASSUME NEW s \in Deadlined
      PROVE  /\ RelativeDeadline(s) \in Nat
             /\ StartMillis + clock + RelativeDeadline(s) < ClockModulus
    BY <1>1, FsmAssumption DEF NoWrap, Deadlined, RelativeDeadline
<1>6. QED
    BY <1>1, <1>2, <1>4, <1>5

\* The table stays inside the states of the machine.
LEMMA TargetIsState ==
    ASSUME NEW s \in ConnStates, NEW ev \in Accepts(s)
    PROVE  Target(s, ev) \in ConnStates
BY DEF ConnStates, Accepts, Target

\* Entering a state keeps the record well formed, whatever millis() reads.
LEMMA EnterType ==
    ASSUME NEW f \in FsmRecords, NEW s \in ConnStates, NEW m \in Nat
    PROVE  /\ Enter(f, s, m) \in FsmRecords
           /\ Enter(f, s, m).state = s
           /\ s \in Deadlined =>
                 Enter(f, s, m).deadline = (m + RelativeDeadline(s)) % ClockModulus
<1>1. (m + RelativeDeadline(s)) % ClockModulus \in 0 .. ClockModulus - 1
    BY FsmAssumption DEF RelativeDeadline
<1>2. (f.backoffCount + 1) % CountModulus \in 0 .. CountModulus - 1
    BY FsmAssumption DEF FsmRecords
<1>3. 0 \in 0 .. ClockModulus - 1 /\ 0 \in 0 .. CountModulus - 1
    BY FsmAssumption
<1>4. f.backoffCount \in 0 .. CountModulus - 1
    BY DEF FsmRecords
<1>5. QED
    BY <1>1, <1>2, <1>3, <1>4 DEF Enter, FsmRecords

-----------------------------------------------------------------------------

LEMMA InitTiming == Init => TimingInv
<1>1. 0 \in 0 .. ClockModulus - 1 /\ 0 \in 0 .. CountModulus - 1
    BY FsmAssumption
<1>2. QED
    BY <1>1, ClockAssumption
    DEF Init, NewFsm, TimingInv, TypeOK, FsmRecords, ConnStates, PollIsRecent,
        DeadlineIsTrue, ConnectingJustBegan, DiscoveringBegan, Deadlined

\* A step in which the machine accepts ev enters a state just now.
LEMMA AcceptedEvent ==
    ASSUME NoWrap, TimingInv, NEW ev \in Accepts(fsm.state),
           fsm' = HandleEvent(fsm, ev, Millis),
           entered' = clock,
           began' = IF fsm'.state = "CONNECTING" THEN clock ELSE began,
           UNCHANGED clock,
           polled' \in {polled, clock}
    PROVE  TimingInv'
<1>1. /\ fsm \in FsmRecords /\ fsm.state \in ConnStates /\ Millis \in Nat
      /\ clock \in 0 .. MaxClock /\ polled \in 0 .. clock /\ entered \in 0 .. clock
      /\ began \in 0 .. entered
    BY FsmAssumption, ClockAssumption DEF TimingInv, TypeOK, FsmRecords, Millis
<1> DEFINE s == Target(fsm.state, ev)
<1>2. s \in ConnStates
    BY <1>1, TargetIsState
<1>3. fsm' = Enter(fsm, s, Millis)
    BY DEF HandleEvent
<1>4. /\ fsm' \in FsmRecords
      /\ fsm'.state = s
      /\ s \in Deadlined => fsm'.deadline = (Millis + RelativeDeadline(s)) % ClockModulus
    BY <1>1, <1>2, <1>3, EnterType
<1>5. s \in Deadlined => fsm'.deadline = StartMillis + clock + RelativeDeadline(s)
    BY <1>4, ExactMillis DEF TimingInv
<1>6. s \in Deadlined => RelativeDeadline(s) \in Nat \ {0}
    BY FsmAssumption DEF Deadlined, RelativeDeadline
<1>7. TypeOK'
    BY <1>1, <1>4, ClockAssumption DEF TypeOK
<1>8. PollIsRecent'
  <2>1. clock <= polled + LoopGap /\ clock <= clock + LoopGap
    BY <1>1, ClockAssumption DEF TimingInv, PollIsRecent
  <2>2. clock' <= polled' + LoopGap
    BY <2>1
  <2>3. QED
    BY <2>2 DEF PollIsRecent
<1>9. DeadlineIsTrue'
    BY <1>1, <1>4, <1>5, <1>6, ClockAssumption, FsmAssumption DEF DeadlineIsTrue
<1>10. ConnectingJustBegan'
    BY <1>4 DEF ConnectingJustBegan
<1>11. DiscoveringBegan'
  <2>1. CASE s = "DISCOVERING"
    <3>1. fsm.state = "CONNECTING"
        BY <2>1, <1>1 DEF Accepts, Target, ConnStates
    <3>2. /\ entered = began
          /\ StartMillis + polled < StartMillis + entered + ConnectTimeoutMs
          /\ clock <= polled + LoopGap
        BY <3>1 DEF TimingInv, PollIsRecent, DeadlineIsTrue, ConnectingJustBegan,
                    Deadlined, RelativeDeadline
    <3>3. clock - began < ConnectTimeoutMs + LoopGap
        BY <1>1, <3>2, FsmAssumption, ClockAssumption
    <3>4. QED
        BY <2>1, <1>4, <3>3 DEF DiscoveringBegan
  <2>2. CASE s # "DISCOVERING"
    BY <2>2, <1>4 DEF DiscoveringBegan
  <2>3. QED
    BY <2>1, <2>2
<1>12. QED
    BY <1>7, <1>8, <1>9, <1>10, <1>11 DEF TimingInv

\* A step in which the machine accepts nothing: only the clocks may have moved.
LEMMA NothingAccepted ==
    ASSUME NoWrap, TimingInv, UNCHANGED <<fsm, entered, began>>,
           clock' \in 0 .. MaxClock, clock <= clock',
           polled' \in 0 .. clock', clock' <= polled' + LoopGap,
           fsm.state \in Deadlined => StartMillis + polled' < fsm.deadline
    PROVE  TimingInv'
BY ClockAssumption
DEF TimingInv, TypeOK, PollIsRecent, DeadlineIsTrue, ConnectingJustBegan,
    DiscoveringBegan, RelativeDeadline, Deadlined

LEMMA StepTiming == NoWrap /\ TimingInv /\ [Next]_vars => TimingInv'
<1> SUFFICES ASSUME NoWrap, TimingInv, [Next]_vars PROVE TimingInv'
    OBVIOUS
<1>0. /\ clock \in 0 .. MaxClock /\ polled \in 0 .. clock /\ clock <= polled + LoopGap
      /\ fsm.state \in Deadlined => StartMillis + polled < fsm.deadline
      /\ Millis = StartMillis + clock
    BY ExactMillis DEF TimingInv, TypeOK, PollIsRecent, DeadlineIsTrue
<1>1. CASE Tick
    BY <1>0, <1>1, NothingAccepted, ClockAssumption DEF Tick
<1>2. CASE Poll
  <2>1. CASE DeadlineReached(fsm, Millis)
    <3>1. TimeoutEvent(fsm.state) \in Accepts(fsm.state)
        BY <2>1 DEF DeadlineReached, Deadlined, TimeoutEvent, Accepts
    <3>2. fsm' = HandleEvent(fsm, TimeoutEvent(fsm.state), Millis)
        BY <1>2, <2>1 DEF Poll, PollTimeout
    <3>3. fsm'.state # "CONNECTING"
        BY <2>1, <3>1, <3>2
        DEF HandleEvent, Enter, Target, TimeoutEvent, DeadlineReached, Deadlined
    <3>4. QED
        BY <1>2, <2>1, <3>1, <3>2, <3>3, AcceptedEvent DEF Poll
  <2>2. CASE ~DeadlineReached(fsm, Millis)
    <3>1. fsm.state \in Deadlined => StartMillis + clock < fsm.deadline
        BY <1>0, <2>2, ClockAssumption, FsmAssumption
        DEF DeadlineReached, TimingInv, DeadlineIsTrue, TypeOK, FsmRecords
    <3>2. UNCHANGED <<fsm, entered, began, clock>> /\ polled' = clock
        BY <1>2, <2>2 DEF Poll, PollTimeout
    <3>3. QED
        BY <1>0, <3>1, <3>2, NothingAccepted, ClockAssumption
  <2>3. QED
    BY <2>1, <2>2
<1>3. ASSUME NEW ev \in ConnEvents, Handle(ev) PROVE TimingInv'
  <2>1. CASE ev \in Accepts(fsm.state)
    BY <1>3, <2>1, AcceptedEvent DEF Handle
  <2>2. CASE ev \notin Accepts(fsm.state)
    <3>1. UNCHANGED vars
        BY <1>3, <2>2 DEF Handle, HandleEvent, vars
    <3>2. QED
        BY <1>0, <3>1, NothingAccepted DEF vars
  <2>3. QED
    BY <2>1, <2>2
<1>4. CASE UNCHANGED vars
    BY <1>0, <1>4, NothingAccepted DEF vars
<1>5. QED
    BY <1>1, <1>2, <1>3, <1>4 DEF Next

\* While millis() does not wrap, the machine's deadline is the true one and the
\* last poll came before it.
THEOREM TimingCorrect == NoWrap => (Spec => []TimingInv)
<1> SUFFICES ASSUME NoWrap PROVE Spec => []TimingInv
    OBVIOUS
<1>1. Init => TimingInv
    BY InitTiming
<1>2. TimingInv /\ [Next]_vars => TimingInv'
    BY StepTiming
<1>3. QED
    BY <1>1, <1>2, PTL DEF Spec

\* BoundedWait, the guarantee poll_timeout() is documented to give: no state with a
\* deadline outlives it by a whole poll interval.
THEOREM WaitIsBounded == NoWrap => (Spec => []BoundedWait)
<1> SUFFICES ASSUME NoWrap PROVE Spec => []BoundedWait
    OBVIOUS
<1>1. TimingInv => BoundedWait
    BY FsmAssumption, ClockAssumption
    DEF TimingInv, TypeOK, PollIsRecent, DeadlineIsTrue, BoundedWait, Deadlined,
        RelativeDeadline
<1>2. QED
    BY <1>1, TimingCorrect, PTL

\* poll_timeout() never ends a state before its full deadline has elapsed.
THEOREM TimeoutsAreDue == NoWrap => (Spec => NoEarlyTimeout)
<1> SUFFICES ASSUME NoWrap PROVE Spec => NoEarlyTimeout
    OBVIOUS
<1>1. ASSUME TimingInv, Poll, fsm' # fsm
      PROVE  clock - entered >= RelativeDeadline(fsm.state)
  <2>1. DeadlineReached(fsm, Millis)
    BY <1>1 DEF Poll, PollTimeout
  <2>2. /\ fsm.deadline = StartMillis + entered + RelativeDeadline(fsm.state)
        /\ StartMillis + clock >= fsm.deadline
    BY <1>1, <2>1, ExactMillis DEF DeadlineReached, TimingInv, DeadlineIsTrue
  <2>3. RelativeDeadline(fsm.state) \in Nat
    BY FsmAssumption DEF RelativeDeadline
  <2>4. clock \in Nat /\ entered \in Nat /\ StartMillis \in Nat
    BY <1>1, ClockAssumption DEF TimingInv, TypeOK
  <2>5. QED
    BY <2>2, <2>3, <2>4
<1>2. TimingInv /\ [Next]_vars
        => [Poll /\ fsm' # fsm => clock - entered >= RelativeDeadline(fsm.state)]_vars
    BY <1>1
<1>3. QED
    BY <1>2, TimingCorrect, PTL DEF Spec, NoEarlyTimeout

-----------------------------------------------------------------------------

\* What the abstract step needs to know of a step that accepts an event.
LEMMA AcceptedPhase ==
    ASSUME TimingInv, NEW ev \in Accepts(fsm.state), NoWrap,
           fsm' = HandleEvent(fsm, ev, Millis),
           began' = IF fsm'.state = "CONNECTING" THEN clock ELSE began,
           UNCHANGED clock
    PROVE  Attempt!Next \/ UNCHANGED <<Phase, Age>>
<1>1. fsm.state \in ConnStates /\ clock - clock = 0
    BY DEF TimingInv, TypeOK, FsmRecords
<1>2. fsm'.state = Target(fsm.state, ev)
    BY DEF HandleEvent, Enter
<1>3. CASE fsm.state = "CONNECTING" /\ fsm'.state = "DISCOVERING"
    BY <1>3 DEF Phase, Age, Deadlined
<1>4. CASE /\ fsm.state \in Deadlined
           /\ ~(fsm.state = "CONNECTING" /\ fsm'.state = "DISCOVERING")
  <2>1. Phase = "attempt"
    BY <1>4 DEF Phase, Deadlined
  <2>2. fsm'.state \in {"READY", "BACKOFF"}
    BY <1>2, <1>4 DEF Deadlined, Accepts, Target
  <2>3. Phase' \in {"linked", "penalty"} /\ Age' = 0
    BY <2>2 DEF Phase, Age, Deadlined
  <2>4. QED
    BY <2>1, <2>3 DEF Attempt!Next, Attempt!Leave
<1>5. CASE fsm.state \in {"IDLE", "SCANNING"}
    BY <1>1, <1>2, <1>5
    DEF Phase, Age, Deadlined, Accepts, Target, Attempt!Next, Attempt!Begin
<1>6. CASE fsm.state \in {"READY", "DISCONNECTING", "BACKOFF"}
    BY <1>2, <1>6
    DEF Phase, Age, Deadlined, Accepts, Target, Attempt!Next, Attempt!Leave
<1>7. QED
    BY <1>1, <1>3, <1>4, <1>5, <1>6 DEF Deadlined, ConnStates

\* The age of an attempt, from the last poll before the deadline of its phase.
LEMMA AttemptArithmetic ==
    ASSUME NEW now \in Nat, NEW last \in Nat, NEW enter \in Nat, NEW begin \in Nat,
           NEW start \in Nat, NEW gap \in Nat \ {0}, NEW c \in Nat,
           NEW d \in Nat \ {0}, now <= last + gap
    PROVE  /\ begin = enter /\ start + last < start + enter + c
                => now - begin <= c + d + 2 * (gap - 1)
           /\ enter - begin < c + gap /\ start + last < start + enter + d
                => now - begin <= c + d + 2 * (gap - 1)
OBVIOUS

\* Time only passes while the attempt is within its bound.
LEMMA TickPhase ==
    ASSUME TimingInv, TimingInv', Tick
    PROVE  Attempt!Next \/ UNCHANGED <<Phase, Age>>
<1>1. fsm' = fsm /\ began' = began /\ clock' = clock + 1
    BY DEF Tick
<1>2. CASE fsm.state \in Deadlined
  <2>1. Phase = "attempt" /\ Phase' = "attempt" /\ Age = clock - began
        /\ Age' = clock' - began
    BY <1>1, <1>2 DEF Phase, Age, Deadlined
  <2>2. clock' - began <= MaxAttemptMs
    <3>1. /\ clock' \in Nat /\ entered \in Nat /\ began \in Nat /\ polled \in Nat
          /\ clock' <= polled + LoopGap
        BY <1>1, ClockAssumption DEF Tick, TimingInv, TypeOK, PollIsRecent
    <3>2. /\ StartMillis \in Nat /\ LoopGap \in Nat \ {0}
          /\ ConnectTimeoutMs \in Nat /\ DiscoverTimeoutMs \in Nat \ {0}
        BY FsmAssumption, ClockAssumption
    <3>3. CASE fsm.state = "CONNECTING"
      <4>1. /\ began = entered
            /\ StartMillis + polled < StartMillis + entered + ConnectTimeoutMs
        BY <1>2, <3>3
        DEF TimingInv, ConnectingJustBegan, DeadlineIsTrue, RelativeDeadline
      <4>2. QED
        BY <3>1, <3>2, <4>1, AttemptArithmetic DEF MaxAttemptMs
    <3>4. CASE fsm.state = "DISCOVERING"
      <4>1. /\ entered - began < ConnectTimeoutMs + LoopGap
            /\ StartMillis + polled < StartMillis + entered + DiscoverTimeoutMs
        BY <1>2, <3>4
        DEF TimingInv, DiscoveringBegan, DeadlineIsTrue, RelativeDeadline
      <4>2. QED
        BY <3>1, <3>2, <4>1, AttemptArithmetic DEF MaxAttemptMs
    <3>5. QED
        BY <1>2, <3>3, <3>4 DEF Deadlined
  <2>3. clock \in Nat /\ began \in Nat /\ MaxAttemptMs \in Int
    BY FsmAssumption, ClockAssumption DEF TimingInv, TypeOK, MaxAttemptMs
  <2>4. Age < MaxAttemptMs /\ Age' = Age + 1
    BY <1>1, <2>1, <2>2, <2>3
  <2>5. QED
    BY <2>1, <2>4 DEF Attempt!Next, Attempt!Wait
<1>3. CASE fsm.state \notin Deadlined
    BY <1>1, <1>3 DEF Phase, Age
<1>4. QED
    BY <1>2, <1>3

\* The machine driven by the clock implements ConnectionAttempt: an attempt ends
\* within the two deadlines and a poll interval for each, and none follows a failure
\* or a lost link without a penalty in between.
THEOREM AttemptPromiseKept == NoWrap => (Spec => KeepsAttemptPromise)
<1> SUFFICES ASSUME NoWrap PROVE Spec => KeepsAttemptPromise
    OBVIOUS
<1>1. Init => Attempt!Init
    BY DEF Init, NewFsm, Attempt!Init, Phase, Age, Deadlined
<1>2. TimingInv /\ TimingInv' /\ [Next]_vars => [Attempt!Next]_<<Phase, Age>>
  <2> SUFFICES ASSUME TimingInv, TimingInv', [Next]_vars
               PROVE  Attempt!Next \/ UNCHANGED <<Phase, Age>>
    OBVIOUS
  <2>1. CASE Tick
    BY <2>1, TickPhase
  <2>2. CASE Poll
    <3>1. CASE DeadlineReached(fsm, Millis)
      <4>1. TimeoutEvent(fsm.state) \in Accepts(fsm.state)
        BY <3>1 DEF DeadlineReached, Deadlined, TimeoutEvent, Accepts
      <4>2. fsm' = HandleEvent(fsm, TimeoutEvent(fsm.state), Millis)
        BY <2>2, <3>1 DEF Poll, PollTimeout
      <4>3. fsm'.state # "CONNECTING"
        BY <3>1, <4>1, <4>2
        DEF HandleEvent, Enter, Target, TimeoutEvent, DeadlineReached, Deadlined
      <4>4. QED
        BY <2>2, <4>1, <4>2, <4>3, AcceptedPhase DEF Poll
    <3>2. CASE ~DeadlineReached(fsm, Millis)
      BY <2>2, <3>2 DEF Poll, PollTimeout, Phase, Age
    <3>3. QED
      BY <3>1, <3>2
  <2>3. ASSUME NEW ev \in ConnEvents, Handle(ev)
        PROVE  Attempt!Next \/ UNCHANGED <<Phase, Age>>
    <3>1. CASE ev \in Accepts(fsm.state)
      BY <2>3, <3>1, AcceptedPhase DEF Handle
    <3>2. CASE ev \notin Accepts(fsm.state)
      BY <2>3, <3>2 DEF Handle, HandleEvent, Phase, Age
    <3>3. QED
      BY <3>1, <3>2
  <2>4. CASE UNCHANGED vars
    BY <2>4 DEF vars, Phase, Age
  <2>5. QED
    BY <2>1, <2>2, <2>3, <2>4 DEF Next
<1>3. QED
    BY <1>1, <1>2, TimingCorrect, PTL DEF Spec, KeepsAttemptPromise, Attempt!Spec

-----------------------------------------------------------------------------
(* The delay of BACKOFF.                                                   *)

\* The delays a failure can have before the jitter.
Steps == {5000, 10000, 20000, 40000, 60000}

\* As long as the failures in a row are no more than the shift count can tell apart,
\* the capped delay is the documented one.
LEMMA CappedIsDocumented ==
    ASSUME MaxFailures <= ShiftModulus, NEW n \in 1 .. MaxFailures
    PROVE  /\ AtMost(BaseMs * 2 ^ Shift(n), MaxMs) = Documented(n)
           /\ Documented(n) \in Steps
<1>1. ShiftModulus \in Nat \ {0} /\ MaxFailures \in Nat /\ n \in Nat \ {0}
    BY BackoffAssumption
<1>2. (n - 1) % ShiftModulus = n - 1
  <2>1. n - 1 \in Nat /\ n - 1 < ShiftModulus
    BY <1>1
  <2>2. QED
    BY <1>1, <2>1
<1>3. Shift(n) = IF n - 1 > MaxShift THEN MaxShift ELSE n - 1
    BY <1>1, <1>2 DEF Shift, AtMost
<1>4. 2 ^ 0 = 1 /\ 2 ^ 1 = 2 /\ 2 ^ 2 = 4 /\ 2 ^ 3 = 8 /\ 2 ^ 4 = 16 /\ 2 ^ 5 = 32
    OBVIOUS
<1>5. CASE n = 1
  <2>1. Shift(n) = 0 /\ Documented(n) = BaseMs * 2 ^ 0
    BY <1>3, <1>5 DEF MaxShift, Documented
  <2>2. QED
    BY <1>4, <2>1 DEF AtMost, BaseMs, MaxMs, Steps
<1>6. CASE n = 2
  <2>1. Shift(n) = 1 /\ Documented(n) = BaseMs * 2 ^ 1
    BY <1>3, <1>6 DEF MaxShift, Documented
  <2>2. QED
    BY <1>4, <2>1 DEF AtMost, BaseMs, MaxMs, Steps
<1>7. CASE n = 3
  <2>1. Shift(n) = 2 /\ Documented(n) = BaseMs * 2 ^ 2
    BY <1>3, <1>7 DEF MaxShift, Documented
  <2>2. QED
    BY <1>4, <2>1 DEF AtMost, BaseMs, MaxMs, Steps
<1>8. CASE n = 4
  <2>1. Shift(n) = 3 /\ Documented(n) = BaseMs * 2 ^ 3
    BY <1>3, <1>8 DEF MaxShift, Documented
  <2>2. QED
    BY <1>4, <2>1 DEF AtMost, BaseMs, MaxMs, Steps
<1>9. CASE n > 4
  <2>1. (Shift(n) = 4 \/ Shift(n) = 5) /\ Documented(n) = MaxMs
    BY <1>1, <1>3, <1>9 DEF MaxShift, Documented
  <2>2. 2 ^ Shift(n) = 16 \/ 2 ^ Shift(n) = 32
    BY <1>4, <2>1, Zenon
  <2>3. BaseMs * 2 ^ Shift(n) > MaxMs
    BY <2>2 DEF BaseMs, MaxMs
  <2>4. QED
    BY <2>1, <2>3 DEF AtMost, MaxMs, Steps
<1>10. n = 1 \/ n = 2 \/ n = 3 \/ n = 4 \/ n > 4
    BY <1>1
<1>11. QED
    BY <1>5, <1>6, <1>7, <1>8, <1>9, <1>10, Zenon

\* The jitter moves a delay by a fifth at most.
LEMMA JitterIsBounded ==
    ASSUME NEW c \in Steps, NEW p \in -JitterPercent .. JitterPercent
    PROVE  /\ 100 * (c + ((c * p) \div 100)) >= (100 - JitterPercent) * c
           /\ 100 * (c + ((c * p) \div 100)) <= (100 + JitterPercent) * c
BY DEF Steps, JitterPercent

BackoffInv == backoffCount \in 0 .. MaxFailures /\ DelayIsDocumented

\* compute_connect_backoff_delay_ms: in any run of failures no longer than the shift
\* count has values, every delay is the documented one, for any random draws.
THEOREM DelaysAreDocumented ==
    ASSUME MaxFailures <= ShiftModulus
    PROVE  BackoffSpec => []DelayIsDocumented
<1>1. BackoffInit => BackoffInv
    BY BackoffAssumption DEF BackoffInit, BackoffInv, DelayIsDocumented
<1>2. BackoffInv /\ [BackoffNext]_backoffVars => BackoffInv'
  <2> SUFFICES ASSUME BackoffInv, [BackoffNext]_backoffVars PROVE BackoffInv'
    OBVIOUS
  <2>1. CASE UNCHANGED backoffVars
    BY <2>1 DEF BackoffInv, DelayIsDocumented, backoffVars
  <2>2. CASE Succeed
    BY <2>2, BackoffAssumption DEF Succeed, BackoffInv, DelayIsDocumented
  <2>3. ASSUME NEW draw \in 0 .. 99, Fail(draw) PROVE BackoffInv'
    <3> DEFINE n == backoffCount + 1
    <3>1. n \in 1 .. MaxFailures /\ backoffCount' = n /\ delay' = Delay(n, draw)
        BY <2>3, BackoffAssumption DEF Fail, BackoffInv
    <3> HIDE DEF n
    <3>2. Documented(n) \in Steps /\ AtMost(BaseMs * 2 ^ Shift(n), MaxMs) = Documented(n)
        BY <3>1, CappedIsDocumented
    <3>3. Percent(draw) \in -JitterPercent .. JitterPercent
        BY DEF Percent, JitterPercent
    <3>4. delay' = Documented(n) + ((Documented(n) * Percent(draw)) \div 100)
        BY <3>1, <3>2 DEF Delay
    <3>5. /\ 100 * delay' >= (100 - JitterPercent) * Documented(n)
          /\ 100 * delay' <= (100 + JitterPercent) * Documented(n)
        BY <3>2, <3>3, <3>4, JitterIsBounded
    <3>6. Documented(backoffCount)' = Documented(n)
        BY <3>1 DEF Documented
    <3>7. QED
        BY <3>1, <3>5, <3>6 DEF BackoffInv, DelayIsDocumented
  <2>4. QED
    BY <2>1, <2>2, <2>3 DEF BackoffNext
<1>3. BackoffInv => DelayIsDocumented
    BY DEF BackoffInv
<1>4. QED
    BY <1>1, <1>2, <1>3, PTL DEF BackoffSpec
=============================================================================
