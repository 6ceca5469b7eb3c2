--------------------------- MODULE ConnectBackoff ---------------------------
(***************************************************************************)
(* compute_connect_backoff_delay_ms, with the widths of its integers, and  *)
(* the run of failures that BLEClientBase::loop() calls it for: one call   *)
(* each time the machine has entered BACKOFF, with its failure count and a *)
(* random draw.                                                            *)
(***************************************************************************)
EXTENDS Integers

CONSTANTS
    ShiftModulus,   \* the shift count is a uint8_t: 2^8
    MaxFailures     \* bound: failures in a row

ASSUME BackoffAssumption ==
    /\ ShiftModulus \in Nat \ {0}
    /\ MaxFailures \in Nat

VARIABLES
    backoffCount,   \* failures in a row, BleConnectionFsm::backoff_count()
    delay           \* current_backoff_delay_ms_, latched on entry to BACKOFF

backoffVars == <<backoffCount, delay>>

BaseMs == 5000      \* CONNECT_BACKOFF_BASE_MS
MaxMs == 60000      \* CONNECT_BACKOFF_MAX_MS
JitterPercent == 20
MaxShift == 5

AtMost(n, m) == IF n > m THEN m ELSE n

\* Variant: the shift is capped before the delay reaches its own cap.
LowShift(count) == IF count = 0 THEN 0 ELSE AtMost((count - 1) % ShiftModulus, 3)

Shift(count) ==
    IF count = 0 THEN 0 ELSE AtMost((count - 1) % ShiftModulus, MaxShift)

Percent(draw) == (draw % (2 * JitterPercent + 1)) - JitterPercent

\* delay * percent / 100 is exact: every capped delay is a multiple of 100.
Delay(count, draw) ==
    LET capped == AtMost(BaseMs * 2 ^ Shift(count), MaxMs)
    IN  capped + ((capped * Percent(draw)) \div 100)

-----------------------------------------------------------------------------

BackoffInit == backoffCount = 0 /\ delay = 0

Fail(draw) ==
    /\ backoffCount < MaxFailures
    /\ backoffCount' = backoffCount + 1
    /\ delay' = Delay(backoffCount + 1, draw)

Succeed == backoffCount' = 0 /\ UNCHANGED delay

BackoffNext == Succeed \/ \E draw \in 0 .. 99 : Fail(draw)

BackoffSpec == BackoffInit /\ [][BackoffNext]_backoffVars

-----------------------------------------------------------------------------

\* The documented delay before the jitter: base * 2^(count - 1), capped.
Documented(count) ==
    IF count > 4 THEN MaxMs ELSE BaseMs * 2 ^ (count - 1)

\* The delay latched for a failure is the documented one, give or take the jitter,
\* however long the run of failures.
DelayIsDocumented ==
    backoffCount > 0 =>
        LET d == Documented(backoffCount)
        IN  /\ 100 * delay >= (100 - JitterPercent) * d
            /\ 100 * delay <= (100 + JitterPercent) * d
=============================================================================
