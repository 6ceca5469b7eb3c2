-------------------------- MODULE ConnectionAttempt --------------------------
(***************************************************************************)
(* What a connection slot promises its user about time, with the states of *)
(* the machine merged into four phases: an attempt (connecting, then       *)
(* discovering) is over at most MaxAttempt after it began; a failed        *)
(* attempt and a lost link are followed by a penalty, and the slot is at   *)
(* rest before it can attempt again.                                       *)
(***************************************************************************)
EXTENDS Naturals

CONSTANT MaxAttempt

VARIABLES phase, age

Init == phase = "rest" /\ age = 0

Begin == phase = "rest" /\ phase' = "attempt" /\ age' = 0

\* Time passes during an attempt, but never past its bound.
Wait == phase = "attempt" /\ age < MaxAttempt /\ age' = age + 1 /\ UNCHANGED phase

Leave(from, to) == phase = from /\ phase' = to /\ age' = 0

Next == \/ Begin
        \/ Wait
        \/ Leave("attempt", "linked")
        \/ Leave("attempt", "penalty")
        \/ Leave("linked", "penalty")
        \/ Leave("linked", "rest")
        \/ Leave("penalty", "rest")

Spec == Init /\ [][Next]_<<phase, age>>
=============================================================================
