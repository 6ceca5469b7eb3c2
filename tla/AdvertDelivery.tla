---------------------------- MODULE AdvertDelivery ----------------------------
(***************************************************************************)
(* What the scanner promises the listeners about advertisements: each one  *)
(* that is taken in waits until it is given to them, and is given once.    *)
(***************************************************************************)
EXTENDS Naturals

CONSTANT Advert

VARIABLES waiting, times

Init == waiting = {} /\ times = [a \in Advert |-> 0]

TakeIn(a) ==
    /\ a \notin waiting /\ times[a] = 0
    /\ waiting' = waiting \cup {a}
    /\ UNCHANGED times

Give(a) ==
    /\ a \in waiting
    /\ waiting' = waiting \ {a}
    /\ times' = [times EXCEPT ![a] = @ + 1]

Next == \E a \in Advert : TakeIn(a) \/ Give(a)

Spec == Init /\ [][Next]_<<waiting, times>>
=============================================================================
