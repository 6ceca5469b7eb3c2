------------------------- MODULE GattClientContract -------------------------
(***************************************************************************)
(* What a GATT backend promises the listener of each connection slot       *)
(* (GattClientListener and BLEGattConnectionContract, ble_gatt_client.h):  *)
(* an accepted connect() has one outcome; a connection comes up only as    *)
(* the outcome of one, and ends once; services are reported only of a      *)
(* connection that is up; and callbacks are made one at a time.            *)
(***************************************************************************)
CONSTANTS Engine, NoCall

VARIABLES session, cb

Init == session = [e \in Engine |-> "none"] /\ cb = NoCall

Accept(e) ==
    /\ cb = NoCall
    /\ session[e] = "none"
    /\ session' = [session EXCEPT ![e] = "asked"]
    /\ UNCHANGED cb

Call(e, kind, before, after) ==
    /\ cb = NoCall
    /\ session[e] \in before
    /\ cb' = [to |-> e, kind |-> kind]
    /\ session' = [session EXCEPT ![e] = after]

Return == cb # NoCall /\ cb' = NoCall /\ UNCHANGED session

Next ==
    \/ Return
    \/ \E e \in Engine :
          \/ Accept(e)
          \/ Call(e, "up", {"asked"}, "up")
          \/ Call(e, "down", {"asked", "up", "settled"}, "none")
          \/ Call(e, "discovered", {"up", "settled"}, "settled")
          \/ Call(e, "undiscovered", {"up", "settled"}, "settled")

Spec == Init /\ [][Next]_<<session, cb>>
=============================================================================
