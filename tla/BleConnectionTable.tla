------------------------- MODULE BleConnectionTable -------------------------
(***************************************************************************)
(* The states and transitions of one connection slot: the table that       *)
(* BleConnectionFsm::handle_event applies.  BleConnectionFsm adds the      *)
(* fields of the class, NimbleGattEngine uses the table without a clock.   *)
(***************************************************************************)
ConnStates == {"IDLE", "SCANNING", "CONNECTING", "DISCOVERING", "READY",
               "DISCONNECTING", "BACKOFF"}

ConnEvents == {"SCAN_START", "ADV_MATCHED", "CONNECT_REQUEST", "GAP_CONNECT_OK",
               "GAP_CONNECT_FAIL", "CONNECT_TIMEOUT", "DISCOVER_START",
               "DISCOVER_DONE", "DISCOVER_TIMEOUT", "DISCONNECT_REQUEST",
               "GAP_DISCONNECT_EVT", "BACKOFF_ELAPSED",
               "DROP_UNSOLICITED_PAIRING"}

(***************************************************************************)
(* The table of handle_event: for each state, the events it accepts and    *)
(* the state each of them enters.  Every other event is a no-op.           *)
(***************************************************************************)
Accepts(s) ==
    CASE s = "IDLE"          -> {"SCAN_START", "CONNECT_REQUEST"}
      [] s = "SCANNING"      -> {"ADV_MATCHED"}
      [] s = "CONNECTING"    -> {"GAP_CONNECT_OK", "GAP_CONNECT_FAIL",
                                 "CONNECT_TIMEOUT", "DROP_UNSOLICITED_PAIRING"}
      [] s = "DISCOVERING"   -> {"DISCOVER_DONE", "DISCOVER_TIMEOUT",
                                 "GAP_DISCONNECT_EVT"}
      [] s = "READY"         -> {"DISCONNECT_REQUEST", "GAP_DISCONNECT_EVT"}
      [] s = "DISCONNECTING" -> {"GAP_DISCONNECT_EVT"}
      [] s = "BACKOFF"       -> {"BACKOFF_ELAPSED"}

Target(s, ev) ==
    CASE ev = "SCAN_START"         -> "SCANNING"
      [] ev = "CONNECT_REQUEST"    -> "CONNECTING"
      [] ev = "GAP_CONNECT_OK"     -> "DISCOVERING"
      [] ev = "DISCOVER_DONE"      -> "READY"
      [] ev = "DISCONNECT_REQUEST" -> "DISCONNECTING"
      [] ev \in {"ADV_MATCHED", "BACKOFF_ELAPSED"} -> "IDLE"
      [] ev = "GAP_DISCONNECT_EVT" /\ s = "DISCONNECTING" -> "IDLE"
      [] OTHER                     -> "BACKOFF"

\* The state handle_event leaves the machine in.
After(s, ev) == IF ev \in Accepts(s) THEN Target(s, ev) ELSE s

\* Variants: one of the two waiting states has no deadline.
DeadlinedDiscovery == {"DISCOVERING"}
DeadlinedConnect == {"CONNECTING"}

Deadlined == {"CONNECTING", "DISCOVERING"}      \* has_deadline()

TimeoutEvent(s) == IF s = "CONNECTING" THEN "CONNECT_TIMEOUT" ELSE "DISCOVER_TIMEOUT"
=============================================================================
