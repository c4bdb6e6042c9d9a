------------------------------ MODULE MCSilence ------------------------------
(***************************************************************************)
(* The gateway with a record of how long each charger has said nothing at  *)
(* all, which the watchdog does not keep: it looks at last_heartbeat alone. *)
(***************************************************************************)
EXTENDS MCGateway

VARIABLE quiet      \* scan intervals since a handler began or received a call (history)

\* handle_connection has not started the handler yet, or a call is received.
Heard(k) ==
    \/ pc[k] \notin ServingPc
    \/ pc[k] = "serve" /\ pc'[k] \in {"update", "publish"}
TimePasses == wdPc = "sleep" /\ wdPc' = "scan"

QuietInit == Init /\ quiet = [k \in Conn |-> 0]
QuietNext ==
    /\ Next
    /\ quiet' = [k \in Conn |-> IF Heard(k) THEN 0
                                ELSE IF TimePasses THEN OlderBy1(quiet[k]) ELSE quiet[k]]
QuietSpec == QuietInit /\ [][QuietNext]_<<vars, quiet>>

\* heartbeat_watchdog.py:3: "If a connected charger hasn't sent a Heartbeat (or
\* any message) within OCPP_HEARTBEAT_TIMEOUT seconds, mark it offline": the
\* watchdog goes to mark only a charger that has said nothing for that long.
OnlyTheQuietAreMarked ==
    [][wdPc' = "mark" /\ wdPc # "mark" => quiet[wdCur'] > Timeout]_<<vars, quiet>>
=============================================================================
