----------------------------- MODULE AlertWorker -----------------------------
(***************************************************************************)
(* workers/alert_worker.py: each entry of stream:incidents:{cp_id} goes to *)
(* every active channel of the organisation whose severity_min it reaches  *)
(* (app/alerts/dispatcher.dispatch).                                       *)
(***************************************************************************)
EXTENDS PipelineState

AlertPc == {"read", "next", "dispatch", "ack"}

otherThanAlert == <<clockVars, featureVars, inferenceVars, incidentVars, resolved>>

\* Mutant: the group is created at "$", after what the stream holds by then.
MutReadIncidents ==
    /\ apc = "read"
    /\ aread' = [c \in Charger |-> Len(alarms[c])]
    /\ adone' = [c \in Charger |-> IF aread[c] = 0 THEN Len(alarms[c]) ELSE adone[c]]
    /\ apc' = IF aread' = aread THEN "read" ELSE "next"
    /\ UNCHANGED <<acur, atodo, inbox, otherThanAlert, faults>>

\* XREADGROUP ">" of all the streams SCAN finds (count=32 is not reached).
ReadIncidents ==
    /\ apc = "read"
    /\ aread' = [c \in Charger |-> Len(alarms[c])]
    /\ apc' = IF aread' = aread THEN "read" ELSE "next"
    /\ UNCHANGED <<adone, acur, atodo, inbox, otherThanAlert, faults>>

\* handle: the incident, the charger and the active configs; nothing to do if
\* one of them is gone.
TakeIncident(c) ==
    LET id == alarms[c][adone[c] + 1] IN
    /\ apc = "next" /\ adone[c] < aread[c]
    /\ adone' = [adone EXCEPT ![c] = @ + 1]
    /\ acur' = id
    /\ atodo' = IF c \in registered
                  THEN {g \in enabled : SeverityMin[g] <= incidents[id].rank} ELSE {}
    /\ apc' = "dispatch"
    /\ UNCHANGED <<aread, inbox, otherThanAlert, faults>>

IncidentsDone ==
    /\ apc = "next" /\ adone = aread
    /\ apc' = "read"
    /\ UNCHANGED <<aread, adone, acur, atodo, inbox, otherThanAlert, faults>>

\* Mutant: the list of configs is not advanced.
MutDispatch(g) ==
    /\ apc = "dispatch" /\ g \in atodo
    /\ inbox' = [inbox EXCEPT ![g] = Append(@, acur)]
    /\ UNCHANGED <<aread, adone, apc, acur, atodo, otherThanAlert, faults>>

\* await dispatch(channel, endpoint, ...)
Dispatch(g) ==
    /\ apc = "dispatch" /\ g \in atodo
    /\ inbox' = [inbox EXCEPT ![g] = Append(@, acur)]
    /\ atodo' = atodo \ {g}
    /\ UNCHANGED <<aread, adone, apc, acur, otherThanAlert, faults>>

AllDispatched ==
    /\ apc = "dispatch" /\ atodo = {}
    /\ apc' = "ack"
    /\ UNCHANGED <<aread, adone, acur, atodo, inbox, otherThanAlert, faults>>

\* finally: XACK.
AckIncident ==
    /\ apc = "ack"
    /\ apc' = "next" /\ acur' = 0
    /\ UNCHANGED <<aread, adone, atodo, inbox, otherThanAlert, faults>>

\* The channel is unreachable: dispatch logs the exception and returns False.
DispatchFails(g) ==
    /\ Fault
    /\ apc = "dispatch" /\ g \in atodo
    /\ atodo' = atodo \ {g}
    /\ UNCHANGED <<aread, adone, apc, acur, inbox, otherThanAlert>>

\* One of handle's queries raises ("alert failed").
AlertFails(c) ==
    /\ Fault
    /\ apc = "next" /\ adone[c] < aread[c]
    /\ adone' = [adone EXCEPT ![c] = @ + 1]
    /\ acur' = alarms[c][adone[c] + 1]
    /\ apc' = "ack"
    /\ UNCHANGED <<aread, atodo, inbox, otherThanAlert>>

\* XACK raises ("alert loop error"), or the worker dies and restarts.
AlertDies ==
    /\ Fault
    /\ apc # "read"
    /\ apc' = "read" /\ adone' = aread
    /\ acur' = 0 /\ atodo' = {}
    /\ UNCHANGED <<aread, inbox, otherThanAlert>>

AlertStep ==
    \/ ReadIncidents \/ (\E c \in Charger : TakeIncident(c)) \/ IncidentsDone
    \/ (\E g \in Config : Dispatch(g)) \/ AllDispatched \/ AckIncident
AlertFault ==
    (\E g \in Config : DispatchFails(g)) \/ (\E c \in Charger : AlertFails(c)) \/ AlertDies
=============================================================================
