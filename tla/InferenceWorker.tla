--------------------------- MODULE InferenceWorker ---------------------------
(***************************************************************************)
(* workers/inference_worker.py: for each feature vector the rules that     *)
(* fire become rows of incidents and entries of stream:incidents:{cp_id},  *)
(* unless an identical one was detected "recently"; when no rule fires and *)
(* the model calls the window anomalous there is one incident for that.    *)
(***************************************************************************)
EXTENDS PipelineState

InferencePc == {"read", "next", "score", "rule", "insert", "announce", "ack"}

otherThanInference == <<clockVars, featureVars, alertVars, resolved>>

\* XREADGROUP ">" of all the streams SCAN finds (count=64 is not reached).
ReadFeatures ==
    /\ ipc = "read"
    /\ fread' = [c \in Charger |-> Len(features[c])]
    /\ ipc' = IF fread' = fread THEN "read" ELSE "next"
    /\ UNCHANGED <<fdone, icur, irules, since, incidentVars, otherThanInference, faults>>

\* The next message of the batch; no message left: read again.
TakeVector(c) ==
    /\ ipc = "next" /\ fdone[c] < fread[c]
    /\ fdone' = [fdone EXCEPT ![c] = @ + 1]
    /\ icur' = c
    /\ ipc' = "score"
    /\ UNCHANGED <<fread, irules, since, incidentVars, otherThanInference, faults>>

VectorsDone ==
    /\ ipc = "next" /\ fdone = fread
    /\ ipc' = "read"
    /\ UNCHANGED <<fread, fdone, icur, irules, since, incidentVars,
                   otherThanInference, faults>>

\* Mutant: the newest vector, as score_latest_window reads it.
MutMessage == features[icur][Len(features[icur])]

\* handle_message's fields.
Message == features[icur][fdone[icur]]

\* score_latest_window: the model of the charger, if it has one, may call the
\* latest window anomalous.
MayBeAnomalous(c) == c \in Trained

\* Mutant: only the first rule that fires is looked at.
MutScore ==
    /\ ipc = "score"
    /\ irules' = {r \in Message.fired : \A q \in Message.fired : r <= q}
    /\ since' = second
    /\ ipc' = "rule"
    /\ UNCHANGED <<fread, fdone, icur, incidentVars, otherThanInference, faults>>

\* Score with the charger's model, evaluate the rules, take `now`.
Score ==
    /\ ipc = "score"
    /\ \/ irules' = Message.fired
       \/ MayBeAnomalous(icur) /\ Message.fired = {} /\ irules' = {ML}
    /\ since' = second
    /\ ipc' = "rule"
    /\ UNCHANGED <<fread, fdone, icur, incidentVars, otherThanInference, faults>>

CurrentRule == CHOOSE r \in irules : \A q \in irules : r <= q

\* Mutant: `now` is taken anew for each rule.
MutDuplicate(r) ==
    /\ r # ML /\ icur \in registered
    /\ \E i \in second \ resolved :
           incidents[i].cp = icur /\ incidents[i].type = Draft(r).type

\* SELECT ... WHERE cp_id AND failure_type AND resolved_at IS NULL AND
\* detected_at > now.replace(microsecond=0); not asked for the model's.  A
\* deleted charger's incidents are gone.
Duplicate(r) ==
    /\ r # ML /\ icur \in registered
    /\ \E i \in since \ resolved :
           incidents[i].cp = icur /\ incidents[i].type = Draft(r).type

CheckDuplicate ==
    /\ ipc = "rule" /\ irules # {}
    /\ IF Duplicate(CurrentRule)
         THEN irules' = irules \ {CurrentRule} /\ UNCHANGED ipc
         ELSE ipc' = "insert" /\ UNCHANGED irules
    /\ UNCHANGED <<fread, fdone, icur, since, incidentVars, otherThanInference, faults>>

\* INSERT INTO incidents, detected_at = now(); the charger must have a row.
InsertIncident ==
    LET id == Len(incidents) + 1 IN
    /\ ipc = "insert" /\ icur \in registered
    /\ incidents' = Append(incidents,
           [cp |-> icur, win |-> Message.win,
            type |-> Draft(CurrentRule).type, rank |-> Draft(CurrentRule).rank])
    /\ second' = second \union {id}
    /\ since' = since \union {id}
    /\ ipc' = "announce"
    /\ UNCHANGED <<fread, fdone, icur, irules, alarms, otherThanInference, faults>>

\* The foreign key is violated: the exception ends the message.
InsertRefused ==
    /\ ipc = "insert" /\ icur \notin registered
    /\ ipc' = "ack"
    /\ UNCHANGED <<fread, fdone, icur, irules, since, incidentVars,
                   otherThanInference, faults>>

\* XADD stream:incidents:{cp_id}.
Announce ==
    /\ ipc = "announce"
    /\ alarms' = [alarms EXCEPT ![icur] = Append(@, Len(incidents))]
    /\ irules' = irules \ {CurrentRule}
    /\ ipc' = "rule"
    /\ UNCHANGED <<fread, fdone, icur, since, incidents, second, otherThanInference, faults>>

RulesDone ==
    /\ ipc = "rule" /\ irules = {}
    /\ ipc' = "ack"
    /\ UNCHANGED <<fread, fdone, icur, irules, since, incidentVars,
                   otherThanInference, faults>>

\* finally: XACK.
AckVector ==
    /\ ipc = "ack"
    /\ ipc' = "next"
    /\ icur' = NoCharger /\ irules' = {} /\ since' = {}
    /\ UNCHANGED <<fread, fdone, incidentVars, otherThanInference, faults>>

\* "inference failed": the rest of the message is given up, an incident whose
\* XADD raised (before or after Redis appended it) included.
MessageFails ==
    /\ Fault
    /\ ipc \in {"score", "rule", "insert", "announce"}
    /\ \/ UNCHANGED alarms
       \/ ipc = "announce"
          /\ alarms' = [alarms EXCEPT ![icur] = Append(@, Len(incidents))]
    /\ ipc' = "ack"
    /\ UNCHANGED <<fread, fdone, icur, irules, since, incidents, second,
                   otherThanInference>>

\* XACK raises ("inference loop error"), or the worker dies and restarts: the
\* rest of what was delivered is never handled.
InferenceDies ==
    /\ Fault
    /\ ipc # "read"
    /\ ipc' = "read" /\ fdone' = fread
    /\ icur' = NoCharger /\ irules' = {} /\ since' = {}
    /\ UNCHANGED <<fread, incidentVars, otherThanInference>>

InferenceStep ==
    \/ ReadFeatures \/ (\E c \in Charger : TakeVector(c)) \/ VectorsDone
    \/ Score \/ CheckDuplicate \/ InsertIncident \/ InsertRefused \/ Announce
    \/ RulesDone \/ AckVector
InferenceFault == MessageFails \/ InferenceDies
=============================================================================
