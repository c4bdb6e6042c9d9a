------------------------------- MODULE Pipeline -------------------------------
(***************************************************************************)
(* The incident pipeline: the feature, inference and alert workers with    *)
(* the API, the chargers' events and the clock.  The workers are processes *)
(* of their own: a step is one call of one worker together with its        *)
(* effect.  One clock is assumed for the workers and the database.  A      *)
(* charger that has been deleted is not registered again here, and neither *)
(* the MAXLEN of the streams nor Redis' eviction is modelled.              *)
(***************************************************************************)
EXTENDS FeatureWorker, InferenceWorker, AlertWorker

ASSUME PipelineConstants ==
    /\ Firings \subseteq SUBSET Rule
    /\ Trained \subseteq Charger
    /\ SeverityMin \in [Config -> 1 .. 4]
    /\ NoCharger \notin Charger
    /\ Watched \subseteq Nat \ {0}
    /\ MaxWindow \in Nat /\ MaxFaults \in Nat

FeatureTypeOK ==
    /\ window \in 1 .. MaxWindow + 1
    /\ active \subseteq Charger \X Window
    /\ vectors \in [Charger -> Seq(Vector)] /\ features \in [Charger -> Seq(Vector)]
    /\ fpc \in FeaturePc /\ fwin \in 0 .. MaxWindow
    /\ ftodo \subseteq Charger /\ fcur \in Charger \union {NoCharger}

InferenceTypeOK ==
    /\ fread \in [Charger -> Nat] /\ fdone \in [Charger -> Nat]
    /\ ipc \in InferencePc /\ icur \in Charger \union {NoCharger}
    /\ irules \subseteq Rule \union {ML}
    /\ incidents \in Seq(Incident)
    /\ resolved \subseteq DOMAIN incidents
    /\ second \subseteq DOMAIN incidents /\ since \subseteq DOMAIN incidents
    /\ alarms \in [Charger -> Seq(Nat)]

AlertTypeOK ==
    /\ aread \in [Charger -> Nat] /\ adone \in [Charger -> Nat]
    /\ apc \in AlertPc /\ acur \in Nat /\ atodo \subseteq Config
    /\ inbox \in [Config -> Seq(Nat)]

TypeOK ==
    /\ registered \subseteq Charger /\ enabled \subseteq Config
    /\ faults \in 0 .. MaxFaults
    /\ FeatureTypeOK /\ InferenceTypeOK /\ AlertTypeOK

Init ==
    /\ window = 1 /\ active = {} /\ registered = Charger /\ enabled = Config
    /\ vectors = [c \in Charger |-> <<>>] /\ features = [c \in Charger |-> <<>>]
    /\ fpc = "sleep" /\ fwin = 0 /\ ftodo = {} /\ fcur = NoCharger
    /\ fread = [c \in Charger |-> 0] /\ fdone = [c \in Charger |-> 0]
    /\ ipc = "read" /\ icur = NoCharger /\ irules = {} /\ since = {}
    /\ incidents = <<>> /\ resolved = {} /\ second = {}
    /\ alarms = [c \in Charger |-> <<>>]
    /\ aread = [c \in Charger |-> 0] /\ adone = [c \in Charger |-> 0]
    /\ apc = "read" /\ acur = 0 /\ atodo = {}
    /\ inbox = [g \in Config |-> <<>>]
    /\ faults = 0

-----------------------------------------------------------------------------
(* Chargers, clock and API *)

\* publish: an event of the current window, or one that was under way when
\* the window ended, reaches ocpp_events.
EventStored(c) ==
    /\ \E w \in {window - 1, window} \intersect Window : active' = active \union {<<c, w>>}
    /\ UNCHANGED <<window, registered, enabled, featureVars, inferenceVars,
                   incidentVars, resolved, alertVars, faults>>

WindowPasses ==
    /\ window <= MaxWindow
    /\ window' = window + 1
    /\ UNCHANGED <<active, registered, enabled, featureVars, inferenceVars,
                   incidentVars, resolved, alertVars, faults>>

SecondPasses ==
    /\ second' = {}
    /\ UNCHANGED <<clockVars, featureVars, inferenceVars, incidents, alarms,
                   resolved, alertVars, faults>>

\* incidents.patch_incident with resolved_at.
Resolve(id) ==
    /\ incidents[id].cp \in registered
    /\ resolved' = resolved \union {id}
    /\ UNCHANGED <<clockVars, featureVars, inferenceVars, incidentVars, alertVars, faults>>

\* alerts.create_config, update_config (is_active) and delete_config.
SwitchConfig(g) ==
    /\ enabled' = IF g \in enabled THEN enabled \ {g} ELSE enabled \union {g}
    /\ UNCHANGED <<window, active, registered, featureVars, inferenceVars,
                   incidentVars, resolved, alertVars, faults>>

DeleteCharger(c) ==
    /\ registered' = registered \ {c}
    /\ UNCHANGED <<window, active, enabled, featureVars, inferenceVars,
                   incidentVars, resolved, alertVars, faults>>

Environment ==
    \/ \E c \in Charger : EventStored(c) \/ DeleteCharger(c)
    \/ WindowPasses \/ SecondPasses
    \/ \E id \in DOMAIN incidents : Resolve(id)
    \/ \E g \in Config : SwitchConfig(g)

Faults == FeatureFault \/ InferenceFault \/ AlertFault

Next == FeatureStep \/ InferenceStep \/ AlertStep \/ Environment \/ Faults

Spec == Init /\ [][Next]_vars

\* Each worker's loop goes on; a crashed one is restarted.
Fairness == WF_vars(FeatureStep) /\ WF_vars(InferenceStep) /\ WF_vars(AlertStep)
FairSpec == Spec /\ Fairness

-----------------------------------------------------------------------------
(* Properties *)

\* A window of a charger gets at most one feature vector, however often the
\* worker looks at it and wherever its runs fail: the runs after a crash do
\* not evaluate the window again.
OneVectorPerWindow ==
    \A c \in Charger : \A i, j \in DOMAIN vectors[c] :
        vectors[c][i].win = vectors[c][j].win => i = j

\* Every channel is told of an incident at most once, of one that is on record
\* and reaches its threshold: across crashes, XADDs and XACKs that raise and
\* configs that are switched while a message is dispatched.
Channels == INSTANCE Alerting WITH ranks <- [i \in DOMAIN incidents |-> incidents[i].rank]
AlertedOnce == Channels!ASpec

\* One message never leaves two open incidents of one failure type, whichever
\* rules fire on it and however long the message takes: the second is a
\* duplicate unless the first has been resolved.
OpenOncePerMessage ==
    \A i, j \in DOMAIN incidents :
        (/\ i < j
         /\ incidents[i].cp = incidents[j].cp /\ incidents[i].win = incidents[j].win
         /\ incidents[i].type = incidents[j].type)
        => i \in resolved

\* Every alert can be traced back: it is about an incident on record, and that
\* names a window of its charger whose stored vector the rule of this type and
\* severity fires on, or for the model's incident, one that no rule fires on.
\* No crash and no other message in between makes a message's rules, its window
\* and its charger those of different messages.
Explains(v, m) ==
    /\ v.win = m.win
    /\ \E r \in IF v.fired = {} /\ MayBeAnomalous(m.cp) THEN {ML} ELSE v.fired :
          m.type = Draft(r).type /\ m.rank = Draft(r).rank
Explained(id) ==
    LET m == incidents[id] IN \E j \in DOMAIN vectors[m.cp] : Explains(vectors[m.cp][j], m)
AlertsAreExplained ==
    \A g \in Config : \A k \in DOMAIN inbox[g] :
        inbox[g][k] \in DOMAIN incidents /\ Explained(inbox[g][k])

\* Without a fault the streams say what the tables say, in the same order, but
\* for the row that a worker has just inserted.
IncidentsOf(c) == {i \in DOMAIN incidents : incidents[i].cp = c}
InHandIncident(c) == IF ipc = "announce" /\ icur = c THEN {Len(incidents)} ELSE {}
StreamsFollowTables ==
    faults = 0 =>
        \A c \in Charger :
            /\ vectors[c] = IF fpc = "publish" /\ fcur = c
                              THEN Append(features[c], NewEntry) ELSE features[c]
            /\ {alarms[c][i] : i \in DOMAIN alarms[c]} = IncidentsOf(c) \ InHandIncident(c)
            /\ \A i, j \in DOMAIN alarms[c] : i < j => alarms[c][i] < alarms[c][j]

\* Without a fault, a rule that fires on a stored vector becomes an incident of
\* its failure type, and every incident reaches the channels that it is severe
\* enough for and that are not switched off, unless chargers are deleted.
AllWell == faults = 0 /\ registered = Charger

FiresOn(c, r) == \E i \in DOMAIN vectors[c] : r \in vectors[c][i].fired
Raised(c, r) ==
    \E i \in DOMAIN incidents : incidents[i].cp = c /\ incidents[i].type = RULES[r].type
FiredRuleIsRaised ==
    []AllWell => \A c \in Charger, r \in UNION Firings : FiresOn(c, r) ~> Raised(c, r)

Due(g, id) == id \in DOMAIN incidents /\ SeverityMin[g] <= incidents[id].rank
Told(g, id) == \E i \in DOMAIN inbox[g] : inbox[g][i] = id
IncidentIsAlerted ==
    \A g \in Config :
        [](AllWell /\ g \in enabled) => \A id \in Watched : Due(g, id) ~> Told(g, id)

\* inference_worker.py:117: "Deduplicate: don't reopen identical incidents
\* within the last hour."  The windows of a run are all within one hour.
OpenOncePerHour ==
    \A i, j \in DOMAIN incidents :
        (/\ i < j /\ incidents[i].cp = incidents[j].cp
         /\ incidents[i].type = incidents[j].type /\ incidents[i].rank = incidents[j].rank)
        => i \in resolved
=============================================================================
