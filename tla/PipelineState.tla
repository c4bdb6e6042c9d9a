---------------------------- MODULE PipelineState ----------------------------
(***************************************************************************)
(* What the three workers of the incident pipeline share, and where each   *)
(* of them is.  The tables (ocpp_events, feature_vectors, incidents,       *)
(* alert_configs) and the streams (stream:features:{cp_id} and             *)
(* stream:incidents:{cp_id}, each read through a consumer group) outlive   *)
(* the workers; the rest is lost when a worker dies.  The workers are the  *)
(* modules FeatureWorker, InferenceWorker and AlertWorker; Pipeline        *)
(* composes them with the API and the clock.                               *)
(*                                                                         *)
(* A feature vector is the set of rules that fire on it.  An incident is   *)
(* its index in `incidents`.  A reader of a group reads ">" only: what was *)
(* delivered and not handled when it died stays pending for ever, so the   *)
(* entries up to `read` are those it will never be given again.            *)
(***************************************************************************)
EXTENDS Naturals, Sequences

CONSTANTS
    Charger,
    Firings,     \* the sets of rules that a window's activity may fire
    Trained,     \* chargers that load_active_model has a model for
    Config,      \* rows of alert_configs
    SeverityMin, \* their severity_min, as a rank
    NoCharger,
    Watched,     \* the incidents that the liveness property follows
    MaxWindow,   \* bound: feature windows
    MaxFaults    \* bound: failed calls and worker crashes

VARIABLES
    window,      \* the current feature window (clock)
    active,      \* ocpp_events: <<cp_id, window>> with an event
    registered,  \* chargers with a row; incidents go with it (cascade)
    vectors,     \* feature_vectors, the rows of each charger
    features,    \* stream:features:{cp_id}
    fpc, fwin, ftodo, fcur,     \* feature worker: run_once's locals
    fread, fdone,               \* group inference_engine; handled so far
    ipc, icur, irules,          \* inference worker: handle_message's locals
    incidents, resolved,        \* incidents, and those with resolved_at set
    second,      \* the incidents detected in the current second of the clock
    since,       \* those with detected_at > now.replace(microsecond=0)
    alarms,      \* stream:incidents:{cp_id}
    aread, adone,               \* group alert_dispatcher; handled so far
    apc, acur, atodo,           \* alert worker: handle's locals
    enabled,     \* alert_configs with is_active
    inbox,       \* what each channel has been sent
    faults

clockVars == <<window, active, registered, enabled>>
featureVars == <<vectors, features, fpc, fwin, ftodo, fcur>>
inferenceVars == <<fread, fdone, ipc, icur, irules, since>>
incidentVars == <<incidents, second, alarms>>
alertVars == <<aread, adone, apc, acur, atodo, inbox>>
vars == <<clockVars, featureVars, inferenceVars, incidentVars, resolved,
          alertVars, faults>>

\* ml/rules.RULES in their order: failure_type, and severity as its rank in
\* _SEVERITY_RANK.
RULES == <<
    [type |-> "communication_loss", rank |-> 3],   \* heartbeat_missing
    [type |-> "connector_fault",    rank |-> 4],   \* faulted_state
    [type |-> "power_supply",       rank |-> 3],   \* voltage_low
    [type |-> "power_supply",       rank |-> 3],   \* voltage_high
    [type |-> "connector_fault",    rank |-> 2],   \* session_failures_spike
    [type |-> "power_supply",       rank |-> 2],   \* power_instability
    [type |-> "firmware_crash",     rank |-> 3],   \* frequent_reboots
    [type |-> "unknown",            rank |-> 1]    \* zero_sessions_during_peak
    >>
Rule == DOMAIN RULES
\* The incident of the LSTM autoencoder, which no rule stands for.
ML == 0
Draft(r) == IF r = ML THEN [type |-> "unknown", rank |-> 2] ELSE RULES[r]
FailureType == {"communication_loss", "connector_fault", "power_supply",
                "firmware_crash", "unknown"}

Window == 1 .. MaxWindow
Vector == [win : Window, fired : Firings]
Incident == [cp : Charger, win : Window, type : FailureType, rank : 1 .. 4]

Fault == faults < MaxFaults /\ faults' = faults + 1
=============================================================================
