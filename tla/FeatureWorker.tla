---------------------------- MODULE FeatureWorker ----------------------------
(***************************************************************************)
(* workers/feature_worker.py: every third of a window run_once looks at    *)
(* the last complete window and gives each charger that was active in it   *)
(* one row of feature_vectors and one entry of its stream.                 *)
(***************************************************************************)
EXTENDS PipelineState

FeaturePc == {"sleep", "check", "compute", "publish"}

otherThanFeature == <<clockVars, inferenceVars, incidentVars, resolved, alertVars>>

\* Mutant: the window that has only begun.
MutRunOnce ==
    /\ fpc = "sleep"
    /\ fwin' = window
    /\ ftodo' = {c \in Charger : <<c, window>> \in active}
    /\ fpc' = IF ftodo' = {} THEN "sleep" ELSE "check"
    /\ UNCHANGED <<vectors, features, fcur, otherThanFeature, faults>>

\* run_once: the last complete window and the chargers active in it.
RunOnce ==
    /\ fpc = "sleep"
    /\ fwin' = window - 1
    /\ ftodo' = {c \in Charger : <<c, window - 1>> \in active}
    /\ fpc' = IF ftodo' = {} THEN "sleep" ELSE "check"
    /\ UNCHANGED <<vectors, features, fcur, otherThanFeature, faults>>

\* Mutant: existing vectors are not looked for.
MutCheckExisting(c) ==
    /\ fpc = "check" /\ c \in ftodo
    /\ ftodo' = ftodo \ {c}
    /\ fpc' = "compute" /\ fcur' = c
    /\ UNCHANGED <<vectors, features, fwin, otherThanFeature, faults>>

\* SELECT 1 FROM feature_vectors: computed by an earlier run?
CheckExisting(c) ==
    /\ fpc = "check" /\ c \in ftodo
    /\ ftodo' = ftodo \ {c}
    /\ IF \E i \in DOMAIN vectors[c] : vectors[c][i].win = fwin
         THEN UNCHANGED <<fpc, fcur>>
         ELSE fpc' = "compute" /\ fcur' = c
    /\ UNCHANGED <<vectors, features, fwin, otherThanFeature, faults>>

\* features.extract: what the window's events and sessions add up to.
Extracted(fired) == [win |-> fwin, fired |-> fired]

\* compute_window: extract the features of the stored events, INSERT.
Compute ==
    /\ fpc = "compute"
    /\ \E fired \in Firings :
         vectors' = [vectors EXCEPT ![fcur] = Append(@, Extracted(fired))]
    /\ fpc' = "publish"
    /\ UNCHANGED <<features, fwin, ftodo, fcur, otherThanFeature, faults>>

NewEntry == vectors[fcur][Len(vectors[fcur])]

\* Mutant: a vector on which nothing fires is not published.
MutPublishVector ==
    /\ fpc = "publish"
    /\ features' = IF NewEntry.fired = {} THEN features
                   ELSE [features EXCEPT ![fcur] = Append(@, NewEntry)]
    /\ fpc' = "check" /\ fcur' = NoCharger
    /\ UNCHANGED <<vectors, fwin, ftodo, otherThanFeature, faults>>

\* XADD stream:features:{cp_id}.
PublishVector ==
    /\ fpc = "publish"
    /\ features' = [features EXCEPT ![fcur] = Append(@, NewEntry)]
    /\ fpc' = "check" /\ fcur' = NoCharger
    /\ UNCHANGED <<vectors, fwin, ftodo, otherThanFeature, faults>>

RunEnds ==
    /\ fpc = "check" /\ ftodo = {}
    /\ fpc' = "sleep"
    /\ UNCHANGED <<vectors, features, fwin, ftodo, fcur, otherThanFeature, faults>>

\* "Feature compute failed": the next charger.  A vector whose XADD raised is
\* stored, so no later run publishes it.
ComputeFails ==
    /\ Fault
    /\ fpc \in {"compute", "publish"}
    /\ fpc' = "check" /\ fcur' = NoCharger
    /\ UNCHANGED <<vectors, features, fwin, ftodo, otherThanFeature>>

\* An exception outside compute_window ends the run; so does a crash anywhere.
FeatureRunDies ==
    /\ Fault
    /\ fpc # "sleep"
    /\ fpc' = "sleep" /\ ftodo' = {} /\ fcur' = NoCharger
    /\ UNCHANGED <<vectors, features, fwin, otherThanFeature>>

FeatureStep ==
    RunOnce \/ (\E c \in Charger : CheckExisting(c)) \/ Compute \/ PublishVector \/ RunEnds
FeatureFault == ComputeFails \/ FeatureRunDies
=============================================================================
