---------------------------- MODULE PipelineProofs ----------------------------
(***************************************************************************)
(* Theorems about Pipeline, for any chargers, channels, sets of rules,     *)
(* number of windows and number of faults.                                 *)
(*                                                                         *)
(* Each worker has its part of the invariant: the types of its variables   *)
(* and where its position is inside the stream it reads (FInv, IInv,       *)
(* AInv).  A step of one worker keeps the parts of the others because      *)
(* streams and tables only grow (the Keep lemmas).                         *)
(***************************************************************************)
EXTENDS Pipeline, TLAPS

FInv ==
    /\ FeatureTypeOK
    /\ ftodo # {} \/ fpc \in {"compute", "publish"} => fwin \in Window
    /\ fpc \in {"compute", "publish"} => fcur \in Charger
    /\ fpc = "publish" => Len(vectors[fcur]) > 0

IInv ==
    /\ InferenceTypeOK
    /\ \A c \in Charger : fdone[c] <= fread[c] /\ fread[c] <= Len(features[c])
    /\ ipc \in {"score", "rule", "insert", "announce"} => icur \in Charger /\ fdone[icur] > 0
    /\ ipc \in {"insert", "announce"} => irules # {}
    /\ ipc = "announce" => Len(incidents) > 0

AInv ==
    /\ AlertTypeOK
    /\ \A c \in Charger : adone[c] <= aread[c] /\ aread[c] <= Len(alarms[c])

RInv ==
    /\ registered \subseteq Charger /\ enabled \subseteq Config
    /\ faults \in 0 .. MaxFaults

TInv == RInv /\ FInv /\ IInv /\ AInv

streamVars == <<features, incidents, alarms>>

\* What leaves the feature worker's variables alone keeps its part.
LEMMA KeepF ==
  ASSUME FInv, UNCHANGED <<window, active, featureVars>>
  PROVE  FInv'
  BY DEF FInv, FeatureTypeOK, featureVars

\* Longer feature streams keep the inference worker's part.
LEMMA KeepI ==
  ASSUME FInv, FInv', IInv, UNCHANGED <<inferenceVars, incidentVars, resolved>>,
         \A c \in Charger : Len(features[c]) <= Len(features'[c])
  PROVE  IInv'
<1>1. UNCHANGED <<fread, fdone, ipc, icur, irules, since, incidents, second, alarms, resolved>>
  BY DEF inferenceVars, incidentVars
<1>2. InferenceTypeOK'
  BY <1>1 DEF IInv, InferenceTypeOK
<1>3. ASSUME NEW c \in Charger
      PROVE  fdone'[c] <= fread'[c] /\ fread'[c] <= Len(features'[c])
  <2>1. /\ fread[c] \in Nat /\ features[c] \in Seq(Vector) /\ features'[c] \in Seq(Vector)
        /\ fdone[c] <= fread[c] /\ fread[c] <= Len(features[c])
    BY DEF IInv, InferenceTypeOK, FInv, FeatureTypeOK
  <2> QED  BY <1>1, <2>1
<1> QED  BY <1>1, <1>2, <1>3 DEF IInv

\* Longer incident streams keep the alert worker's part.
LEMMA KeepA ==
  ASSUME IInv, IInv', AInv, UNCHANGED alertVars,
         \A c \in Charger : Len(alarms[c]) <= Len(alarms'[c])
  PROVE  AInv'
<1>1. UNCHANGED <<aread, adone, apc, acur, atodo, inbox>>
  BY DEF alertVars
<1>2. AlertTypeOK'
  BY <1>1 DEF AInv, AlertTypeOK
<1>3. ASSUME NEW c \in Charger
      PROVE  adone'[c] <= aread'[c] /\ aread'[c] <= Len(alarms'[c])
  <2>1. /\ aread[c] \in Nat /\ alarms[c] \in Seq(Nat) /\ alarms'[c] \in Seq(Nat)
        /\ adone[c] <= aread[c] /\ aread[c] <= Len(alarms[c])
    BY DEF AInv, AlertTypeOK, IInv, InferenceTypeOK
  <2> QED  BY <1>1, <2>1
<1> QED  BY <1>1, <1>2, <1>3 DEF AInv

\* Appending to one of several streams.
LEMMA AppendOne ==
  ASSUME NEW S, NEW s \in [Charger -> Seq(S)], NEW c \in Charger, NEW e \in S,
         NEW t, t = [s EXCEPT ![c] = Append(@, e)]
  PROVE  /\ t \in [Charger -> Seq(S)]
         /\ Len(t[c]) = Len(s[c]) + 1
         /\ \A d \in Charger : Len(s[d]) <= Len(t[d])
<1>1. /\ s[c] \in Seq(S) /\ Append(s[c], e) \in Seq(S)
      /\ Len(Append(s[c], e)) = Len(s[c]) + 1
  OBVIOUS
<1>2. ASSUME NEW d \in Charger PROVE Len(s[d]) <= Len(t[d])
  <2>1. s[d] \in Seq(S) /\ Len(s[d]) \in Nat
    OBVIOUS
  <2> QED  BY <1>1, <2>1
<1> QED  BY <1>1, <1>2

-----------------------------------------------------------------------------
(* The feature worker *)

\* A step of the feature worker keeps its part and only appends.
LEMMA FeatureTypes ==
  ASSUME FInv, FeatureStep \/ FeatureFault
  PROVE  /\ FInv'
         /\ \A c \in Charger : Len(features[c]) <= Len(features'[c])
<1> DEFINE Longer == \A c \in Charger : Len(features[c]) <= Len(features'[c])
<1>0. \A c \in Charger : Len(features[c]) \in Nat
  BY DEF FInv, FeatureTypeOK
<1>1. CASE RunOnce
  <2>1. ftodo' # {} => fwin' \in Window
    BY <1>1 DEF RunOnce, FInv, FeatureTypeOK
  <2>2. fwin' \in 0 .. MaxWindow
    BY <1>1, PipelineConstants DEF RunOnce, FInv, FeatureTypeOK
  <2>3. ftodo' \subseteq Charger /\ fpc' \in {"sleep", "check"}
    BY <1>1 DEF RunOnce
  <2>4. UNCHANGED <<vectors, features, fcur, window, active>>
    BY <1>1 DEF RunOnce, otherThanFeature, clockVars
  <2> QED  BY <1>0, <2>1, <2>2, <2>3, <2>4 DEF FInv, FeatureTypeOK, FeaturePc
<1>2. ASSUME NEW c \in Charger, CheckExisting(c) PROVE FInv' /\ Longer
  <2>1. ftodo # {}
    BY <1>2 DEF CheckExisting
  <2>2. ftodo' \subseteq Charger /\ fpc' \in FeaturePc /\ fpc' # "publish"
        /\ fcur' \in Charger \union {NoCharger} /\ (fpc' = "compute" => fcur' \in Charger)
    BY <1>2 DEF CheckExisting, FInv, FeatureTypeOK, FeaturePc
  <2> QED  BY <1>0, <1>2, <2>1, <2>2 DEF CheckExisting, FInv, FeatureTypeOK,
                                        otherThanFeature, clockVars
<1>3. CASE Compute
  <2>1. PICK fired \in Firings :
          vectors' = [vectors EXCEPT ![fcur] = Append(@, [win |-> fwin, fired |-> fired])]
    BY <1>3 DEF Compute, Extracted
  <2>2. [win |-> fwin, fired |-> fired] \in Vector /\ fcur \in Charger
    BY <1>3 DEF Compute, Vector, FInv
  <2>3. vectors' \in [Charger -> Seq(Vector)] /\ Len(vectors'[fcur]) > 0
    <3>1. vectors \in [Charger -> Seq(Vector)] /\ Len(vectors[fcur]) \in Nat
      BY <2>2 DEF FInv, FeatureTypeOK
    <3> QED  BY <2>1, <2>2, <3>1, AppendOne
  <2> QED  BY <1>0, <1>3, <2>2, <2>3 DEF Compute, FInv, FeatureTypeOK, FeaturePc,
                                        otherThanFeature, clockVars
<1>4. CASE PublishVector
  <2>1. fcur \in Charger /\ NewEntry \in Vector /\ features \in [Charger -> Seq(Vector)]
    <3>1. vectors[fcur] \in Seq(Vector) /\ Len(vectors[fcur]) > 0 /\ fcur \in Charger
      BY <1>4 DEF PublishVector, FInv, FeatureTypeOK
    <3> QED  BY <3>1 DEF NewEntry, FInv, FeatureTypeOK
  <2>2. features' \in [Charger -> Seq(Vector)] /\ Longer
    BY <1>4, <2>1, AppendOne DEF PublishVector
  <2> QED  BY <1>4, <2>2 DEF PublishVector, FInv, FeatureTypeOK, FeaturePc,
                             otherThanFeature, clockVars
<1>5. CASE RunEnds \/ ComputeFails \/ FeatureRunDies
  BY <1>0, <1>5 DEF RunEnds, ComputeFails, FeatureRunDies, FInv, FeatureTypeOK, FeaturePc,
                    otherThanFeature, clockVars
<1> QED  BY <1>1, <1>2, <1>3, <1>4, <1>5 DEF FeatureStep, FeatureFault

\* A step of the feature worker leaves the rest of the system alone.
LEMMA FeatureFrame ==
  ASSUME FeatureStep \/ FeatureFault, RInv
  PROVE  /\ UNCHANGED <<inferenceVars, incidentVars, resolved, alertVars>>
         /\ RInv'
<1>1. UNCHANGED otherThanFeature /\ (UNCHANGED faults \/ Fault)
  BY DEF FeatureStep, FeatureFault, RunOnce, CheckExisting, Compute, PublishVector, RunEnds,
         ComputeFails, FeatureRunDies
<1> QED  BY <1>1, PipelineConstants DEF otherThanFeature, clockVars, Fault, RInv

\* A step of the feature worker keeps every part.
LEMMA TFeature ==
  ASSUME TInv, FeatureStep \/ FeatureFault
  PROVE  TInv'
<1>1. /\ FInv' /\ RInv'
      /\ \A c \in Charger : Len(features[c]) <= Len(features'[c])
      /\ UNCHANGED <<inferenceVars, incidentVars, resolved>> /\ UNCHANGED alertVars
  BY FeatureTypes, FeatureFrame DEF TInv
<1>2. IInv'
  BY <1>1, KeepI DEF TInv
<1>3. \A c \in Charger : Len(alarms[c]) <= Len(alarms'[c])
  <2>1. \A c \in Charger : alarms[c] \in Seq(Nat)
    BY DEF TInv, IInv, InferenceTypeOK
  <2> QED  BY <1>1, <2>1 DEF incidentVars
<1> QED  BY <1>1, <1>2, <1>3, KeepA DEF TInv

-----------------------------------------------------------------------------
(* The inference worker *)

\* The message in hand is an entry of the stream.
LEMMA MessageType ==
  ASSUME FInv, IInv, ipc \in {"score", "rule", "insert", "announce"}
  PROVE  Message \in Vector
<1>1. /\ icur \in Charger /\ features[icur] \in Seq(Vector)
      /\ fdone[icur] \in Nat /\ fread[icur] \in Nat
      /\ fdone[icur] > 0 /\ fdone[icur] <= fread[icur] /\ fread[icur] <= Len(features[icur])
  BY DEF IInv, InferenceTypeOK, FInv, FeatureTypeOK
<1>2. fdone[icur] \in 1 .. Len(features[icur])
  BY <1>1
<1> QED  BY <1>1, <1>2 DEF Message

\* The rules by number, with 0 for the model.
LEMMA RuleFacts == Rule = 1 .. 8 /\ Rule \union {ML} = 0 .. 8
<1>1. Len(RULES) = 8 /\ DOMAIN RULES = 1 .. 8
  BY DEF RULES
<1> QED  BY <1>1 DEF Rule, ML

\* There is a first rule among those that are left.
LEMMA CurrentRuleType ==
  ASSUME IInv, irules # {}
  PROVE  CurrentRule \in irules /\ CurrentRule \in Rule \union {ML}
<1>1. irules \subseteq 0 .. 8
  BY RuleFacts DEF IInv, InferenceTypeOK
<1>2. \E r \in irules : \A q \in irules : r <= q
  <2>1. PICK r \in irules : TRUE
    OBVIOUS
  <2>2. CASE 0 \in irules
    BY <1>1, <2>2
  <2>3. CASE 0 \notin irules
    BY <1>1, <2>1, <2>3
  <2> QED  BY <2>2, <2>3
<1>3. CurrentRule \in irules
  BY <1>2 DEF CurrentRule
<1> QED  BY <1>1, <1>3, RuleFacts

\* Every rule drafts an incident that the table accepts.
LEMMA DraftType ==
  ASSUME NEW r \in Rule \union {ML}
  PROVE  Draft(r).type \in FailureType /\ Draft(r).rank \in 1 .. 4
<1>1. CASE r = ML
  BY <1>1 DEF Draft, FailureType
<1>2. CASE r # ML
  <2>1. r \in 1 .. 8 /\ Draft(r) = RULES[r]
    BY <1>2, RuleFacts DEF Draft
  <2> QED  BY <2>1 DEF RULES, FailureType
<1> QED  BY <1>1, <1>2

\* What a step of the inference worker that stores and announces nothing keeps.
LEMMA InferenceQuiet ==
  ASSUME IInv, UNCHANGED <<incidentVars, resolved, features>>,
         fread' \in [Charger -> Nat], fdone' \in [Charger -> Nat],
         ipc' \in InferencePc, icur' \in Charger \union {NoCharger},
         irules' \subseteq Rule \union {ML}, since' \subseteq DOMAIN incidents,
         \A c \in Charger : fdone'[c] <= fread'[c] /\ fread'[c] <= Len(features[c]),
         ipc' \in {"score", "rule", "insert"} => icur' \in Charger /\ fdone'[icur'] > 0,
         ipc' = "insert" => irules' # {},
         ipc' # "announce"
  PROVE  IInv'
<1>1. UNCHANGED <<incidents, second, alarms, resolved, features>>
  BY DEF incidentVars
<1>2. InferenceTypeOK'
  BY <1>1 DEF IInv, InferenceTypeOK
<1> QED  BY <1>1, <1>2 DEF IInv

\* An announcement is appended to one of the streams.
LEMMA AnnounceTypes ==
  ASSUME IInv, ipc = "announce",
         alarms' = [alarms EXCEPT ![icur] = Append(@, Len(incidents))]
  PROVE  /\ alarms' \in [Charger -> Seq(Nat)]
         /\ \A c \in Charger : Len(alarms[c]) <= Len(alarms'[c])
<1>1. /\ icur \in Charger /\ Len(incidents) \in Nat
      /\ alarms \in [Charger -> Seq(Nat)]
  BY DEF IInv, InferenceTypeOK
<1> QED  BY <1>1, AppendOne

\* A step of the inference worker keeps its part and only appends.
LEMMA InferenceTypes ==
  ASSUME FInv, IInv, InferenceStep \/ InferenceFault
  PROVE  /\ IInv'
         /\ \A c \in Charger : Len(alarms[c]) <= Len(alarms'[c])
<1> DEFINE Longer == \A c \in Charger : Len(alarms[c]) <= Len(alarms'[c])
<1>0. ASSUME UNCHANGED alarms PROVE Longer
  <2>1. \A c \in Charger : alarms[c] \in Seq(Nat)
    BY DEF IInv, InferenceTypeOK
  <2> QED  BY <1>0, <2>1
<1>l. ASSUME NEW c \in Charger
      PROVE  /\ Len(features[c]) \in Nat /\ fdone[c] \in Nat /\ fread[c] \in Nat
             /\ fdone[c] <= fread[c] /\ fread[c] <= Len(features[c])
  <2>1. features[c] \in Seq(Vector)
    BY DEF FInv, FeatureTypeOK
  <2> QED  BY <2>1 DEF IInv, InferenceTypeOK
<1>t. /\ fread \in [Charger -> Nat] /\ fdone \in [Charger -> Nat]
      /\ ipc \in InferencePc /\ icur \in Charger \union {NoCharger}
      /\ irules \subseteq Rule \union {ML} /\ since \subseteq DOMAIN incidents
      /\ second \subseteq DOMAIN incidents
      /\ ipc \in {"score", "rule", "insert", "announce"} => icur \in Charger /\ fdone[icur] > 0
  BY DEF IInv, InferenceTypeOK
<1> USE DEF otherThanInference, featureVars, InferencePc
<1>1. CASE ReadFeatures
  <2>1. /\ fread' \in [Charger -> Nat]
        /\ \A c \in Charger : fdone'[c] <= fread'[c] /\ fread'[c] <= Len(features[c])
    BY <1>1, <1>l DEF ReadFeatures
  <2>2. IInv'
    BY <1>1, <1>t, <2>1, InferenceQuiet DEF ReadFeatures
  <2> QED  BY <1>0, <1>1, <2>2 DEF ReadFeatures, incidentVars
<1>2. ASSUME NEW c \in Charger, TakeVector(c) PROVE IInv' /\ Longer
  <2>1. /\ fdone' \in [Charger -> Nat] /\ fdone'[c] > 0
        /\ \A d \in Charger : fdone'[d] <= fread'[d] /\ fread'[d] <= Len(features[d])
    BY <1>2, <1>l, <1>t DEF TakeVector
  <2>2. IInv'
    BY <1>2, <1>t, <2>1, InferenceQuiet DEF TakeVector
  <2> QED  BY <1>0, <1>2, <2>2 DEF TakeVector, incidentVars
<1>3. CASE VectorsDone \/ RulesDone \/ InsertRefused
  <2>1. IInv'
    BY <1>3, <1>t, <1>l, InferenceQuiet DEF VectorsDone, RulesDone, InsertRefused
  <2> QED  BY <1>0, <1>3, <2>1 DEF VectorsDone, RulesDone, InsertRefused, incidentVars
<1>4. CASE AckVector
  <2>1. IInv'
    BY <1>4, <1>t, <1>l, InferenceQuiet DEF AckVector
  <2> QED  BY <1>0, <1>4, <2>1 DEF AckVector, incidentVars
<1>5. CASE InferenceDies
  <2>1. IInv'
    BY <1>5, <1>t, <1>l, InferenceQuiet DEF InferenceDies
  <2> QED  BY <1>0, <1>5, <2>1 DEF InferenceDies, incidentVars
<1>6. CASE Score
  <2>1. irules' \subseteq Rule \union {ML}
    <3>1. Message.fired \subseteq Rule
      BY <1>6, MessageType, PipelineConstants DEF Score, MayBeAnomalous, Vector
    <3> QED  BY <1>6, <3>1 DEF Score, MayBeAnomalous
  <2>2. IInv'
    BY <1>6, <1>t, <1>l, <2>1, InferenceQuiet DEF Score
  <2> QED  BY <1>0, <1>6, <2>2 DEF Score, incidentVars
<1>7. CASE CheckDuplicate
  <2>1. irules' \subseteq Rule \union {ML} /\ ipc' \in {"rule", "insert"}
        /\ (ipc' = "insert" => irules' # {}) /\ icur' = icur /\ icur \in Charger
        /\ fdone' = fdone /\ fdone[icur] > 0
    BY <1>7, <1>t DEF CheckDuplicate
  <2>2. IInv'
    BY <1>7, <1>t, <1>l, <2>1, InferenceQuiet DEF CheckDuplicate
  <2> QED  BY <1>0, <1>7, <2>2 DEF CheckDuplicate, incidentVars
<1>8. CASE InsertIncident
  <2> DEFINE new == [cp |-> icur, win |-> Message.win,
                     type |-> Draft(CurrentRule).type, rank |-> Draft(CurrentRule).rank]
  <2>1. new \in Incident
    <3>1. icur \in Charger /\ Message \in Vector /\ CurrentRule \in Rule \union {ML}
      BY <1>8, <1>t, MessageType, CurrentRuleType DEF InsertIncident, IInv
    <3>2. Message.win \in Window
      BY <3>1 DEF Vector
    <3> QED  BY <3>1, <3>2, DraftType DEF Incident
  <2>2. incidents \in Seq(Incident) /\ incidents' = Append(incidents, new)
    BY <1>8 DEF InsertIncident, IInv, InferenceTypeOK
  <2> HIDE DEF new
  <2>3. /\ incidents' \in Seq(Incident) /\ Len(incidents') > 0
        /\ DOMAIN incidents \subseteq DOMAIN incidents'
        /\ Len(incidents) + 1 \in DOMAIN incidents'
    BY <2>1, <2>2
  <2>4. /\ second' = second \union {Len(incidents) + 1}
        /\ since' = since \union {Len(incidents) + 1}
        /\ ipc' = "announce" /\ irules # {}
        /\ UNCHANGED <<fread, fdone, icur, irules, alarms, resolved, features>>
    BY <1>8 DEF InsertIncident, IInv
  <2>5. InferenceTypeOK'
    BY <1>t, <2>3, <2>4 DEF IInv, InferenceTypeOK
  <2>6. icur \in Charger /\ fdone[icur] > 0
    BY <1>8, <1>t DEF InsertIncident
  <2> QED  BY <1>0, <1>l, <2>3, <2>4, <2>5, <2>6 DEF IInv
<1>9. CASE Announce \/ MessageFails
  <2>1. alarms' \in [Charger -> Seq(Nat)] /\ Longer
    <3>1. CASE UNCHANGED alarms
      BY <1>0, <3>1 DEF IInv, InferenceTypeOK
    <3>2. CASE ipc = "announce" /\ alarms' = [alarms EXCEPT ![icur] = Append(@, Len(incidents))]
      BY <3>2, AnnounceTypes
    <3> QED  BY <1>9, <3>1, <3>2 DEF Announce, MessageFails
  <2>2. /\ UNCHANGED <<fread, fdone, icur, since, incidents, second, resolved, features>>
        /\ irules' \subseteq irules /\ ipc' \in {"rule", "ack"}
    BY <1>9 DEF Announce, MessageFails
  <2>3. InferenceTypeOK'
    BY <2>1, <2>2 DEF IInv, InferenceTypeOK
  <2>4. icur \in Charger /\ fdone[icur] > 0
    BY <1>9, <1>t DEF Announce, MessageFails
  <2> QED  BY <1>l, <2>1, <2>2, <2>3, <2>4 DEF IInv
<1> QED  BY <1>1, <1>2, <1>3, <1>4, <1>5, <1>6, <1>7, <1>8, <1>9
         DEF InferenceStep, InferenceFault

\* A step of the inference worker leaves the rest of the system alone.
LEMMA InferenceFrame ==
  ASSUME InferenceStep \/ InferenceFault, RInv
  PROVE  /\ UNCHANGED <<clockVars, featureVars, alertVars>>
         /\ RInv'
<1>1. UNCHANGED otherThanInference /\ (UNCHANGED faults \/ Fault)
  BY DEF InferenceStep, InferenceFault, ReadFeatures, TakeVector, VectorsDone, Score,
         CheckDuplicate, InsertIncident, InsertRefused, Announce, RulesDone, AckVector,
         MessageFails, InferenceDies
<1> QED  BY <1>1, PipelineConstants DEF otherThanInference, clockVars, Fault, RInv

\* A step of the inference worker keeps every part.
LEMMA TInference ==
  ASSUME TInv, InferenceStep \/ InferenceFault
  PROVE  TInv'
<1>1. /\ IInv' /\ RInv'
      /\ \A c \in Charger : Len(alarms[c]) <= Len(alarms'[c])
      /\ UNCHANGED <<window, active, featureVars>> /\ UNCHANGED alertVars
  BY InferenceTypes, InferenceFrame DEF TInv, clockVars
<1> QED  BY <1>1, KeepF, KeepA DEF TInv

-----------------------------------------------------------------------------
(* The alert worker *)

\* A step of the alert worker keeps its part.
LEMMA AlertTypes ==
  ASSUME RInv, IInv, AInv, AlertStep \/ AlertFault
  PROVE  AInv'
<1>l. ASSUME NEW c \in Charger
      PROVE  /\ alarms[c] \in Seq(Nat) /\ Len(alarms[c]) \in Nat
             /\ adone[c] \in Nat /\ aread[c] \in Nat
             /\ adone[c] <= aread[c] /\ aread[c] <= Len(alarms[c])
  <2>1. alarms[c] \in Seq(Nat)
    BY DEF IInv, InferenceTypeOK
  <2> QED  BY <2>1 DEF AInv, AlertTypeOK
<1>t. UNCHANGED alarms
  BY DEF AlertStep, AlertFault, ReadIncidents, TakeIncident, IncidentsDone, Dispatch,
         AllDispatched, AckIncident, DispatchFails, AlertFails, AlertDies,
         otherThanAlert, incidentVars
<1> USE DEF AInv, AlertTypeOK, AlertPc
<1>1. CASE ReadIncidents
  BY <1>1, <1>l, <1>t DEF ReadIncidents
<1>2. ASSUME NEW c \in Charger, TakeIncident(c) \/ AlertFails(c) PROVE AInv'
  <2>0. /\ adone[c] < aread[c] /\ adone' = [adone EXCEPT ![c] = adone[c] + 1]
        /\ aread' = aread /\ inbox' = inbox
        /\ acur' = alarms[c][adone[c] + 1] /\ apc' \in {"dispatch", "ack"}
    BY <1>2 DEF TakeIncident, AlertFails
  <2>1. acur' \in Nat
    <3>1. adone[c] + 1 \in 1 .. Len(alarms[c])
      BY <1>l, <2>0
    <3> QED  BY <1>l, <2>0, <3>1
  <2>2. adone' \in [Charger -> Nat]
    BY <1>l, <2>0
  <2>3. ASSUME NEW d \in Charger PROVE adone'[d] <= aread'[d] /\ aread'[d] <= Len(alarms'[d])
    <3>1. adone'[d] = IF d = c THEN adone[c] + 1 ELSE adone[d]
      BY <2>0
    <3> QED  BY <1>l, <1>t, <2>0, <3>1
  <2>4. atodo' \subseteq Config
    BY <1>2 DEF RInv, TakeIncident, AlertFails
  <2> QED  BY <2>0, <2>1, <2>2, <2>3, <2>4
<1>3. CASE IncidentsDone \/ AllDispatched \/ AckIncident \/ AlertDies
  BY <1>3, <1>l, <1>t DEF IncidentsDone, AllDispatched, AckIncident, AlertDies
<1>4. ASSUME NEW g \in Config, Dispatch(g) PROVE AInv'
  <2>1. inbox' \in [Config -> Seq(Nat)]
    BY <1>4 DEF Dispatch
  <2> QED  BY <1>4, <1>t, <2>1 DEF Dispatch
<1>5. ASSUME NEW g \in Config, DispatchFails(g) PROVE AInv'
  BY <1>5, <1>t DEF DispatchFails
<1> QED  BY <1>1, <1>2, <1>3, <1>4, <1>5 DEF AlertStep, AlertFault

\* A step of the alert worker leaves the rest of the system alone.
LEMMA AlertFrame ==
  ASSUME AlertStep \/ AlertFault, RInv
  PROVE  /\ UNCHANGED <<clockVars, featureVars, inferenceVars, incidentVars, resolved>>
         /\ RInv'
<1>1. UNCHANGED otherThanAlert /\ (UNCHANGED faults \/ Fault)
  BY DEF AlertStep, AlertFault, ReadIncidents, TakeIncident, IncidentsDone, Dispatch,
         AllDispatched, AckIncident, DispatchFails, AlertFails, AlertDies
<1> QED  BY <1>1, PipelineConstants DEF otherThanAlert, clockVars, Fault, RInv

\* The feature stream of a state in which only other things changed.
LEMMA FeaturesKept ==
  ASSUME FInv, UNCHANGED features
  PROVE  \A c \in Charger : Len(features[c]) <= Len(features'[c])
<1>1. \A c \in Charger : features[c] \in Seq(Vector)
  BY DEF FInv, FeatureTypeOK
<1> QED  BY <1>1

\* The incident streams of a state in which only other things changed.
LEMMA AlarmsKept ==
  ASSUME IInv, UNCHANGED alarms
  PROVE  \A c \in Charger : Len(alarms[c]) <= Len(alarms'[c])
<1>1. \A c \in Charger : alarms[c] \in Seq(Nat)
  BY DEF IInv, InferenceTypeOK
<1> QED  BY <1>1

\* A step of the alert worker keeps every part.
LEMMA TAlert ==
  ASSUME TInv, AlertStep \/ AlertFault
  PROVE  TInv'
<1>1. /\ AInv' /\ RInv'
      /\ UNCHANGED <<window, active, featureVars>> /\ UNCHANGED features
      /\ UNCHANGED <<inferenceVars, incidentVars, resolved>>
  BY AlertTypes, AlertFrame DEF TInv, clockVars, featureVars
<1>2. FInv'
  BY <1>1, KeepF DEF TInv
<1> QED  BY <1>1, <1>2, KeepI, FeaturesKept DEF TInv

-----------------------------------------------------------------------------
(* The environment *)

\* Events, the clock and the API keep every part.
LEMMA TEnvironment ==
  ASSUME TInv, Environment \/ UNCHANGED vars
  PROVE  TInv'
<1>1. UNCHANGED <<featureVars, features>> /\ UNCHANGED alertVars /\ UNCHANGED alarms
  BY DEF Environment, EventStored, DeleteCharger, WindowPasses, SecondPasses, Resolve,
         SwitchConfig, vars, featureVars, incidentVars
<1>2. RInv'
  BY DEF TInv, RInv, Environment, EventStored, DeleteCharger, WindowPasses, SecondPasses,
         Resolve, SwitchConfig, vars, clockVars
<1>3. FInv'
  <2>1. window' \in 1 .. MaxWindow + 1 /\ active' \subseteq Charger \X Window
    BY PipelineConstants DEF TInv, FInv, FeatureTypeOK, Environment, EventStored, DeleteCharger,
       WindowPasses, SecondPasses, Resolve, SwitchConfig, vars, clockVars, Window
  <2> QED  BY <1>1, <2>1 DEF TInv, FInv, FeatureTypeOK, featureVars
<1>4. IInv'
  <2>1. /\ UNCHANGED <<fread, fdone, ipc, icur, irules, since, incidents, alarms>>
        /\ second' \subseteq second /\ resolved' \subseteq DOMAIN incidents
    BY DEF TInv, IInv, InferenceTypeOK, Environment, EventStored, DeleteCharger, WindowPasses,
       SecondPasses, Resolve, SwitchConfig, vars, inferenceVars, incidentVars
  <2>2. InferenceTypeOK'
    BY <2>1 DEF TInv, IInv, InferenceTypeOK
  <2> QED  BY <1>1, <2>1, <2>2 DEF TInv, IInv
<1> QED  BY <1>1, <1>2, <1>3, <1>4, AlarmsKept, KeepA DEF TInv

\* Initially streams and tables are empty.
LEMMA TInit == Init => TInv
<1> SUFFICES ASSUME Init PROVE TInv
  OBVIOUS
<1>1. RInv
  BY PipelineConstants DEF Init, RInv
<1>2. FInv
  BY PipelineConstants DEF Init, FInv, FeatureTypeOK, FeaturePc
<1>3. IInv
  BY DEF Init, IInv, InferenceTypeOK, InferencePc
<1>4. AInv
  BY DEF Init, AInv, AlertTypeOK, AlertPc
<1> QED  BY <1>1, <1>2, <1>3, <1>4 DEF TInv

\* Every step keeps every part.
LEMMA TStep == TInv /\ [Next]_vars => TInv'
  BY TFeature, TInference, TAlert, TEnvironment DEF Next, Faults

\* The parts hold of every behaviour.
LEMMA TAlways == Spec => []TInv
  BY TInit, TStep, PTL DEF Spec

\* Types, for any chargers, channels, rules, windows and number of faults.
THEOREM TypeCorrect == Spec => []TypeOK
<1>1. TInv => TypeOK
  BY DEF TInv, RInv, FInv, IInv, AInv, TypeOK
<1> QED  BY TAlways, <1>1, PTL

-----------------------------------------------------------------------------
(* One vector per window *)

VInv ==
    /\ OneVectorPerWindow
    /\ fpc = "compute" => \A i \in DOMAIN vectors[fcur] : vectors[fcur][i].win # fwin

\* A vector is inserted only where the worker has found none.
LEMMA VStep == TInv /\ VInv /\ [Next]_vars => VInv'
<1> SUFFICES ASSUME TInv, VInv, [Next]_vars PROVE VInv'
  OBVIOUS
<1>1. ASSUME NEW c \in Charger, CheckExisting(c) PROVE VInv'
  BY <1>1 DEF CheckExisting, VInv, OneVectorPerWindow
<1>2. CASE Compute
  <2>1. PICK fired \in Firings :
          vectors' = [vectors EXCEPT ![fcur] = Append(@, [win |-> fwin, fired |-> fired])]
    BY <1>2 DEF Compute, Extracted
  <2> DEFINE old == vectors[fcur]
             e == [win |-> fwin, fired |-> fired]
  <2>2. fcur \in Charger /\ old \in Seq(Vector) /\ vectors \in [Charger -> Seq(Vector)]
    BY <1>2 DEF Compute, TInv, FInv, FeatureTypeOK
  <2>3. ASSUME NEW i \in DOMAIN Append(old, e)
        PROVE  \/ i \in DOMAIN old /\ Append(old, e)[i] = old[i]
               \/ i = Len(old) + 1 /\ Append(old, e)[i] = e
    BY <2>2
  <2>4. e.win = fwin /\ \A i \in DOMAIN old : old[i].win # fwin
    BY <1>2 DEF Compute, VInv
  <2>5. \A i, j \in DOMAIN old : old[i].win = old[j].win => i = j
    BY <2>2 DEF VInv, OneVectorPerWindow
  <2> HIDE DEF e, old
  <2>6. \A i, j \in DOMAIN Append(old, e) :
          Append(old, e)[i].win = Append(old, e)[j].win => i = j
    BY <2>3, <2>4, <2>5
  <2>7. OneVectorPerWindow'
    <3>1. vectors' = [vectors EXCEPT ![fcur] = Append(old, e)]
      BY <2>1 DEF old, e
    <3> QED  BY <2>2, <2>6, <3>1 DEF VInv, OneVectorPerWindow
  <2> QED  BY <1>2, <2>7 DEF Compute, VInv
<1>3. CASE RunOnce \/ PublishVector \/ RunEnds \/ FeatureFault
  BY <1>3 DEF RunOnce, PublishVector, RunEnds, FeatureFault, ComputeFails, FeatureRunDies,
              VInv, OneVectorPerWindow
<1>4. CASE UNCHANGED featureVars
  BY <1>4 DEF featureVars, VInv, OneVectorPerWindow
<1>5. InferenceStep \/ InferenceFault \/ AlertStep \/ AlertFault \/ Environment \/ UNCHANGED vars
        => UNCHANGED featureVars
  BY InferenceFrame, AlertFrame DEF TInv, vars, Environment, EventStored, DeleteCharger,
     WindowPasses, SecondPasses, Resolve, SwitchConfig
<1> QED  BY <1>1, <1>2, <1>3, <1>4, <1>5 DEF Next, Faults, FeatureStep

\* A window of a charger is evaluated at most once, whatever runs of the feature
\* worker fail or die.
THEOREM OneVector == Spec => []OneVectorPerWindow
<1>1. Init => VInv
  BY DEF Init, VInv, OneVectorPerWindow
<1>2. VInv => OneVectorPerWindow
  BY DEF VInv
<1> QED  BY TAlways, VStep, <1>1, <1>2, PTL DEF Spec

-----------------------------------------------------------------------------
(* Each channel is told of an incident at most once *)

Handled(id) == \E c \in Charger : \E i \in 1 .. adone[c] : alarms[c][i] = id

AnnouncedOnce ==
    \A c, d \in Charger : \A i \in DOMAIN alarms[c], j \in DOMAIN alarms[d] :
        alarms[c][i] = alarms[d][j] => c = d /\ i = j
AnnouncedExist == \A c \in Charger : \A i \in DOMAIN alarms[c] : alarms[c][i] \in DOMAIN incidents
NewIsUnannounced ==
    ipc = "announce" =>
        \A c \in Charger : \A i \in DOMAIN alarms[c] : alarms[c][i] # Len(incidents)
ToldIsHandled == \A g \in Config : \A k \in DOMAIN inbox[g] : Handled(inbox[g][k])
DispatchedIsNew ==
    apc = "dispatch" =>
        /\ Handled(acur) /\ acur \in DOMAIN incidents
        /\ \A g \in atodo : /\ \A k \in DOMAIN inbox[g] : inbox[g][k] # acur
                            /\ SeverityMin[g] <= incidents[acur].rank
Streams == AnnouncedOnce /\ AnnouncedExist /\ NewIsUnannounced
AlertInv == Streams /\ ToldIsHandled /\ DispatchedIsNew


\* The streams under a step of the inference worker that announces.
LEMMA StreamsAppend ==
  ASSUME IInv, Streams, ipc = "announce", ipc' # "announce", UNCHANGED incidents,
         alarms' = [alarms EXCEPT ![icur] = Append(@, Len(incidents))]
  PROVE  /\ Streams'
         /\ \A c \in Charger : \A i \in DOMAIN alarms[c] :
              i \in DOMAIN alarms'[c] /\ alarms'[c][i] = alarms[c][i]
<1>1. /\ icur \in Charger /\ Len(incidents) \in DOMAIN incidents
      /\ \A c \in Charger : alarms[c] \in Seq(Nat)
      /\ alarms \in [Charger -> Seq(Nat)]
  BY DEF IInv, InferenceTypeOK
<1> DEFINE n == Len(incidents)
<1>2. ASSUME NEW c \in Charger, NEW i \in DOMAIN alarms'[c]
      PROVE  \/ i \in DOMAIN alarms[c] /\ alarms'[c][i] = alarms[c][i]
             \/ c = icur /\ i = Len(alarms[icur]) + 1 /\ alarms'[c][i] = n
  <2>1. CASE c = icur
    <3>1. alarms'[c] = Append(alarms[c], n)
      BY <1>1, <2>1
    <3> QED  BY <1>1, <2>1, <3>1
  <2>2. CASE c # icur
    BY <1>1, <2>2
  <2> QED  BY <2>1, <2>2
<1>3. ASSUME NEW c \in Charger, NEW i \in DOMAIN alarms[c]
      PROVE  i \in DOMAIN alarms'[c] /\ alarms'[c][i] = alarms[c][i]
  <2>1. CASE c = icur
    <3>1. alarms'[c] = Append(alarms[c], n)
      BY <1>1, <2>1
    <3> QED  BY <1>1, <2>1, <3>1
  <2>2. CASE c # icur
    BY <1>1, <2>2
  <2> QED  BY <2>1, <2>2
<1>4. \A c \in Charger : \A i \in DOMAIN alarms[c] : alarms[c][i] # n /\ alarms[c][i] \in DOMAIN incidents
  BY DEF Streams, NewIsUnannounced, AnnouncedExist
<1> HIDE DEF n
<1>5. AnnouncedOnce'
  BY <1>2, <1>4 DEF Streams, AnnouncedOnce
<1>6. AnnouncedExist'
  BY <1>1, <1>2, <1>4 DEF AnnouncedExist, n
<1> QED  BY <1>3, <1>5, <1>6 DEF Streams, NewIsUnannounced

\* What the alert worker relies on stays true while the streams grow.
LEMMA AlertKeeps ==
  ASSUME IInv, AInv, AlertInv, UNCHANGED alertVars,
         DOMAIN incidents \subseteq DOMAIN incidents',
         \A i \in DOMAIN incidents : incidents'[i] = incidents[i],
         \A c \in Charger : \A i \in DOMAIN alarms[c] : alarms'[c][i] = alarms[c][i]
  PROVE  ToldIsHandled' /\ DispatchedIsNew'
<1>1. UNCHANGED <<aread, adone, apc, acur, atodo, inbox>>
  BY DEF alertVars
<1>2. \A c \in Charger : 1 .. adone[c] \subseteq DOMAIN alarms[c]
  <2> TAKE c \in Charger
  <2>1. /\ adone[c] \in Nat /\ aread[c] \in Nat /\ alarms[c] \in Seq(Nat)
        /\ adone[c] <= aread[c] /\ aread[c] <= Len(alarms[c])
    BY DEF AInv, AlertTypeOK, IInv, InferenceTypeOK
  <2> QED  BY <2>1
<1>3. \A id : Handled(id) => Handled(id)'
  BY <1>1, <1>2 DEF Handled
<1>4. ToldIsHandled'
  BY <1>1, <1>3 DEF AlertInv, ToldIsHandled
<1>5. DispatchedIsNew'
  BY <1>1, <1>3 DEF AlertInv, DispatchedIsNew
<1> QED  BY <1>4, <1>5

\* A new incident leaves the old ones as they were, and is in no stream.
LEMMA InsertKeeps ==
  ASSUME IInv, AlertInv, InsertIncident
  PROVE  /\ Streams'
         /\ DOMAIN incidents \subseteq DOMAIN incidents'
         /\ \A i \in DOMAIN incidents : incidents'[i] = incidents[i]
<1> DEFINE new == [cp |-> icur, win |-> Message.win,
                   type |-> Draft(CurrentRule).type, rank |-> Draft(CurrentRule).rank]
<1>1. incidents \in Seq(Incident) /\ incidents' = Append(incidents, new) /\ alarms' = alarms
  BY DEF InsertIncident, IInv, InferenceTypeOK
<1> HIDE DEF new
<1>2. /\ DOMAIN incidents \subseteq DOMAIN incidents'
      /\ \A i \in DOMAIN incidents : incidents'[i] = incidents[i]
      /\ Len(incidents') \notin DOMAIN incidents
  BY <1>1
<1>3. Streams'
  BY <1>1, <1>2 DEF AlertInv, Streams, AnnouncedOnce, AnnouncedExist, NewIsUnannounced
<1> QED  BY <1>2, <1>3

\* The inference worker announces an incident once, after its INSERT.
LEMMA InferenceAlertInv ==
  ASSUME TInv, AlertInv, InferenceStep \/ InferenceFault
  PROVE  AlertInv'
<1>0. UNCHANGED alertVars /\ IInv /\ AInv
  BY InferenceFrame DEF TInv
<1>1. CASE InsertIncident
  <2>1. /\ Streams'
        /\ DOMAIN incidents \subseteq DOMAIN incidents'
        /\ \A i \in DOMAIN incidents : incidents'[i] = incidents[i]
        /\ UNCHANGED alarms
    BY <1>0, <1>1, InsertKeeps DEF InsertIncident
  <2> QED  BY <1>0, <2>1, AlertKeeps DEF AlertInv
<1>2. CASE /\ ipc = "announce" /\ ipc' # "announce" /\ UNCHANGED incidents
           /\ alarms' = [alarms EXCEPT ![icur] = Append(@, Len(incidents))]
  <2>1. /\ Streams'
        /\ \A c \in Charger : \A i \in DOMAIN alarms[c] : alarms'[c][i] = alarms[c][i]
    BY <1>0, <1>2, StreamsAppend DEF AlertInv
  <2> QED  BY <1>0, <1>2, <2>1, AlertKeeps DEF AlertInv
<1>3. CASE ipc' # "announce" /\ UNCHANGED <<incidents, alarms>>
  <2>1. Streams'
    BY <1>3 DEF AlertInv, Streams, AnnouncedOnce, AnnouncedExist, NewIsUnannounced
  <2> QED  BY <1>0, <1>3, <2>1, AlertKeeps DEF AlertInv
<1>4. CASE Announce \/ MessageFails
  BY <1>2, <1>3, <1>4 DEF Announce, MessageFails
<1>5. CASE ReadFeatures \/ (\E c \in Charger : TakeVector(c)) \/ VectorsDone \/ Score
           \/ CheckDuplicate \/ InsertRefused \/ RulesDone \/ AckVector \/ InferenceDies
  BY <1>3, <1>5 DEF ReadFeatures, TakeVector, VectorsDone, Score, CheckDuplicate,
     InsertRefused, RulesDone, AckVector, InferenceDies, incidentVars
<1> QED  BY <1>1, <1>4, <1>5 DEF InferenceStep, InferenceFault

\* The alert worker tells a channel of what it has just taken, and advances.
LEMMA AlertAlertInv ==
  ASSUME TInv, AlertInv, AlertStep \/ AlertFault
  PROVE  AlertInv'
<1>0. UNCHANGED <<ipc, incidents, alarms>>
  BY AlertFrame DEF TInv, inferenceVars, incidentVars
<1>s. Streams'
  BY <1>0 DEF AlertInv, Streams, AnnouncedOnce, AnnouncedExist, NewIsUnannounced
<1>l. ASSUME NEW c \in Charger
      PROVE  /\ adone[c] \in Nat /\ aread[c] \in Nat /\ Len(alarms[c]) \in Nat
             /\ adone[c] <= aread[c] /\ aread[c] <= Len(alarms[c])
             /\ DOMAIN alarms[c] = 1 .. Len(alarms[c])
  <2>1. alarms[c] \in Seq(Nat)
    BY DEF TInv, IInv, InferenceTypeOK
  <2> QED  BY <2>1 DEF TInv, AInv, AlertTypeOK
<1>h. ASSUME \A c \in Charger : adone'[c] \in Nat /\ adone[c] <= adone'[c], NEW id, Handled(id)
      PROVE  Handled(id)'
  <2>1. PICK c \in Charger : \E i \in 1 .. adone[c] : alarms[c][i] = id
    BY <1>h DEF Handled
  <2>2. PICK i \in 1 .. adone[c] : alarms[c][i] = id
    BY <2>1
  <2>3. i \in 1 .. adone'[c]
    BY <1>h, <1>l, <2>2
  <2> QED  BY <1>0, <2>2, <2>3 DEF Handled
<1>1. ASSUME NEW c \in Charger, TakeIncident(c) \/ AlertFails(c) PROVE AlertInv'
  <2> DEFINE id == alarms[c][adone[c] + 1]
  <2>1. /\ adone[c] < aread[c] /\ adone' = [adone EXCEPT ![c] = adone[c] + 1]
        /\ inbox' = inbox /\ acur' = id
    BY <1>1 DEF TakeIncident, AlertFails
  <2>2. \A d \in Charger : adone'[d] \in Nat /\ adone[d] <= adone'[d]
    <3> TAKE d \in Charger
    <3>1. adone \in [Charger -> Nat]
      BY DEF TInv, AInv, AlertTypeOK
    <3> QED  BY <1>l, <2>1, <3>1
  <2>3. ToldIsHandled'
    BY <1>h, <2>1, <2>2 DEF AlertInv, ToldIsHandled
  <2>4. adone[c] + 1 \in DOMAIN alarms[c] /\ adone'[c] = adone[c] + 1
    <3>1. adone \in [Charger -> Nat]
      BY DEF TInv, AInv, AlertTypeOK
    <3> QED  BY <1>l, <2>1, <3>1
  <2>5. Handled(acur)'
    <3>1. adone[c] + 1 \in 1 .. adone'[c]
      BY <1>l, <2>4
    <3>2. alarms'[c][adone[c] + 1] = acur'
      BY <1>0, <2>1
    <3> QED  BY <3>1, <3>2 DEF Handled
  <2>6. ~ Handled(id)
    <3> SUFFICES ASSUME NEW d \in Charger, NEW i \in 1 .. adone[d], alarms[d][i] = id
                 PROVE  FALSE
      BY DEF Handled
    <3>1. i \in DOMAIN alarms[d]
      BY <1>l
    <3>2. d = c /\ i = adone[c] + 1
      BY <2>4, <3>1 DEF AlertInv, Streams, AnnouncedOnce
    <3> QED  BY <1>l, <3>2
  <2>7. DispatchedIsNew'
    <3>1. id \in DOMAIN incidents
      BY <2>4 DEF AlertInv, Streams, AnnouncedExist
    <3>2. ASSUME apc' = "dispatch", NEW g \in atodo' PROVE SeverityMin[g] <= incidents[id].rank
      BY <1>1, <3>2 DEF TakeIncident, AlertFails
    <3>3. ASSUME apc' = "dispatch", NEW g \in atodo', NEW k \in DOMAIN inbox[g]
          PROVE  inbox[g][k] # id
      <4>1. g \in Config
        BY <1>1, <3>3 DEF TakeIncident, AlertFails, TInv, RInv
      <4> QED  BY <2>6, <4>1 DEF AlertInv, ToldIsHandled
    <3> HIDE DEF id
    <3> QED  BY <1>0, <2>1, <2>5, <3>1, <3>2, <3>3 DEF DispatchedIsNew
  <2> QED  BY <1>s, <2>3, <2>7 DEF AlertInv
<1>2. ASSUME NEW g \in Config, Dispatch(g) PROVE AlertInv'
  <2>1. /\ apc = "dispatch" /\ g \in atodo /\ apc' = apc /\ acur' = acur /\ adone' = adone
        /\ inbox' = [inbox EXCEPT ![g] = Append(@, acur)] /\ atodo' = atodo \ {g}
    BY <1>2 DEF Dispatch
  <2>2. inbox \in [Config -> Seq(Nat)] /\ acur \in Nat
    BY DEF TInv, AInv, AlertTypeOK
  <2>3. \A id : Handled(id)' <=> Handled(id)
    BY <1>0, <2>1 DEF Handled
  <2>4. ASSUME NEW h \in Config, NEW k \in DOMAIN inbox'[h]
        PROVE  \/ k \in DOMAIN inbox[h] /\ inbox'[h][k] = inbox[h][k]
               \/ h = g /\ inbox'[h][k] = acur
    <3>1. CASE h = g
      <4>1. inbox'[h] = Append(inbox[h], acur) /\ inbox[h] \in Seq(Nat)
        BY <2>1, <2>2, <3>1
      <4> QED  BY <2>2, <3>1, <4>1
    <3>2. CASE h # g
      BY <2>1, <2>2, <3>2
    <3> QED  BY <3>1, <3>2
  <2>5. Handled(acur)
    BY <2>1 DEF AlertInv, DispatchedIsNew
  <2>6. ToldIsHandled'
    BY <2>3, <2>4, <2>5 DEF AlertInv, ToldIsHandled
  <2>7. DispatchedIsNew'
    <3>1. \A h \in atodo' : h \in Config /\ inbox'[h] = inbox[h]
      BY <2>1, <2>2 DEF TInv, AInv, AlertTypeOK
    <3> QED  BY <1>0, <2>1, <2>3, <3>1 DEF AlertInv, DispatchedIsNew
  <2> QED  BY <1>s, <2>6, <2>7 DEF AlertInv
<1>3. ASSUME NEW g \in Config, DispatchFails(g) PROVE AlertInv'
  BY <1>0, <1>s, <1>3 DEF DispatchFails, AlertInv, ToldIsHandled, DispatchedIsNew, Handled
<1>4. CASE ReadIncidents \/ IncidentsDone \/ AllDispatched \/ AckIncident
  BY <1>0, <1>s, <1>4 DEF ReadIncidents, IncidentsDone, AllDispatched, AckIncident,
     AlertInv, ToldIsHandled, DispatchedIsNew, Handled
<1>5. CASE AlertDies
  <2>1. \A c \in Charger : adone'[c] \in Nat /\ adone[c] <= adone'[c]
    BY <1>5, <1>l DEF AlertDies
  <2>2. ToldIsHandled'
    BY <1>5, <1>h, <2>1 DEF AlertDies, AlertInv, ToldIsHandled
  <2> QED  BY <1>s, <1>5, <2>2 DEF AlertDies, AlertInv, DispatchedIsNew
<1> QED  BY <1>1, <1>2, <1>3, <1>4, <1>5 DEF AlertStep, AlertFault

\* What touches neither incidents nor the alert worker keeps its invariant.
LEMMA OtherAlertInv ==
  ASSUME TInv, AlertInv, UNCHANGED <<ipc, incidents, alarms, adone, apc, acur, atodo, inbox>>
  PROVE  AlertInv'
  BY DEF AlertInv, Streams, AnnouncedOnce, AnnouncedExist, NewIsUnannounced, ToldIsHandled,
         DispatchedIsNew, Handled

\* Every step keeps what the alert worker relies on.
LEMMA AlertInvStep == TInv /\ AlertInv /\ [Next]_vars => AlertInv'
<1> SUFFICES ASSUME TInv, AlertInv, [Next]_vars PROVE AlertInv'
  OBVIOUS
<1>1. CASE FeatureStep \/ FeatureFault \/ Environment \/ UNCHANGED vars
  <2>1. UNCHANGED <<ipc, incidents, alarms, adone, apc, acur, atodo, inbox>>
    BY <1>1, FeatureFrame DEF TInv, Environment, EventStored, DeleteCharger, WindowPasses,
       SecondPasses, Resolve, SwitchConfig, vars, inferenceVars, incidentVars, alertVars
  <2> QED  BY <2>1, OtherAlertInv
<1> QED  BY <1>1, InferenceAlertInv, AlertAlertInv DEF Next, Faults

-----------------------------------------------------------------------------
(* Pipeline implements Alerting *)

Ranks == [i \in DOMAIN incidents |-> incidents[i].rank]

\* The abstract record grows with the table.
LEMMA RanksAppend ==
  ASSUME NEW s \in Seq(Incident), NEW e \in Incident
  PROVE  [i \in DOMAIN Append(s, e) |-> Append(s, e)[i].rank]
            = Append([i \in DOMAIN s |-> s[i].rank], e.rank)
<1> DEFINE f == [i \in DOMAIN s |-> s[i].rank]
           t == Append(s, e)
           g == [i \in DOMAIN t |-> t[i].rank]
<1>1. DOMAIN s = 1 .. Len(s) /\ Len(s) \in Nat /\ DOMAIN t = 1 .. Len(s) + 1
      /\ t[Len(s) + 1] = e /\ \A i \in 1 .. Len(s) : t[i] = s[i]
  OBVIOUS
<1>2. ASSUME NEW i \in DOMAIN s PROVE s[i].rank \in Nat
  <2>1. s[i] \in Incident
    OBVIOUS
  <2> QED  BY <2>1 DEF Incident
<1>3. f \in [1 .. Len(s) -> Nat]
  BY <1>1, <1>2
<1>4. f \in Seq(Nat) /\ Len(f) = Len(s)
  BY <1>1, <1>3
<1>5. e.rank \in Nat
  BY DEF Incident
<1>6. /\ DOMAIN Append(f, e.rank) = 1 .. Len(s) + 1
      /\ Append(f, e.rank)[Len(s) + 1] = e.rank
      /\ \A i \in 1 .. Len(s) : Append(f, e.rank)[i] = f[i]
      /\ Append(f, e.rank) = [i \in 1 .. Len(s) + 1 |-> Append(f, e.rank)[i]]
  BY <1>4, <1>5
<1>7. ASSUME NEW i \in 1 .. Len(s) + 1 PROVE g[i] = Append(f, e.rank)[i]
  <2>1. CASE i = Len(s) + 1
    BY <1>1, <1>6, <2>1
  <2>2. CASE i # Len(s) + 1
    <3>1. i \in 1 .. Len(s)
      BY <1>1, <2>2
    <3>2. g[i] = s[i].rank /\ f[i] = s[i].rank
      BY <1>1, <3>1
    <3> QED  BY <1>6, <3>1, <3>2
  <2> QED  BY <2>1, <2>2
<1>8. g = [i \in 1 .. Len(s) + 1 |-> g[i]]
  BY <1>1
<1> HIDE DEF f, t, g
<1>9. g = Append(f, e.rank)
  BY <1>6, <1>7, <1>8
<1> QED  BY <1>9 DEF f, t, g

\* Initial states map to initial states.
LEMMA ChannelsInit == Init => Channels!AInit
<1> SUFFICES ASSUME Init PROVE Channels!AInit
  OBVIOUS
<1>1. incidents = <<>> /\ inbox = [g \in Config |-> <<>>]
  BY DEF Init
<1>2. [i \in DOMAIN incidents |-> incidents[i].rank] = <<>>
  BY <1>1
<1> QED  BY <1>1, <1>2 DEF Channels!AInit

\* Every step is one of Alerting, or a stutter.
LEMMA ChannelsStep ==
  TInv /\ AlertInv /\ [Next]_vars
    => [Channels!ANext]_<<[i \in DOMAIN incidents |-> incidents[i].rank], inbox>>
<1> SUFFICES ASSUME TInv, AlertInv, [Next]_vars
             PROVE  [Channels!ANext]_<<Ranks, inbox>>
  BY DEF Ranks
<1>1. CASE UNCHANGED <<incidents, inbox>>
  BY <1>1 DEF Ranks
<1>2. CASE InsertIncident
  <2> DEFINE new == [cp |-> icur, win |-> Message.win,
                     type |-> Draft(CurrentRule).type, rank |-> Draft(CurrentRule).rank]
  <2>1. new \in Incident /\ incidents \in Seq(Incident)
    <3>1. icur \in Charger /\ Message \in Vector /\ CurrentRule \in Rule \union {ML}
      BY <1>2, MessageType, CurrentRuleType DEF InsertIncident, TInv, IInv
    <3>2. Message.win \in Window
      BY <3>1 DEF Vector
    <3> QED  BY <3>1, <3>2, DraftType DEF Incident, TInv, IInv, InferenceTypeOK
  <2>2. incidents' = Append(incidents, new) /\ inbox' = inbox
    BY <1>2 DEF InsertIncident, otherThanInference, alertVars
  <2>3. new.rank \in 1 .. 4
    BY <2>1 DEF Incident
  <2> HIDE DEF new
  <2>4. [i \in DOMAIN incidents |-> incidents[i].rank]'
          = Append([i \in DOMAIN incidents |-> incidents[i].rank], new.rank)
    BY <2>1, <2>2, RanksAppend
  <2> QED  BY <2>2, <2>3, <2>4 DEF Channels!ANext, Channels!Record
<1>3. ASSUME NEW g \in Config, Dispatch(g) PROVE Channels!ANext
  <2>1. /\ acur \in DOMAIN incidents /\ SeverityMin[g] <= incidents[acur].rank
        /\ \A k \in DOMAIN inbox[g] : inbox[g][k] # acur
    BY <1>3 DEF Dispatch, AlertInv, DispatchedIsNew
  <2>2. inbox' = [inbox EXCEPT ![g] = Append(@, acur)] /\ incidents' = incidents
    BY <1>3 DEF Dispatch, otherThanAlert, incidentVars
  <2>3. Channels!Tell(g)
    BY <2>1, <2>2 DEF Channels!Tell
  <2> QED  BY <2>3 DEF Channels!ANext
<1>4. CASE FeatureStep \/ FeatureFault \/ Environment
  BY <1>1, <1>4, FeatureFrame DEF TInv, Environment, EventStored, DeleteCharger, WindowPasses,
     SecondPasses, Resolve, SwitchConfig, incidentVars, alertVars
<1>5. CASE InferenceStep \/ InferenceFault
  <2>1. InsertIncident \/ UNCHANGED incidents
    BY <1>5 DEF InferenceStep, InferenceFault, ReadFeatures, TakeVector, VectorsDone, Score,
       CheckDuplicate, InsertRefused, Announce, RulesDone, AckVector, MessageFails,
       InferenceDies, incidentVars
  <2>2. UNCHANGED inbox
    BY <1>5, InferenceFrame DEF TInv, alertVars
  <2> QED  BY <1>1, <1>2, <2>1, <2>2
<1>6. CASE AlertStep \/ AlertFault
  <2>1. (\E g \in Config : Dispatch(g)) \/ UNCHANGED inbox
    BY <1>6 DEF AlertStep, AlertFault, ReadIncidents, TakeIncident, IncidentsDone,
       AllDispatched, AckIncident, DispatchFails, AlertFails, AlertDies
  <2>2. UNCHANGED incidents
    BY <1>6, AlertFrame DEF TInv, incidentVars
  <2> QED  BY <1>1, <1>3, <2>1, <2>2
<1> QED  BY <1>1, <1>4, <1>5, <1>6 DEF Next, Faults, vars, incidentVars, alertVars

\* The pipeline implements Alerting: a channel is told of each incident at most
\* once, and only of incidents on record that are severe enough for it.
THEOREM AlertsOnce == Spec => AlertedOnce
<1>1. Init => AlertInv
  BY DEF Init, AlertInv, Streams, AnnouncedOnce, AnnouncedExist, NewIsUnannounced,
         ToldIsHandled, DispatchedIsNew
<1> QED  BY TAlways, ChannelsInit, ChannelsStep, AlertInvStep, <1>1, PTL
         DEF Spec, AlertedOnce, Channels!ASpec
-----------------------------------------------------------------------------
(* The streams follow the tables *)

\* Appending to one of several streams: the old entries stay where they are.
LEMMA AppendAt ==
  ASSUME NEW S, NEW s \in [Charger -> Seq(S)], NEW c \in Charger, NEW e \in S,
         NEW t, t = [s EXCEPT ![c] = Append(@, e)]
  PROVE  /\ \A d \in Charger : \A i \in DOMAIN s[d] : i \in DOMAIN t[d] /\ t[d][i] = s[d][i]
         /\ \A d \in Charger : \A i \in DOMAIN t[d] :
              \/ i \in DOMAIN s[d] /\ t[d][i] = s[d][i]
              \/ d = c /\ i = Len(s[c]) + 1 /\ t[d][i] = e
         /\ Len(s[c]) + 1 \in DOMAIN t[c] /\ t[c][Len(s[c]) + 1] = e
         /\ Len(t[c]) = Len(s[c]) + 1 /\ \A i \in DOMAIN s[c] : i < Len(s[c]) + 1
<1>1. s[c] \in Seq(S) /\ t[c] = Append(s[c], e) /\ \A d \in Charger : d # c => t[d] = s[d]
  OBVIOUS
<1>2. /\ \A i \in DOMAIN s[c] : i \in DOMAIN t[c] /\ t[c][i] = s[c][i] /\ i < Len(s[c]) + 1
      /\ \A i \in DOMAIN t[c] : i \in DOMAIN s[c] \/ i = Len(s[c]) + 1
      /\ Len(s[c]) + 1 \in DOMAIN t[c] /\ t[c][Len(s[c]) + 1] = e
      /\ Len(t[c]) = Len(s[c]) + 1
  BY <1>1
<1> QED  BY <1>1, <1>2

\* What the feature worker stores, and what it publishes.
LEMMA FeatureAppends ==
  ASSUME FInv
  PROVE  /\ Compute =>
              /\ fcur \in Charger /\ fpc = "compute" /\ fpc' = "publish"
              /\ UNCHANGED <<features, fcur, faults>>
              /\ \E e \in Vector : e.win = fwin /\ vectors' = [vectors EXCEPT ![fcur] = Append(@, e)]
         /\ PublishVector =>
              /\ fcur \in Charger /\ fpc = "publish" /\ fpc' = "check"
              /\ UNCHANGED <<vectors, faults>> /\ NewEntry \in Vector
              /\ Len(vectors[fcur]) \in DOMAIN vectors[fcur]
              /\ features' = [features EXCEPT ![fcur] = Append(@, NewEntry)]
<1>1. ASSUME Compute
      PROVE  /\ fcur \in Charger /\ fpc = "compute" /\ fpc' = "publish"
             /\ UNCHANGED <<features, fcur, faults>>
             /\ \E e \in Vector : e.win = fwin /\ vectors' = [vectors EXCEPT ![fcur] = Append(@, e)]
  <2>1. PICK fired \in Firings :
          vectors' = [vectors EXCEPT ![fcur] = Append(@, [win |-> fwin, fired |-> fired])]
    BY <1>1 DEF Compute, Extracted
  <2>2. [win |-> fwin, fired |-> fired] \in Vector
    BY <1>1 DEF Compute, FInv, Vector
  <2> QED  BY <1>1, <2>1, <2>2 DEF Compute, FInv
<1>2. ASSUME PublishVector
      PROVE  /\ fcur \in Charger /\ fpc = "publish" /\ fpc' = "check"
             /\ UNCHANGED <<vectors, faults>> /\ NewEntry \in Vector
             /\ Len(vectors[fcur]) \in DOMAIN vectors[fcur]
             /\ features' = [features EXCEPT ![fcur] = Append(@, NewEntry)]
  <2>1. vectors[fcur] \in Seq(Vector) /\ Len(vectors[fcur]) > 0 /\ fcur \in Charger
    BY <1>2 DEF PublishVector, FInv, FeatureTypeOK
  <2>2. NewEntry \in Vector /\ Len(vectors[fcur]) \in DOMAIN vectors[fcur]
    BY <2>1 DEF NewEntry
  <2> QED  BY <1>2, <2>1, <2>2 DEF PublishVector
<1> QED  BY <1>1, <1>2

\* The other steps leave the rows and their stream alone, and a vector in hand
\* stays in hand but for a fault.
LEMMA FeatureQuiet ==
  ASSUME TInv, [Next]_vars, ~ Compute, ~ PublishVector
  PROVE  /\ UNCHANGED <<vectors, features>>
         /\ fpc' = "publish" => fpc = "publish" /\ fcur' = fcur
         /\ fpc = "publish" => UNCHANGED <<fpc, fcur>> \/ faults' # 0
<1>0. faults \in Nat
  BY DEF TInv, RInv
<1>1. ASSUME UNCHANGED featureVars
      PROVE  /\ UNCHANGED <<vectors, features>>
             /\ fpc' = "publish" => fpc = "publish" /\ fcur' = fcur
             /\ fpc = "publish" => UNCHANGED <<fpc, fcur>> \/ faults' # 0
  BY <1>1 DEF featureVars
<1>2. InferenceStep \/ InferenceFault \/ AlertStep \/ AlertFault \/ Environment \/ UNCHANGED vars
        => UNCHANGED featureVars
  BY InferenceFrame, AlertFrame DEF TInv, vars, Environment, EventStored, DeleteCharger,
     WindowPasses, SecondPasses, Resolve, SwitchConfig
<1>3. CASE RunOnce \/ (\E c \in Charger : CheckExisting(c)) \/ RunEnds
  BY <1>3 DEF RunOnce, CheckExisting, RunEnds
<1>4. CASE FeatureFault
  BY <1>0, <1>4 DEF FeatureFault, ComputeFails, FeatureRunDies, Fault
<1> QED  BY <1>1, <1>2, <1>3, <1>4 DEF Next, Faults, FeatureStep

\* Rows of feature_vectors and entries of its streams stay what they are.
LEMMA RowsStay ==
  ASSUME TInv, [Next]_vars, NEW c \in Charger
  PROVE  /\ \A i \in DOMAIN vectors[c] : i \in DOMAIN vectors'[c] /\ vectors'[c][i] = vectors[c][i]
         /\ \A i \in DOMAIN features[c] : i \in DOMAIN features'[c] /\ features'[c][i] = features[c][i]
<1>0. /\ FInv
      /\ vectors \in [Charger -> Seq(Vector)] /\ features \in [Charger -> Seq(Vector)]
  BY DEF TInv, FInv, FeatureTypeOK
<1>1. CASE Compute
  <2>1. fcur \in Charger /\ UNCHANGED features
    BY <1>0, <1>1, FeatureAppends
  <2> PICK e \in Vector : vectors' = [vectors EXCEPT ![fcur] = Append(@, e)]
    BY <1>0, <1>1, FeatureAppends
  <2> QED  BY <1>0, <2>1, AppendAt
<1>2. CASE PublishVector
  <2>1. /\ fcur \in Charger /\ UNCHANGED vectors /\ NewEntry \in Vector
        /\ features' = [features EXCEPT ![fcur] = Append(@, NewEntry)]
    BY <1>0, <1>2, FeatureAppends
  <2> QED  BY <1>0, <2>1, AppendAt
<1> QED  BY <1>1, <1>2, FeatureQuiet

\* Without a fault a stream holds the rows of its table, but for the one in hand.
VectorsFollow ==
    faults = 0 =>
        \A c \in Charger :
            vectors[c] = IF fpc = "publish" /\ fcur = c
                           THEN Append(features[c], NewEntry) ELSE features[c]

\* A fault is remembered.
LEMMA FaultsGrow == TInv /\ [Next]_vars /\ faults' = 0 => faults = 0
<1> SUFFICES ASSUME TInv, [Next]_vars, faults' = 0 PROVE faults = 0
  OBVIOUS
<1>1. faults \in Nat
  BY DEF TInv, RInv
<1>2. FeatureStep \/ FeatureFault => UNCHANGED faults \/ Fault
  BY DEF FeatureStep, FeatureFault, RunOnce, CheckExisting, Compute, PublishVector, RunEnds,
         ComputeFails, FeatureRunDies
<1>3. InferenceStep \/ InferenceFault => UNCHANGED faults \/ Fault
  BY DEF InferenceStep, InferenceFault, ReadFeatures, TakeVector, VectorsDone, Score,
         CheckDuplicate, InsertIncident, InsertRefused, Announce, RulesDone, AckVector,
         MessageFails, InferenceDies
<1>4. AlertStep \/ AlertFault => UNCHANGED faults \/ Fault
  BY DEF AlertStep, AlertFault, ReadIncidents, TakeIncident, IncidentsDone, Dispatch,
         AllDispatched, AckIncident, DispatchFails, AlertFails, AlertDies
<1>5. Environment \/ UNCHANGED vars => UNCHANGED faults
  BY DEF Environment, EventStored, DeleteCharger, WindowPasses, SecondPasses, Resolve,
         SwitchConfig, vars
<1> QED  BY <1>1, <1>2, <1>3, <1>4, <1>5 DEF Next, Faults, Fault

\* A row is inserted, then published: nothing comes between two of a charger.
LEMMA VectorsStep == TInv /\ VectorsFollow /\ [Next]_vars => VectorsFollow'
<1> SUFFICES ASSUME TInv, VectorsFollow, [Next]_vars, faults' = 0, NEW c \in Charger
             PROVE  (vectors[c] = IF fpc = "publish" /\ fcur = c
                                    THEN Append(features[c], NewEntry) ELSE features[c])'
  BY DEF VectorsFollow
<1>0. /\ FInv /\ faults = 0
      /\ vectors \in [Charger -> Seq(Vector)] /\ features \in [Charger -> Seq(Vector)]
  BY FaultsGrow DEF TInv, FInv, FeatureTypeOK
<1>1. CASE Compute
  <2>1. /\ fcur \in Charger /\ fpc = "compute" /\ fpc' = "publish"
        /\ UNCHANGED <<features, fcur>>
    BY <1>0, <1>1, FeatureAppends
  <2> PICK e \in Vector : vectors' = [vectors EXCEPT ![fcur] = Append(@, e)]
    BY <1>0, <1>1, FeatureAppends
  <2>2. vectors[fcur] = features[fcur] /\ vectors[c] = features[c]
    BY <1>0, <2>1 DEF VectorsFollow
  <2>3. vectors'[fcur] = Append(features[fcur], e)
    BY <1>0, <2>1, <2>2
  <2>4. NewEntry' = e
    <3>1. features[fcur] \in Seq(Vector)
      BY <1>0, <2>1
    <3>2. Append(features[fcur], e)[Len(Append(features[fcur], e))] = e
      BY <3>1
    <3> QED  BY <2>1, <2>3, <3>2 DEF NewEntry
  <2>5. c # fcur => vectors'[c] = vectors[c]
    BY <1>0, <2>1
  <2> QED  BY <2>1, <2>2, <2>3, <2>4, <2>5
<1>2. CASE PublishVector
  <2>1. /\ fcur \in Charger /\ fpc = "publish" /\ fpc' = "check" /\ UNCHANGED vectors
        /\ features' = [features EXCEPT ![fcur] = Append(@, NewEntry)]
    BY <1>0, <1>2, FeatureAppends
  <2>2. vectors[c] = IF fcur = c THEN Append(features[c], NewEntry) ELSE features[c]
    BY <1>0, <2>1 DEF VectorsFollow
  <2>3. features'[c] = IF fcur = c THEN Append(features[c], NewEntry) ELSE features[c]
    BY <1>0, <2>1
  <2> QED  BY <2>1, <2>2, <2>3
<1>3. CASE ~ Compute /\ ~ PublishVector
  <2>1. /\ UNCHANGED <<vectors, features>>
        /\ fpc' = "publish" <=> fpc = "publish"
        /\ fpc = "publish" => fcur' = fcur
    BY <1>3, FeatureQuiet
  <2>2. fpc = "publish" => NewEntry' = NewEntry
    BY <2>1 DEF NewEntry
  <2> QED  BY <1>0, <2>1, <2>2 DEF VectorsFollow
<1> QED  BY <1>1, <1>2, <1>3

\* Without a fault the stream of a charger lists its incidents in their order,
\* but for the one in hand; that one is the charger's.
AlarmsFollow ==
    /\ ipc = "announce" => incidents[Len(incidents)].cp = icur
    /\ faults = 0 =>
         \A c \in Charger :
            /\ {alarms[c][i] : i \in DOMAIN alarms[c]} = IncidentsOf(c) \ InHandIncident(c)
            /\ \A i, j \in DOMAIN alarms[c] : i < j => alarms[c][i] < alarms[c][j]

\* What InsertIncident appends.
LEMMA InsertAppends ==
  ASSUME FInv, IInv, InsertIncident
  PROVE  /\ ipc = "insert" /\ ipc' = "announce" /\ UNCHANGED <<icur, alarms, fdone, irules, faults>>
         /\ icur \in registered
         /\ incidents' \in Seq(Incident) /\ Len(incidents') = Len(incidents) + 1
         /\ DOMAIN incidents' = DOMAIN incidents \union {Len(incidents) + 1}
         /\ \A i \in DOMAIN incidents : incidents'[i] = incidents[i] /\ i < Len(incidents) + 1
         /\ Len(incidents) + 1 \notin DOMAIN incidents
         /\ incidents'[Len(incidents) + 1].cp = icur
         /\ incidents'[Len(incidents) + 1].win = Message.win
         /\ incidents'[Len(incidents) + 1].type = Draft(CurrentRule).type
         /\ incidents'[Len(incidents) + 1].rank = Draft(CurrentRule).rank
<1> DEFINE new == [cp |-> icur, win |-> Message.win,
                   type |-> Draft(CurrentRule).type, rank |-> Draft(CurrentRule).rank]
<1>1. new \in Incident
  <2>1. icur \in Charger /\ Message \in Vector /\ CurrentRule \in Rule \union {ML}
    BY MessageType, CurrentRuleType DEF InsertIncident, IInv
  <2>2. Message.win \in Window
    BY <2>1 DEF Vector
  <2> QED  BY <2>1, <2>2, DraftType DEF Incident
<1>2. incidents \in Seq(Incident) /\ incidents' = Append(incidents, new)
  BY DEF InsertIncident, IInv, InferenceTypeOK
<1>3. /\ new.cp = icur /\ new.win = Message.win
      /\ new.type = Draft(CurrentRule).type /\ new.rank = Draft(CurrentRule).rank
  OBVIOUS
<1>4. ipc = "insert" /\ ipc' = "announce" /\ icur \in registered
      /\ UNCHANGED <<icur, alarms, fdone, irules, faults>>
  BY DEF InsertIncident
<1> HIDE DEF new
<1>5. /\ incidents' \in Seq(Incident) /\ Len(incidents') = Len(incidents) + 1
      /\ incidents'[Len(incidents) + 1] = new
      /\ \A i \in DOMAIN incidents : incidents'[i] = incidents[i] /\ i < Len(incidents) + 1
      /\ Len(incidents) + 1 \notin DOMAIN incidents
      /\ DOMAIN incidents' = DOMAIN incidents \union {Len(incidents) + 1}
  BY <1>1, <1>2
<1> QED  BY <1>3, <1>4, <1>5

\* What a step does to the incidents and their streams.
LEMMA AlarmSteps ==
  ASSUME TInv, [Next]_vars
  PROVE  \/ InsertIncident
         \/ /\ ipc = "announce" /\ ipc' # "announce" /\ UNCHANGED <<incidents, icur>>
            /\ alarms' = [alarms EXCEPT ![icur] = Append(@, Len(incidents))]
         \/ /\ UNCHANGED <<incidents, alarms>>
            /\ \/ UNCHANGED <<ipc, icur>>
               \/ ipc' # "announce" /\ (ipc = "announce" => faults' # 0)
<1>0. faults \in Nat
  BY DEF TInv, RInv
<1>1. CASE FeatureStep \/ FeatureFault \/ AlertStep \/ AlertFault \/ Environment \/ UNCHANGED vars
  BY <1>1, FeatureFrame, AlertFrame DEF TInv, Environment, EventStored, DeleteCharger,
     WindowPasses, SecondPasses, Resolve, SwitchConfig, vars, inferenceVars, incidentVars
<1>2. CASE Announce \/ MessageFails
  BY <1>0, <1>2 DEF Announce, MessageFails, Fault
<1>3. CASE InferenceDies
  BY <1>0, <1>3 DEF InferenceDies, Fault, incidentVars
<1>4. CASE ReadFeatures \/ (\E c \in Charger : TakeVector(c)) \/ VectorsDone \/ Score
           \/ CheckDuplicate \/ InsertRefused \/ RulesDone \/ AckVector
  BY <1>4 DEF ReadFeatures, TakeVector, VectorsDone, Score, CheckDuplicate, InsertRefused,
     RulesDone, AckVector, incidentVars
<1> QED  BY <1>1, <1>2, <1>3, <1>4 DEF Next, Faults, InferenceStep, InferenceFault

\* An incident is inserted, then announced on its charger's stream.
LEMMA AlarmsStep == TInv /\ AlertInv /\ AlarmsFollow /\ [Next]_vars => AlarmsFollow'
<1> SUFFICES ASSUME TInv, AlertInv, AlarmsFollow, [Next]_vars PROVE AlarmsFollow'
  OBVIOUS
<1>0. /\ FInv /\ IInv /\ incidents \in Seq(Incident) /\ alarms \in [Charger -> Seq(Nat)]
      /\ \A c \in Charger : alarms[c] \in Seq(Nat)
  BY DEF TInv, IInv, InferenceTypeOK
<1>1. CASE InsertIncident
  <2> DEFINE n == Len(incidents) + 1
  <2>1. /\ ipc = "insert" /\ ipc' = "announce" /\ UNCHANGED <<icur, alarms, faults>>
        /\ Len(incidents') = n /\ DOMAIN incidents' = DOMAIN incidents \union {n}
        /\ \A i \in DOMAIN incidents : incidents'[i] = incidents[i]
        /\ n \notin DOMAIN incidents /\ incidents'[n].cp = icur
    BY <1>0, <1>1, InsertAppends
  <2> HIDE DEF n
  <2>2. ASSUME NEW c \in Charger
        PROVE  (IncidentsOf(c) \ InHandIncident(c))' = IncidentsOf(c) \ InHandIncident(c)
    <3>1. InHandIncident(c) = {} /\ InHandIncident(c)' = IF icur = c THEN {n} ELSE {}
      BY <2>1 DEF InHandIncident
    <3>2. IncidentsOf(c)' = IF icur = c THEN IncidentsOf(c) \union {n} ELSE IncidentsOf(c)
      BY <2>1 DEF IncidentsOf
    <3>3. n \notin IncidentsOf(c)
      BY <2>1 DEF IncidentsOf
    <3> QED  BY <3>1, <3>2, <3>3
  <2>3. (incidents[Len(incidents)].cp = icur)'
    BY <2>1
  <2> QED  BY <2>1, <2>2, <2>3 DEF AlarmsFollow
<1>2. CASE /\ ipc = "announce" /\ ipc' # "announce" /\ UNCHANGED <<incidents, icur>>
           /\ alarms' = [alarms EXCEPT ![icur] = Append(@, Len(incidents))]
  <2> DEFINE n == Len(incidents)
             m == Len(alarms[icur]) + 1
  <2>1. /\ n \in Nat /\ n \in DOMAIN incidents /\ DOMAIN incidents = 1 .. n
        /\ icur \in Charger /\ incidents[n].cp = icur
    BY <1>0, <1>2 DEF IInv, AlarmsFollow
  <2>2. /\ \A c \in Charger : \A i \in DOMAIN alarms[c] :
             i \in DOMAIN alarms'[c] /\ alarms'[c][i] = alarms[c][i]
        /\ \A c \in Charger : \A i \in DOMAIN alarms'[c] :
             \/ i \in DOMAIN alarms[c] /\ alarms'[c][i] = alarms[c][i]
             \/ c = icur /\ i = m /\ alarms'[c][i] = n
        /\ m \in DOMAIN alarms'[icur] /\ alarms'[icur][m] = n
        /\ \A i \in DOMAIN alarms[icur] : i < m
    BY <1>0, <1>2, <2>1, AppendAt
  <2>3. \A c \in Charger : \A i \in DOMAIN alarms[c] : alarms[c][i] \in 1 .. n /\ alarms[c][i] # n
    BY <1>2, <2>1 DEF AlertInv, Streams, AnnouncedExist, NewIsUnannounced
  <2>m. m \in Nat /\ \A c \in Charger : \A i \in DOMAIN alarms[c] : i \in Nat
    BY <1>0, <2>1
  <2> HIDE DEF n, m
  <2>4. ASSUME faults' = 0, NEW c \in Charger
        PROVE  /\ {alarms[c][i] : i \in DOMAIN alarms[c]}' = (IncidentsOf(c) \ InHandIncident(c))'
               /\ (\A i, j \in DOMAIN alarms[c] : i < j => alarms[c][i] < alarms[c][j])'
    <3>0. /\ {alarms[c][i] : i \in DOMAIN alarms[c]} = IncidentsOf(c) \ InHandIncident(c)
          /\ \A i, j \in DOMAIN alarms[c] : i < j => alarms[c][i] < alarms[c][j]
      BY <2>4, FaultsGrow DEF AlarmsFollow
    <3>1. InHandIncident(c)' = {} /\ InHandIncident(c) = IF icur = c THEN {n} ELSE {}
      BY <1>2 DEF InHandIncident, n
    <3>2. IncidentsOf(c)' = IncidentsOf(c) /\ (icur = c => n \in IncidentsOf(c))
      BY <1>2, <2>1 DEF IncidentsOf
    <3>3. {alarms'[c][i] : i \in DOMAIN alarms'[c]}
            = IF icur = c THEN {alarms[c][i] : i \in DOMAIN alarms[c]} \union {n}
                          ELSE {alarms[c][i] : i \in DOMAIN alarms[c]}
      BY <2>2
    <3>4. ASSUME NEW i \in DOMAIN alarms'[c], NEW j \in DOMAIN alarms'[c], i < j
          PROVE  alarms'[c][i] < alarms'[c][j]
      <4>1. CASE j \in DOMAIN alarms[c] /\ i \in DOMAIN alarms[c]
        BY <2>2, <3>0, <3>4, <4>1
      <4>2. CASE j = m /\ c = icur /\ i \in DOMAIN alarms[c]
        BY <2>1, <2>2, <2>3, <4>2
      <4>3. ~ (i = m /\ c = icur)
        <5> SUFFICES ASSUME i = m, c = icur PROVE FALSE
          OBVIOUS
        <5>1. j = m \/ j < m
          BY <2>2
        <5> QED  BY <2>2, <2>m, <3>4, <5>1
      <4> QED  BY <2>2, <4>1, <4>2, <4>3
    <3> QED  BY <3>0, <3>1, <3>2, <3>3, <3>4
  <2> QED  BY <1>2, <2>4 DEF AlarmsFollow
<1>3. CASE /\ UNCHANGED <<incidents, alarms>>
           /\ \/ UNCHANGED <<ipc, icur>>
              \/ ipc' # "announce" /\ (ipc = "announce" => faults' # 0)
  <2>1. \A c \in Charger : IncidentsOf(c)' = IncidentsOf(c)
    BY <1>3 DEF IncidentsOf
  <2>2. faults' = 0 => \A c \in Charger : InHandIncident(c)' = InHandIncident(c)
    BY <1>3 DEF InHandIncident
  <2>3. (ipc = "announce" => incidents[Len(incidents)].cp = icur)'
    BY <1>3 DEF AlarmsFollow
  <2>4. faults' = 0 => faults = 0
    BY FaultsGrow
  <2> QED  BY <1>3, <2>1, <2>2, <2>3, <2>4 DEF AlarmsFollow
<1> QED  BY <1>1, <1>2, <1>3, AlarmSteps

\* Without a fault each stream says what its table says, in the same order, but
\* for the row a worker has just inserted: however the workers interleave.
THEOREM StreamsFollow == Spec => []StreamsFollowTables
<1>1. Init => AlertInv /\ VectorsFollow /\ AlarmsFollow
  BY DEF Init, AlertInv, Streams, AnnouncedOnce, AnnouncedExist, NewIsUnannounced,
         ToldIsHandled, DispatchedIsNew, VectorsFollow, AlarmsFollow, IncidentsOf,
         InHandIncident
<1>2. VectorsFollow /\ AlarmsFollow => StreamsFollowTables
  BY DEF VectorsFollow, AlarmsFollow, StreamsFollowTables
<1> QED  BY TAlways, VectorsStep, AlarmsStep, AlertInvStep, <1>1, <1>2, PTL DEF Spec

-----------------------------------------------------------------------------
(* One open incident of a type per message *)

\* The entries of a stream are rows of the table, of different windows, and the
\* vector in hand is of another one.
WinsInv ==
    /\ \A c \in Charger : \A i \in DOMAIN features[c] :
         \E j \in DOMAIN vectors[c] : features[c][i] = vectors[c][j]
    /\ \A c \in Charger : \A i, j \in DOMAIN features[c] :
         features[c][i].win = features[c][j].win => i = j
    /\ fpc = "publish" => \A i \in DOMAIN features[fcur] : features[fcur][i].win # NewEntry.win

\* A window that has no vector has no entry either.
LEMMA WinsStep == TInv /\ VInv /\ WinsInv /\ [Next]_vars => WinsInv'
<1> SUFFICES ASSUME TInv, VInv, WinsInv, [Next]_vars PROVE WinsInv'
  OBVIOUS
<1>0. /\ FInv
      /\ vectors \in [Charger -> Seq(Vector)] /\ features \in [Charger -> Seq(Vector)]
  BY DEF TInv, FInv, FeatureTypeOK
<1>1. CASE Compute
  <2>1. /\ fcur \in Charger /\ fpc = "compute" /\ UNCHANGED <<features, fcur>>
    BY <1>0, <1>1, FeatureAppends
  <2> PICK e \in Vector : e.win = fwin /\ vectors' = [vectors EXCEPT ![fcur] = Append(@, e)]
    BY <1>0, <1>1, FeatureAppends
  <2>2. /\ \A d \in Charger : \A i \in DOMAIN vectors[d] :
             i \in DOMAIN vectors'[d] /\ vectors'[d][i] = vectors[d][i]
        /\ vectors'[fcur][Len(vectors'[fcur])] = e
    BY <1>0, <2>1, AppendAt
  <2>3. NewEntry' = e
    BY <2>1, <2>2 DEF NewEntry
  <2>4. \A i \in DOMAIN features[fcur] : features[fcur][i].win # fwin
    BY <2>1 DEF WinsInv, VInv
  <2> QED  BY <2>1, <2>2, <2>3, <2>4 DEF WinsInv
<1>2. CASE PublishVector
  <2>1. /\ fcur \in Charger /\ fpc = "publish" /\ fpc' = "check" /\ UNCHANGED vectors
        /\ NewEntry \in Vector /\ Len(vectors[fcur]) \in DOMAIN vectors[fcur]
        /\ features' = [features EXCEPT ![fcur] = Append(@, NewEntry)]
    BY <1>0, <1>2, FeatureAppends
  <2>2. \A d \in Charger : \A i \in DOMAIN features'[d] :
          \/ i \in DOMAIN features[d] /\ features'[d][i] = features[d][i]
          \/ d = fcur /\ i = Len(features[fcur]) + 1 /\ features'[d][i] = NewEntry
    BY <1>0, <2>1, AppendAt
  <2>3. \E j \in DOMAIN vectors[fcur] : NewEntry = vectors[fcur][j]
    BY <2>1 DEF NewEntry
  <2>4. \A i \in DOMAIN features[fcur] : features[fcur][i].win # NewEntry.win
    BY <2>1 DEF WinsInv
  <2> QED  BY <2>1, <2>2, <2>3, <2>4 DEF WinsInv
<1>3. CASE ~ Compute /\ ~ PublishVector
  <2>1. /\ UNCHANGED <<vectors, features>>
        /\ fpc' = "publish" => fpc = "publish" /\ fcur' = fcur
    BY <1>3, FeatureQuiet
  <2>2. fpc' = "publish" => NewEntry' = NewEntry
    BY <2>1 DEF NewEntry
  <2> QED  BY <2>1, <2>2 DEF WinsInv
<1> QED  BY <1>1, <1>2, <1>3

\* The incidents of the message in hand.
OfMessage(i) == incidents[i].cp = icur /\ incidents[i].win = Message.win

\* How many vectors of a charger may have incidents: the one in hand does not
\* until it is scored.
Taken(c) == IF ipc = "score" /\ icur = c THEN fdone[c] - 1 ELSE fdone[c]

\* An incident is of a vector that was handled.
FromTaken ==
    \A i \in DOMAIN incidents :
        \E j \in 1 .. Taken(incidents[i].cp) :
            features[incidents[i].cp][j].win = incidents[i].win

\* The duplicate check of a message sees every incident of the message.
Seen == ipc \in {"rule", "insert", "announce"} =>
            \A i \in DOMAIN incidents : OfMessage(i) => i \in since

\* The model's incident, which is not checked, is the only one of its message.
Alone == ML \in irules =>
            /\ irules = {ML}
            /\ ipc \in {"rule", "insert"} => \A i \in DOMAIN incidents : ~ OfMessage(i)

\* No duplicate turns up between the check and the INSERT.
Unduplicated == ipc = "insert" => ~ Duplicate(CurrentRule)

OpenInv == FromTaken /\ Seen /\ Alone /\ Unduplicated /\ OpenOncePerMessage

\* What was handled is in the stream.
LEMMA TakenBounds ==
  ASSUME FInv, IInv, NEW c \in Charger
  PROVE  /\ Taken(c) \in Nat /\ fdone[c] \in Nat /\ fread[c] \in Nat
         /\ Taken(c) <= fdone[c] /\ fdone[c] <= fread[c]
         /\ 1 .. fread[c] \subseteq DOMAIN features[c]
<1>1. /\ features[c] \in Seq(Vector) /\ fdone[c] \in Nat /\ fread[c] \in Nat
      /\ fdone[c] <= fread[c] /\ fread[c] <= Len(features[c])
      /\ ipc = "score" /\ icur = c => fdone[c] > 0
  BY DEF FInv, FeatureTypeOK, IInv, InferenceTypeOK
<1>2. Taken(c) \in Nat /\ Taken(c) <= fdone[c]
  BY <1>1 DEF Taken
<1> QED  BY <1>1, <1>2

\* Incidents stay those of handled vectors while more are handled.
LEMMA FromTakenKept ==
  ASSUME FInv, IInv, FromTaken, UNCHANGED incidents,
         \A c \in Charger : Taken(c)' \in Nat /\ Taken(c) <= Taken(c)',
         \A c \in Charger : \A i \in DOMAIN features[c] : features'[c][i] = features[c][i]
  PROVE  FromTaken'
<1> SUFFICES ASSUME NEW i \in DOMAIN incidents, NEW c, c = incidents[i].cp
             PROVE  \E j \in 1 .. Taken(c)' : features'[c][j].win = incidents[i].win
  BY DEF FromTaken
<1>1. c \in Charger
  <2>1. incidents[i] \in Incident
    BY DEF IInv, InferenceTypeOK
  <2> QED  BY <2>1 DEF Incident
<1>2. PICK j \in 1 .. Taken(c) : features[c][j].win = incidents[i].win
  BY DEF FromTaken
<1>3. /\ Taken(c) \in Nat /\ fdone[c] \in Nat /\ fread[c] \in Nat
      /\ Taken(c) <= fdone[c] /\ fdone[c] <= fread[c]
      /\ 1 .. fread[c] \subseteq DOMAIN features[c]
  BY <1>1, TakenBounds
<1>4. j \in DOMAIN features[c] /\ j \in 1 .. Taken(c)'
  BY <1>1, <1>2, <1>3
<1> QED  BY <1>1, <1>2, <1>4

\* The message in hand stays what it is while its stream grows.
LEMMA MessageKept ==
  ASSUME FInv, IInv, ipc \in {"rule", "insert", "announce"}, UNCHANGED <<icur, fdone>>,
         \A c \in Charger : \A i \in DOMAIN features[c] : features'[c][i] = features[c][i]
  PROVE  Message' = Message
<1>1. icur \in Charger /\ fdone[icur] > 0
  BY DEF IInv
<1>2. fdone[icur] \in 1 .. fread[icur] /\ 1 .. fread[icur] \subseteq DOMAIN features[icur]
  BY <1>1, TakenBounds
<1> QED  BY <1>1, <1>2 DEF Message

\* The other workers, the chargers and the API do not disturb a message.
LEMMA OpenKept ==
  ASSUME TInv, OpenInv, UNCHANGED <<incidents, since, irules, ipc, icur, fdone>>,
         resolved \subseteq resolved', registered' \subseteq registered,
         \A c \in Charger : \A i \in DOMAIN features[c] : features'[c][i] = features[c][i]
  PROVE  OpenInv'
<1>0. FInv /\ IInv
  BY DEF TInv
<1>1. FromTaken'
  <2>1. \A c \in Charger : Taken(c)' = Taken(c)
    BY DEF Taken
  <2>2. \A c \in Charger : Taken(c) \in Nat
    BY <1>0, TakenBounds
  <2> QED  BY <1>0, <2>1, <2>2, FromTakenKept DEF OpenInv
<1>2. ipc \in {"rule", "insert", "announce"} => Message' = Message
  BY <1>0, MessageKept
<1>3. Seen' /\ Alone'
  BY <1>2 DEF OpenInv, Seen, Alone, OfMessage
<1>4. Unduplicated'
  BY DEF OpenInv, Unduplicated, Duplicate, CurrentRule
<1>5. OpenOncePerMessage'
  BY DEF OpenInv, OpenOncePerMessage
<1> QED  BY <1>1, <1>3, <1>4, <1>5 DEF OpenInv

\* The inference worker between two messages, and at the end of one.
LEMMA OpenIdle ==
  ASSUME TInv, TInv', OpenInv, UNCHANGED <<incidents, features, resolved>>,
         ipc' \in {"read", "next", "score", "ack"}, irules' = irules \/ irules' = {},
         \A c \in Charger : Taken(c) <= Taken(c)'
  PROVE  OpenInv'
<1>0. FInv /\ IInv /\ FInv' /\ IInv'
  BY DEF TInv
<1>1. \A c \in Charger : Taken(c)' \in Nat
  <2> TAKE c \in Charger
  <2>1. fdone'[c] \in Nat /\ (ipc' = "score" /\ icur' = c => fdone'[c] > 0)
    BY <1>0 DEF IInv, InferenceTypeOK
  <2> QED  BY <2>1 DEF Taken
<1>2. FromTaken'
  BY <1>0, <1>1, FromTakenKept DEF OpenInv
<1>3. Seen' /\ Alone' /\ Unduplicated'
  BY DEF OpenInv, Seen, Alone, Unduplicated
<1>4. OpenOncePerMessage'
  BY DEF OpenInv, OpenOncePerMessage
<1> QED  BY <1>2, <1>3, <1>4 DEF OpenInv

\* A message that is scored has no incident yet.
LEMMA ScoredIsNew ==
  ASSUME TInv, WinsInv, FromTaken, ipc = "score", NEW i \in DOMAIN incidents
  PROVE  ~ OfMessage(i)
<1> SUFFICES ASSUME OfMessage(i) PROVE FALSE
  OBVIOUS
<1>0. FInv /\ IInv
  BY DEF TInv
<1>1. icur \in Charger /\ fdone[icur] > 0 /\ Taken(icur) = fdone[icur] - 1
  BY <1>0 DEF IInv, Taken
<1>2. PICK j \in 1 .. Taken(icur) : features[icur][j].win = Message.win
  BY DEF OfMessage, FromTaken
<1>3. /\ fdone[icur] \in Nat /\ fread[icur] \in Nat /\ fdone[icur] <= fread[icur]
      /\ 1 .. fread[icur] \subseteq DOMAIN features[icur]
  BY <1>0, <1>1, TakenBounds
<1>4. j \in DOMAIN features[icur] /\ fdone[icur] \in DOMAIN features[icur] /\ j # fdone[icur]
  BY <1>1, <1>2, <1>3
<1> QED  BY <1>1, <1>2, <1>4 DEF WinsInv, Message

\* With the model's incident done, nothing is left to do.
LEMMA RestIsAlone ==
  ASSUME IInv, Alone, irules # {}, irules' = irules \ {CurrentRule}
  PROVE  ML \notin irules'
<1>1. CurrentRule \in irules
  BY CurrentRuleType
<1> QED  BY <1>1 DEF Alone

\* A second incident of the message's type is inserted only if the first has
\* been resolved.
LEMMA InsertOpen ==
  ASSUME TInv, OpenInv, InsertIncident
  PROVE  OpenInv'
<1>0. FInv /\ IInv /\ icur \in Charger /\ fdone[icur] > 0
  BY DEF TInv, IInv, InsertIncident
<1> DEFINE n == Len(incidents) + 1
<1>1. /\ ipc = "insert" /\ ipc' = "announce" /\ UNCHANGED <<icur, fdone, irules>>
      /\ icur \in registered /\ n \in Nat
      /\ DOMAIN incidents' = DOMAIN incidents \union {n}
      /\ \A i \in DOMAIN incidents : incidents'[i] = incidents[i] /\ i < n
      /\ n \notin DOMAIN incidents
      /\ incidents'[n].cp = icur /\ incidents'[n].win = Message.win
      /\ incidents'[n].type = Draft(CurrentRule).type
  <2>1. n \in Nat
    BY <1>0 DEF IInv, InferenceTypeOK
  <2> QED  BY <1>0, <2>1, InsertAppends
<1>2. /\ since' = since \union {n} /\ UNCHANGED <<features, resolved>>
  BY DEF InsertIncident, otherThanInference, featureVars
<1>d. \A i, j \in DOMAIN incidents' : i < j => i \in DOMAIN incidents
  <2> SUFFICES ASSUME NEW j \in DOMAIN incidents', n < j PROVE FALSE
    BY <1>1
  <2>1. DOMAIN incidents \subseteq Nat
    BY <1>0 DEF IInv, InferenceTypeOK
  <2> QED  BY <1>1, <2>1
<1> HIDE DEF n
<1>3. FromTaken'
  <2>1. \A c \in Charger : Taken(c)' = Taken(c)
    BY <1>1 DEF Taken
  <2>2. Taken(icur) = fdone[icur] /\ fdone[icur] \in 1 .. Taken(icur)
    <3>1. Taken(icur) = fdone[icur]
      BY <1>1 DEF Taken
    <3> QED  BY <1>0, <3>1, TakenBounds
  <2>3. \A i \in DOMAIN incidents : incidents[i].cp \in Charger
    <3>1. \A i \in DOMAIN incidents : incidents[i] \in Incident
      BY <1>0 DEF IInv, InferenceTypeOK
    <3> QED  BY <3>1 DEF Incident
  <2>4. ASSUME NEW i \in DOMAIN incidents, NEW c, c = incidents[i].cp
        PROVE  \E j \in 1 .. Taken(c)' : features'[c][j].win = incidents[i].win
    <3>1. \E j \in 1 .. Taken(c) : features[c][j].win = incidents[i].win
      BY <2>4 DEF OpenInv, FromTaken
    <3>2. Taken(c)' = Taken(c)
      BY <2>1, <2>3, <2>4
    <3> QED  BY <1>2, <3>1, <3>2
  <2>5. ASSUME NEW c, c = icur
        PROVE  \E j \in 1 .. Taken(c)' : features'[c][j].win = Message.win
    <3>1. features[c][fdone[c]].win = Message.win
      BY <2>5 DEF Message
    <3>2. Taken(c)' = Taken(c) /\ fdone[c] \in 1 .. Taken(c)
      BY <1>0, <2>1, <2>2, <2>5
    <3> QED  BY <1>2, <3>1, <3>2
  <2> QED  BY <1>1, <2>4, <2>5 DEF FromTaken
<1>4. Message' = Message
  BY <1>1, <1>2 DEF Message
<1>5. Seen'
  BY <1>1, <1>2, <1>4 DEF OpenInv, Seen, OfMessage
<1>6. Alone' /\ Unduplicated'
  BY <1>1 DEF OpenInv, Alone, Unduplicated
<1>7. ASSUME NEW i \in DOMAIN incidents, OfMessage(i),
             incidents[i].type = Draft(CurrentRule).type
      PROVE  i \in resolved
  <2>1. CurrentRule \in irules
    BY <1>0, CurrentRuleType DEF InsertIncident, IInv
  <2>2. CurrentRule # ML
    BY <1>1, <1>7, <2>1 DEF OpenInv, Alone
  <2>3. i \in since
    BY <1>1, <1>7 DEF OpenInv, Seen
  <2> QED  BY <1>1, <1>7, <2>2, <2>3 DEF OpenInv, Unduplicated, Duplicate, OfMessage
<1>8. OpenOncePerMessage'
  <2> SUFFICES ASSUME NEW i \in DOMAIN incidents', NEW j \in DOMAIN incidents', i < j,
                      incidents'[i].cp = incidents'[j].cp, incidents'[i].win = incidents'[j].win,
                      incidents'[i].type = incidents'[j].type
               PROVE  i \in resolved
    BY <1>2 DEF OpenOncePerMessage
  <2>1. i \in DOMAIN incidents
    BY <1>d
  <2>2. CASE j = n
    <3>1. OfMessage(i) /\ incidents[i].type = Draft(CurrentRule).type
      BY <1>1, <2>1, <2>2 DEF OfMessage
    <3> QED  BY <1>7, <2>1, <3>1
  <2>3. CASE j \in DOMAIN incidents
    BY <1>1, <2>1, <2>3 DEF OpenInv, OpenOncePerMessage
  <2> QED  BY <1>1, <2>2, <2>3
<1> QED  BY <1>3, <1>5, <1>6, <1>8 DEF OpenInv

\* Every step keeps one open incident of a type per message.
LEMMA OpenStep == TInv /\ WinsInv /\ OpenInv /\ [Next]_vars => OpenInv'
<1> SUFFICES ASSUME TInv, WinsInv, OpenInv, [Next]_vars PROVE OpenInv'
  OBVIOUS
<1>0. FInv /\ IInv /\ TInv'
  BY TStep DEF TInv
<1>f. \A c \in Charger : /\ Taken(c) \in Nat /\ fdone[c] \in Nat /\ fread[c] \in Nat
                         /\ Taken(c) <= fdone[c] /\ fdone[c] <= fread[c]
  BY <1>0, TakenBounds
<1>1. CASE FeatureStep \/ FeatureFault
  <2>1. UNCHANGED <<incidents, since, irules, ipc, icur, fdone, resolved, registered>>
    BY <1>1 DEF FeatureStep, FeatureFault, RunOnce, CheckExisting, Compute, PublishVector,
       RunEnds, ComputeFails, FeatureRunDies, otherThanFeature, clockVars, inferenceVars,
       incidentVars
  <2>2. \A c \in Charger : \A i \in DOMAIN features[c] : features'[c][i] = features[c][i]
    BY RowsStay
  <2> QED  BY <2>1, <2>2, OpenKept
<1>2. CASE AlertStep \/ AlertFault
  <2>1. UNCHANGED <<incidents, since, irules, ipc, icur, fdone, resolved, registered, features>>
    BY <1>2, AlertFrame DEF TInv, clockVars, featureVars, inferenceVars, incidentVars
  <2> QED  BY <2>1, OpenKept
<1>3. CASE Environment \/ UNCHANGED vars
  <2>1. /\ UNCHANGED <<incidents, since, irules, ipc, icur, fdone, features>>
        /\ resolved \subseteq resolved' /\ registered' \subseteq registered
    BY <1>3 DEF Environment, EventStored, DeleteCharger, WindowPasses, SecondPasses, Resolve,
       SwitchConfig, vars, clockVars, featureVars, inferenceVars, incidentVars
  <2> QED  BY <2>1, OpenKept
<1>4. CASE ReadFeatures \/ VectorsDone \/ RulesDone \/ InsertRefused \/ MessageFails
  <2>1. /\ UNCHANGED <<incidents, features, resolved, irules, fdone, icur>>
        /\ ipc' \in {"read", "next", "ack"}
    BY <1>4 DEF ReadFeatures, VectorsDone, RulesDone, InsertRefused, MessageFails,
       incidentVars, otherThanInference, featureVars
  <2>2. \A c \in Charger : Taken(c) <= Taken(c)'
    BY <1>f, <2>1 DEF Taken
  <2> QED  BY <1>0, <2>1, <2>2, OpenIdle
<1>5. ASSUME NEW c \in Charger, TakeVector(c) PROVE OpenInv'
  <2>1. /\ UNCHANGED <<incidents, features, resolved, irules>>
        /\ ipc = "next" /\ ipc' = "score" /\ icur' = c /\ fdone' = [fdone EXCEPT ![c] = @ + 1]
    BY <1>5 DEF TakeVector, incidentVars, otherThanInference, featureVars
  <2>2. \A d \in Charger : Taken(d) <= Taken(d)'
    <3> TAKE d \in Charger
    <3>1. fdone'[d] = IF d = c THEN fdone[d] + 1 ELSE fdone[d]
      BY <1>0, <2>1 DEF IInv, InferenceTypeOK
    <3> QED  BY <1>f, <2>1, <3>1 DEF Taken
  <2> QED  BY <1>0, <2>1, <2>2, OpenIdle
<1>6. CASE AckVector \/ InferenceDies
  <2>1. /\ UNCHANGED <<incidents, features, resolved>> /\ irules' = {}
        /\ ipc' \in {"read", "next"} /\ (fdone' = fdone \/ fdone' = fread)
    BY <1>6 DEF AckVector, InferenceDies, incidentVars, otherThanInference, featureVars
  <2>2. \A c \in Charger : Taken(c) <= Taken(c)'
    BY <1>f, <2>1 DEF Taken
  <2> QED  BY <1>0, <2>1, <2>2, OpenIdle
<1>7. CASE Score
  <2>1. /\ UNCHANGED <<incidents, features, resolved, fdone, icur>>
        /\ ipc = "score" /\ ipc' = "rule"
        /\ irules' = Message.fired \/ irules' = {ML}
    BY <1>7 DEF Score, incidentVars, otherThanInference, featureVars
  <2>2. \A i \in DOMAIN incidents : ~ OfMessage(i)
    BY <2>1, ScoredIsNew DEF OpenInv
  <2>3. FromTaken'
    <3>1. \A c \in Charger : Taken(c)' = fdone[c]
      BY <2>1 DEF Taken
    <3> QED  BY <1>0, <1>f, <2>1, <3>1, FromTakenKept DEF OpenInv
  <2>4. ML \in irules' => irules' = {ML}
    <3>1. Message.fired \subseteq Rule
      BY <1>0, <2>1, MessageType, PipelineConstants DEF Vector
    <3>2. ML \notin Rule
      BY RuleFacts DEF ML
    <3> QED  BY <2>1, <3>1, <3>2
  <2>5. \A i \in DOMAIN incidents' : ~ OfMessage(i)'
    BY <2>1, <2>2 DEF OfMessage, Message
  <2> QED  BY <2>1, <2>3, <2>4, <2>5 DEF OpenInv, Seen, Alone, Unduplicated, OpenOncePerMessage
<1>8. CASE CheckDuplicate \/ Announce
  <2>1. /\ UNCHANGED <<incidents, features, resolved, registered, fdone, icur, since>>
        /\ ipc \in {"rule", "announce"} /\ irules # {}
    BY <1>0, <1>8 DEF CheckDuplicate, Announce, IInv, incidentVars, otherThanInference,
       clockVars, featureVars
  <2>2. \/ ipc' = "rule" /\ irules' = irules \ {CurrentRule}
        \/ ipc = "rule" /\ ipc' = "insert" /\ irules' = irules /\ ~ Duplicate(CurrentRule)
    BY <1>8 DEF CheckDuplicate, Announce
  <2>3. FromTaken'
    <3>1. \A c \in Charger : Taken(c)' = Taken(c)
      BY <2>1, <2>2 DEF Taken
    <3> QED  BY <1>0, <1>f, <2>1, <3>1, FromTakenKept DEF OpenInv
  <2>4. \A i : OfMessage(i)' <=> OfMessage(i)
    BY <2>1 DEF OfMessage, Message
  <2>5. Seen'
    BY <2>1, <2>4 DEF OpenInv, Seen
  <2>6. Alone'
    BY <1>0, <2>1, <2>2, <2>4, RestIsAlone DEF OpenInv, Alone
  <2>7. Unduplicated'
    BY <2>1, <2>2 DEF Unduplicated, Duplicate, CurrentRule
  <2> QED  BY <2>1, <2>3, <2>5, <2>6, <2>7 DEF OpenInv, OpenOncePerMessage
<1>9. CASE InsertIncident
  BY <1>9, InsertOpen
<1> QED  BY <1>1, <1>2, <1>3, <1>4, <1>5, <1>6, <1>7, <1>8, <1>9
         DEF Next, Faults, InferenceStep, InferenceFault

\* One message never leaves two open incidents of one failure type, whichever
\* rules fire and whatever is resolved or deleted while it is handled.
THEOREM OpenOnce == Spec => []OpenOncePerMessage
<1>1. Init => VInv /\ WinsInv /\ OpenInv
  BY DEF Init, VInv, OneVectorPerWindow, WinsInv, OpenInv, FromTaken, Seen, Alone,
         Unduplicated, OpenOncePerMessage
<1>2. OpenInv => OpenOncePerMessage
  BY DEF OpenInv
<1> QED  BY TAlways, VStep, WinsStep, OpenStep, <1>1, <1>2, PTL DEF Spec

-----------------------------------------------------------------------------
(* What an alert is about *)

\* What an incident of vector v may be of.
Causes(v, c) == IF v.fired = {} /\ MayBeAnomalous(c) THEN {ML} ELSE v.fired

\* The rules in hand are of the message in hand, and every incident has its
\* vector.
CauseInv ==
    /\ ipc \in {"rule", "insert", "announce"} => irules \subseteq Causes(Message, icur)
    /\ \A i \in DOMAIN incidents : Explained(i)

\* An incident keeps its vector.
LEMMA ExplainedKept ==
  ASSUME TInv, [Next]_vars, NEW i \in DOMAIN incidents, incidents'[i] = incidents[i], Explained(i)
  PROVE  Explained(i)'
<1>1. incidents[i].cp \in Charger
  <2>1. incidents[i] \in Incident
    BY DEF TInv, IInv, InferenceTypeOK
  <2> QED  BY <2>1 DEF Incident
<1> PICK m : m = incidents[i]
  OBVIOUS
<1>2. PICK j \in DOMAIN vectors[m.cp] : Explains(vectors[m.cp][j], m)
  BY DEF Explained
<1>3. j \in DOMAIN vectors'[m.cp] /\ vectors'[m.cp][j] = vectors[m.cp][j]
  BY <1>1, RowsStay
<1> QED  BY <1>2, <1>3 DEF Explained, Explains, MayBeAnomalous

\* An incident is inserted for the message and the rule in hand.
LEMMA InsertExplained ==
  ASSUME TInv, WinsInv, CauseInv, InsertIncident, NEW n, n = Len(incidents) + 1
  PROVE  Explained(n)'
<1>0. FInv /\ IInv /\ icur \in Charger /\ fdone[icur] > 0 /\ ipc = "insert" /\ irules # {}
  BY DEF TInv, IInv, InsertIncident
<1>1. UNCHANGED vectors
  BY DEF InsertIncident, otherThanInference, featureVars
<1> PICK c \in Charger : c = icur
  BY <1>0
<1> PICK r : r = CurrentRule
  OBVIOUS
<1> PICK v : v = Message
  OBVIOUS
<1>2. r \in Causes(v, c)
  BY <1>0, CurrentRuleType DEF CauseInv
<1>3. fdone[c] \in DOMAIN features[c] /\ v = features[c][fdone[c]]
  BY <1>0, TakenBounds DEF Message
<1>4. PICK j \in DOMAIN vectors[c] : v = vectors[c][j]
  BY <1>3 DEF WinsInv
<1> PICK m : m = incidents'[n]
  OBVIOUS
<1>5. m.cp = c /\ m.win = v.win /\ m.type = Draft(r).type /\ m.rank = Draft(r).rank
  BY <1>0, InsertAppends
<1>6. Explains(v, m)
  BY <1>2, <1>5 DEF Explains, Causes
<1> QED  BY <1>1, <1>4, <1>5, <1>6 DEF Explained, Explains, MayBeAnomalous

\* Every step keeps rules, message and incidents together.
LEMMA CauseStep == TInv /\ WinsInv /\ CauseInv /\ [Next]_vars => CauseInv'
<1> SUFFICES ASSUME TInv, WinsInv, CauseInv, [Next]_vars PROVE CauseInv'
  OBVIOUS
<1>0. FInv /\ IInv
  BY DEF TInv
<1>o. ASSUME UNCHANGED incidents PROVE \A i \in DOMAIN incidents' : Explained(i)'
  BY <1>o, ExplainedKept DEF CauseInv
<1>1. CASE UNCHANGED <<incidents, ipc, icur, irules, fdone>>
  <2>1. ipc \in {"rule", "insert", "announce"} => Message' = Message
    BY <1>0, <1>1, RowsStay, MessageKept
  <2> QED  BY <1>o, <1>1, <2>1 DEF CauseInv, Causes, MayBeAnomalous
<1>2. CASE FeatureStep \/ FeatureFault \/ AlertStep \/ AlertFault \/ Environment \/ UNCHANGED vars
  BY <1>1, <1>2, FeatureFrame, AlertFrame DEF TInv, Environment, EventStored, DeleteCharger,
     WindowPasses, SecondPasses, Resolve, SwitchConfig, vars, inferenceVars, incidentVars
<1>3. CASE ReadFeatures \/ (\E c \in Charger : TakeVector(c)) \/ VectorsDone \/ InsertRefused
           \/ RulesDone \/ AckVector \/ MessageFails \/ InferenceDies
  <2>1. ipc' \in {"read", "next", "score", "ack"} /\ UNCHANGED incidents
    BY <1>3 DEF ReadFeatures, TakeVector, VectorsDone, InsertRefused, RulesDone, AckVector,
       MessageFails, InferenceDies, incidentVars
  <2> QED  BY <1>o, <2>1 DEF CauseInv
<1>4. CASE Score
  <2>1. /\ UNCHANGED <<incidents, features, icur, fdone>>
        /\ \/ irules' = Message.fired
           \/ MayBeAnomalous(icur) /\ Message.fired = {} /\ irules' = {ML}
    BY <1>4 DEF Score, incidentVars, otherThanInference, featureVars
  <2>2. Message' = Message
    BY <2>1 DEF Message
  <2> QED  BY <1>o, <2>1, <2>2 DEF CauseInv, Causes, MayBeAnomalous
<1>5. CASE CheckDuplicate \/ Announce
  <2>1. /\ UNCHANGED <<incidents, features, icur, fdone>>
        /\ irules' \subseteq irules /\ ipc \in {"rule", "announce"}
    BY <1>5 DEF CheckDuplicate, Announce, incidentVars, otherThanInference, featureVars
  <2>2. Message' = Message
    BY <2>1 DEF Message
  <2> QED  BY <1>o, <2>1, <2>2 DEF CauseInv, Causes, MayBeAnomalous
<1>6. CASE InsertIncident
  <2>1. /\ ipc = "insert" /\ UNCHANGED <<icur, fdone, irules, features>>
        /\ DOMAIN incidents' = DOMAIN incidents \union {Len(incidents) + 1}
        /\ \A i \in DOMAIN incidents : incidents'[i] = incidents[i]
    BY <1>0, <1>6, InsertAppends DEF InsertIncident, otherThanInference, featureVars
  <2>2. \A i \in DOMAIN incidents : Explained(i)'
    BY <2>1, ExplainedKept DEF CauseInv
  <2>3. \A i \in DOMAIN incidents' : Explained(i)'
    <3> PICK n : n = Len(incidents) + 1
      OBVIOUS
    <3>1. Explained(n)'
      BY <1>6, InsertExplained
    <3> QED  BY <2>1, <2>2, <3>1
  <2>4. Message' = Message
    BY <2>1 DEF Message
  <2> QED  BY <2>1, <2>3, <2>4 DEF CauseInv, Causes, MayBeAnomalous
<1> QED  BY <1>2, <1>3, <1>4, <1>5, <1>6
         DEF Next, Faults, InferenceStep, InferenceFault

\* Every alert is about an incident on record whose window has a vector that
\* the rule of that type and severity fires on, or no rule at all if it is the
\* model's: whatever crashes, and however the three workers interleave.
THEOREM AlertsExplained == Spec => []AlertsAreExplained
<1>1. Init => VInv /\ WinsInv /\ CauseInv /\ AlertInv
  BY DEF Init, VInv, OneVectorPerWindow, WinsInv, CauseInv, AlertInv, Streams, AnnouncedOnce,
         AnnouncedExist, NewIsUnannounced, ToldIsHandled, DispatchedIsNew
<1>2. TInv /\ CauseInv /\ AlertInv => AlertsAreExplained
  <2> SUFFICES ASSUME TInv, CauseInv, AlertInv, NEW g \in Config, NEW k \in DOMAIN inbox[g]
               PROVE  inbox[g][k] \in DOMAIN incidents /\ Explained(inbox[g][k])
    BY DEF AlertsAreExplained
  <2>1. PICK c \in Charger : \E i \in 1 .. adone[c] : alarms[c][i] = inbox[g][k]
    BY DEF AlertInv, ToldIsHandled, Handled
  <2>2. PICK i \in 1 .. adone[c] : alarms[c][i] = inbox[g][k]
    BY <2>1
  <2>3. i \in DOMAIN alarms[c]
    <3>1. /\ adone[c] \in Nat /\ aread[c] \in Nat /\ alarms[c] \in Seq(Nat)
          /\ adone[c] <= aread[c] /\ aread[c] <= Len(alarms[c])
      BY DEF TInv, AInv, AlertTypeOK, IInv, InferenceTypeOK
    <3> QED  BY <3>1
  <2>4. inbox[g][k] \in DOMAIN incidents
    BY <2>2, <2>3 DEF AlertInv, Streams, AnnouncedExist
  <2> QED  BY <2>4 DEF CauseInv
<1> QED  BY TAlways, VStep, WinsStep, CauseStep, AlertInvStep, <1>1, <1>2, PTL DEF Spec
=============================================================================
