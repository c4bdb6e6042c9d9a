---------------------------- MODULE ModelRegistry ----------------------------
(***************************************************************************)
(* The anomaly models of one charger: rows of ml_models, the training      *)
(* script (run by the nightly scheduler and by hand), the scheduler that   *)
(* takes a worse model back, and the inference worker's cache.  The script *)
(* and the scheduler are processes that share the table only, and none of  *)
(* their statements is in a transaction with another.                      *)
(*                                                                         *)
(* A model is what a run has trained: its number, its val_mse as a rank    *)
(* and whether the row is active; its version is its place in `models`     *)
(* (MAX(version) + 1, and rows are deleted only all together, with the     *)
(* charger).  A statement is atomic, its sub-SELECT included: two INSERTs  *)
(* of overlapping runs may get one version in the database and get two     *)
(* here, so what is said of versions is said of runs that do not overlap.  *)
(* The charger has 14 days of feature vectors, which outlive its row, and  *)
(* a saved model file stays.                                               *)
(***************************************************************************)
EXTENDS Naturals, Sequences, FiniteSets

CONSTANTS
    Trainer,    \* who runs train_anomaly.py
    Nightly,    \* the one that is the scheduler's subprocess
    Val,        \* val_mse, as ranks: smaller is better
    MaxRuns,    \* bound: models trained
    MaxFaults,  \* bound: failed calls and killed processes
    MaxDeletes  \* bound: deletions of the charger

NoVal == 0      \* _current_val_loss returns None

ASSUME RegistryConstants ==
    /\ Nightly \in Trainer
    /\ Val \subseteq Nat \ {NoVal}
    /\ MaxRuns \in Nat /\ MaxFaults \in Nat /\ MaxDeletes \in Nat

VARIABLES
    registered, \* the charger has a row
    models,     \* ml_models, by version
    recent,     \* a row was created in the last 7 days
    runs,       \* trained models so far: the number of the next one
    tpc, tval,  \* train_anomaly.py: where each trainer is; its best_val
    npc,        \* nightly_retrain: where it is with the charger
    prev,       \* its prev_val
    newRun, oldRun, \* _maybe_demote_worse_model: new_row and old_row, by number
    cache,      \* inference._cache: version and scorer
    faults, deletes,
    reverts,    \* models taken back since the charger was registered (history)
    overlapped  \* a run was started while another was under way (history)

tableVars == <<registered, models, recent, runs>>
trainVars == <<tpc, tval>>
nightVars == <<npc, prev, newRun, oldRun>>
history == <<deletes, reverts, overlapped>>
vars == <<tableVars, trainVars, nightVars, cache, faults, history>>

Model == [run : Nat, val : Val, active : BOOLEAN, by : Trainer]
NoScorer == [version |-> 0, run |-> 0]

TypeOK ==
    /\ registered \in BOOLEAN /\ recent \in BOOLEAN /\ overlapped \in BOOLEAN
    /\ models \in Seq(Model)
    /\ runs \in 0 .. MaxRuns
    /\ tpc \in [Trainer -> {"idle", "deactivate", "insert"}]
    /\ tval \in [Trainer -> Val \union {NoVal}]
    /\ \A t \in Trainer : tpc[t] # "idle" => tval[t] \in Val
    /\ npc \in {"idle", "listed", "training", "judge", "off", "on"}
    /\ prev \in Val \union {NoVal}
    /\ newRun \in Nat /\ oldRun \in Nat
    /\ cache \in [version : Nat, run : Nat]
    /\ faults \in 0 .. MaxFaults /\ deletes \in 0 .. MaxDeletes /\ reverts \in Nat

Init ==
    /\ registered = TRUE /\ models = <<>> /\ recent = FALSE /\ runs = 0
    /\ tpc = [t \in Trainer |-> "idle"] /\ tval = [t \in Trainer |-> NoVal]
    /\ npc = "idle" /\ prev = NoVal /\ newRun = 0 /\ oldRun = 0
    /\ cache = NoScorer
    /\ faults = 0 /\ deletes = 0 /\ reverts = 0 /\ overlapped = FALSE

Active == {v \in DOMAIN models : models[v].active}
\* ... is_active = true ORDER BY version DESC LIMIT 1
IsServed(v) == v \in Active /\ \A w \in Active : w <= v
\* UPDATE ml_models SET is_active = on WHERE the row is one of S.
Switch(S, on) ==
    models' = [v \in DOMAIN models |->
                 IF v \in S THEN [models[v] EXCEPT !.active = on] ELSE models[v]]
RowOf(run) == {v \in DOMAIN models : models[v].run = run}

-----------------------------------------------------------------------------
(* ml/training/train_anomaly.py *)

\* Somebody starts the script; it trains.
StartManual(t) ==
    /\ t # Nightly /\ tpc[t] = "idle" /\ runs < MaxRuns
    /\ tpc' = [tpc EXCEPT ![t] = "deactivate"]
    /\ \E x \in Val : tval' = [tval EXCEPT ![t] = x]
    /\ overlapped' = (overlapped \/ npc # "idle" \/ \E u \in Trainer : tpc[u] # "idle")
    /\ UNCHANGED <<tableVars, nightVars, cache, faults, deletes, reverts>>

\* The script ends with `code`; the scheduler goes on with its own.
Exit(t, code) ==
    /\ tpc' = [tpc EXCEPT ![t] = "idle"]
    /\ npc' = IF t # Nightly THEN npc ELSE IF code = 0 THEN "judge" ELSE "idle"

\* "Need at least ... feature vectors to train": nothing is written.
TooLittleData(t) ==
    /\ tpc[t] = "deactivate"
    /\ Exit(t, 1)
    /\ UNCHANGED <<tableVars, tval, prev, newRun, oldRun, cache, faults, history>>

\* Mutant: the active models stay active.
MutDeactivate(t) ==
    /\ tpc[t] = "deactivate"
    /\ tpc' = [tpc EXCEPT ![t] = "insert"]
    /\ UNCHANGED <<tableVars, tval, nightVars, cache, faults, history>>

\* UPDATE ml_models SET is_active = false WHERE cp_id = $1
Deactivate(t) ==
    /\ tpc[t] = "deactivate"
    /\ Switch(DOMAIN models, FALSE)
    /\ tpc' = [tpc EXCEPT ![t] = "insert"]
    /\ UNCHANGED <<registered, recent, runs, tval, nightVars, cache, faults, history>>

\* Mutant: the row waits for a decision to activate it.
MutInsert(t) ==
    /\ tpc[t] = "insert" /\ registered /\ runs < MaxRuns
    /\ runs' = runs + 1 /\ recent' = TRUE
    /\ models' = Append(models, [run |-> runs + 1, val |-> tval[t], active |-> FALSE, by |-> t])
    /\ Exit(t, 0)
    /\ UNCHANGED <<registered, tval, prev, newRun, oldRun, cache, faults, history>>

\* INSERT INTO ml_models (..., version = MAX(version) + 1, ..., is_active = true)
Insert(t) ==
    /\ tpc[t] = "insert" /\ registered /\ runs < MaxRuns
    /\ runs' = runs + 1 /\ recent' = TRUE
    /\ models' = Append(models, [run |-> runs + 1, val |-> tval[t], active |-> TRUE, by |-> t])
    /\ Exit(t, 0)
    /\ UNCHANGED <<registered, tval, prev, newRun, oldRun, cache, faults, history>>

\* The charger has been deleted: the foreign key is violated.
InsertRefused(t) ==
    /\ tpc[t] = "insert" /\ ~registered
    /\ Exit(t, 1)
    /\ UNCHANGED <<tableVars, tval, prev, newRun, oldRun, cache, faults, history>>

-----------------------------------------------------------------------------
(* workers/training_scheduler.py *)

\* 02:00: _candidates_for_retrain.  max_instances=1: one at a time.
ListCandidates ==
    /\ npc = "idle" /\ ~recent /\ runs < MaxRuns
    /\ npc' = "listed"
    /\ overlapped' = (overlapped \/ \E t \in Trainer : tpc[t] # "idle")
    /\ UNCHANGED <<tableVars, trainVars, prev, newRun, oldRun, cache, faults,
                   deletes, reverts>>

\* Mutant: the run's loss is not recorded.
MutStartNightly ==
    /\ npc = "listed"
    /\ \/ Active = {} /\ prev' = NoVal
       \/ \E v \in Active : IsServed(v) /\ prev' = models[v].val
    /\ npc' = "training"
    /\ tpc' = [tpc EXCEPT ![Nightly] = "deactivate"]
    /\ tval' = [tval EXCEPT ![Nightly] = NoVal]
    /\ UNCHANGED <<tableVars, newRun, oldRun, cache, faults, history>>

\* _current_val_loss, then the subprocess.
StartNightly ==
    /\ npc = "listed"
    /\ \/ Active = {} /\ prev' = NoVal
       \/ \E v \in Active : IsServed(v) /\ prev' = models[v].val
    /\ npc' = "training"
    /\ tpc' = [tpc EXCEPT ![Nightly] = "deactivate"]
    /\ \E x \in Val : tval' = [tval EXCEPT ![Nightly] = x]
    /\ UNCHANGED <<tableVars, newRun, oldRun, cache, faults, history>>

\* Mutant: a worse model is kept.
MutWorse(v) == FALSE
\* new_val >= prev_val, of the two rows with the highest versions.
Worse(v) == prev # NoVal /\ v > 1 /\ models[v].val >= prev

\* _maybe_demote_worse_model: SELECT ... ORDER BY version DESC LIMIT 2.
Judge ==
    LET new == Len(models) IN
    /\ npc = "judge"
    /\ IF new > 0 /\ Worse(new)
         THEN /\ npc' = "off"
              /\ newRun' = models[new].run /\ oldRun' = models[new - 1].run
              /\ reverts' = reverts + 1
         ELSE npc' = "idle" /\ UNCHANGED <<newRun, oldRun, reverts>>
    /\ UNCHANGED <<tableVars, trainVars, prev, cache, faults, deletes, overlapped>>

\* UPDATE ml_models SET is_active = false WHERE id = new_row
RevertOff ==
    /\ npc = "off"
    /\ Switch(RowOf(newRun), FALSE)
    /\ npc' = "on"
    /\ UNCHANGED <<registered, recent, runs, trainVars, prev, newRun, oldRun, cache,
                   faults, history>>

\* UPDATE ml_models SET is_active = true WHERE id = old_row
RevertOn ==
    /\ npc = "on"
    /\ Switch(RowOf(oldRun), TRUE)
    /\ npc' = "idle"
    /\ UNCHANGED <<registered, recent, runs, trainVars, prev, newRun, oldRun, cache,
                   faults, history>>

-----------------------------------------------------------------------------
(* ml/inference.load_active_model, in the inference worker *)

\* Mutant: the cache is not looked at once it is filled.
MutLoadActive ==
    \E v \in Active :
        /\ IsServed(v)
        /\ cache' = IF cache = NoScorer THEN [version |-> v, run |-> models[v].run]
                    ELSE [cache EXCEPT !.version = v]
        /\ UNCHANGED <<tableVars, trainVars, nightVars, faults, history>>

\* For a message of the charger; no active model, no scorer and no change.
LoadActive ==
    \E v \in Active :
        /\ IsServed(v)
        /\ cache' = IF cache.version = v THEN cache
                    ELSE [version |-> v, run |-> models[v].run]
        /\ UNCHANGED <<tableVars, trainVars, nightVars, faults, history>>

\* A new process, an empty cache.
WorkerRestarts ==
    /\ cache' = NoScorer
    /\ UNCHANGED <<tableVars, trainVars, nightVars, faults, history>>

-----------------------------------------------------------------------------
(* The clock, the API and faults *)

CooldownPasses ==
    /\ recent' = FALSE
    /\ UNCHANGED <<registered, models, runs, trainVars, nightVars, cache, faults, history>>

\* ml_models goes with the charger (ON DELETE CASCADE).
DeleteCharger ==
    /\ registered /\ deletes < MaxDeletes
    /\ registered' = FALSE /\ models' = <<>> /\ recent' = FALSE
    /\ deletes' = deletes + 1 /\ reverts' = 0
    /\ UNCHANGED <<runs, trainVars, nightVars, cache, faults, overlapped>>

CreateCharger ==
    /\ ~registered
    /\ registered' = TRUE
    /\ UNCHANGED <<models, recent, runs, trainVars, nightVars, cache, faults, history>>

Fault == faults < MaxFaults /\ faults' = faults + 1

\* A statement of the script raises, or the script is killed.
TrainingFails(t) ==
    /\ Fault
    /\ tpc[t] # "idle"
    /\ Exit(t, 1)
    /\ UNCHANGED <<tableVars, tval, prev, newRun, oldRun, cache, history>>

\* A statement of the scheduler raises ("Training failed"), or it is killed
\* together with its subprocess.
NightlyFails ==
    /\ Fault
    /\ npc # "idle"
    /\ npc' = "idle"
    /\ tpc' = [tpc EXCEPT ![Nightly] = "idle"]
    /\ UNCHANGED <<tableVars, tval, prev, newRun, oldRun, cache, history>>

Train(t) ==
    \/ StartManual(t) \/ TooLittleData(t) \/ Deactivate(t)
    \/ Insert(t) \/ InsertRefused(t) \/ TrainingFails(t)
Schedule == ListCandidates \/ StartNightly \/ Judge \/ RevertOff \/ RevertOn \/ NightlyFails
Next ==
    \/ \E t \in Trainer : Train(t)
    \/ Schedule
    \/ LoadActive \/ WorkerRestarts
    \/ CooldownPasses \/ DeleteCharger \/ CreateCharger

Spec == Init /\ [][Next]_vars

-----------------------------------------------------------------------------
(* Properties *)

Training == \E t \in Trainer : tpc[t] = "insert"
AtRest == npc = "idle" /\ \A t \in Trainer : tpc[t] = "idle"

\* Without a fault a charger that has models has one that is active, but for
\* the moments between two statements of a run: trainings that overlap each
\* other and the scheduler's revert never switch off each other's last one.
ModelIsServed ==
    faults = 0 /\ models # <<>> /\ ~Training /\ npc # "on" => Active # {}

\* Runs that do not overlap leave at most one model active, wherever they fail.
OneActive ==
    ~overlapped => \A v, w \in Active : v = w

\* While runs have not overlapped and the charger has not been deleted, the
\* scorer in the worker's cache is the one of the row that has its version,
\* whatever has been switched on and off since.
CacheIsRegistered ==
    ~overlapped /\ deletes = 0 /\ cache # NoScorer => RowOf(cache.run) = {cache.version}

\* As long as the scheduler alone trains and has taken back one model at most,
\* the model served at rest is the best so far.
OnlyNightly == \A v \in DOMAIN models : models[v].by = Nightly
BestIsServed ==
    AtRest /\ faults = 0 /\ OnlyNightly /\ reverts <= 1 =>
        \A v, w \in DOMAIN models : IsServed(v) => models[v].val <= models[w].val

\* training_scheduler.py:5: "Activate the new model only if val_loss improves
\* on the currently active one."
NewOnlyIfBetter ==
    AtRest /\ faults = 0 /\ OnlyNightly /\ deletes = 0 /\ prev # NoVal =>
        \A v \in DOMAIN models : IsServed(v) => models[v].val <= prev
=============================================================================
