------------------------- MODULE ModelRegistryProofs -------------------------
(***************************************************************************)
(* The registry of anomaly models for any trainers, losses, and number of  *)
(* runs, faults and deletions.                                             *)
(***************************************************************************)
EXTENDS ModelRegistry, TLAPS

USE RegistryConstants DEF NoVal

\* A run has at most one row; the rows went with the charger; the scheduler
\* waits for its subprocess, and holds the numbers of runs that have ended.
RowsInv ==
    /\ \A v \in DOMAIN models : models[v].run \in 1 .. runs
    /\ \A v, w \in DOMAIN models : models[v].run = models[w].run => v = w
    /\ ~registered => models = <<>>
    /\ tpc[Nightly] # "idle" <=> npc = "training"
    /\ newRun <= runs

TInv == TypeOK /\ RowsInv

\* What Switch does to the table: the rows stay, S gets the flag.
LEMMA SwitchRows ==
  ASSUME models \in Seq(Model), NEW S, NEW on \in BOOLEAN, Switch(S, on)
  PROVE  /\ models' \in Seq(Model) /\ DOMAIN models' = DOMAIN models
         /\ models = <<>> => models' = <<>>
         /\ \A v \in DOMAIN models :
              /\ models'[v].run = models[v].run
              /\ models'[v].active = IF v \in S THEN on ELSE models[v].active
<1>1. PICK n \in Nat : DOMAIN models = 1 .. n /\ n = Len(models)
  OBVIOUS
<1>2. \A v \in 1 .. n : models[v] \in Model
  BY <1>1
<1>3. /\ DOMAIN models' = 1 .. n
      /\ \A v \in 1 .. n : models'[v] = IF v \in S THEN [models[v] EXCEPT !.active = on] ELSE models[v]
  BY <1>1 DEF Switch
<1>4. \A v \in 1 .. n : models'[v] \in Model
  BY <1>2, <1>3 DEF Model
<1>5. models' = [v \in 1 .. n |-> models'[v]]
  BY <1>1 DEF Switch
<1>6. models' \in Seq(Model) /\ Len(models') = n
  <2>1. models' \in [1 .. n -> Model]
    BY <1>4, <1>5
  <2> QED  BY <2>1
<1>7. \A v \in 1 .. n : /\ models'[v].run = models[v].run
                        /\ models'[v].active = IF v \in S THEN on ELSE models[v].active
  BY <1>2, <1>3 DEF Model
<1>8. models = <<>> => models' = <<>>
  <2>1. models = <<>> => n = 0
    BY <1>1
  <2> QED  BY <1>6, <2>1
<1> QED  BY <1>1, <1>3, <1>6, <1>7, <1>8

\* Switch changes neither a row's loss nor who trained it.
LEMMA SwitchKeeps ==
  ASSUME models \in Seq(Model), NEW S, NEW on \in BOOLEAN, Switch(S, on)
  PROVE  \A v \in DOMAIN models :
            /\ v \in DOMAIN models'
            /\ models'[v].val = models[v].val /\ models'[v].by = models[v].by
<1> SUFFICES ASSUME NEW v \in DOMAIN models
             PROVE  /\ v \in DOMAIN models'
                    /\ models'[v].val = models[v].val /\ models'[v].by = models[v].by
  OBVIOUS
<1>1. models[v] \in Model
  OBVIOUS
<1>2. /\ v \in DOMAIN models'
      /\ models'[v] = IF v \in S THEN [models[v] EXCEPT !.active = on] ELSE models[v]
  BY DEF Switch
<1> QED  BY <1>1, <1>2 DEF Model

\* A table without rows.
LEMMA EmptySeq == <<>> \in Seq(Model) /\ DOMAIN <<>> = {} /\ \A v : v \notin DOMAIN <<>>
<1>1. <<>> \in Seq(Model) /\ Len(<<>>) = 0
  OBVIOUS
<1>2. DOMAIN <<>> = 1 .. 0
  BY <1>1
<1> QED  BY <1>1, <1>2

\* Initially nobody trains.
LEMMA TInit == Init => TInv
<1> SUFFICES ASSUME Init PROVE TInv
  OBVIOUS
<1>1. models \in Seq(Model) /\ DOMAIN models = {}
  BY EmptySeq DEF Init
<1>2. TypeOK
  <2>1. registered \in BOOLEAN /\ recent \in BOOLEAN /\ overlapped \in BOOLEAN
    BY DEF Init
  <2>2. /\ runs = 0 /\ prev = 0 /\ newRun = 0 /\ oldRun = 0 /\ npc = "idle"
        /\ faults = 0 /\ deletes = 0 /\ reverts = 0 /\ cache = NoScorer
        /\ tpc = [t \in Trainer |-> "idle"] /\ tval = [t \in Trainer |-> NoVal]
    BY DEF Init
  <2> QED  BY <1>1, <2>1, <2>2 DEF TypeOK, NoScorer
<1>3. RowsInv
  BY <1>1 DEF Init, RowsInv
<1> QED  BY <1>2, <1>3 DEF TInv

\* The new row is the last one.
LEMMA InsertRows ==
  ASSUME TInv, NEW t \in Trainer, Insert(t)
  PROVE  /\ models' \in Seq(Model) /\ Len(models') = Len(models) + 1
         /\ DOMAIN models' = DOMAIN models \union {Len(models) + 1}
         /\ Len(models) + 1 \notin DOMAIN models
         /\ \A v \in DOMAIN models : models'[v] = models[v]
         /\ models'[Len(models) + 1].run = runs + 1
         /\ models'[Len(models) + 1].active
         /\ models'[Len(models) + 1].by = t
<1> DEFINE new == [run |-> runs + 1, val |-> tval[t], active |-> TRUE, by |-> t]
<1>1. new \in Model /\ models \in Seq(Model)
  BY DEF TInv, TypeOK, Insert, Model
<1>2. models' = Append(models, new)
  BY DEF Insert
<1>3. new.run = runs + 1 /\ new.active /\ new.by = t
  OBVIOUS
<1> HIDE DEF new
<1>4. models' \in Seq(Model) /\ Len(models') = Len(models) + 1
  BY <1>1, <1>2
<1>5. models'[Len(models) + 1] = new /\ \A v \in 1 .. Len(models) : models'[v] = models[v]
  BY <1>1, <1>2
<1>6. DOMAIN models = 1 .. Len(models) /\ Len(models) \in Nat
  BY <1>1
<1>7. DOMAIN models' = 1 .. (Len(models) + 1)
  BY <1>4
<1> QED  BY <1>3, <1>4, <1>5, <1>6, <1>7

\* A script that ends is idle, and the scheduler goes on if it was its own.
LEMMA ExitRows ==
  ASSUME TInv, NEW t \in Trainer, NEW code \in {0, 1}, tpc[t] # "idle", Exit(t, code)
  PROVE  /\ tpc' \in [Trainer -> {"idle", "deactivate", "insert"}]
         /\ \A u \in Trainer : tpc'[u] # "idle" => tpc'[u] = tpc[u] /\ u # t
         /\ npc' \in {"idle", "listed", "training", "judge", "off", "on"}
         /\ tpc'[Nightly] # "idle" <=> npc' = "training"
<1>1. tpc' \in [Trainer -> {"idle", "deactivate", "insert"}]
  BY DEF TInv, TypeOK, Exit
<1>2. tpc'[t] = "idle" /\ \A u \in Trainer : u # t => tpc'[u] = tpc[u]
  BY DEF TInv, TypeOK, Exit
<1>3. CASE t = Nightly
  BY <1>1, <1>2, <1>3 DEF TInv, TypeOK, RowsInv, Exit
<1>4. CASE t # Nightly
  BY <1>1, <1>2, <1>4 DEF TInv, TypeOK, RowsInv, Exit
<1> QED  BY <1>3, <1>4

\* Every step keeps types and rows.
LEMMA TStep == TInv /\ [Next]_vars => TInv'
<1> SUFFICES ASSUME TInv, [Next]_vars PROVE TInv'
  OBVIOUS
<1> USE DEF TInv, TypeOK, RowsInv, tableVars, trainVars, nightVars, history
<1>1. ASSUME NEW t \in Trainer, StartManual(t) PROVE TInv'
  BY <1>1 DEF StartManual
<1>2. ASSUME NEW t \in Trainer, TooLittleData(t) \/ InsertRefused(t) \/ TrainingFails(t)
      PROVE  TInv'
  <2>1. tpc[t] # "idle" /\ Exit(t, 1)
    BY <1>2 DEF TooLittleData, InsertRefused, TrainingFails
  <2>2. UNCHANGED <<tableVars, tval, prev, newRun, oldRun, cache, history>>
    BY <1>2 DEF TooLittleData, InsertRefused, TrainingFails
  <2>3. faults' \in 0 .. MaxFaults
    BY <1>2 DEF TooLittleData, InsertRefused, TrainingFails, Fault
  <2> QED  BY <2>1, <2>2, <2>3, ExitRows
<1>3. ASSUME NEW t \in Trainer, Deactivate(t) PROVE TInv'
  <2>1. Switch(DOMAIN models, FALSE) /\ runs' = runs
    BY <1>3 DEF Deactivate
  <2>2. TypeOK'
    BY <1>3, <2>1, SwitchRows DEF Deactivate
  <2>3. RowsInv'
    BY <1>3, <2>1, SwitchRows DEF Deactivate
  <2> QED  BY <2>2, <2>3
<1>4. ASSUME NEW t \in Trainer, Insert(t) PROVE TInv'
  <2>0. tpc[t] # "idle" /\ Exit(t, 0) /\ registered /\ runs' = runs + 1 /\ runs < MaxRuns
    BY <1>4 DEF Insert
  <2>1. TypeOK'
    <3>1. models' \in Seq(Model)
      BY <1>4, InsertRows
    <3>2. /\ tpc' \in [Trainer -> {"idle", "deactivate", "insert"}]
          /\ \A u \in Trainer : tpc'[u] # "idle" => tpc'[u] = tpc[u]
          /\ npc' \in {"idle", "listed", "training", "judge", "off", "on"}
      BY <2>0, ExitRows
    <3>3. runs' \in 0 .. MaxRuns
      BY <2>0
    <3>4. UNCHANGED <<registered, tval, prev, newRun, oldRun, cache, faults, history>>
          /\ recent' \in BOOLEAN
      BY <1>4 DEF Insert
    <3> HIDE DEF RowsInv
    <3> QED  BY <3>1, <3>2, <3>3, <3>4
  <2>2. RowsInv'
    <3> DEFINE k == Len(models) + 1
    <3>1. /\ DOMAIN models' = DOMAIN models \union {k}
          /\ \A v \in DOMAIN models : models'[v].run = models[v].run
          /\ models'[k].run = runs + 1
      BY <1>4, InsertRows
    <3> HIDE DEF k
    <3>2. \A v \in DOMAIN models' : models'[v].run \in 1 .. runs'
      BY <2>0, <3>1
    <3>3. \A v, w \in DOMAIN models' : models'[v].run = models'[w].run => v = w
      BY <2>0, <3>1
    <3>4. registered' /\ newRun' = newRun
      BY <1>4 DEF Insert
    <3> QED  BY <2>0, <3>2, <3>3, <3>4, ExitRows
  <2> QED  BY <2>1, <2>2
<1>5. CASE ListCandidates
  BY <1>5 DEF ListCandidates
<1>6. CASE StartNightly
  <2>1. prev' \in Val \union {NoVal}
    <3>1. ASSUME NEW v \in Active PROVE models[v].val \in Val
      <4>1. models[v] \in Model
        BY DEF Active
      <4> QED  BY <4>1 DEF Model
    <3> QED  BY <1>6, <3>1 DEF StartNightly
  <2> QED  BY <1>6, <2>1 DEF StartNightly
<1>7. CASE Judge
  BY <1>7 DEF Judge, Worse, Model
<1>8. CASE RevertOff
  BY <1>8, SwitchRows DEF RevertOff
<1>9. CASE RevertOn
  BY <1>9, SwitchRows DEF RevertOn
<1>10. CASE NightlyFails
  BY <1>10 DEF NightlyFails, Fault
<1>11. CASE LoadActive
  BY <1>11 DEF LoadActive, Active, Model
<1>12. CASE WorkerRestarts
  BY <1>12 DEF WorkerRestarts, NoScorer
<1>13. CASE CooldownPasses
  <2>1. UNCHANGED <<registered, models, runs, trainVars, nightVars, cache, faults, history>>
        /\ recent' \in BOOLEAN
    BY <1>13 DEF CooldownPasses
  <2> QED  BY <2>1
<1>14. CASE CreateCharger
  <2>1. /\ registered' \in BOOLEAN /\ registered'
        /\ UNCHANGED <<models, recent, runs, trainVars, nightVars, cache, faults, history>>
    BY <1>14 DEF CreateCharger
  <2> QED  BY <2>1
<1>15. CASE DeleteCharger
  <2>1. registered' \in BOOLEAN /\ recent' \in BOOLEAN /\ models' = <<>>
    BY <1>15 DEF DeleteCharger
  <2>2. UNCHANGED <<runs, trainVars, nightVars, cache, faults, overlapped>>
        /\ deletes' \in 0 .. MaxDeletes /\ reverts' \in Nat
    BY <1>15 DEF DeleteCharger
  <2>3. models' \in Seq(Model) /\ DOMAIN models' = {}
    BY <2>1, EmptySeq
  <2> QED  BY <2>1, <2>2, <2>3
<1>16. CASE UNCHANGED vars
  BY <1>16 DEF vars
<1> QED
  BY <1>1, <1>2, <1>3, <1>4, <1>5, <1>6, <1>7, <1>8, <1>9, <1>10, <1>11, <1>12, <1>13, <1>14,
     <1>15, <1>16
  DEF Next, Train, Schedule

\* Types and rows in every behaviour.
LEMMA TAlways == Spec => []TInv
  BY TInit, TStep, PTL DEF Spec

\* Type correctness; a training run knows its loss.
THEOREM TypeCorrect == Spec => []TypeOK
<1>1. TInv => TypeOK
  BY DEF TInv
<1> QED  BY TAlways, <1>1, PTL

-----------------------------------------------------------------------------
(* What the statements do to the sets the properties are about *)

\* Switch adds to the active models or takes from them, and moves no row.
LEMMA SwitchSets ==
  ASSUME models \in Seq(Model), NEW S, NEW on \in BOOLEAN, Switch(S, on)
  PROVE  /\ Active' = IF on THEN Active \union (S \intersect DOMAIN models) ELSE Active \ S
         /\ \A r : RowOf(r)' = RowOf(r)
         /\ models = <<>> => models' = <<>>
         /\ Len(models') = Len(models)
<1>1. /\ models' \in Seq(Model) /\ DOMAIN models' = DOMAIN models
      /\ models = <<>> => models' = <<>>
      /\ \A v \in DOMAIN models :
           /\ models'[v].run = models[v].run
           /\ models'[v].active = IF v \in S THEN on ELSE models[v].active
  BY SwitchRows
<1>2. Active' = IF on THEN Active \union (S \intersect DOMAIN models) ELSE Active \ S
  BY <1>1 DEF Active
<1>3. \A r : RowOf(r)' = RowOf(r)
  BY <1>1 DEF RowOf
<1>4. Len(models') = Len(models)
  BY <1>1
<1> QED  BY <1>1, <1>2, <1>3, <1>4

\* Insert adds one active model, of a run that had none.
LEMMA InsertSets ==
  ASSUME TInv, NEW t \in Trainer, Insert(t)
  PROVE  /\ Active' = Active \union {Len(models) + 1}
         /\ \A r \in 0 .. runs : RowOf(r)' = RowOf(r)
         /\ Len(models') = Len(models) + 1 /\ runs' = runs + 1
<1>1. /\ Len(models') = Len(models) + 1
      /\ DOMAIN models' = DOMAIN models \union {Len(models) + 1}
      /\ Len(models) + 1 \notin DOMAIN models
      /\ \A v \in DOMAIN models : models'[v] = models[v]
      /\ models'[Len(models) + 1].run = runs + 1
      /\ models'[Len(models) + 1].active
  BY InsertRows
<1>2. Active' = Active \union {Len(models) + 1}
  BY <1>1 DEF Active
<1>3. \A r \in 0 .. runs : RowOf(r)' = RowOf(r)
  <2>1. runs \in Nat /\ \A r \in 0 .. runs : models'[Len(models) + 1].run # r
    BY <1>1 DEF TInv, TypeOK
  <2> QED  BY <1>1, <2>1 DEF RowOf
<1>4. runs' = runs + 1
  BY DEF Insert
<1> QED  BY <1>1, <1>2, <1>3, <1>4

\* A table without rows has no active model.
LEMMA EmptySets == models = <<>> => Active = {} /\ \A r : RowOf(r) = {}
<1> SUFFICES ASSUME models = <<>> PROVE Active = {} /\ \A r : RowOf(r) = {}
  OBVIOUS
<1>1. DOMAIN models = {}
  BY EmptySeq
<1> QED  BY <1>1 DEF Active, RowOf

\* Steps that leave the table alone leave the sets alone.
LEMMA SameSets == UNCHANGED models => Active' = Active /\ \A r : RowOf(r)' = RowOf(r)
  BY DEF Active, RowOf

-----------------------------------------------------------------------------
(* The inference worker's cache *)

CacheInv ==
    deletes = 0 /\ cache # NoScorer =>
        cache.run \in 0 .. runs /\ RowOf(cache.run) = {cache.version}

\* A version keeps its run, so what is cached under it stays its scorer.
LEMMA CacheStep == TInv /\ CacheInv /\ [Next]_vars => CacheInv'
<1> SUFFICES ASSUME TInv, CacheInv, [Next]_vars PROVE CacheInv'
  OBVIOUS
<1> USE DEF CacheInv
<1>t. models \in Seq(Model) /\ runs \in Nat /\ deletes \in Nat
  BY DEF TInv, TypeOK
<1>1. ASSUME UNCHANGED <<models, runs, cache, deletes>> PROVE CacheInv'
  BY <1>1, SameSets
<1>2. ASSUME NEW S, NEW on \in BOOLEAN, Switch(S, on), UNCHANGED <<runs, cache, deletes>>
      PROVE  CacheInv'
  BY <1>2, <1>t, SwitchSets
<1>3. ASSUME NEW t \in Trainer, Insert(t) PROVE CacheInv'
  <2>1. UNCHANGED <<cache, deletes>>
    BY <1>3 DEF Insert, history
  <2> QED  BY <1>3, <1>t, <2>1, InsertSets
<1>4. CASE LoadActive
  <2>1. PICK v \in Active : cache' = IF cache.version = v THEN cache
                                    ELSE [version |-> v, run |-> models[v].run]
    BY <1>4 DEF LoadActive
  <2>2. UNCHANGED <<models, runs, deletes>>
    BY <1>4 DEF LoadActive, tableVars, history
  <2>3. CASE cache.version = v
    BY <2>1, <2>2, <2>3, SameSets
  <2>4. CASE cache.version # v
    <3>1. cache'.version = v /\ cache'.run = models[v].run
      BY <2>1, <2>4
    <3>2. v \in DOMAIN models /\ models[v].run \in 0 .. runs
      BY <1>t DEF Active, TInv, RowsInv
    <3>3. RowOf(models[v].run) = {v}
      BY <3>2 DEF RowOf, TInv, RowsInv
    <3> QED  BY <2>2, <3>1, <3>2, <3>3, SameSets
  <2> QED  BY <2>3, <2>4
<1>5. CASE WorkerRestarts
  BY <1>5 DEF WorkerRestarts
<1>6. CASE DeleteCharger
  <2>1. deletes' # 0
    BY <1>6, <1>t DEF DeleteCharger
  <2> QED  BY <2>1
<1>7. ASSUME NEW t \in Trainer, Deactivate(t) PROVE CacheInv'
  BY <1>2, <1>7 DEF Deactivate, history
<1>8. CASE RevertOff \/ RevertOn
  BY <1>2, <1>8 DEF RevertOff, RevertOn, history
<1>9. ASSUME NEW t \in Trainer,
             StartManual(t) \/ TooLittleData(t) \/ InsertRefused(t) \/ TrainingFails(t)
      PROVE  CacheInv'
  BY <1>1, <1>9
  DEF StartManual, TooLittleData, InsertRefused, TrainingFails, tableVars, history
<1>10. CASE ListCandidates \/ StartNightly \/ Judge \/ NightlyFails
  BY <1>1, <1>10 DEF ListCandidates, StartNightly, Judge, NightlyFails, tableVars, history
<1>11. CASE CooldownPasses \/ CreateCharger \/ UNCHANGED vars
  BY <1>1, <1>11 DEF CooldownPasses, CreateCharger, vars, tableVars, history
<1> QED
  BY <1>3, <1>4, <1>5, <1>6, <1>7, <1>8, <1>9, <1>10, <1>11 DEF Next, Train, Schedule

-----------------------------------------------------------------------------
(* At most one model is active *)

OneInv ==
    ~overlapped =>
      /\ \A v, w \in Active : v = w
      /\ \A t, u \in Trainer : tpc[t] # "idle" /\ tpc[u] # "idle" => t = u
      /\ \A t \in Trainer \ {Nightly} : tpc[t] # "idle" => npc = "idle"
      /\ \A t \in Trainer : tpc[t] = "insert" => Active = {}
      /\ npc = "judge" => Active \subseteq {Len(models)}
      /\ npc = "off" => Active \subseteq RowOf(newRun)
      /\ npc = "on" => Active = {}

\* The script ends: who is left, and where the scheduler goes.
LEMMA ExitOne ==
  ASSUME TInv, OneInv, ~overlapped, NEW t \in Trainer, NEW code \in {0, 1},
         tpc[t] # "idle", Exit(t, code)
  PROVE  /\ \A u \in Trainer : tpc'[u] = "idle"
         /\ npc' = IF t # Nightly THEN "idle" ELSE IF code = 0 THEN "judge" ELSE "idle"
<1>1. \A u \in Trainer : tpc'[u] # "idle" => tpc'[u] = tpc[u] /\ u # t
  BY ExitRows
<1>2. \A u \in Trainer : tpc'[u] = "idle"
  BY <1>1 DEF OneInv
<1>3. t # Nightly => npc = "idle"
  BY DEF OneInv
<1> QED  BY <1>2, <1>3 DEF Exit

\* Runs that do not overlap hand the table on one after the other.
LEMMA OneStep == TInv /\ OneInv /\ [Next]_vars => OneInv'
<1> SUFFICES ASSUME TInv, OneInv, [Next]_vars, ~overlapped' PROVE OneInv'
  BY DEF OneInv
<1>t. models \in Seq(Model) /\ tpc \in [Trainer -> {"idle", "deactivate", "insert"}]
  BY DEF TInv, TypeOK
<1>o. UNCHANGED overlapped => ~overlapped
  OBVIOUS
<1>1. ASSUME NEW t \in Trainer, StartManual(t) PROVE OneInv'
  <2>1. ~overlapped /\ npc = "idle" /\ \A u \in Trainer : tpc[u] = "idle"
    BY <1>1 DEF StartManual
  <2>2. UNCHANGED <<models, npc, newRun>> /\ t # Nightly
    BY <1>1 DEF StartManual, tableVars, nightVars
  <2>3. tpc' = [tpc EXCEPT ![t] = "deactivate"]
    BY <1>1 DEF StartManual
  <2> QED  BY <1>t, <2>1, <2>2, <2>3, SameSets DEF OneInv
<1>2. ASSUME NEW t \in Trainer, TooLittleData(t) \/ InsertRefused(t) \/ TrainingFails(t)
      PROVE  OneInv'
  <2>1. ~overlapped /\ tpc[t] # "idle" /\ Exit(t, 1) /\ UNCHANGED <<models, newRun>>
    BY <1>2 DEF TooLittleData, InsertRefused, TrainingFails, tableVars, history
  <2>2. npc' = "idle" /\ \A u \in Trainer : tpc'[u] = "idle"
    BY <2>1, ExitOne
  <2> QED  BY <2>1, <2>2, SameSets DEF OneInv
<1>3. ASSUME NEW t \in Trainer, Deactivate(t) PROVE OneInv'
  <2>1. ~overlapped /\ tpc[t] # "idle" /\ UNCHANGED <<npc, newRun>>
    BY <1>3 DEF Deactivate, nightVars, history
  <2>2. Active' = {}
    BY <1>3, <1>t, SwitchSets DEF Deactivate, Active
  <2>3. tpc' = [tpc EXCEPT ![t] = "insert"]
    BY <1>3 DEF Deactivate
  <2> QED  BY <1>t, <2>1, <2>2, <2>3 DEF OneInv
<1>4. ASSUME NEW t \in Trainer, Insert(t) PROVE OneInv'
  <2>1. ~overlapped /\ tpc[t] = "insert" /\ Exit(t, 0)
    BY <1>4 DEF Insert, history
  <2>2. Active' = {Len(models')}
    BY <1>4, <2>1, InsertSets DEF OneInv
  <2>3. npc' \in {"idle", "judge"} /\ \A u \in Trainer : tpc'[u] = "idle"
    BY <2>1, ExitOne
  <2> QED  BY <2>2, <2>3 DEF OneInv
<1>5. CASE ListCandidates
  <2>1. /\ ~overlapped /\ npc' = "listed" /\ UNCHANGED <<models, tpc>>
        /\ \A u \in Trainer : tpc[u] = "idle"
    BY <1>5 DEF ListCandidates, tableVars, trainVars
  <2> QED  BY <2>1, SameSets DEF OneInv
<1>6. CASE StartNightly
  <2>1. ~overlapped /\ npc = "listed" /\ npc' = "training" /\ UNCHANGED models
    BY <1>6 DEF StartNightly, tableVars, history
  <2>2. \A u \in Trainer : tpc[u] = "idle"
    BY <2>1 DEF OneInv, TInv, RowsInv
  <2>3. tpc' = [tpc EXCEPT ![Nightly] = "deactivate"]
    BY <1>6 DEF StartNightly
  <2> QED  BY <1>t, <2>1, <2>2, <2>3, SameSets DEF OneInv
<1>7. CASE Judge
  <2>1. ~overlapped /\ npc = "judge" /\ UNCHANGED <<models, tpc>>
    BY <1>7 DEF Judge, tableVars, trainVars
  <2>2. \/ npc' = "idle"
        \/ npc' = "off" /\ Len(models) > 0 /\ newRun' = models[Len(models)].run
    BY <1>7 DEF Judge
  <2>3. Active \subseteq {Len(models)}
    BY <2>1 DEF OneInv
  <2>4. npc' = "off" => Active' \subseteq RowOf(newRun)'
    BY <1>t, <2>1, <2>2, <2>3 DEF RowOf, Active
  <2>5. \A u \in Trainer : tpc[u] = "idle"
    BY <2>1 DEF OneInv, TInv, RowsInv
  <2> QED  BY <2>1, <2>2, <2>3, <2>4, <2>5, SameSets DEF OneInv
<1>8. CASE RevertOff
  <2>1. ~overlapped /\ npc = "off" /\ npc' = "on" /\ UNCHANGED tpc
    BY <1>8 DEF RevertOff, trainVars, history
  <2>2. Switch(RowOf(newRun), FALSE) /\ Active \subseteq RowOf(newRun)
    BY <1>8, <2>1 DEF RevertOff, OneInv
  <2>3. Active' = Active \ RowOf(newRun)
    BY <1>t, <2>2, SwitchSets
  <2>4. Active' = {}
    BY <2>2, <2>3
  <2> QED  BY <2>1, <2>4 DEF OneInv
<1>9. CASE RevertOn
  <2>1. ~overlapped /\ npc = "on" /\ npc' = "idle" /\ UNCHANGED tpc
    BY <1>9 DEF RevertOn, trainVars, history
  <2>2. Switch(RowOf(oldRun), TRUE) /\ Active = {}
    BY <1>9, <2>1 DEF RevertOn, OneInv
  <2>5. Active' = Active \union (RowOf(oldRun) \intersect DOMAIN models)
    BY <1>t, <2>2, SwitchSets
  <2>3. \A v, w \in RowOf(oldRun) : v = w
    BY DEF RowOf, TInv, RowsInv
  <2>4. \A u \in Trainer : tpc[u] = "idle"
    BY <2>1 DEF OneInv, TInv, RowsInv
  <2> QED  BY <2>1, <2>2, <2>3, <2>4, <2>5 DEF OneInv
<1>10. CASE NightlyFails
  <2>1. /\ ~overlapped /\ npc' = "idle" /\ UNCHANGED models
        /\ tpc' = [tpc EXCEPT ![Nightly] = "idle"]
    BY <1>10 DEF NightlyFails, tableVars, history
  <2>2. \A u \in Trainer : tpc'[u] # "idle" => tpc'[u] = tpc[u]
    BY <1>t, <2>1
  <2> QED  BY <2>1, <2>2, SameSets DEF OneInv
<1>11. CASE DeleteCharger
  <2>1. ~overlapped /\ models' = <<>> /\ UNCHANGED <<tpc, npc>>
    BY <1>11 DEF DeleteCharger, trainVars, nightVars
  <2>2. Active' = {}
    BY <2>1, EmptySeq DEF Active
  <2> QED  BY <2>1, <2>2 DEF OneInv
<1>12. CASE LoadActive \/ WorkerRestarts \/ CooldownPasses \/ CreateCharger \/ UNCHANGED vars
  <2>1. ~overlapped /\ UNCHANGED <<models, tpc, npc, newRun>>
    BY <1>12 DEF LoadActive, WorkerRestarts, CooldownPasses, CreateCharger,
                 vars, tableVars, trainVars, nightVars, history
  <2> QED  BY <2>1, SameSets DEF OneInv
<1> QED
  BY <1>1, <1>2, <1>3, <1>4, <1>5, <1>6, <1>7, <1>8, <1>9, <1>10, <1>11, <1>12
  DEF Next, Train, Schedule

\* Runs that do not overlap leave at most one model active, for any number of
\* trainers, failures and deletions.
THEOREM OneModelActive == Spec => []OneActive
<1>1. Init => OneInv
  <2> SUFFICES ASSUME Init PROVE OneInv
    OBVIOUS
  <2>1. Active = {}
    BY EmptySets DEF Init
  <2> QED  BY <2>1 DEF Init, OneInv
<1>2. OneInv => OneActive
  BY DEF OneInv, OneActive
<1> QED  BY <1>1, <1>2, TAlways, OneStep, PTL DEF Spec

-----------------------------------------------------------------------------
(* A charger that has models has an active one *)

ServedInv ==
    faults = 0 =>
      /\ models # <<>> /\ Active = {} => Training \/ (npc = "on" /\ RowOf(oldRun) # {})
      /\ npc = "off" /\ RowOf(newRun) # {} => RowOf(oldRun) # {}

\* Who switches the last active model off switches another one on.
LEMMA ServedStep == TInv /\ ServedInv /\ [Next]_vars => ServedInv'
<1> SUFFICES ASSUME TInv, ServedInv, [Next]_vars, faults' = 0 PROVE ServedInv'
  BY DEF ServedInv
<1>t. /\ models \in Seq(Model) /\ tpc \in [Trainer -> {"idle", "deactivate", "insert"}]
      /\ faults \in Nat /\ newRun \in 0 .. runs
  BY DEF TInv, TypeOK, RowsInv
<1>n. npc # "training" => tpc[Nightly] = "idle"
  BY DEF TInv, RowsInv
<1>1. ASSUME UNCHANGED <<models, faults, npc, newRun, oldRun>>,
             \A t \in Trainer : tpc[t] = "insert" => tpc'[t] = "insert"
      PROVE  ServedInv'
  BY <1>1, SameSets DEF ServedInv, Training
<1>2. ASSUME NEW t \in Trainer, StartManual(t) PROVE ServedInv'
  BY <1>1, <1>2, <1>t DEF StartManual, tableVars, nightVars
<1>3. ASSUME NEW t \in Trainer, TooLittleData(t) PROVE ServedInv'
  <2>1. /\ tpc[t] = "deactivate" /\ Exit(t, 1)
        /\ UNCHANGED <<models, faults, newRun, oldRun>>
    BY <1>3 DEF TooLittleData, tableVars
  <2>2. \A u \in Trainer : tpc[u] = "insert" => tpc'[u] = "insert"
    BY <1>t, <2>1 DEF Exit
  <2>3. npc' = npc \/ (npc = "training" /\ npc' = "idle")
    BY <1>n, <2>1 DEF Exit
  <2> QED  BY <2>1, <2>2, <2>3, SameSets DEF ServedInv, Training
<1>4. ASSUME NEW t \in Trainer, Deactivate(t) PROVE ServedInv'
  <2>1. UNCHANGED <<faults, npc, newRun, oldRun>>
    BY <1>4 DEF Deactivate, nightVars
  <2>2. tpc'[t] = "insert"
    BY <1>4, <1>t DEF Deactivate
  <2>3. \A r : RowOf(r)' = RowOf(r)
    BY <1>4, <1>t, SwitchSets DEF Deactivate
  <2> QED  BY <2>1, <2>2, <2>3 DEF ServedInv, Training
<1>5. ASSUME NEW t \in Trainer, Insert(t) PROVE ServedInv'
  <2>1. UNCHANGED <<faults, newRun, oldRun>> /\ Exit(t, 0) /\ tpc[t] = "insert"
    BY <1>5 DEF Insert
  <2>2. Active' # {}
    BY <1>5, InsertSets
  <2>3. npc' = npc \/ npc' = "judge"
    BY <2>1 DEF Exit
  <2>4. oldRun \in Nat /\ runs \in Nat
    BY DEF TInv, TypeOK
  <2>5. RowOf(newRun)' = RowOf(newRun)
    BY <1>5, <1>t, <2>1, InsertSets
  <2>6. RowOf(oldRun) # {} => RowOf(oldRun)' # {}
    <3>1. RowOf(oldRun) # {} => oldRun \in 0 .. runs
      BY <2>4 DEF RowOf, TInv, RowsInv
    <3> QED  BY <1>5, <2>1, <3>1, InsertSets
  <2> QED  BY <2>1, <2>2, <2>3, <2>5, <2>6 DEF ServedInv
<1>6. ASSUME NEW t \in Trainer, InsertRefused(t) PROVE ServedInv'
  <2>1. models = <<>> /\ UNCHANGED models
    BY <1>6 DEF InsertRefused, TInv, RowsInv, tableVars
  <2> QED  BY <2>1, EmptySets, SameSets DEF ServedInv
<1>7. CASE StartNightly
  <2>1. /\ UNCHANGED <<models, faults, newRun, oldRun>> /\ npc = "listed" /\ npc' = "training"
        /\ tpc' = [tpc EXCEPT ![Nightly] = "deactivate"]
    BY <1>7 DEF StartNightly, tableVars
  <2>2. \A u \in Trainer : tpc[u] = "insert" => tpc'[u] = "insert"
    BY <1>t, <1>n, <2>1
  <2> QED  BY <2>1, <2>2, SameSets DEF ServedInv, Training
<1>8. CASE ListCandidates
  BY <1>8, SameSets DEF ListCandidates, tableVars, trainVars, ServedInv, Training
<1>9. CASE Judge
  <2>1. UNCHANGED <<models, faults, tpc>> /\ npc = "judge"
    BY <1>9 DEF Judge, tableVars, trainVars
  <2>2. \/ npc' = "idle"
        \/ npc' = "off" /\ Len(models) > 1 /\ oldRun' = models[Len(models) - 1].run
    BY <1>9, <1>t DEF Judge, Worse
  <2>3. npc' = "off" => RowOf(oldRun)' # {}
    <3> SUFFICES ASSUME npc' = "off" PROVE RowOf(oldRun)' # {}
      OBVIOUS
    <3>1. Len(models) - 1 \in DOMAIN models
      BY <1>t, <2>2
    <3> QED  BY <2>1, <2>2, <3>1 DEF RowOf
  <2> QED  BY <2>1, <2>2, <2>3, SameSets DEF ServedInv, Training
<1>10. CASE RevertOff
  <2>1. /\ Switch(RowOf(newRun), FALSE) /\ npc = "off"
        /\ npc' = "on" /\ UNCHANGED <<tpc, faults, newRun, oldRun>>
    BY <1>10 DEF RevertOff, trainVars
  <2>2. Active' = Active \ RowOf(newRun)
    BY <1>t, <2>1, SwitchSets
  <2>3. RowOf(oldRun)' = RowOf(oldRun)
    BY <1>t, <2>1, SwitchSets
  <2>4. models = <<>> => models' = <<>>
    BY <1>t, <2>1, SwitchSets
  <2> QED  BY <2>1, <2>2, <2>3, <2>4 DEF ServedInv, Training
<1>11. CASE RevertOn
  <2>1. /\ Switch(RowOf(oldRun), TRUE) /\ npc = "on"
        /\ npc' = "idle" /\ UNCHANGED <<tpc, faults>>
    BY <1>11 DEF RevertOn, trainVars
  <2>2. Active' = Active \union (RowOf(oldRun) \intersect DOMAIN models)
    BY <1>t, <2>1, SwitchSets
  <2>3. RowOf(oldRun) \subseteq DOMAIN models
    BY DEF RowOf
  <2>4. models = <<>> => models' = <<>>
    BY <1>t, <2>1, SwitchSets
  <2> QED  BY <2>1, <2>2, <2>3, <2>4 DEF ServedInv, Training
<1>12. CASE DeleteCharger
  <2>1. models' = <<>> /\ \A r : RowOf(r)' = {}
    BY <1>12, EmptySeq DEF DeleteCharger, RowOf
  <2> QED  BY <2>1 DEF ServedInv
<1>13. ASSUME NEW t \in Trainer, TrainingFails(t) \/ NightlyFails PROVE ServedInv'
  BY <1>13, <1>t DEF TrainingFails, NightlyFails, Fault
<1>14. CASE LoadActive \/ WorkerRestarts \/ CooldownPasses \/ CreateCharger \/ UNCHANGED vars
  BY <1>1, <1>14 DEF LoadActive, WorkerRestarts, CooldownPasses, CreateCharger,
                     vars, tableVars, trainVars, nightVars
<1> QED
  BY <1>2, <1>3, <1>4, <1>5, <1>6, <1>7, <1>8, <1>9, <1>10, <1>11, <1>12, <1>13, <1>14
  DEF Next, Train, Schedule

\* Without a fault, trainings that overlap each other and a revert never leave
\* a charger that has models without an active one, but between two statements.
THEOREM AModelIsServed == Spec => []ModelIsServed
<1>1. Init => ServedInv
  BY DEF Init, ServedInv
<1>2. TInv /\ ServedInv => ModelIsServed
  BY DEF ServedInv, ModelIsServed
<1> QED  BY <1>1, <1>2, TAlways, ServedStep, PTL DEF Spec

\* The scorer in the inference worker's cache is the one of the row with its
\* version, while runs do not overlap and until the charger is deleted.
THEOREM CacheCorrect == Spec => []CacheIsRegistered
<1>1. Init => CacheInv
  BY DEF Init, CacheInv
<1>2. CacheInv => CacheIsRegistered
  BY DEF CacheInv, CacheIsRegistered
<1> QED  BY <1>1, <1>2, TAlways, CacheStep, PTL DEF Spec
-----------------------------------------------------------------------------
(* The model served is the best so far *)

\* The scheduler alone has trained, or is about to insert a row.
NoManual == OnlyNightly /\ \A t \in Trainer \ {Nightly} : tpc[t] # "insert"
Clean == faults = 0 /\ reverts <= 1 /\ NoManual

Last == Len(models)
Least(x) == \A w \in DOMAIN models : x <= models[w].val

\* What each phase of the scheduler and of its subprocess finds in the table:
\* one active model, the best, and the newest if none was taken back; none
\* while it is replaced; then the newest, with the loss to compare it with;
\* and, when that is taken back, the one before it as the best.
OneBest ==
    \E s \in DOMAIN models :
        /\ Active = {s} /\ Least(models[s].val) /\ (reverts = 0 => s = Last)
        /\ npc = "training" => prev = models[s].val
Replacing ==
    Active = {} /\ prev # NoVal /\ Least(prev) /\ (reverts = 0 => prev = models[Last].val)
Judging ==
    /\ Active = {Last}
    /\ Last > 1 => /\ prev # NoVal /\ \A w \in DOMAIN models \ {Last} : prev <= models[w].val
                   /\ reverts = 0 => prev = models[Last - 1].val
Reverting ==
    /\ Last > 1 /\ reverts = 1 /\ Active = IF npc = "off" THEN {Last} ELSE {}
    /\ newRun = models[Last].run /\ oldRun = models[Last - 1].run
    /\ Least(models[Last - 1].val)

Shape ==
    /\ npc \in {"idle", "listed"} \/ tpc[Nightly] = "deactivate" => OneBest
    /\ tpc[Nightly] = "insert" => Replacing
    /\ npc = "judge" => Judging
    /\ npc \in {"off", "on"} => Reverting

BestInv == Clean /\ models # <<>> => Shape

\* What was clean after a step that leaves rows was clean before it.
LEMMA CleanBefore ==
  ASSUME TInv, [Next]_vars, Clean', models' # <<>>, models # <<>>
  PROVE  Clean
<1>t. /\ models \in Seq(Model) /\ tpc \in [Trainer -> {"idle", "deactivate", "insert"}]
      /\ faults \in Nat /\ reverts \in Nat
  BY DEF TInv, TypeOK
<1> USE DEF Clean, NoManual, OnlyNightly
<1>1. ASSUME faults' = faults, reverts' \in {reverts, reverts + 1},
             \A v \in DOMAIN models : v \in DOMAIN models' /\ models'[v].by = models[v].by,
             \A t \in Trainer \ {Nightly} : tpc[t] = "insert" => tpc'[t] = "insert"
      PROVE  Clean
  BY <1>1, <1>t
<1>2. ASSUME NEW S, NEW on \in BOOLEAN, Switch(S, on)
      PROVE  \A v \in DOMAIN models : v \in DOMAIN models' /\ models'[v].by = models[v].by
  BY <1>2, <1>t, SwitchKeeps
<1>3. ASSUME NEW t \in Trainer, StartManual(t) \/ TooLittleData(t) PROVE Clean
  <2>1. UNCHANGED <<models, faults, reverts>> /\ tpc[t] # "insert"
        /\ \A u \in Trainer \ {t} : tpc'[u] = tpc[u]
    BY <1>3, <1>t DEF StartManual, TooLittleData, Exit, tableVars, history
  <2> QED  BY <1>1, <2>1
<1>4. ASSUME NEW t \in Trainer, Deactivate(t) PROVE Clean
  <2>1. Switch(DOMAIN models, FALSE) /\ UNCHANGED <<faults, reverts>>
        /\ tpc' = [tpc EXCEPT ![t] = "insert"]
    BY <1>4 DEF Deactivate, history
  <2> QED  BY <1>1, <1>2, <1>t, <2>1
<1>5. ASSUME NEW t \in Trainer, Insert(t) PROVE Clean
  <2>1. /\ DOMAIN models' = DOMAIN models \union {Len(models) + 1}
        /\ \A v \in DOMAIN models : models'[v] = models[v]
        /\ models'[Len(models) + 1].by = t
    BY <1>5, InsertRows
  <2>2. t = Nightly
    BY <2>1
  <2>3. UNCHANGED <<faults, reverts>> /\ \A u \in Trainer \ {t} : tpc'[u] = tpc[u]
    BY <1>5, <1>t DEF Insert, Exit, history
  <2> QED  BY <1>1, <2>1, <2>2, <2>3
<1>6. ASSUME NEW t \in Trainer, InsertRefused(t) PROVE FALSE
  BY <1>6 DEF InsertRefused, TInv, RowsInv
<1>7. ASSUME NEW t \in Trainer, TrainingFails(t) \/ NightlyFails PROVE FALSE
  BY <1>7, <1>t DEF TrainingFails, NightlyFails, Fault
<1>8. CASE ListCandidates \/ StartNightly \/ Judge
  <2>1. /\ UNCHANGED <<models, faults>> /\ reverts' \in {reverts, reverts + 1}
        /\ \A u \in Trainer \ {Nightly} : tpc'[u] = tpc[u]
    BY <1>8, <1>t DEF ListCandidates, StartNightly, Judge, tableVars, trainVars, history
  <2> QED  BY <1>1, <2>1
<1>9. CASE RevertOff \/ RevertOn
  <2>1. UNCHANGED <<tpc, faults, reverts>>
        /\ \E S : \E on \in BOOLEAN : Switch(S, on)
    BY <1>9 DEF RevertOff, RevertOn, trainVars, history
  <2> QED  BY <1>1, <1>2, <2>1
<1>10. CASE LoadActive \/ WorkerRestarts \/ CooldownPasses \/ CreateCharger \/ UNCHANGED vars
  <2>1. UNCHANGED <<models, tpc, faults, reverts>>
    BY <1>10 DEF LoadActive, WorkerRestarts, CooldownPasses, CreateCharger,
                 vars, tableVars, trainVars, history
  <2> QED  BY <1>1, <2>1
<1>11. CASE DeleteCharger
  BY <1>11 DEF DeleteCharger
<1> QED
  BY <1>3, <1>4, <1>5, <1>6, <1>7, <1>8, <1>9, <1>10, <1>11 DEF Next, Train, Schedule

\* What a step that leaves the table and the scheduler alone keeps.
LEMMA ShapeKept ==
  ASSUME Shape, UNCHANGED <<models, npc, prev, newRun, oldRun, reverts>>,
         tpc'[Nightly] = tpc[Nightly]
  PROVE  Shape'
<1>1. Active' = Active
  BY SameSets
<1> QED  BY <1>1 DEF Shape, OneBest, Replacing, Judging, Reverting, Last, Least

\* Each phase hands the table on to the next as that expects it.
LEMMA BestStep == TInv /\ BestInv /\ [Next]_vars => BestInv'
<1> SUFFICES ASSUME TInv, BestInv, [Next]_vars, Clean', models' # <<>> PROVE Shape'
  BY DEF BestInv
<1>t. /\ models \in Seq(Model) /\ tpc \in [Trainer -> {"idle", "deactivate", "insert"}]
      /\ faults \in Nat /\ reverts \in Nat /\ Last \in Nat /\ DOMAIN models = 1 .. Last
      /\ \A v \in DOMAIN models : models[v].val \in Val /\ models[v].val \in Nat
                                  /\ models[v].val # NoVal
      /\ prev \in Nat
  <2>1. /\ models \in Seq(Model) /\ tpc \in [Trainer -> {"idle", "deactivate", "insert"}]
        /\ faults \in Nat /\ reverts \in Nat /\ prev \in Nat
    BY DEF TInv, TypeOK
  <2>2. Last \in Nat /\ DOMAIN models = 1 .. Last
    BY <2>1 DEF Last
  <2>3. \A v \in DOMAIN models : models[v] \in Model
    BY <2>1
  <2>4. \A v \in DOMAIN models : models[v].val \in Val
    BY <2>3 DEF Model
  <2> QED  BY <2>1, <2>2, <2>4
<1>n. tpc[Nightly] # "idle" <=> npc = "training"
  BY DEF TInv, RowsInv
<1>n1. tpc'[Nightly] # "idle" <=> npc' = "training"
  BY TStep DEF TInv, RowsInv
<1>s. models # <<>> => Shape
  BY CleanBefore DEF BestInv
<1>e. models # <<>> => Last > 0
  BY <1>t DEF Last
<1>1. ASSUME NEW t \in Trainer, StartManual(t) PROVE Shape'
  <2>1. /\ UNCHANGED <<models, npc, prev, newRun, oldRun, reverts>>
        /\ tpc'[Nightly] = tpc[Nightly]
    BY <1>1, <1>t DEF StartManual, tableVars, nightVars
  <2> QED  BY <1>s, <2>1, ShapeKept
<1>2. ASSUME NEW t \in Trainer, TooLittleData(t) PROVE Shape'
  <2>1. /\ UNCHANGED <<models, prev, newRun, oldRun, reverts>>
        /\ tpc[t] = "deactivate" /\ Exit(t, 1)
    BY <1>2 DEF TooLittleData, tableVars, history
  <2>2. CASE t = Nightly
    <3>1. npc' = "idle" /\ tpc'[Nightly] = "idle"
      BY <1>t, <2>1, <2>2 DEF Exit
    <3>2. OneBest
      BY <1>s, <2>1, <2>2 DEF Shape
    <3>3. OneBest'
      BY <2>1, <3>1, <3>2, SameSets DEF OneBest, Last, Least
    <3> QED  BY <3>1, <3>3 DEF Shape
  <2>3. CASE t # Nightly
    BY <1>s, <1>t, <2>1, <2>3, ShapeKept DEF Exit
  <2> QED  BY <2>2, <2>3
<1>3. ASSUME NEW t \in Trainer, Deactivate(t) PROVE Shape'
  <2>1. /\ Switch(DOMAIN models, FALSE) /\ tpc' = [tpc EXCEPT ![t] = "insert"]
        /\ tpc[t] = "deactivate" /\ UNCHANGED <<npc, prev, newRun, oldRun, reverts>>
    BY <1>3 DEF Deactivate, nightVars, history
  <2>2. t = Nightly
    BY <1>t, <2>1 DEF Clean, NoManual
  <2>3. /\ DOMAIN models' = DOMAIN models /\ models # <<>>
        /\ \A v \in DOMAIN models : models'[v].val = models[v].val
    BY <1>t, <2>1, SwitchRows, SwitchKeeps
  <2>4. Active' = {} /\ Last' = Last
    BY <1>t, <2>1, SwitchSets DEF Active, Last
  <2>5. OneBest /\ npc = "training"
    BY <1>s, <1>n, <2>1, <2>2, <2>3 DEF Shape
  <2>6. Replacing'
    <3> PICK s \in DOMAIN models : /\ Least(models[s].val) /\ (reverts = 0 => s = Last)
                                   /\ prev = models[s].val
      BY <2>5 DEF OneBest
    <3> QED  BY <1>t, <2>1, <2>3, <2>4 DEF Replacing, Least
  <2>7. tpc'[Nightly] = "insert" /\ npc' = "training"
    BY <1>t, <2>1, <2>2, <2>5
  <2> QED  BY <2>6, <2>7 DEF Shape
<1>4. ASSUME NEW t \in Trainer, Insert(t) PROVE Shape'
  <2>1. /\ DOMAIN models' = DOMAIN models \union {Last + 1} /\ Last' = Last + 1
        /\ \A v \in DOMAIN models : models'[v] = models[v]
        /\ models'[Last + 1].by = t
    BY <1>4, InsertRows DEF Last
  <2>2. t = Nightly
    BY <2>1 DEF Clean, NoManual, OnlyNightly
  <2>3. /\ tpc[Nightly] = "insert" /\ Exit(Nightly, 0)
        /\ UNCHANGED <<prev, newRun, oldRun, reverts>>
    BY <1>4, <2>2 DEF Insert, history
  <2>4. npc' = "judge" /\ tpc'[Nightly] = "idle"
    BY <1>t, <2>3 DEF Exit
  <2>5. Active' = Active \union {Last + 1}
    BY <1>4, InsertSets DEF Last
  <2>6. CASE models = <<>>
    <3>1. Active = {} /\ Last = 0
      BY <2>6, EmptySets DEF Last
    <3>2. Judging'
      BY <2>1, <2>5, <3>1 DEF Judging
    <3> QED  BY <2>4, <3>2 DEF Shape
  <2>7. CASE models # <<>>
    <3>1. Replacing
      BY <1>s, <2>3, <2>7 DEF Shape
    <3>2. Active' = {Last'}
      BY <2>1, <2>5, <3>1 DEF Replacing
    <3>3. \A w \in DOMAIN models' \ {Last'} : prev' <= models'[w].val
      BY <2>1, <2>3, <3>1 DEF Replacing, Least
    <3>4. reverts' = 0 => prev' = models'[Last' - 1].val
      <4>1. Last \in DOMAIN models /\ Last' - 1 = Last
        BY <1>t, <1>e, <2>1, <2>7
      <4> QED  BY <2>1, <2>3, <3>1, <4>1 DEF Replacing
    <3>5. Judging'
      BY <2>3, <3>1, <3>2, <3>3, <3>4 DEF Judging, Replacing
    <3> QED  BY <2>4, <3>5 DEF Shape
  <2> QED  BY <2>6, <2>7
<1>5. ASSUME NEW t \in Trainer, InsertRefused(t) PROVE FALSE
  BY <1>5 DEF InsertRefused, TInv, RowsInv, tableVars
<1>6. ASSUME NEW t \in Trainer, TrainingFails(t) \/ NightlyFails PROVE FALSE
  BY <1>6, <1>t DEF TrainingFails, NightlyFails, Fault, Clean
<1>7. CASE ListCandidates
  <2>1. /\ UNCHANGED <<models, tpc, prev, newRun, oldRun, reverts>>
        /\ npc = "idle" /\ npc' = "listed"
    BY <1>7 DEF ListCandidates, tableVars, trainVars
  <2>2. OneBest
    BY <1>s, <2>1 DEF Shape
  <2>3. OneBest'
    BY <2>1, <2>2, SameSets DEF OneBest, Last, Least
  <2> QED  BY <1>n1, <2>1, <2>3 DEF Shape
<1>8. CASE StartNightly
  <2>1. /\ UNCHANGED <<models, reverts>> /\ npc = "listed" /\ npc' = "training"
        /\ tpc' = [tpc EXCEPT ![Nightly] = "deactivate"]
        /\ \/ Active = {}
           \/ \E v \in Active : prev' = models[v].val
    BY <1>8 DEF StartNightly, tableVars, history
  <2>2. OneBest
    BY <1>s, <2>1 DEF Shape
  <2>3. OneBest'
    <3> PICK s \in DOMAIN models :
            Active = {s} /\ Least(models[s].val) /\ (reverts = 0 => s = Last)
      BY <2>2 DEF OneBest
    <3>1. prev' = models[s].val
      BY <2>1
    <3> QED  BY <2>1, <3>1, SameSets DEF OneBest, Last, Least
  <2>4. tpc'[Nightly] = "deactivate"
    BY <1>t, <2>1
  <2> QED  BY <2>1, <2>3, <2>4 DEF Shape
<1>9. CASE Judge
  <2>1. /\ UNCHANGED <<models, tpc, prev>> /\ npc = "judge" /\ tpc[Nightly] = "idle"
    BY <1>9, <1>n DEF Judge, tableVars, trainVars
  <2>2. models # <<>> /\ Last > 0 /\ Judging
    BY <1>s, <1>e, <2>1 DEF Shape
  <2>3. CASE Worse(Last)
    <3>1. /\ npc' = "off" /\ reverts' = reverts + 1
          /\ newRun' = models[Last].run /\ oldRun' = models[Last - 1].run
      BY <1>9, <2>2, <2>3 DEF Judge, Last
    <3>2. reverts = 0
      BY <1>t, <3>1 DEF Clean
    <3>3. /\ Last > 1 /\ prev = models[Last - 1].val /\ models[Last].val >= prev
          /\ \A w \in DOMAIN models \ {Last} : prev <= models[w].val
      BY <2>2, <2>3, <3>2 DEF Worse, Judging
    <3>4. \A w \in DOMAIN models : models[Last - 1].val <= models[w].val
      BY <1>t, <3>3
    <3>5. Active' = {Last} /\ Last' = Last
      BY <2>1, <2>2, SameSets DEF Judging, Last
    <3>6. Reverting'
      BY <2>1, <3>1, <3>2, <3>3, <3>4, <3>5 DEF Reverting, Least
    <3> QED  BY <2>1, <3>1, <3>6 DEF Shape
  <2>4. CASE ~ Worse(Last)
    <3>1. npc' = "idle" /\ UNCHANGED reverts
      BY <1>9, <2>2, <2>4 DEF Judge, Last
    <3>2. Last \in DOMAIN models
      BY <1>t, <2>2
    <3>3. \A w \in DOMAIN models : models[Last].val <= models[w].val
      <4>1. CASE Last > 1
        BY <1>t, <2>2, <2>4, <3>2, <4>1 DEF Worse, Judging
      <4>2. CASE ~ (Last > 1)
        BY <1>t, <2>2, <4>2
      <4> QED  BY <4>1, <4>2
    <3>4. Active' = {Last} /\ Last' = Last
      BY <2>1, <2>2, SameSets DEF Judging, Last
    <3>5. OneBest'
      BY <2>1, <3>1, <3>2, <3>3, <3>4 DEF OneBest, Least
    <3> QED  BY <2>1, <3>1, <3>5 DEF Shape
  <2> QED  BY <2>3, <2>4
<1>10. CASE RevertOff \/ RevertOn
  <2>1. UNCHANGED <<tpc, prev, newRun, oldRun, reverts>> /\ npc \in {"off", "on"}
    BY <1>10 DEF RevertOff, RevertOn, trainVars, history
  <2>2. \/ Switch(RowOf(newRun), FALSE) /\ npc = "off" /\ npc' = "on"
        \/ Switch(RowOf(oldRun), TRUE) /\ npc = "on" /\ npc' = "idle"
    BY <1>10 DEF RevertOff, RevertOn
  <2>3. /\ DOMAIN models' = DOMAIN models /\ models # <<>> /\ Last' = Last
        /\ \A v \in DOMAIN models : models'[v].val = models[v].val
                                    /\ models'[v].run = models[v].run
    BY <1>t, <2>2, SwitchRows, SwitchKeeps, SwitchSets DEF Last
  <2>4. Reverting /\ tpc[Nightly] = "idle"
    BY <1>s, <1>n, <2>1, <2>3 DEF Shape
  <2>5. Last \in DOMAIN models /\ Last - 1 \in DOMAIN models
    BY <1>t, <2>4 DEF Reverting
  <2>6. /\ npc = "off" => Active' = Active \ RowOf(newRun)
        /\ npc = "on" => Active' = Active \union (RowOf(oldRun) \intersect DOMAIN models)
    BY <1>t, <2>2, SwitchSets
  <2>7. Last \in RowOf(newRun) /\ RowOf(oldRun) = {Last - 1}
    BY <2>4, <2>5 DEF Reverting, RowOf, TInv, RowsInv
  <2>8. CASE npc = "off"
    <3>1. Active' = {} /\ npc' = "on"
      BY <2>2, <2>4, <2>6, <2>7, <2>8 DEF Reverting
    <3>2. Reverting'
      BY <2>1, <2>3, <2>4, <2>5, <3>1 DEF Reverting, Least
    <3> QED  BY <2>1, <2>4, <3>1, <3>2 DEF Shape
  <2>9. CASE npc = "on"
    <3>1. Active' = {Last - 1} /\ npc' = "idle"
      BY <2>2, <2>4, <2>5, <2>6, <2>7, <2>9 DEF Reverting
    <3>2. OneBest'
      BY <2>1, <2>3, <2>4, <2>5, <3>1 DEF Reverting, OneBest, Least
    <3> QED  BY <2>1, <2>4, <3>1, <3>2 DEF Shape
  <2> QED  BY <2>1, <2>8, <2>9
<1>11. CASE DeleteCharger
  BY <1>11 DEF DeleteCharger
<1>12. CASE LoadActive \/ WorkerRestarts \/ CooldownPasses \/ CreateCharger \/ UNCHANGED vars
  <2>1. UNCHANGED <<models, tpc, npc, prev, newRun, oldRun, reverts>>
    BY <1>12 DEF LoadActive, WorkerRestarts, CooldownPasses, CreateCharger,
                 vars, tableVars, trainVars, nightVars, history
  <2> QED  BY <1>s, <2>1, ShapeKept
<1> QED
  BY <1>1, <1>2, <1>3, <1>4, <1>5, <1>6, <1>7, <1>8, <1>9, <1>10, <1>11, <1>12
  DEF Next, Train, Schedule

\* As long as the scheduler alone trains, nothing fails and one model at most
\* has been taken back, the model served at rest is the best of all.
THEOREM TheBestIsServed == Spec => []BestIsServed
<1>1. Init => BestInv
  BY DEF Init, BestInv
<1>2. TInv /\ BestInv => BestIsServed
  <2> SUFFICES ASSUME TInv, BestInv, AtRest, faults = 0, OnlyNightly, reverts <= 1,
                      NEW v \in DOMAIN models, NEW w \in DOMAIN models, IsServed(v)
               PROVE  models[v].val <= models[w].val
    BY DEF BestIsServed
  <2>1. Clean /\ npc = "idle"
    BY DEF Clean, NoManual, AtRest
  <2>2. models # <<>>
    BY EmptySeq
  <2>3. OneBest
    BY <2>1, <2>2 DEF BestInv, Shape
  <2> QED  BY <2>3 DEF OneBest, IsServed, Least
<1> QED  BY <1>1, <1>2, TAlways, BestStep, PTL DEF Spec
=============================================================================
