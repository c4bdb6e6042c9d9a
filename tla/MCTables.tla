------------------------------- MODULE MCTables -------------------------------
(***************************************************************************)
(* The tables that several processes or handlers check and then write,     *)
(* beside one another, for TLC: ml_models, the chargers under their quota, *)
(* the accounts, and charger_sessions.  No step of one part reads or       *)
(* writes a table of another (that a charger's row takes its models along  *)
(* is in ModelRegistry), so each runs with the others standing still:      *)
(* `table` says which.                                                     *)
(***************************************************************************)
EXTENDS ModelRegistry, Registration, Accounts, MCSessions

CONSTANTS nightly, manual, t1, t2, p1, p2, p3, a1, a2, j1, j2

OneEach == t1 :> 1 @@ t2 :> 1
TwoAtOnce == {<<p1, p2>>}

VARIABLE table

tables == <<table, vars, regVars, accVars, sesVars>>

Modelling == table = "ml_models" /\ Next /\ UNCHANGED <<table, regVars, accVars, sesVars>>
Registering == table = "chargers" /\ RegNext /\ UNCHANGED <<table, vars, accVars, sesVars>>
Accounting == table = "users" /\ AccNext /\ UNCHANGED <<table, vars, regVars, sesVars>>
Charging == table = "charger_sessions" /\ SesNext /\ UNCHANGED <<table, vars, regVars, accVars>>

TablesInit == /\ table \in {"ml_models", "chargers", "users", "charger_sessions"}
              /\ Init /\ RegInit /\ AccInit /\ SesInit
TablesNext == Modelling \/ Registering \/ Accounting \/ Charging

TablesSpec == TablesInit /\ [][TablesNext]_tables

\* The instances tell these apart nowhere: emails, requests, and the
\* transactions of the 1.6 charger.
Exchangeable == Permutations({a1, a2}) \union Permutations({j1, j2}) \union Permutations({x2, x3})
===============================================================================
