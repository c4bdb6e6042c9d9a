----------------------------- MODULE RemoteCall -----------------------------
(***************************************************************************)
(* What POST /chargers/{cp_id}/command promises its caller: a command is   *)
(* carried out by the charger at most once, and "ok" is returned only for  *)
(* a command the charger has answered.  "error" and "timeout" promise      *)
(* nothing about the charger.                                              *)
(***************************************************************************)
CONSTANT Request

VARIABLES
    api,        \* what the caller of each request knows
    done        \* what the charger has done about it

Result == {"ok", "error", "timeout"}

RInit == /\ api = [r \in Request |-> "new"]
         /\ done = [r \in Request |-> "no"]

Issue(r) == /\ api[r] = "new"
            /\ api' = [api EXCEPT ![r] = "pending"]
            /\ UNCHANGED done

\* The charger carries the command out, perhaps after the caller gave up.
Execute(r) == /\ api[r] # "new" /\ done[r] = "no"
              /\ done' = [done EXCEPT ![r] = "executed"]
              /\ UNCHANGED api

Answer(r) == /\ done[r] = "executed"
             /\ done' = [done EXCEPT ![r] = "answered"]
             /\ UNCHANGED api

Return(r) == /\ api[r] = "pending"
             /\ \E v \in Result : /\ v = "ok" => done[r] = "answered"
                                  /\ api' = [api EXCEPT ![r] = v]
             /\ UNCHANGED done

RNext == \E r \in Request : Issue(r) \/ Execute(r) \/ Answer(r) \/ Return(r)
RSpec == RInit /\ [][RNext]_<<api, done>>
=============================================================================
