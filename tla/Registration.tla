---------------------------- MODULE Registration ----------------------------
(***************************************************************************)
(* Rows of `chargers` under the quota of their organisation                *)
(* (chargers/service.py: create_charger, bulk_import, delete_charger).     *)
(* Each call holds a connection of its own and runs its statements one by  *)
(* one without a transaction, in any process of the API; only the primary  *)
(* key on cp_id is kept by the database.  max_chargers is set when the     *)
(* organisation is created and never updated, and organisations are not    *)
(* deleted.  What the statements read of a charger besides its id and its  *)
(* organisation is left out.                                               *)
(***************************************************************************)
EXTENDS Naturals, Sequences, FiniteSets

CONSTANTS
    Tenant,     \* organisations
    CpId,
    Quota,      \* max_chargers of each
    NoTenant,
    Call,       \* requests being served at a time
    Import      \* the lists of cp_ids that are imported

ASSUME RegistrationConstants ==
    /\ IsFiniteSet(CpId)
    /\ NoTenant \notin Tenant
    /\ Quota \in [Tenant -> Nat]
    /\ Import \subseteq Seq(CpId)

VARIABLES
    owner,      \* chargers: the org_id of each cp_id that has a row
    step,       \* where each call is
    org,        \* its org_id
    rows,       \* the cp_ids it still has to insert
    used,       \* its count of the organisation's chargers
    outrun,     \* calls that counted before a row of another call came (history)
    hasty       \* rows inserted by such a call (history)

callVars == <<step, org, rows, used>>
regVars == <<owner, callVars, outrun, hasty>>

Step == {"idle", "exists", "count", "insert", "importCount", "row", "importInsert"}
\* Steps after the count.
Counted == {"insert", "row", "importInsert"}

RegTypeOK ==
    /\ owner \in [CpId -> Tenant \union {NoTenant}]
    /\ step \in [Call -> Step]
    /\ org \in [Call -> Tenant \union {NoTenant}]
    /\ \A c \in Call : step[c] # "idle" => org[c] \in Tenant
    /\ rows \in [Call -> Seq(CpId)]
    /\ \A c \in Call : step[c] \in {"exists", "count", "insert", "importInsert"} => rows[c] # <<>>
    /\ used \in [Call -> Nat]
    /\ \A c \in Call : step[c] = "importInsert" => used[c] < Quota[org[c]]
    /\ outrun \subseteq Call
    /\ hasty \subseteq CpId

RegInit ==
    /\ owner \in [CpId -> {NoTenant}]
    /\ step = [c \in Call |-> "idle"] /\ org = [c \in Call |-> NoTenant]
    /\ rows = [c \in Call |-> <<>>] /\ used = [c \in Call |-> 0]
    /\ outrun = {} /\ hasty = {}

Owned(o) == {cp \in CpId : owner[cp] = o}
Goto(c, s) == step' = [step EXCEPT ![c] = s]
\* The call returns, with a result or an error.
Return(c) ==
    /\ Goto(c, "idle")
    /\ org' = [org EXCEPT ![c] = NoTenant]
    /\ rows' = [rows EXCEPT ![c] = <<>>]
    /\ used' = [used EXCEPT ![c] = 0]
    /\ outrun' = outrun \ {c}

\* SELECT max_chargers; SELECT count(*) FROM chargers WHERE org_id = $1
CountRows(c) ==
    /\ used' = [used EXCEPT ![c] = Cardinality(Owned(org[c]))]
    /\ outrun' = outrun \ {c}

\* INSERT INTO chargers: the row of a cp_id that has none.
InsertRow(c, cp) ==
    /\ owner[cp] = NoTenant
    /\ owner' = [owner EXCEPT ![cp] = org[c]]
    /\ hasty' = IF c \in outrun THEN hasty \union {cp} ELSE hasty
Overtaken(c) == outrun \union {d \in Call \ {c} : org[d] = org[c] /\ step[d] \in Counted}

-----------------------------------------------------------------------------
(* create_charger *)

Create(c, o, cp) ==
    /\ step[c] = "idle"
    /\ Goto(c, "exists")
    /\ org' = [org EXCEPT ![c] = o] /\ rows' = [rows EXCEPT ![c] = <<cp>>]
    /\ UNCHANGED <<owner, used, outrun, hasty>>

\* SELECT 1 FROM chargers WHERE cp_id = $1; 409
CreateExists(c) ==
    /\ step[c] = "exists"
    /\ IF owner[rows[c][1]] # NoTenant
         THEN Return(c)
         ELSE Goto(c, "count") /\ UNCHANGED <<org, rows, used, outrun>>
    /\ UNCHANGED <<owner, hasty>>

\* Mutant: the row that reaches the quota is not counted.
MutCreateCount(c) ==
    /\ step[c] = "count"
    /\ IF Cardinality(Owned(org[c])) > Quota[org[c]]
         THEN Return(c)
         ELSE Goto(c, "insert") /\ CountRows(c) /\ UNCHANGED <<org, rows>>
    /\ UNCHANGED <<owner, hasty>>

\* used >= cap: 402
CreateCount(c) ==
    /\ step[c] = "count"
    /\ IF Cardinality(Owned(org[c])) >= Quota[org[c]]
         THEN Return(c)
         ELSE Goto(c, "insert") /\ CountRows(c) /\ UNCHANGED <<org, rows>>
    /\ UNCHANGED <<owner, hasty>>

CreateInsert(c) ==
    /\ step[c] = "insert"
    /\ InsertRow(c, rows[c][1])
    /\ Goto(c, "idle")
    /\ org' = [org EXCEPT ![c] = NoTenant] /\ rows' = [rows EXCEPT ![c] = <<>>]
    /\ used' = [used EXCEPT ![c] = 0]
    /\ outrun' = Overtaken(c) \ {c}

\* The primary key is violated, or the statement fails: nothing is written.
CallFails(c) ==
    /\ step[c] \in {"exists", "count", "insert", "importCount", "row"}
    /\ Return(c)
    /\ UNCHANGED <<owner, hasty>>

-----------------------------------------------------------------------------
(* bulk_import *)

StartImport(c, o, list) ==
    /\ step[c] = "idle"
    /\ Goto(c, "importCount")
    /\ org' = [org EXCEPT ![c] = o] /\ rows' = [rows EXCEPT ![c] = list]
    /\ UNCHANGED <<owner, used, outrun, hasty>>

\* Once for the whole list.
ImportCount(c) ==
    /\ step[c] = "importCount"
    /\ Goto(c, "row")
    /\ CountRows(c)
    /\ UNCHANGED <<owner, org, rows, hasty>>

\* The next row: "quota reached", "cp_id already exists", or to be inserted.
ImportRow(c) ==
    /\ step[c] = "row" /\ rows[c] # <<>>
    /\ IF used[c] >= Quota[org[c]] \/ owner[Head(rows[c])] # NoTenant
         THEN rows' = [rows EXCEPT ![c] = Tail(@)] /\ UNCHANGED step
         ELSE Goto(c, "importInsert") /\ UNCHANGED rows
    /\ UNCHANGED <<owner, org, used, outrun, hasty>>

\* Mutant: the import does not count what it has inserted.
MutImportInsert(c) ==
    /\ step[c] = "importInsert"
    /\ InsertRow(c, Head(rows[c]))
    /\ rows' = [rows EXCEPT ![c] = Tail(@)]
    /\ outrun' = Overtaken(c)
    /\ Goto(c, "row")
    /\ UNCHANGED <<org, used>>

ImportInsert(c) ==
    /\ step[c] = "importInsert"
    /\ InsertRow(c, Head(rows[c]))
    /\ rows' = [rows EXCEPT ![c] = Tail(@)]
    /\ used' = [used EXCEPT ![c] = @ + 1]
    /\ outrun' = Overtaken(c)
    /\ Goto(c, "row")
    /\ UNCHANGED org

\* except Exception: the row is skipped with the error's text.
ImportInsertFails(c) ==
    /\ step[c] = "importInsert"
    /\ rows' = [rows EXCEPT ![c] = Tail(@)]
    /\ Goto(c, "row")
    /\ UNCHANGED <<owner, org, used, outrun, hasty>>

ImportEnds(c) ==
    /\ step[c] = "row" /\ rows[c] = <<>>
    /\ Return(c)
    /\ UNCHANGED <<owner, hasty>>

-----------------------------------------------------------------------------
\* delete_charger: DELETE FROM chargers WHERE cp_id = $1 AND org_id = $2
DeleteRow(cp) ==
    /\ owner[cp] # NoTenant
    /\ owner' = [owner EXCEPT ![cp] = NoTenant]
    /\ hasty' = hasty \ {cp}
    /\ UNCHANGED <<callVars, outrun>>

Serve(c) ==
    \/ \E o \in Tenant : (\E cp \in CpId : Create(c, o, cp))
                           \/ (\E list \in Import : StartImport(c, o, list))
    \/ CreateExists(c) \/ CreateCount(c) \/ CreateInsert(c)
    \/ ImportCount(c) \/ ImportRow(c) \/ ImportInsert(c) \/ ImportInsertFails(c) \/ ImportEnds(c)
    \/ CallFails(c)
RegNext == (\E c \in Call : Serve(c)) \/ \E cp \in CpId : DeleteRow(cp)

RegSpec == RegInit /\ [][RegNext]_regVars

-----------------------------------------------------------------------------
(* Properties *)

\* An organisation has more chargers than its quota only by rows that a call
\* inserted after another call had inserted one of the same organisation
\* behind its count: calls that do not overlap keep the quota, and deletions
\* in between do no harm.
QuotaKept ==
    \A o \in Tenant : Cardinality(Owned(o)) <= Quota[o] + Cardinality(Owned(o) \intersect hasty)
=============================================================================
