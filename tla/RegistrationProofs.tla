------------------------- MODULE RegistrationProofs -------------------------
(***************************************************************************)
(* The quota, for any organisations, quotas, cp_ids and imports and any    *)
(* number of requests at a time.                                           *)
(***************************************************************************)
EXTENDS Registration, FiniteSetTheorems, TLAPS

\* A count that no other call's row has outrun is still not too low.
CountHolds ==
    \A c \in Call :
        step[c] \in Counted /\ c \notin outrun => Cardinality(Owned(org[c])) <= used[c]

\* The comparison with the quota stands until the row is inserted.
BelowQuota ==
    \A c \in Call : step[c] \in {"insert", "importInsert"} => used[c] < Quota[org[c]]

\* The rows that no overtaken call has inserted are within the quota.
SoberRowsKept ==
    \A o \in Tenant : Cardinality(Owned(o) \ hasty) <= Quota[o]

RegInv == RegTypeOK /\ CountHolds /\ BelowQuota /\ SoberRowsKept

USE RegistrationConstants

\* Any set of cp_ids can be counted, and a part of it is not larger.
LEMMA Counting ==
    ASSUME NEW S \in SUBSET CpId, NEW T \in SUBSET S
    PROVE  /\ IsFiniteSet(S) /\ Cardinality(S) \in Nat
           /\ Cardinality(T) \in Nat /\ Cardinality(T) <= Cardinality(S)
<1>1. IsFiniteSet(S)
  BY FS_Subset
<1>2. IsFiniteSet(T) /\ Cardinality(T) <= Cardinality(S)
  BY <1>1, FS_Subset
<1> QED  BY <1>1, <1>2, FS_CardinalityType

\* One more cp_id is counted as one more.
LEMMA CountingOneMore ==
    ASSUME NEW S \in SUBSET CpId, NEW cp \in CpId, cp \notin S
    PROVE  Cardinality(S \union {cp}) = Cardinality(S) + 1
  BY Counting, FS_AddElement

-----------------------------------------------------------------------------
(* Types *)

\* The initial states satisfy the inductive invariant.
LEMMA RegInitInv == RegInit => RegInv
<1> SUFFICES ASSUME RegInit PROVE RegInv
  OBVIOUS
<1>1. RegTypeOK
  BY DEF RegInit, RegTypeOK, Step
<1>2. CountHolds /\ BelowQuota
  BY DEF RegInit, CountHolds, BelowQuota, Counted
<1>3. ASSUME NEW o \in Tenant PROVE Cardinality(Owned(o) \ hasty) <= Quota[o]
  <2>1. Owned(o) \ hasty = {}
    BY DEF RegInit, Owned
  <2>2. Cardinality({}) = 0
    BY FS_EmptySet
  <2>3. Cardinality(Owned(o) \ hasty) = 0
    BY <2>1, <2>2, Zenon
  <2> QED  BY <2>3
<1> QED  BY <1>1, <1>2, <1>3 DEF RegInv, SoberRowsKept

\* What a call does on its own tables keeps the types.
LEMMA ReturnTypes ==
    ASSUME RegTypeOK, NEW c \in Call, Return(c), UNCHANGED <<owner, hasty>>
    PROVE  RegTypeOK'
  BY DEF RegTypeOK, Return, Goto, Step

LEMMA ServeTypes ==
    ASSUME RegTypeOK, NEW c \in Call, Serve(c)
    PROVE  RegTypeOK'
<1> USE DEF RegTypeOK, Goto, Step
<1>1. ASSUME NEW o \in Tenant, NEW cp \in CpId, Create(c, o, cp) PROVE RegTypeOK'
  BY <1>1 DEF Create
<1>2. ASSUME NEW o \in Tenant, NEW list \in Import, StartImport(c, o, list) PROVE RegTypeOK'
  BY <1>2 DEF StartImport
<1>3. ASSUME CreateExists(c) PROVE RegTypeOK'
  BY <1>3, ReturnTypes DEF CreateExists
<1>4. Cardinality(Owned(org[c])) \in Nat
  BY Counting DEF Owned
<1>5. ASSUME CreateCount(c) PROVE RegTypeOK'
  BY <1>4, <1>5, ReturnTypes DEF CreateCount, CountRows
<1>6. ASSUME CreateInsert(c) PROVE RegTypeOK'
  BY <1>6 DEF CreateInsert, InsertRow, Overtaken
<1>7. ASSUME ImportCount(c) PROVE RegTypeOK'
  BY <1>4, <1>7 DEF ImportCount, CountRows
<1>8. ASSUME ImportRow(c) PROVE RegTypeOK'
  <2>1. CASE used[c] >= Quota[org[c]] \/ owner[Head(rows[c])] # NoTenant
    <3>1. rows[c] \in Seq(CpId) /\ rows[c] # <<>>
      BY <1>8 DEF ImportRow
    <3>2. Tail(rows[c]) \in Seq(CpId)
      BY <3>1
    <3>3. /\ rows' = [rows EXCEPT ![c] = Tail(rows[c])]
          /\ step' = step /\ step[c] = "row"
          /\ UNCHANGED <<owner, org, used, outrun, hasty>>
      BY <1>8, <2>1 DEF ImportRow
    <3> QED  BY <3>2, <3>3
  <2>2. CASE ~(used[c] >= Quota[org[c]] \/ owner[Head(rows[c])] # NoTenant)
    <3>1. org[c] \in Tenant /\ used[c] \in Nat
      BY <1>8 DEF ImportRow
    <3>2. used[c] < Quota[org[c]]
      BY <2>2, <3>1
    <3> QED  BY <1>8, <2>2, <3>2 DEF ImportRow
  <2> QED  BY <2>1, <2>2
<1>9. ASSUME ImportInsert(c) PROVE RegTypeOK'
  BY <1>9 DEF ImportInsert, InsertRow, Overtaken
<1>10. ASSUME ImportInsertFails(c) PROVE RegTypeOK'
  BY <1>10 DEF ImportInsertFails
<1>11. ASSUME ImportEnds(c) \/ CallFails(c) PROVE RegTypeOK'
  BY <1>11, ReturnTypes DEF ImportEnds, CallFails
<1> QED
  BY <1>1, <1>2, <1>3, <1>5, <1>6, <1>7, <1>8, <1>9, <1>10, <1>11 DEF Serve

\* Every step keeps the types.
LEMMA RegTypeStep == RegTypeOK /\ [RegNext]_regVars => RegTypeOK'
<1> SUFFICES ASSUME RegTypeOK, [RegNext]_regVars PROVE RegTypeOK'
  OBVIOUS
<1>1. ASSUME NEW cp \in CpId, DeleteRow(cp) PROVE RegTypeOK'
  BY <1>1 DEF DeleteRow, RegTypeOK, callVars
<1>2. CASE UNCHANGED regVars
  BY <1>2 DEF regVars, callVars, RegTypeOK
<1> QED  BY <1>1, <1>2, ServeTypes DEF RegNext

-----------------------------------------------------------------------------
(* Counting *)

\* A row is inserted for one organisation; only an overtaken call can bring
\* the rows that count against the quota above it.
LEMMA InsertEffect ==
    ASSUME RegInv, NEW c \in Call, step[c] \in {"insert", "importInsert"},
           NEW cp \in CpId, InsertRow(c, cp)
    PROVE  /\ \A o \in Tenant : o # org[c] => Owned(o)' = Owned(o)
           /\ \A o \in Tenant :
                o = org[c] => Cardinality(Owned(o)') = Cardinality(Owned(o)) + 1
           /\ SoberRowsKept'
<1> DEFINE mine == Owned(org[c])
<1>1. org[c] \in Tenant /\ used[c] \in Nat
  BY DEF RegInv, RegTypeOK
<1>2. \A o \in Tenant : Owned(o)' = IF o = org[c] THEN Owned(o) \union {cp} ELSE Owned(o)
  BY <1>1 DEF InsertRow, Owned, RegInv, RegTypeOK
<1>3. cp \notin mine /\ mine \in SUBSET CpId
  BY <1>1 DEF InsertRow, Owned
<1>4. Cardinality(mine \union {cp}) = Cardinality(mine) + 1
  BY <1>3, CountingOneMore
<1>5. ASSUME NEW o \in Tenant PROVE Cardinality(Owned(o)' \ hasty') <= Quota[o]
  <2>1. Cardinality(Owned(o) \ hasty) <= Quota[o]
    BY DEF RegInv, SoberRowsKept
  <2>2. Owned(o) \in SUBSET CpId
    BY DEF Owned
  <2>3. CASE c \in outrun \/ o # org[c]
    <3>1. Owned(o)' \ hasty' \in SUBSET (Owned(o) \ hasty)
      BY <1>2, <2>3 DEF InsertRow
    <3>2. Cardinality(Owned(o)' \ hasty') <= Cardinality(Owned(o) \ hasty)
      BY <2>2, <3>1, Counting
    <3>3. Cardinality(Owned(o)' \ hasty') \in Nat /\ Cardinality(Owned(o) \ hasty) \in Nat
      BY <2>2, <3>1, Counting
    <3> QED  BY <2>1, <3>2, <3>3
  <2>4. CASE c \notin outrun /\ o = org[c]
    <3>1. Cardinality(mine) <= used[c] /\ used[c] < Quota[o]
      BY <2>4 DEF RegInv, CountHolds, BelowQuota, Counted
    <3>2. Owned(o)' \ hasty' \in SUBSET (mine \union {cp})
      BY <1>2, <2>4 DEF InsertRow
    <3>3. mine \union {cp} \in SUBSET CpId
      BY <1>3
    <3>4. /\ Cardinality(Owned(o)' \ hasty') <= Cardinality(mine \union {cp})
          /\ Cardinality(Owned(o)' \ hasty') \in Nat
      BY <3>2, <3>3, Counting
    <3>5. Cardinality(mine) \in Nat
      BY <1>3, Counting
    <3>6. Cardinality(Owned(o)' \ hasty') <= used[c] + 1 /\ used[c] + 1 <= Quota[o]
      BY <1>1, <1>4, <3>1, <3>4, <3>5
    <3> QED  BY <1>1, <3>4, <3>6
  <2> QED  BY <2>3, <2>4
<1> QED  BY <1>1, <1>2, <1>4, <1>5 DEF SoberRowsKept, mine

\* A step of one call leaves the variables of the others alone.
LEMMA OthersUntouched ==
    ASSUME RegTypeOK, NEW c \in Call, Serve(c), NEW d \in Call, d # c
    PROVE  step'[d] = step[d] /\ org'[d] = org[d] /\ used'[d] = used[d]
  BY DEF Serve, Create, StartImport, CreateExists, CreateCount, CreateInsert,
         ImportCount, ImportRow, ImportInsert, ImportInsertFails, ImportEnds, CallFails,
         Return, Goto, CountRows, RegTypeOK

\* A step that inserts no row and takes no count keeps the counts.
LEMMA QuietCounts ==
    ASSUME RegInv, NEW c \in Call, Serve(c), UNCHANGED owner, outrun \ {c} \subseteq outrun',
           step'[c] \in Counted =>
               /\ step[c] \in Counted /\ outrun \subseteq outrun'
               /\ UNCHANGED <<org, used>>,
           NEW d \in Call, step'[d] \in Counted, d \notin outrun'
    PROVE  Cardinality(Owned(org[d])') <= used'[d]
<1>1. step[d] \in Counted /\ org'[d] = org[d] /\ used'[d] = used[d] /\ d \notin outrun
  <2>1. CASE d = c
    BY <2>1
  <2>2. CASE d # c
    BY <2>2, OthersUntouched DEF RegInv
  <2> QED  BY <2>1, <2>2
<1>2. Cardinality(Owned(org[d])) <= used[d]
  BY <1>1 DEF RegInv, CountHolds
<1>3. Owned(org[d])' = Owned(org[d])
  BY <1>1 DEF Owned
<1> QED  BY <1>1, <1>2, <1>3

\* A step that inserts a row of an organisation marks the others that have
\* counted its rows.
LEMMA InsertCounts ==
    ASSUME RegInv, NEW c \in Call, Serve(c), step[c] \in {"insert", "importInsert"},
           NEW cp \in CpId, InsertRow(c, cp), Overtaken(c) \ {c} \subseteq outrun',
           NEW d \in Call, d # c, step'[d] \in Counted, d \notin outrun'
    PROVE  Cardinality(Owned(org[d])') <= used'[d]
<1>1. step[d] \in Counted /\ org'[d] = org[d] /\ used'[d] = used[d]
  BY OthersUntouched DEF RegInv
<1>2. d \notin outrun /\ org[d] # org[c]
  BY <1>1 DEF Overtaken
<1>3. org[d] \in Tenant
  BY <1>1 DEF RegInv, RegTypeOK, Counted
<1>4. Owned(org[d])' = Owned(org[d])
  BY <1>1, <1>2, <1>3 DEF InsertRow, Owned, RegInv, RegTypeOK
<1>5. Cardinality(Owned(org[d])) <= used[d]
  BY <1>1, <1>2 DEF RegInv, CountHolds
<1> QED  BY <1>1, <1>4, <1>5

\* A count outlives what other calls do to the rows, or its call is marked.
LEMMA CountStep == RegInv /\ [RegNext]_regVars => CountHolds'
<1> SUFFICES ASSUME RegInv, [RegNext]_regVars, NEW d \in Call,
                    step'[d] \in Counted, d \notin outrun'
             PROVE  Cardinality(Owned(org[d])') <= used'[d]
  BY DEF CountHolds
<1> USE DEF Counted
<1>1. ASSUME NEW c \in Call, Serve(c) PROVE Cardinality(Owned(org[d])') <= used'[d]
  <2>1. \A cp \in CpId, o \in Tenant : Create(c, o, cp) => Cardinality(Owned(org[d])') <= used'[d]
    <3> SUFFICES ASSUME NEW cp \in CpId, NEW o \in Tenant, Create(c, o, cp)
                 PROVE  Cardinality(Owned(org[d])') <= used'[d]
      OBVIOUS
    <3>1. UNCHANGED <<owner, outrun>> /\ step'[c] \notin Counted
      BY DEF Create, Goto, RegInv, RegTypeOK
    <3> QED  BY <1>1, <3>1, QuietCounts
  <2>2. \A list \in Import, o \in Tenant :
          StartImport(c, o, list) => Cardinality(Owned(org[d])') <= used'[d]
    <3> SUFFICES ASSUME NEW list \in Import, NEW o \in Tenant, StartImport(c, o, list)
                 PROVE  Cardinality(Owned(org[d])') <= used'[d]
      OBVIOUS
    <3>1. UNCHANGED <<owner, outrun>> /\ step'[c] \notin Counted
      BY DEF StartImport, Goto, RegInv, RegTypeOK
    <3> QED  BY <1>1, <3>1, QuietCounts
  <2>3. ASSUME Return(c), UNCHANGED owner PROVE Cardinality(Owned(org[d])') <= used'[d]
    <3>1. step'[c] \notin Counted /\ outrun' = outrun \ {c}
      BY <2>3 DEF Return, Goto, RegInv, RegTypeOK
    <3> QED  BY <1>1, <2>3, <3>1, QuietCounts
  <2>4. CASE CreateExists(c)
    <3>1. CASE owner[rows[c][1]] # NoTenant
      BY <2>3, <2>4, <3>1 DEF CreateExists
    <3>2. CASE owner[rows[c][1]] = NoTenant
      <4>1. UNCHANGED <<owner, outrun>> /\ step'[c] \notin Counted
        BY <2>4, <3>2 DEF CreateExists, Goto, RegInv, RegTypeOK
      <4> QED  BY <1>1, <4>1, QuietCounts
    <3> QED  BY <3>1, <3>2
  <2>5. ASSUME CountRows(c), UNCHANGED <<owner, org>>
        PROVE  Cardinality(Owned(org[d])') <= used'[d]
    <3>1. CASE d = c
      <4>1. Owned(org[d])' = Owned(org[c])
        BY <2>5, <3>1 DEF Owned
      <4>2. used'[d] = Cardinality(Owned(org[c]))
        BY <2>5, <3>1 DEF CountRows, RegInv, RegTypeOK
      <4>3. Cardinality(Owned(org[c])) \in Nat
        BY Counting DEF Owned
      <4> QED  BY <4>1, <4>2, <4>3
    <3>2. CASE d # c
      <4>1. step[d] \in Counted /\ org'[d] = org[d] /\ used'[d] = used[d]
        BY <1>1, <3>2, OthersUntouched DEF RegInv
      <4>2. d \notin outrun
        BY <2>5, <3>2 DEF CountRows
      <4>3. Cardinality(Owned(org[d])) <= used[d]
        BY <4>1, <4>2 DEF RegInv, CountHolds
      <4>4. Owned(org[d])' = Owned(org[d])
        BY <2>5 DEF Owned
      <4> QED  BY <4>1, <4>3, <4>4
    <3> QED  BY <3>1, <3>2
  <2>6. CASE CreateCount(c)
    BY <2>3, <2>5, <2>6 DEF CreateCount
  <2>7. CASE CreateInsert(c)
    <3>1. rows[c][1] \in CpId
      BY <2>7 DEF CreateInsert, RegInv, RegTypeOK
    <3>2. step'[c] = "idle"
      BY <2>7 DEF CreateInsert, Goto, RegInv, RegTypeOK
    <3>3. /\ step[c] = "insert" /\ InsertRow(c, rows[c][1])
          /\ outrun' = Overtaken(c) \ {c}
      BY <2>7 DEF CreateInsert
    <3> QED  BY <1>1, <3>1, <3>2, <3>3, InsertCounts
  <2>8. CASE ImportCount(c)
    BY <2>5, <2>8 DEF ImportCount
  <2>9. CASE ImportRow(c) \/ ImportInsertFails(c)
    <3>1. step[c] \in Counted /\ UNCHANGED <<owner, org, used, outrun>>
      BY <2>9 DEF ImportRow, ImportInsertFails
    <3> QED  BY <1>1, <3>1, QuietCounts
  <2>10. CASE ImportInsert(c)
    <3>1. Head(rows[c]) \in CpId
      BY <2>10 DEF ImportInsert, RegInv, RegTypeOK
    <3>2. /\ step[c] = "importInsert" /\ InsertRow(c, Head(rows[c]))
          /\ outrun' = Overtaken(c) /\ UNCHANGED org
          /\ used' = [used EXCEPT ![c] = @ + 1]
      BY <2>10 DEF ImportInsert
    <3>3. CASE d = c
      <4>1. org[c] \in Tenant /\ used[c] \in Nat /\ used'[c] = used[c] + 1
        BY <3>2 DEF RegInv, RegTypeOK
      <4>2. Cardinality(Owned(org[c])) <= used[c]
        BY <3>2, <3>3 DEF RegInv, CountHolds, Overtaken
      <4>3. Owned(org[d])' = Owned(org[c]) \union {Head(rows[c])}
        BY <3>1, <3>2, <3>3, <4>1 DEF InsertRow, Owned, RegInv, RegTypeOK
      <4>4. Head(rows[c]) \notin Owned(org[c]) /\ Owned(org[c]) \in SUBSET CpId
        BY <3>2, <4>1 DEF InsertRow, Owned
      <4>5. /\ Cardinality(Owned(org[c]) \union {Head(rows[c])}) = Cardinality(Owned(org[c])) + 1
            /\ Cardinality(Owned(org[c])) \in Nat
        BY <3>1, <4>4, Counting, CountingOneMore
      <4> QED  BY <3>3, <4>1, <4>2, <4>3, <4>5
    <3>4. CASE d # c
      BY <1>1, <3>1, <3>2, <3>4, InsertCounts
    <3> QED  BY <3>3, <3>4
  <2>11. CASE ImportEnds(c) \/ CallFails(c)
    BY <2>3, <2>11 DEF ImportEnds, CallFails
  <2> QED
    BY <1>1, <2>1, <2>2, <2>4, <2>6, <2>7, <2>8, <2>9, <2>10, <2>11 DEF Serve
<1>2. ASSUME NEW cp \in CpId, DeleteRow(cp) PROVE Cardinality(Owned(org[d])') <= used'[d]
  <2>1. UNCHANGED <<step, org, used, outrun>>
    BY <1>2 DEF DeleteRow, callVars
  <2>2. Cardinality(Owned(org[d])) <= used[d] /\ used[d] \in Nat /\ org[d] \in Tenant
    BY <2>1 DEF RegInv, CountHolds, RegTypeOK
  <2>3. Owned(org[d])' \in SUBSET Owned(org[d]) /\ Owned(org[d]) \in SUBSET CpId
    BY <1>2, <2>1, <2>2 DEF DeleteRow, Owned, RegInv, RegTypeOK
  <2>4. /\ Cardinality(Owned(org[d])') <= Cardinality(Owned(org[d]))
        /\ Cardinality(Owned(org[d])) \in Nat /\ Cardinality(Owned(org[d])') \in Nat
    BY <2>3, Counting
  <2> QED  BY <2>1, <2>2, <2>4
<1>3. CASE UNCHANGED regVars
  <2>1. Owned(org[d])' = Owned(org[d]) /\ UNCHANGED <<step, used, outrun>>
    BY <1>3 DEF regVars, callVars, Owned
  <2> QED  BY <2>1 DEF RegInv, CountHolds
<1> QED  BY <1>1, <1>2, <1>3 DEF RegNext

\* What was compared with the quota stays, and an import compares each row.
LEMMA BelowStep == RegInv /\ [RegNext]_regVars => BelowQuota'
<1> SUFFICES ASSUME RegInv, [RegNext]_regVars, NEW d \in Call,
                    step'[d] \in {"insert", "importInsert"}
             PROVE  used'[d] < Quota[org'[d]]
  BY DEF BelowQuota
<1>1. ASSUME NEW c \in Call, Serve(c) PROVE used'[d] < Quota[org'[d]]
  <2>1. CASE d # c
    <3>1. step'[d] = step[d] /\ org'[d] = org[d] /\ used'[d] = used[d]
      BY <1>1, <2>1, OthersUntouched DEF RegInv
    <3> QED  BY <3>1 DEF RegInv, BelowQuota
  <2>2. CASE d = c /\ CreateCount(c)
    <3>1. /\ ~(Cardinality(Owned(org[c])) >= Quota[org[c]])
          /\ used' = [used EXCEPT ![c] = Cardinality(Owned(org[c]))] /\ UNCHANGED org
      BY <2>2 DEF CreateCount, CountRows, Return, Goto, RegInv, RegTypeOK
    <3>2. Cardinality(Owned(org[c])) \in Nat /\ Quota[org[c]] \in Nat
      BY <2>2, Counting DEF CreateCount, Owned, RegInv, RegTypeOK
    <3>3. used'[c] = Cardinality(Owned(org[c]))
      BY <3>1 DEF RegInv, RegTypeOK
    <3> QED  BY <2>2, <3>1, <3>2, <3>3
  <2>3. CASE d = c /\ ImportRow(c)
    <3>1. /\ step[c] = "row" /\ UNCHANGED <<org, used>>
          /\ ~(used[c] >= Quota[org[c]])
      BY <2>3 DEF ImportRow, RegInv, RegTypeOK
    <3>2. used[c] \in Nat /\ Quota[org[c]] \in Nat
      BY <3>1 DEF RegInv, RegTypeOK
    <3> QED  BY <2>3, <3>1, <3>2
  <2>4. ASSUME d = c PROVE CreateCount(c) \/ ImportRow(c)
    BY <1>1, <2>4 DEF Serve, Create, StartImport, CreateExists, CreateInsert, ImportCount,
       ImportInsert, ImportInsertFails, ImportEnds, CallFails, Return, Goto, RegInv, RegTypeOK
  <2> QED  BY <2>1, <2>2, <2>3, <2>4
<1>2. ASSUME (\E cp \in CpId : DeleteRow(cp)) \/ UNCHANGED regVars
      PROVE  used'[d] < Quota[org'[d]]
  BY <1>2 DEF DeleteRow, regVars, callVars, RegInv, BelowQuota
<1> QED  BY <1>1, <1>2 DEF RegNext

\* A part of the rows that were within the quota is within the quota.
LEMMA FewerSoberRows ==
    ASSUME RegInv, \A o \in Tenant : (Owned(o) \ hasty)' \subseteq Owned(o) \ hasty
    PROVE  SoberRowsKept'
<1> SUFFICES ASSUME NEW o \in Tenant PROVE Cardinality((Owned(o) \ hasty)') <= Quota[o]
  BY DEF SoberRowsKept
<1>1. Owned(o) \ hasty \in SUBSET CpId /\ (Owned(o) \ hasty)' \in SUBSET (Owned(o) \ hasty)
  BY DEF Owned
<1>2. /\ Cardinality((Owned(o) \ hasty)') <= Cardinality(Owned(o) \ hasty)
      /\ Cardinality(Owned(o) \ hasty) \in Nat /\ Cardinality((Owned(o) \ hasty)') \in Nat
  BY <1>1, Counting
<1>3. Cardinality(Owned(o) \ hasty) <= Quota[o]
  BY DEF RegInv, SoberRowsKept
<1> QED  BY <1>2, <1>3

\* Every step keeps the rows of calls that were not overtaken within the quota.
LEMMA SoberStep == RegInv /\ [RegNext]_regVars => SoberRowsKept'
<1> SUFFICES ASSUME RegInv, [RegNext]_regVars PROVE SoberRowsKept'
  OBVIOUS
<1>1. CASE UNCHANGED <<owner, hasty>>
  BY <1>1, FewerSoberRows DEF Owned
<1>2. ASSUME NEW cp \in CpId, DeleteRow(cp) PROVE SoberRowsKept'
  <2>1. \A o \in Tenant : (Owned(o) \ hasty)' \subseteq Owned(o) \ hasty
    BY <1>2 DEF DeleteRow, Owned, RegInv, RegTypeOK
  <2> QED  BY <2>1, FewerSoberRows
<1>3. ASSUME NEW c \in Call, CreateInsert(c) PROVE SoberRowsKept'
  <2>1. /\ rows[c][1] \in CpId /\ step[c] = "insert"
        /\ InsertRow(c, rows[c][1])
    BY <1>3 DEF CreateInsert, RegInv, RegTypeOK
  <2> QED  BY <2>1, InsertEffect
<1>4. ASSUME NEW c \in Call, ImportInsert(c) PROVE SoberRowsKept'
  <2>1. /\ Head(rows[c]) \in CpId /\ step[c] = "importInsert"
        /\ InsertRow(c, Head(rows[c]))
    BY <1>4 DEF ImportInsert, RegInv, RegTypeOK
  <2> QED  BY <2>1, InsertEffect
<1>5. ASSUME NEW c \in Call, Serve(c), ~CreateInsert(c), ~ImportInsert(c)
      PROVE  UNCHANGED <<owner, hasty>>
  BY <1>5 DEF Serve, Create, StartImport, CreateExists, CreateCount, ImportCount,
     ImportRow, ImportInsertFails, ImportEnds, CallFails, CountRows
<1>6. CASE UNCHANGED regVars
  BY <1>1, <1>6 DEF regVars
<1> QED  BY <1>1, <1>2, <1>3, <1>4, <1>5, <1>6 DEF RegNext

-----------------------------------------------------------------------------
(* Results *)

\* The inductive invariant holds in every reachable state.
THEOREM RegInvariant == RegSpec => []RegInv
<1>1. RegInv /\ [RegNext]_regVars => RegInv'
  BY RegTypeStep, CountStep, BelowStep, SoberStep DEF RegInv
<1> QED  BY <1>1, RegInitInv, PTL DEF RegSpec

\* The types of the calls and rows, whatever requests overlap.
THEOREM RegTypeCorrect == RegSpec => []RegTypeOK
<1>1. RegInv => RegTypeOK
  BY DEF RegInv
<1> QED  BY <1>1, RegInvariant, PTL

\* An organisation exceeds its quota only by rows of overtaken calls, for any
\* number of concurrent creations, imports and deletions.
THEOREM QuotaCorrect == RegSpec => []QuotaKept
<1>1. ASSUME RegInv PROVE QuotaKept
  <2> SUFFICES ASSUME NEW o \in Tenant
               PROVE  Cardinality(Owned(o))
                        <= Quota[o] + Cardinality(Owned(o) \intersect hasty)
    BY DEF QuotaKept
  <2>1. Owned(o) \in SUBSET CpId
    BY DEF Owned
  <2>2. IsFiniteSet(Owned(o)) /\ Cardinality(Owned(o)) \in Nat
    BY <2>1, Counting
  <2>3. Cardinality(Owned(o) \ hasty)
          = Cardinality(Owned(o)) - Cardinality(Owned(o) \intersect hasty)
    BY <2>2, FS_Difference
  <2>4. Cardinality(Owned(o) \intersect hasty) \in Nat
    <3>1. Owned(o) \intersect hasty \in SUBSET Owned(o)
      OBVIOUS
    <3> QED  BY <2>1, <3>1, Counting
  <2>5. Cardinality(Owned(o) \ hasty) <= Quota[o]
    BY <1>1 DEF RegInv, SoberRowsKept
  <2> QED  BY <2>2, <2>3, <2>4, <2>5
<1>2. RegInv => QuotaKept
  BY <1>1
<1> QED  BY <1>2, RegInvariant, PTL
=============================================================================
