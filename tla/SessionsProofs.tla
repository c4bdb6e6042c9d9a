--------------------------- MODULE SessionsProofs ---------------------------
(***************************************************************************)
(* Charging sessions for any chargers, transactions, connections, bound on *)
(* rows and modulus: the handlers implement SessionLedger, and while ids   *)
(* have not wrapped a session is closed by its own transaction.            *)
(***************************************************************************)
EXTENDS Sessions, FiniteSetTheorems, TLAPS

\* The charger of a connection in use and of a message being handled; the
\* charger knows the id of what it has started.
LinkInv ==
    /\ \A c \in Charger : link[c] # NoConn => CpOf[link[c]] = c
    /\ \A k \in Conn : pc[k] # "recv" => txn[k] \in Txn /\ TxCp[txn[k]] = CpOf[k]
    /\ \A k \in Conn : pc[k] \in {"update", "stopPublish"} => acked[txn[k]] \in TxId
    /\ \A x \in Txn : phase[x] \in {"running", "ending", "done"} => acked[x] \in TxId

TInv == SesTypeOK /\ LinkInv

USE SessionConstants DEF NoTx, TxId

\* A remainder is a transaction id.
LEMMA ModType == \A n \in Nat : n % Modulus \in 0 .. Modulus - 1
  OBVIOUS

\* Ids below the modulus are not truncated.
LEMMA ModSmall == \A n \in Nat : n < Modulus => n % Modulus = n
  OBVIOUS

\* Initially nothing is linked or under way.
LEMMA InitTInv == SesInit => TInv
  BY DEF SesInit, TInv, SesTypeOK, LinkInv, Phase, Pc, EmptyMap, Id

\* Every step keeps types and links.
LEMMA TStep == TInv /\ [SesNext]_sesVars => TInv'
<1> SUFFICES ASSUME TInv, [SesNext]_sesVars PROVE TInv'
  OBVIOUS
<1> USE DEF TInv, SesTypeOK, LinkInv, Phase, Pc, chargerVars, handlerVars
<1>1. ASSUME NEW k \in Conn, Connect(k) PROVE TInv'
  BY <1>1 DEF Connect, EmptyMap, Underway
<1>2. ASSUME NEW k \in Conn, NEW x \in Txn, Start(k, x) PROVE TInv'
  BY <1>2 DEF Start, Deliver
<1>3. ASSUME NEW k \in Conn, NEW x \in Txn, Stop(k, x) PROVE TInv'
  <2>1. txMap[k] \in [Txn -> TxId \union {NoTx}] /\ 0 \in TxId
    OBVIOUS
  <2>2. /\ txid' \in [Conn -> TxId \union {NoTx}] /\ txid'[k] \in TxId
        /\ txMap' \in [Conn -> [Txn -> TxId \union {NoTx}]]
    <3>1. CASE TxCp[x] \in V201
      <4>1. txid' = [txid EXCEPT ![k] = IF txMap[k][x] = NoTx THEN 0 ELSE txMap[k][x]]
        BY <1>3, <3>1 DEF Stop
      <4>2. txMap' = [txMap EXCEPT ![k][x] = NoTx]
        BY <1>3, <3>1 DEF Stop
      <4>3. txMap[k][x] # NoTx => txMap[k][x] \in TxId
        BY <2>1
      <4>4. txid' \in [Conn -> TxId \union {NoTx}] /\ txid'[k] \in TxId
        BY <2>1, <4>1, <4>3
      <4>5. txMap' \in [Conn -> [Txn -> TxId \union {NoTx}]]
        BY <2>1, <4>2
      <4> QED  BY <4>4, <4>5
    <3>2. CASE TxCp[x] \notin V201
      BY <1>3, <3>2 DEF Stop
    <3> QED  BY <3>1, <3>2
  <2>4. \A j \in Conn : j # k => txid'[j] = txid[j]
    BY <1>3 DEF Stop, Deliver
  <2> QED  BY <1>3, <2>2, <2>4 DEF Stop, Deliver
<1>4. ASSUME NEW k \in Conn, InsertSession(k) PROVE TInv'
  <2>1. lastId' = lastId + 1 /\ lastId' \in 0 .. MaxRows /\ lastId' % Modulus \in TxId
    BY <1>4, ModType DEF InsertSession
  <2>2. sessions' \in [Id -> Row \union {NoRow}]
    BY <1>4 DEF InsertSession, Row
  <2> QED  BY <1>4, <2>1, <2>2 DEF InsertSession
<1>5. ASSUME NEW k \in Conn, TouchCharger(k) PROVE TInv'
  <2>1. txMap' \in [Conn -> [Txn -> TxId \union {NoTx}]]
    BY <1>5 DEF TouchCharger
  <2> QED  BY <1>5, <2>1 DEF TouchCharger
<1>6. ASSUME NEW k \in Conn, UpdateSession(k) PROVE TInv'
  <2>1. sessions' \in [Id -> Row \union {NoRow}]
    BY <1>6 DEF UpdateSession, OpenRows, Row
  <2> QED  BY <1>6, <2>1 DEF UpdateSession
<1>7. ASSUME NEW k \in Conn, AnswerCharger(k) PROVE TInv'
  <2>1. txn[k] \in Txn /\ pc' = [pc EXCEPT ![k] = "recv"]
    BY <1>7 DEF AnswerCharger
  <2>2. acked' \in [Txn -> TxId \union {NoTx}]
    BY <1>7, <2>1 DEF AnswerCharger
  <2>3. \A x \in Txn : acked[x] \in TxId => acked'[x] \in TxId
    BY <1>7, <2>1 DEF AnswerCharger
  <2>4. \A x \in Txn : phase'[x] \in {"running", "ending", "done"} => acked'[x] \in TxId
    BY <1>7, <2>1, <2>3 DEF AnswerCharger
  <2>5. phase' \in [Txn -> Phase]
    BY <1>7, <2>1 DEF AnswerCharger
  <2> QED  BY <1>7, <2>1, <2>2, <2>3, <2>4, <2>5 DEF AnswerCharger
<1>8. ASSUME NEW k \in Conn, HandlerFails(k) PROVE TInv'
  BY <1>8 DEF HandlerFails
<1>9. ASSUME Crash PROVE TInv'
  BY <1>9 DEF Crash, EmptyMap, Underway
<1>10. CASE UNCHANGED sesVars
  BY <1>10 DEF sesVars
<1> QED
  BY <1>1, <1>2, <1>3, <1>4, <1>5, <1>6, <1>7, <1>8, <1>9, <1>10 DEF SesNext

\* Type correctness; in particular every transaction id fits the modulus.
THEOREM TypeCorrect == SesSpec => []SesTypeOK
<1>1. SesSpec => []TInv
  BY InitTInv, TStep, PTL DEF SesSpec
<1> QED  BY <1>1, PTL DEF TInv

\* Ids are drawn one at a time.
LEMMA LastIdStep == TInv /\ [SesNext]_sesVars => lastId' = lastId \/ lastId' = lastId + 1
<1> USE DEF chargerVars, handlerVars
<1>1. ASSUME NEW k \in Conn,
             \/ Connect(k) \/ TouchCharger(k) \/ UpdateSession(k)
             \/ AnswerCharger(k) \/ HandlerFails(k)
             \/ \E x \in Txn : Start(k, x) \/ Stop(k, x)
      PROVE  lastId' = lastId
  BY <1>1 DEF Connect, Start, Stop, Deliver, TouchCharger, UpdateSession, AnswerCharger,
              HandlerFails
<1>2. ASSUME NEW k \in Conn, InsertSession(k) PROVE lastId' = lastId + 1
  BY <1>2 DEF InsertSession
<1>3. Crash \/ UNCHANGED sesVars => lastId' = lastId
  BY DEF Crash, sesVars
<1> QED  BY <1>1, <1>2, <1>3 DEF SesNext

-----------------------------------------------------------------------------
\* Row t was inserted by a start of transaction x.
OwnRow(t, x) == t \in Id /\ sessions[t] # NoRow /\ sessions[t].txn = x

\* Until the ids wrap, every transaction id that a handler, a _tx_map or a
\* 1.6 charger holds for x is the id of a row of x; a 2.0.1 stop may also
\* carry 0, which is the id of no row.
OwnInv ==
    lastId < Modulus =>
        /\ \A i \in Id : sessions[i] # NoRow => i <= lastId
        /\ \A k \in Conn : pc[k] \in {"touch", "startPublish"} => OwnRow(txid[k], txn[k])
        /\ \A k \in Conn, x \in Txn : txMap[k][x] # NoTx => OwnRow(txMap[k][x], x)
        /\ \A x \in Txn : acked[x] # NoTx => OwnRow(acked[x], x)
        /\ \A k \in Conn : pc[k] = "update" => txid[k] = 0 \/ OwnRow(txid[k], txn[k])
        /\ \A i \in Id : sessions[i] # NoRow => sessions[i].by \in {NoTxn, sessions[i].txn}

\* Initially nobody knows an id.
LEMMA InitOwn == SesInit => OwnInv
  BY DEF SesInit, OwnInv, OwnRow, EmptyMap

\* Which row a stop with transaction id t finds, while ids have not wrapped.
LEMMA StopFindsOwn ==
    ASSUME TInv, OwnInv, lastId < Modulus, NEW k \in Conn, pc[k] = "update",
           NEW i \in Id, sessions[i] # NoRow, i % Modulus = txid[k]
    PROVE  i = txid[k] /\ sessions[i].txn = txn[k]
<1>1. i \in Nat /\ i < Modulus
  BY DEF OwnInv, TInv, SesTypeOK, Id
<1>2. i = txid[k]
  BY <1>1, ModSmall
<1>3. i # 0
  BY DEF Id
<1> QED  BY <1>2, <1>3 DEF OwnInv, OwnRow

\* Every step keeps who knows which id: a session is closed by its own.
LEMMA OwnStep == TInv /\ OwnInv /\ [SesNext]_sesVars => OwnInv'
<1> SUFFICES ASSUME TInv, OwnInv, [SesNext]_sesVars, lastId' < Modulus PROVE OwnInv'
  BY DEF OwnInv
<1>0. lastId < Modulus /\ TInv'
  <2>1. lastId' \in {lastId, lastId + 1}
    BY LastIdStep
  <2> QED  BY <2>1, TStep DEF TInv, SesTypeOK
<1> USE <1>0 DEF OwnInv, OwnRow, TInv, SesTypeOK, chargerVars, handlerVars
<1>1. ASSUME NEW k \in Conn, Connect(k) PROVE OwnInv'
  BY <1>1 DEF Connect, EmptyMap
<1>2. ASSUME NEW k \in Conn, NEW x \in Txn, Start(k, x) PROVE OwnInv'
  BY <1>2 DEF Start, Deliver
<1>3. ASSUME NEW k \in Conn, NEW x \in Txn, Stop(k, x) PROVE OwnInv'
  <2>1. UNCHANGED <<sessions, lastId, acked>> /\ txn' = [txn EXCEPT ![k] = x]
        /\ pc' = [pc EXCEPT ![k] = "update"]
    BY <1>3 DEF Stop, Deliver
  <2>2. \A j \in Conn : j # k => txid'[j] = txid[j]
    BY <1>3 DEF Stop
  <2>3. /\ txid'[k] = 0 \/ OwnRow(txid'[k], x)
        /\ \A j \in Conn, y \in Txn : txMap'[j][y] \in {NoTx, txMap[j][y]}
    <3>1. CASE TxCp[x] \in V201
      <4>1. txid'[k] = IF txMap[k][x] = NoTx THEN 0 ELSE txMap[k][x]
        BY <1>3, <3>1 DEF Stop
      <4>2. txMap' = [txMap EXCEPT ![k][x] = NoTx]
        BY <1>3, <3>1 DEF Stop
      <4>3. txMap[k][x] # NoTx => OwnRow(txMap[k][x], x)
        OBVIOUS
      <4>4. txid'[k] = 0 \/ OwnRow(txid'[k], x)
        BY <4>1, <4>3
      <4>5. \A j \in Conn, y \in Txn : txMap'[j][y] \in {NoTx, txMap[j][y]}
        BY <4>2
      <4> QED  BY <4>4, <4>5
    <3>2. CASE TxCp[x] \notin V201
      <4>1. txid'[k] = acked[x] /\ txMap' = txMap
        BY <1>3, <3>2 DEF Stop
      <4>2. acked[x] # NoTx
        BY <1>3 DEF Stop, LinkInv
      <4> QED  BY <4>1, <4>2
    <3> QED  BY <3>1, <3>2
  <2> QED  BY <2>1, <2>2, <2>3
<1>4. ASSUME NEW k \in Conn, InsertSession(k) PROVE OwnInv'
  <2>1. /\ lastId + 1 \in Id /\ lastId' = lastId + 1
        /\ sessions' = [sessions EXCEPT ![lastId + 1] = [txn |-> txn[k], by |-> NoTxn]]
        /\ txid' = [txid EXCEPT ![k] = (lastId + 1) % Modulus]
        /\ pc' = [pc EXCEPT ![k] = "touch"]
        /\ UNCHANGED <<acked, txn, txMap>>
    BY <1>4 DEF InsertSession, Id
  <2>2. (lastId + 1) % Modulus = lastId + 1
    BY <2>1, ModSmall
  <2>3. [txn |-> txn[k], by |-> NoTxn] # NoRow
    BY <1>4 DEF InsertSession, LinkInv, Row
  <2>4. \A i \in Id : sessions[i] # NoRow => sessions'[i] = sessions[i]
    BY <2>1 DEF Id
  <2>5. sessions'[lastId + 1] # NoRow /\ sessions'[lastId + 1].txn = txn[k]
    BY <2>1, <2>3
  <2>6. \A i \in Id : sessions'[i] # NoRow =>
            i <= lastId' /\ sessions'[i].by \in {NoTxn, sessions'[i].txn}
    BY <2>1, <2>4 DEF Id
  <2>7. \A t, x : OwnRow(t, x) => OwnRow(t, x)'
    BY <2>4
  <2> QED  BY <2>1, <2>2, <2>5, <2>6, <2>7
<1>5. ASSUME NEW k \in Conn, TouchCharger(k) PROVE OwnInv'
  <2>1. /\ UNCHANGED <<sessions, lastId, acked, txn, txid>>
        /\ pc' = [pc EXCEPT ![k] = "startPublish"]
        /\ OwnRow(txid[k], txn[k])
    BY <1>5 DEF TouchCharger
  <2>2. \A j \in Conn, y \in Txn :
          txMap'[j][y] # txMap[j][y] => j = k /\ y = txn[k] /\ txMap'[j][y] = txid[k]
    BY <1>5 DEF TouchCharger, LinkInv
  <2> QED  BY <2>1, <2>2, <1>5 DEF TouchCharger
<1>6. ASSUME NEW k \in Conn, UpdateSession(k) PROVE OwnInv'
  <2> DEFINE S == {i \in OpenRows(CpOf[k]) : i % Modulus = txid[k]}
  <2>1. /\ sessions' = [i \in Id |-> IF i \in S THEN [sessions[i] EXCEPT !.by = txn[k]]
                                                ELSE sessions[i]]
        /\ pc' = [pc EXCEPT ![k] = "stopPublish"]
        /\ UNCHANGED <<lastId, acked, txn, txid, txMap>>
    BY <1>6 DEF UpdateSession
  <2>2. \A i \in S : i \in Id /\ sessions[i] # NoRow /\ sessions[i].txn = txn[k]
    BY <1>6, StopFindsOwn DEF UpdateSession, OpenRows
  <2>3. \A i \in S : sessions'[i] = [txn |-> sessions[i].txn, by |-> txn[k]]
    BY <2>1, <2>2 DEF Row
  <2>4. \A i \in Id : i \notin S => sessions'[i] = sessions[i]
    BY <2>1
  <2>5. txn[k] \in Txn
    BY <1>6 DEF UpdateSession, LinkInv
  <2>6. \A i \in S : sessions'[i] # NoRow /\ sessions'[i].txn = sessions[i].txn
                     /\ sessions'[i].by = sessions'[i].txn
    <3> SUFFICES ASSUME NEW i \in S
                 PROVE  /\ sessions'[i] # NoRow /\ sessions'[i].txn = sessions[i].txn
                        /\ sessions'[i].by = sessions'[i].txn
      OBVIOUS
    <3>1. sessions'[i] = [txn |-> txn[k], by |-> txn[k]] /\ sessions[i].txn = txn[k]
      BY <2>2, <2>3
    <3>2. [txn |-> txn[k], by |-> txn[k]] \in Row
      BY <2>5 DEF Row
    <3> QED  BY <3>1, <3>2
  <2>7. \A t, x : OwnRow(t, x) => OwnRow(t, x)'
    BY <2>4, <2>6
  <2>8. \A i \in Id : sessions'[i] # NoRow =>
            sessions[i] # NoRow /\ sessions'[i].by \in {NoTxn, sessions'[i].txn}
    BY <2>2, <2>4, <2>6
  <2> HIDE DEF S
  <2> QED  BY <2>1, <2>7, <2>8
<1>7. ASSUME NEW k \in Conn, AnswerCharger(k) PROVE OwnInv'
  <2>1. txn[k] \in Txn
    BY <1>7 DEF AnswerCharger, LinkInv
  <2>2. \A x \in Txn : acked'[x] # acked[x] => OwnRow(acked'[x], x)
    BY <1>7, <2>1 DEF AnswerCharger
  <2> QED  BY <1>7, <2>1, <2>2 DEF AnswerCharger
<1>8. ASSUME NEW k \in Conn, HandlerFails(k) PROVE OwnInv'
  BY <1>8 DEF HandlerFails
<1>9. ASSUME Crash PROVE OwnInv'
  BY <1>9 DEF Crash, EmptyMap
<1>10. CASE UNCHANGED sesVars
  BY <1>10 DEF sesVars
<1> QED
  BY <1>1, <1>2, <1>3, <1>4, <1>5, <1>6, <1>7, <1>8, <1>9, <1>10 DEF SesNext

\* Until the ids wrap, a session is closed by the stop of the transaction
\* that opened it.
THEOREM ClosedByOwn == SesSpec => []ClosedByItsOwn
<1>1. SesInit => TInv /\ OwnInv
  BY InitTInv, InitOwn
<1>2. TInv /\ OwnInv /\ [SesNext]_sesVars => (TInv /\ OwnInv)'
  BY TStep, OwnStep
<1>3. OwnInv => ClosedByItsOwn
  BY DEF OwnInv, ClosedByItsOwn
<1> QED  BY <1>1, <1>2, <1>3, PTL DEF SesSpec

-----------------------------------------------------------------------------
\* Transaction x started a session that goes by t.
Started(x, t) == \E j \in Id : sessions[j] # NoRow /\ sessions[j].txn = x /\ j % Modulus = t

\* Also when ids wrap: every transaction id that a handler, a _tx_map or a 1.6
\* charger holds for x is that of a session x started; only a 2.0.1 stop may
\* carry 0 in its place.
CarryInv ==
    /\ \A i \in Id : sessions[i] # NoRow => i <= lastId
    /\ \A k \in Conn : pc[k] \in {"touch", "startPublish"} => Started(txn[k], txid[k])
    /\ \A k \in Conn, x \in Txn : txMap[k][x] # NoTx => Started(x, txMap[k][x])
    /\ \A x \in Txn : acked[x] # NoTx => Started(x, acked[x])
    /\ \A k \in Conn : pc[k] = "update" =>
         \/ Started(txn[k], txid[k])
         \/ CpOf[k] \in V201 /\ txid[k] = 0

\* Initially nobody holds an id.
LEMMA InitCarry == SesInit => CarryInv
  BY DEF SesInit, CarryInv, EmptyMap

\* Sessions are never deleted nor given to another transaction.
LEMMA StartedStays ==
  ASSUME TInv, CarryInv, [SesNext]_sesVars
  PROVE  /\ \A x, t : Started(x, t) => Started(x, t)'
         /\ \A i \in Id : sessions'[i] # NoRow => i <= lastId'
<1> USE DEF chargerVars, handlerVars, TInv, SesTypeOK
<1>1. CASE UNCHANGED <<sessions, lastId>>
  BY <1>1 DEF Started, CarryInv
<1>2. ASSUME NEW k \in Conn, InsertSession(k)
      PROVE  /\ \A i \in Id : sessions[i] # NoRow => sessions'[i] = sessions[i]
             /\ \A i \in Id : sessions'[i] # NoRow => i <= lastId'
  BY <1>2 DEF InsertSession, CarryInv, Id
<1>3. ASSUME NEW k \in Conn, UpdateSession(k), NEW i \in Id
      PROVE  IF sessions[i] = NoRow THEN sessions'[i] = NoRow
                                ELSE sessions'[i] # NoRow /\ sessions'[i].txn = sessions[i].txn
  <2>1. CASE sessions'[i] = sessions[i]
    BY <2>1
  <2>2. CASE sessions'[i] # sessions[i]
    <3>1. /\ sessions[i] \in Row /\ sessions[i] # NoRow
          /\ sessions'[i] = [sessions[i] EXCEPT !.by = txn[k]]
      BY <1>3, <2>2 DEF UpdateSession, OpenRows
    <3>2. sessions'[i] = [txn |-> sessions[i].txn, by |-> txn[k]] /\ txn[k] \in Txn
      BY <1>3, <3>1 DEF Row, UpdateSession, LinkInv
    <3>3. sessions'[i] \in Row
      BY <3>1, <3>2 DEF Row
    <3> QED  BY <3>1, <3>2, <3>3
  <2> QED  BY <2>1, <2>2
<1>4. ASSUME NEW k \in Conn, UpdateSession(k) PROVE lastId' = lastId
  BY <1>4 DEF UpdateSession
<1>5. ASSUME NEW k \in Conn,
             \/ Connect(k) \/ TouchCharger(k) \/ AnswerCharger(k) \/ HandlerFails(k)
             \/ \E x \in Txn : Start(k, x) \/ Stop(k, x)
      PROVE  UNCHANGED <<sessions, lastId>>
  BY <1>5 DEF Connect, Start, Stop, Deliver, TouchCharger, AnswerCharger, HandlerFails
<1>6. Crash \/ UNCHANGED sesVars => UNCHANGED <<sessions, lastId>>
  BY DEF Crash, sesVars
<1>7. ASSUME NEW k \in Conn, InsertSession(k)
      PROVE  \A x, t : Started(x, t) => Started(x, t)'
  BY <1>2, <1>7 DEF Started
<1>8. ASSUME NEW k \in Conn, UpdateSession(k)
      PROVE  \A x, t : Started(x, t) => Started(x, t)'
  BY <1>3, <1>8 DEF Started
<1>9. ASSUME NEW k \in Conn, UpdateSession(k)
      PROVE  \A i \in Id : sessions'[i] # NoRow => i <= lastId'
  BY <1>3, <1>4, <1>9 DEF CarryInv
<1> QED  BY <1>1, <1>2, <1>5, <1>6, <1>7, <1>8, <1>9 DEF SesNext

\* Every step keeps which sessions the ids in use are of.
LEMMA CarryStep == TInv /\ CarryInv /\ [SesNext]_sesVars => CarryInv'
<1> SUFFICES ASSUME TInv, CarryInv, [SesNext]_sesVars PROVE CarryInv'
  OBVIOUS
<1>0. /\ \A x, t : Started(x, t) => Started(x, t)'
      /\ \A i \in Id : sessions'[i] # NoRow => i <= lastId'
  BY StartedStays
<1> USE <1>0 DEF CarryInv, TInv, SesTypeOK, chargerVars, handlerVars
<1>1. ASSUME NEW k \in Conn, Connect(k) PROVE CarryInv'
  BY <1>1 DEF Connect, EmptyMap
<1>2. ASSUME NEW k \in Conn, NEW x \in Txn, Start(k, x) PROVE CarryInv'
  BY <1>2 DEF Start, Deliver
<1>3. ASSUME NEW k \in Conn, NEW x \in Txn, Stop(k, x) PROVE CarryInv'
  <2>1. /\ txn' = [txn EXCEPT ![k] = x] /\ pc' = [pc EXCEPT ![k] = "update"]
        /\ UNCHANGED <<sessions, lastId, acked, link>> /\ TxCp[x] = CpOf[k]
        /\ \A j \in Conn : j # k => txid'[j] = txid[j]
    BY <1>3 DEF Stop, Deliver, LinkInv
  <2>2. /\ Started(x, txid'[k]) \/ (CpOf[k] \in V201 /\ txid'[k] = 0)
        /\ \A j \in Conn, y \in Txn : txMap'[j][y] \in {NoTx, txMap[j][y]}
    <3>1. CASE TxCp[x] \in V201
      <4>1. /\ txid'[k] = IF txMap[k][x] = NoTx THEN 0 ELSE txMap[k][x]
            /\ txMap' = [txMap EXCEPT ![k][x] = NoTx]
        BY <1>3, <3>1 DEF Stop
      <4>2. \A j \in Conn, y \in Txn : txMap'[j][y] \in {NoTx, txMap[j][y]}
        BY <4>1
      <4>3. Started(x, txid'[k]) \/ (CpOf[k] \in V201 /\ txid'[k] = 0)
        BY <2>1, <3>1, <4>1
      <4> QED  BY <4>2, <4>3
    <3>2. CASE TxCp[x] \notin V201
      <4>1. txid'[k] = acked[x] /\ txMap' = txMap
        BY <1>3, <3>2 DEF Stop
      <4>2. acked[x] # NoTx
        BY <1>3 DEF Stop, LinkInv
      <4> QED  BY <4>1, <4>2
    <3> QED  BY <3>1, <3>2
  <2>3. \A y, t : Started(y, t)' <=> Started(y, t)
    BY <2>1 DEF Started
  <2> QED  BY <2>1, <2>2, <2>3
<1>4. ASSUME NEW k \in Conn, InsertSession(k) PROVE CarryInv'
  <2>1. /\ lastId + 1 \in Id
        /\ sessions' = [sessions EXCEPT ![lastId + 1] = [txn |-> txn[k], by |-> NoTxn]]
        /\ txid' = [txid EXCEPT ![k] = (lastId + 1) % Modulus]
        /\ pc' = [pc EXCEPT ![k] = "touch"]
        /\ UNCHANGED <<acked, txn, txMap>>
    BY <1>4 DEF InsertSession, Id
  <2>2. [txn |-> txn[k], by |-> NoTxn] \in Row
    BY <1>4 DEF InsertSession, LinkInv, Row
  <2>3. sessions'[lastId + 1] # NoRow /\ sessions'[lastId + 1].txn = txn[k]
    BY <2>1, <2>2
  <2>4. txid'[k] = (lastId + 1) % Modulus
    BY <2>1
  <2>5. Started(txn[k], txid[k])'
    BY <2>1, <2>3, <2>4 DEF Started
  <2> QED  BY <2>1, <2>5
<1>5. ASSUME NEW k \in Conn, TouchCharger(k) PROVE CarryInv'
  <2>1. /\ UNCHANGED <<sessions, lastId, acked, txn, txid>>
        /\ pc' = [pc EXCEPT ![k] = "startPublish"]
        /\ Started(txn[k], txid[k])
    BY <1>5 DEF TouchCharger
  <2>2. \A j \in Conn, y \in Txn :
          txMap'[j][y] # txMap[j][y] => j = k /\ y = txn[k] /\ txMap'[j][y] = txid[k]
    BY <1>5 DEF TouchCharger, LinkInv
  <2>3. \A y, t : Started(y, t)' <=> Started(y, t)
    BY <2>1 DEF Started
  <2> QED  BY <2>1, <2>2, <2>3, <1>5 DEF TouchCharger
<1>6. ASSUME NEW k \in Conn, UpdateSession(k) PROVE CarryInv'
  <2>1. pc' = [pc EXCEPT ![k] = "stopPublish"] /\ UNCHANGED <<acked, txn, txid, txMap>>
    BY <1>6 DEF UpdateSession
  <2> QED  BY <2>1
<1>7. ASSUME NEW k \in Conn, AnswerCharger(k) PROVE CarryInv'
  <2>1. txn[k] \in Txn
    BY <1>7 DEF AnswerCharger, LinkInv
  <2>2. \A x \in Txn : acked'[x] # acked[x] => Started(x, acked'[x])
    BY <1>7, <2>1 DEF AnswerCharger
  <2>3. UNCHANGED <<sessions, lastId, txMap>>
    BY <1>7 DEF AnswerCharger
  <2>4. \A y, t : Started(y, t)' <=> Started(y, t)
    BY <2>3 DEF Started
  <2> QED  BY <1>7, <2>1, <2>2, <2>3, <2>4 DEF AnswerCharger
<1>8. ASSUME NEW k \in Conn, HandlerFails(k) PROVE CarryInv'
  BY <1>8 DEF HandlerFails
<1>9. ASSUME Crash PROVE CarryInv'
  BY <1>9 DEF Crash, EmptyMap
<1>10. CASE UNCHANGED sesVars
  BY <1>10 DEF sesVars
<1> QED
  BY <1>1, <1>2, <1>3, <1>4, <1>5, <1>6, <1>7, <1>8, <1>9, <1>10 DEF SesNext

\* What a stop closes is open, of its charger, and goes by the one id it
\* carries, which is its transaction's or the 0 of a lost one.
LEMMA StopCloses ==
  ASSUME TInv, CarryInv, NEW k \in Conn, UpdateSession(k)
  PROVE  Ledger!LNext
<1> DEFINE S == {i \in OpenRows(CpOf[k]) : i % Modulus = txid[k]}
<1>1. pc[k] = "update" /\ txn[k] \in Txn /\ TxCp[txn[k]] = CpOf[k] /\ txid[k] \in TxId
  BY DEF UpdateSession, TInv, SesTypeOK, LinkInv
<1>2. /\ S \in SUBSET Ledger!Id
      /\ \A i \in S : /\ sessions[i] # NoRow /\ sessions[i].by = NoTxn
                      /\ TxCp[sessions[i].txn] = TxCp[txn[k]]
  BY <1>1 DEF OpenRows, Id, Ledger!Id
<1>3. Ledger!GoesBy(txn[k], txid[k]) /\ \A i \in S : i % Modulus = txid[k]
  BY <1>1 DEF CarryInv, Started, Ledger!GoesBy, Id, Ledger!Id
<1>4. /\ sessions' = [i \in Ledger!Id |-> IF i \in S THEN [sessions[i] EXCEPT !.by = txn[k]]
                                                     ELSE sessions[i]]
      /\ UNCHANGED lastId
  BY DEF UpdateSession, Id, Ledger!Id
<1> HIDE DEF S
<1>5. Ledger!Close(txn[k], S)
  BY <1>1, <1>2, <1>3, <1>4 DEF Ledger!Close
<1> QED  BY <1>1, <1>2, <1>5 DEF Ledger!LNext

\* Each step of the handlers is a step of the ledger, or leaves it alone.
LEMMA LedgerStep == TInv /\ CarryInv /\ [SesNext]_sesVars => [Ledger!LNext]_<<sessions, lastId>>
<1> SUFFICES ASSUME TInv, CarryInv, [SesNext]_sesVars PROVE [Ledger!LNext]_<<sessions, lastId>>
  OBVIOUS
<1> USE DEF chargerVars, handlerVars
<1>1. ASSUME NEW k \in Conn, InsertSession(k) PROVE Ledger!LNext
  BY <1>1 DEF InsertSession, Ledger!LNext, Ledger!Open, TInv, LinkInv
<1>2. ASSUME NEW k \in Conn, UpdateSession(k) PROVE Ledger!LNext
  BY <1>2, StopCloses
<1>3. ASSUME NEW k \in Conn,
             \/ Connect(k) \/ TouchCharger(k) \/ AnswerCharger(k) \/ HandlerFails(k)
             \/ \E x \in Txn : Start(k, x) \/ Stop(k, x)
      PROVE UNCHANGED <<sessions, lastId>>
  BY <1>3 DEF Connect, TouchCharger, AnswerCharger, HandlerFails, Start, Stop, Deliver
<1>4. ASSUME Crash PROVE UNCHANGED <<sessions, lastId>>
  BY <1>4 DEF Crash
<1>5. CASE UNCHANGED sesVars
  BY <1>5 DEF sesVars
<1> QED  BY <1>1, <1>2, <1>3, <1>4, <1>5 DEF SesNext

\* The handlers implement the ledger, for every modulus: sessions are opened
\* under fresh ids, closed at most once and final then; what a stop closes is
\* of its own charger and goes by the id of a session its transaction started.
THEOREM ImplementsLedger == SesSpec => KeepsLedger
<1>1. SesInit => Ledger!LInit
  BY DEF SesInit, Ledger!LInit, Id, Ledger!Id
<1>2. SesSpec => [](TInv /\ CarryInv)
  BY InitTInv, InitCarry, TStep, CarryStep, PTL DEF SesSpec
<1> QED  BY <1>1, <1>2, LedgerStep, PTL DEF SesSpec, KeepsLedger, Ledger!LSpec

-----------------------------------------------------------------------------
\* Until the ids wrap, what a 1.6 transaction x has closed is the row it was
\* given, and that row only: the start under way on the link of a charger is
\* still unanswered, so the id does not change once a stop carries it.
V16 == {x \in Txn : TxCp[x] \notin V201}
StopInv ==
    /\ \A k \in Conn : pc[k] \in {"insert", "touch", "startPublish"} /\ link[CpOf[k]] = k
                         => phase[txn[k]] = "starting"
    /\ \A k \in Conn : pc[k] \in {"update", "stopPublish"}
                         => phase[txn[k]] \in {"ending", "done"}
    /\ \A k \in Conn : pc[k] = "update" /\ txn[k] \in V16 => txid[k] = acked[txn[k]]
    /\ lastId < Modulus =>
         /\ \A x \in V16, i \in Id : sessions[i] # NoRow /\ sessions[i].by = x
              => i = acked[x] /\ phase[x] \in {"ending", "done"}
         /\ \A k \in Conn : pc[k] = "stopPublish" /\ txn[k] \in V16
              => sessions[acked[txn[k]]].by = txn[k]
         /\ \A x \in V16 : phase[x] = "done" => sessions[acked[x]].by = x

\* Initially no stop is under way.
LEMMA InitStop == SesInit => StopInv
  BY DEF SesInit, StopInv, V16

\* Every step keeps what an answered stop has closed.
LEMMA StopStep == TInv /\ OwnInv /\ StopInv /\ [SesNext]_sesVars => StopInv'
<1> SUFFICES ASSUME TInv, OwnInv, StopInv, [SesNext]_sesVars PROVE StopInv'
  OBVIOUS
<1>0. lastId' \in Nat /\ lastId \in Nat /\ lastId' >= lastId
  BY LastIdStep DEF TInv, SesTypeOK
<1>00. \A x \in V16 : x \in Txn /\ x # NoTxn
  BY DEF V16
<1> USE <1>0, <1>00 DEF StopInv, chargerVars, handlerVars
<1>1. ASSUME NEW k \in Conn, Connect(k) PROVE StopInv'
  BY <1>1 DEF Connect, TInv, SesTypeOK
<1>2. ASSUME NEW k \in Conn, NEW x \in Txn, Start(k, x) PROVE StopInv'
  BY <1>2 DEF Start, Deliver, TInv, SesTypeOK
<1>3. ASSUME NEW k \in Conn, NEW x \in Txn, Stop(k, x) PROVE StopInv'
  <2>1. /\ UNCHANGED <<sessions, lastId, acked, link>>
        /\ txn' = [txn EXCEPT ![k] = x]
        /\ phase' = [phase EXCEPT ![x] = "ending"]
        /\ pc' = [pc EXCEPT ![k] = "update"]
        /\ phase[x] \in {"running", "ending"}
        /\ link[TxCp[x]] = k /\ pc[k] = "recv"
    BY <1>3 DEF Stop, Deliver
  <2>2. \A j \in Conn : j # k => txid'[j] = txid[j]
    BY <1>3 DEF Stop, TInv, SesTypeOK
  <2>3. x \in V16 => txid'[k] = acked[x]
    BY <1>3 DEF Stop, V16, TInv, SesTypeOK
  <2>4. \A j \in Conn : pc[j] \in {"insert", "touch", "startPublish"}
                         /\ link[CpOf[j]] = j => j # k /\ txn[j] # x
    BY <2>1 DEF TInv, LinkInv
  <2> QED  BY <2>1, <2>2, <2>3, <2>4 DEF TInv, SesTypeOK
<1>4. ASSUME NEW k \in Conn, InsertSession(k) PROVE StopInv'
  <2>1. /\ lastId + 1 \in Id /\ lastId' = lastId + 1
        /\ sessions' = [sessions EXCEPT ![lastId + 1] = [txn |-> txn[k], by |-> NoTxn]]
        /\ \A j \in Conn : j # k => txid'[j] = txid[j]
        /\ pc' = [pc EXCEPT ![k] = "touch"] /\ pc[k] = "insert"
        /\ UNCHANGED <<phase, acked, link, txn>>
    BY <1>4 DEF InsertSession, Id, TInv, SesTypeOK
  <2>2. lastId < Modulus => \A i \in Id : sessions[i] # NoRow => sessions'[i] = sessions[i]
    BY <2>1 DEF OwnInv, Id
  <2>3. sessions'[lastId + 1].by = NoTxn
    BY <2>1 DEF TInv, SesTypeOK
  <2>4. lastId < Modulus =>
          \A x \in Txn : acked[x] # NoTx => sessions'[acked[x]] = sessions[acked[x]]
    BY <2>2 DEF OwnInv, OwnRow
  <2>5. \A i \in Id : i # lastId + 1 => sessions'[i] = sessions[i]
    BY <2>1
  <2>6. lastId' < Modulus =>
          \A x \in V16, i \in Id : sessions'[i] # NoRow /\ sessions'[i].by = x
              => i = acked[x] /\ phase[x] \in {"ending", "done"}
    BY <2>1, <2>3, <2>5
  <2>7. \A j \in Conn : pc[j] = "stopPublish" => acked[txn[j]] # NoTx /\ txn[j] \in Txn
    BY DEF TInv, LinkInv
  <2>8. \A x \in Txn : phase[x] = "done" => acked[x] # NoTx
    BY DEF TInv, LinkInv
  <2> QED  BY <2>1, <2>4, <2>6, <2>7, <2>8 DEF TInv, SesTypeOK
<1>5. ASSUME NEW k \in Conn, TouchCharger(k) PROVE StopInv'
  BY <1>5 DEF TouchCharger, TInv, SesTypeOK
<1>6. ASSUME NEW k \in Conn, UpdateSession(k) PROVE StopInv'
  <2> DEFINE S == {i \in OpenRows(CpOf[k]) : i % Modulus = txid[k]}
  <2>1. /\ sessions' = [i \in Id |-> IF i \in S THEN [sessions[i] EXCEPT !.by = txn[k]]
                                                ELSE sessions[i]]
        /\ pc' = [pc EXCEPT ![k] = "stopPublish"] /\ pc[k] = "update"
        /\ UNCHANGED <<lastId, phase, acked, link, txn, txid>>
    BY <1>6 DEF UpdateSession
  <2>2. txn[k] \in Txn /\ TxCp[txn[k]] = CpOf[k]
    BY <2>1 DEF TInv, LinkInv
  <2>3. CASE lastId < Modulus
    <3>1. \A i \in S : i = txid[k] /\ i \in Id /\ sessions[i] # NoRow
      BY <2>1, <2>3, StopFindsOwn DEF OpenRows
    <3>2. \A i \in S : sessions'[i].by = txn[k]
      BY <2>1, <3>1, <2>2 DEF TInv, SesTypeOK, Row
    <3>3. \A i \in Id : i \notin S => sessions'[i] = sessions[i]
      BY <2>1
    <3> HIDE DEF S
    <3>4. \A x \in V16, i \in Id : sessions'[i] # NoRow /\ sessions'[i].by = x
              => i = acked[x] /\ phase[x] \in {"ending", "done"}
      BY <2>1, <2>2, <2>3, <3>1, <3>2, <3>3
    <3>5. txn[k] \in V16 => sessions'[acked[txn[k]]].by = txn[k]
      <4> SUFFICES ASSUME txn[k] \in V16 PROVE sessions'[acked[txn[k]]].by = txn[k]
        OBVIOUS
      <4> DEFINE t == acked[txn[k]]
      <4>1. t = txid[k] /\ t # NoTx /\ OwnRow(t, txn[k])
        BY <2>1, <2>2, <2>3 DEF OwnInv, TInv, LinkInv
      <4>2. t % Modulus = t
        BY <4>1, <2>3, ModSmall DEF OwnRow, OwnInv, Id
      <4>3. CASE sessions[t].by = NoTxn
        BY <4>1, <4>2, <4>3, <3>2, <2>2 DEF S, OpenRows, OwnRow
      <4>4. CASE sessions[t].by = txn[k]
        BY <4>1, <4>4, <3>2, <3>3 DEF OwnRow
      <4> QED  BY <4>1, <4>3, <4>4, <2>3 DEF OwnInv, OwnRow
    <3>6. \A x \in V16 : acked[x] # NoTx /\ sessions[acked[x]].by = x
                            => sessions'[acked[x]].by = x
      BY <2>3, <3>2, <3>3, <3>1 DEF S, OpenRows, OwnInv, OwnRow
    <3>7. \A j \in Conn : j # k /\ pc[j] = "stopPublish" => acked[txn[j]] # NoTx
      BY DEF TInv, LinkInv
    <3>8. \A x \in Txn : phase[x] = "done" => acked[x] # NoTx
      BY DEF TInv, LinkInv
    <3>9. \A j \in Conn : pc'[j] = "stopPublish" /\ txn[j] \in V16
              => sessions'[acked[txn[j]]].by = txn[j]
      <4> SUFFICES ASSUME NEW j \in Conn, j # k, pc[j] = "stopPublish", txn[j] \in V16
                   PROVE  sessions'[acked[txn[j]]].by = txn[j]
        BY <2>1, <3>5 DEF TInv, SesTypeOK
      <4>1. sessions[acked[txn[j]]].by = txn[j]
        BY <2>3
      <4> QED  BY <4>1, <3>6, <3>7
    <3>10. \A x \in V16 : phase[x] = "done" => sessions'[acked[x]].by = x
      BY <2>3, <3>6, <3>8
    <3>11. \A j \in Conn : pc'[j] = pc[j] \/ (j = k /\ pc'[j] = "stopPublish")
      BY <2>1 DEF TInv, SesTypeOK
    <3> QED  BY <2>1, <3>4, <3>9, <3>10, <3>11
  <2>4. CASE ~(lastId < Modulus)
    BY <2>1, <2>4 DEF TInv, SesTypeOK
  <2> QED  BY <2>3, <2>4
<1>7. ASSUME NEW k \in Conn, AnswerCharger(k) PROVE StopInv'
  <2>1. /\ txn[k] \in Txn /\ TxCp[txn[k]] = CpOf[k]
        /\ pc[k] \in {"startPublish", "stopPublish"}
        /\ pc' = [pc EXCEPT ![k] = "recv"] /\ txn' = [txn EXCEPT ![k] = NoTxn]
        /\ txid' = [txid EXCEPT ![k] = NoTx]
        /\ UNCHANGED <<sessions, lastId, link>>
    BY <1>7 DEF AnswerCharger, TInv, LinkInv
  <2>2. CASE link[CpOf[k]] # k
    BY <1>7, <2>1, <2>2 DEF AnswerCharger, TInv, SesTypeOK
  <2>3. CASE link[CpOf[k]] = k
    \* The handler at work on the link of this charger is the only one.
    <3>1. \A j \in Conn : pc[j] # "recv" /\ link[CpOf[j]] = j /\ txn[j] = txn[k] => j = k
      BY <2>1, <2>3 DEF TInv, LinkInv
    <3>2. CASE pc[k] = "startPublish"
      <4>1. /\ phase' = [phase EXCEPT ![txn[k]] = "running"]
            /\ acked' = [acked EXCEPT ![txn[k]] = txid[k]]
            /\ phase[txn[k]] = "starting"
        BY <1>7, <2>1, <2>3, <3>2 DEF AnswerCharger
      <4>2. \A j \in Conn : pc[j] \in {"update", "stopPublish"} => txn[j] # txn[k]
        BY <4>1
      <4> QED  BY <2>1, <3>1, <3>2, <4>1, <4>2 DEF TInv, SesTypeOK
    <3>3. CASE pc[k] = "stopPublish"
      <4>1. phase' = [phase EXCEPT ![txn[k]] = "done"] /\ UNCHANGED acked
        BY <1>7, <2>1, <2>3, <3>3 DEF AnswerCharger
      <4> QED  BY <2>1, <3>1, <3>3, <4>1 DEF TInv, SesTypeOK
    <3> QED  BY <2>1, <3>2, <3>3
  <2> QED  BY <2>2, <2>3
<1>8. ASSUME NEW k \in Conn, HandlerFails(k) PROVE StopInv'
  BY <1>8 DEF HandlerFails, TInv, SesTypeOK
<1>9. ASSUME Crash PROVE StopInv'
  BY <1>9 DEF Crash, TInv, SesTypeOK
<1>10. CASE UNCHANGED sesVars
  BY <1>10 DEF sesVars
<1> QED
  BY <1>1, <1>2, <1>3, <1>4, <1>5, <1>6, <1>7, <1>8, <1>9, <1>10 DEF SesNext

\* An answered 1.6 stop has closed exactly one session of its transaction,
\* for any number of repeated messages, connections, failures and crashes.
THEOREM AnsweredStop == SesSpec => []AnsweredStopClosedOne
<1>1. SesInit => TInv /\ OwnInv /\ StopInv
  BY InitTInv, InitOwn, InitStop
<1>2. TInv /\ OwnInv /\ StopInv /\ [SesNext]_sesVars => (TInv /\ OwnInv /\ StopInv)'
  BY TStep, OwnStep, StopStep
<1>3. TInv /\ OwnInv /\ StopInv => AnsweredStopClosedOne
  <2> SUFFICES ASSUME TInv, OwnInv, StopInv, lastId < Modulus,
                      NEW x \in Txn, phase[x] = "done", TxCp[x] \notin V201
               PROVE  Cardinality(ClosedRowsOf(x)) = 1
    BY DEF AnsweredStopClosedOne
  <2>1. x \in V16 /\ x # NoTxn /\ acked[x] # NoTx
    BY DEF V16, TInv, LinkInv
  <2>2. OwnRow(acked[x], x) /\ sessions[acked[x]].by = x
    BY <2>1 DEF StopInv, OwnInv
  <2>3. \A i \in ClosedRowsOf(x) : i \in Id /\ sessions[i] # NoRow /\ sessions[i].by = x
    BY DEF ClosedRowsOf, RowsOf, OwnInv
  <2>4. ClosedRowsOf(x) = {acked[x]}
    BY <2>1, <2>2, <2>3 DEF StopInv, OwnRow, ClosedRowsOf, RowsOf
  <2> QED  BY <2>4, FS_Singleton
<1> QED  BY <1>1, <1>2, <1>3, PTL DEF SesSpec
-----------------------------------------------------------------------------
(* 2.0.1: a transaction that stayed on one connection *)

Handles(k, x) == pc[k] # "recv" /\ txn[k] = x

\* A transaction that never moved is handled on the link of its charger, so
\* by one handler at most; while it starts or ends, by exactly one.
OneHandler ==
    \A x \in Txn \ moved :
        /\ \A j \in Conn : Handles(j, x) => j = link[TxCp[x]]
        /\ phase[x] = "starting" =>
             \E k \in Conn : Handles(k, x) /\ pc[k] \in {"insert", "touch", "startPublish"}
        /\ phase[x] = "ending" =>
             \E k \in Conn : Handles(k, x) /\ pc[k] \in {"update", "stopPublish"}
        /\ phase[x] \in {"new", "running", "done"} => \A k \in Conn : ~ Handles(k, x)

\* Initially no message is being handled.
LEMMA InitOneHandler == SesInit => OneHandler
  BY DEF SesInit, OneHandler, Handles

\* Every step keeps one handler for each transaction that has not moved.
LEMMA OneHandlerStep == TInv /\ OneHandler /\ [SesNext]_sesVars => OneHandler'
<1> SUFFICES ASSUME TInv, OneHandler, [SesNext]_sesVars PROVE OneHandler'
  OBVIOUS
<1>0. /\ pc \in [Conn -> Pc] /\ txn \in [Conn -> Txn \union {NoTxn}]
      /\ phase \in [Txn -> Phase] /\ link \in [Charger -> Conn \union {NoConn}]
      /\ \A k \in Conn : pc[k] # "recv" => txn[k] \in Txn /\ TxCp[txn[k]] = CpOf[k]
  BY DEF TInv, SesTypeOK, LinkInv
<1> USE DEF chargerVars, handlerVars
<1>1. ASSUME NEW k \in Conn, Connect(k) PROVE OneHandler'
  <2>1. /\ link' = [link EXCEPT ![CpOf[k]] = k] /\ moved' = moved \union Underway(CpOf[k])
        /\ UNCHANGED <<phase, pc, txn>>
    BY <1>1 DEF Connect
  <2>2. \A x \in Txn \ moved' : TxCp[x] = CpOf[k] => phase[x] \in {"new", "running", "done"}
    BY <1>0, <2>1 DEF Underway, Phase
  <2>3. \A x \in Txn \ moved' : phase[x] \in {"new", "done"} \/ TxCp[x] # CpOf[k]
    BY <2>1, <2>2 DEF Underway
  <2>4. ASSUME NEW x \in Txn \ moved' PROVE link'[TxCp[x]] = link[TxCp[x]]
                                             \/ phase[x] \in {"new", "done"}
    BY <1>0, <2>1, <2>3
  <2>5. \A x : \A j \in Conn : Handles(j, x)' <=> Handles(j, x)
    BY <2>1 DEF Handles
  <2> QED  BY <2>1, <2>4, <2>5 DEF OneHandler
<1>2. ASSUME NEW k \in Conn, NEW x \in Txn, Start(k, x) \/ Stop(k, x) PROVE OneHandler'
  <2>1. /\ txn' = [txn EXCEPT ![k] = x] /\ pc[k] = "recv" /\ link[TxCp[x]] = k
        /\ UNCHANGED <<link, moved>>
        /\ \/ /\ phase[x] \in {"new", "starting"} /\ phase' = [phase EXCEPT ![x] = "starting"]
              /\ pc' = [pc EXCEPT ![k] = "insert"]
           \/ /\ phase[x] \in {"running", "ending"} /\ phase' = [phase EXCEPT ![x] = "ending"]
              /\ pc' = [pc EXCEPT ![k] = "update"]
    BY <1>2 DEF Start, Stop, Deliver
  <2>2. ASSUME x \notin moved PROVE \A j \in Conn : ~ Handles(j, x)
    <3>1. ~ Handles(k, x)
      BY <2>1 DEF Handles
    <3> QED  BY <2>1, <2>2, <3>1 DEF OneHandler
  <2>3. \A j \in Conn : Handles(j, x)' => j = k \/ Handles(j, x)
    BY <1>0, <2>1 DEF Handles
  <2>4. \A y \in Txn : y # x => \A j \in Conn :
            /\ Handles(j, y)' <=> Handles(j, y)
            /\ Handles(j, y) => pc'[j] = pc[j]
    BY <1>0, <2>1 DEF Handles
  <2>5. Handles(k, x)' /\ pc'[k] = IF phase'[x] = "starting" THEN "insert" ELSE "update"
    BY <1>0, <2>1 DEF Handles
  <2>6. phase'[x] \in {"starting", "ending"} /\ \A y \in Txn : y # x => phase'[y] = phase[y]
    BY <1>0, <2>1
  <2> QED  BY <2>1, <2>2, <2>3, <2>4, <2>5, <2>6 DEF OneHandler
<1>3. ASSUME NEW k \in Conn, InsertSession(k) \/ TouchCharger(k) \/ UpdateSession(k)
      PROVE  OneHandler'
  <2>1. /\ UNCHANGED <<phase, link, txn, moved>>
        /\ \/ pc[k] = "insert" /\ pc' = [pc EXCEPT ![k] = "touch"]
           \/ pc[k] = "touch" /\ pc' = [pc EXCEPT ![k] = "startPublish"]
           \/ pc[k] = "update" /\ pc' = [pc EXCEPT ![k] = "stopPublish"]
    BY <1>3 DEF InsertSession, TouchCharger, UpdateSession
  <2>2. \A x : \A j \in Conn : Handles(j, x)' <=> Handles(j, x)
    BY <1>0, <2>1 DEF Handles
  <2>3. \A j \in Conn :
            /\ pc[j] \in {"insert", "touch", "startPublish"}
                 => pc'[j] \in {"insert", "touch", "startPublish"}
            /\ pc[j] \in {"update", "stopPublish"} => pc'[j] \in {"update", "stopPublish"}
    BY <1>0, <2>1
  <2> QED  BY <2>1, <2>2, <2>3 DEF OneHandler
<1>4. ASSUME NEW k \in Conn, AnswerCharger(k) PROVE OneHandler'
  <2> DEFINE x == txn[k]
  <2>1. /\ x \in Txn /\ TxCp[x] = CpOf[k] /\ Handles(k, x)
        /\ pc' = [pc EXCEPT ![k] = "recv"] /\ txn' = [txn EXCEPT ![k] = NoTxn]
        /\ UNCHANGED <<link, moved>>
    BY <1>0, <1>4 DEF AnswerCharger, Handles
  <2>2. /\ \A y \in Txn : y # x => phase'[y] = phase[y]
        /\ link[CpOf[k]] = k => phase'[x] \in {"running", "done"}
    BY <1>0, <1>4, <2>1 DEF AnswerCharger
  <2> HIDE DEF x
  <2>3. \A y : \A j \in Conn : Handles(j, y)' <=> Handles(j, y) /\ j # k
    BY <1>0, <2>1 DEF Handles
  <2>4. \A y \in Txn : y # x => \A j \in Conn :
            /\ Handles(j, y)' <=> Handles(j, y)
            /\ Handles(j, y) => pc'[j] = pc[j]
    BY <1>0, <2>1, <2>3 DEF Handles, x
  <2>5. x \notin moved => link[CpOf[k]] = k /\ \A j \in Conn : Handles(j, x) => j = k
    BY <2>1 DEF OneHandler
  <2> QED  BY <2>1, <2>2, <2>3, <2>4, <2>5 DEF OneHandler
<1>5. ASSUME NEW k \in Conn, HandlerFails(k) PROVE OneHandler'
  <2>1. /\ pc' = [pc EXCEPT ![k] = "recv"] /\ txn' = [txn EXCEPT ![k] = NoTxn]
        /\ moved' = moved \union {txn[k]}
        /\ UNCHANGED <<phase, link>>
    BY <1>5 DEF HandlerFails
  <2>2. \A y \in Txn \ moved' : \A j \in Conn :
            /\ Handles(j, y)' <=> Handles(j, y)
            /\ Handles(j, y) => pc'[j] = pc[j]
    BY <1>0, <2>1 DEF Handles
  <2> QED  BY <2>1, <2>2 DEF OneHandler
<1>6. ASSUME Crash PROVE OneHandler'
  <2>1. /\ moved' = moved \union UNION {Underway(c) : c \in Charger}
        /\ \A j \in Conn : pc'[j] = "recv"
        /\ phase' = phase
    BY <1>6 DEF Crash
  <2>2. \A x \in Txn \ moved' : phase[x] \notin {"starting", "running", "ending"}
    <3> SUFFICES ASSUME NEW x \in Txn, phase[x] \in {"starting", "running", "ending"}
                 PROVE  x \in moved'
      OBVIOUS
    <3>1. x \in Underway(TxCp[x]) /\ TxCp[x] \in Charger
      BY DEF Underway
    <3> QED  BY <2>1, <3>1
  <2>3. \A x : \A j \in Conn : ~ Handles(j, x)'
    BY <2>1 DEF Handles
  <2> QED  BY <2>1, <2>2, <2>3 DEF OneHandler
<1>7. CASE UNCHANGED sesVars
  BY <1>7 DEF sesVars, OneHandler, Handles
<1> QED  BY <1>1, <1>2, <1>3, <1>4, <1>5, <1>6, <1>7 DEF SesNext
\* Row t is the only row of transaction x, and was closed by `by`.
Only(t, x, by) == OwnRow(t, x) /\ sessions[t].by = by /\ \A i \in Id : OwnRow(i, x) => i = t

\* Transaction x has a row from its one insert on, and one only; what the
\* handler and its _tx_map hold for it is that row's id; its stop closes it.
OneRow(x) ==
    /\ phase[x] = "new" => \A i \in Id : ~ OwnRow(i, x)
    /\ \A k \in Conn : Handles(k, x) =>
         /\ pc[k] = "insert" => \A i \in Id : ~ OwnRow(i, x)
         /\ pc[k] \in {"touch", "startPublish", "update"} => Only(txid[k], x, NoTxn)
         /\ pc[k] = "startPublish" => txMap[k][x] = txid[k]
         /\ pc[k] = "stopPublish" => \E t \in Id : Only(t, x, x)
    /\ phase[x] = "running" =>
         link[TxCp[x]] \in Conn /\ Only(txMap[link[TxCp[x]]][x], x, NoTxn)
    /\ phase[x] = "done" => \E t \in Id : Only(t, x, x)

OneRowInv ==
    lastId < Modulus => \A x \in Txn \ moved : TxCp[x] \in V201 => OneRow(x)

\* Initially there is no row.
LEMMA InitOneRow == SesInit => OneRowInv
  BY DEF SesInit, OneRowInv, OneRow, Handles, OwnRow

\* The rows of other transactions do not change in a step of the ledger.
LEMMA RowsKept ==
  ASSUME NEW x, sessions' = sessions
         \/ \A i \in Id : (OwnRow(i, x) \/ OwnRow(i, x)') => sessions'[i] = sessions[i]
  PROVE  /\ \A t : OwnRow(t, x)' <=> OwnRow(t, x)
         /\ \A t, by : Only(t, x, by)' <=> Only(t, x, by)
<1>1. \A t : OwnRow(t, x)' <=> OwnRow(t, x)
  BY DEF OwnRow
<1>2. \A t : OwnRow(t, x) => sessions'[t] = sessions[t]
  BY DEF OwnRow
<1> QED  BY <1>1, <1>2 DEF Only

\* A step that is not about transaction x.
LEMMA OneRowKept ==
  ASSUME NEW x \in Txn, OneRow(x), phase'[x] = phase[x],
         \A k \in Conn : Handles(k, x)' =>
            /\ Handles(k, x)
            /\ pc'[k] = pc[k] /\ txid'[k] = txid[k] /\ txMap'[k][x] = txMap[k][x],
         phase[x] = "running" /\ link[TxCp[x]] \in Conn =>
            /\ link'[TxCp[x]] = link[TxCp[x]]
            /\ txMap'[link[TxCp[x]]][x] = txMap[link[TxCp[x]]][x],
         \/ sessions' = sessions
         \/ \A i \in Id : (OwnRow(i, x) \/ OwnRow(i, x)') => sessions'[i] = sessions[i]
  PROVE  OneRow(x)'
<1>1. \A t : OwnRow(t, x)' <=> OwnRow(t, x)
  BY RowsKept
<1>2. \A t, by : Only(t, x, by)' <=> Only(t, x, by)
  BY RowsKept
<1> QED  BY <1>1, <1>2 DEF OneRow

\* Every step keeps the one row of a 2.0.1 transaction that has not moved.
LEMMA OneRowStep == TInv /\ OwnInv /\ OneHandler /\ OneRowInv /\ [SesNext]_sesVars => OneRowInv'
<1> SUFFICES ASSUME TInv, OwnInv, OneHandler, OneRowInv, [SesNext]_sesVars, lastId' < Modulus,
                    NEW x \in Txn, x \notin moved', TxCp[x] \in V201
             PROVE  OneRow(x)'
  BY DEF OneRowInv
<1>0. /\ pc \in [Conn -> Pc] /\ txn \in [Conn -> Txn \union {NoTxn}]
      /\ txid \in [Conn -> TxId \union {NoTx}]
      /\ txMap \in [Conn -> [Txn -> TxId \union {NoTx}]]
      /\ sessions \in [Id -> Row \union {NoRow}] /\ lastId \in Nat
      /\ phase \in [Txn -> Phase] /\ link \in [Charger -> Conn \union {NoConn}]
      /\ \A k \in Conn : pc[k] # "recv" => txn[k] \in Txn /\ TxCp[txn[k]] = CpOf[k]
      /\ \A c \in Charger : link[c] # NoConn => CpOf[link[c]] = c
  BY DEF TInv, SesTypeOK, LinkInv
<1>00. /\ lastId < Modulus /\ x \notin moved
       /\ lastId' = lastId \/ lastId' = lastId + 1
  <2>1. lastId' = lastId \/ lastId' = lastId + 1
    BY LastIdStep
  <2>2. moved \subseteq moved'
    BY DEF SesNext, Connect, Start, Stop, Deliver, InsertSession, TouchCharger, UpdateSession,
           AnswerCharger, HandlerFails, Crash, sesVars
  <2> QED  BY <1>0, <2>1, <2>2
<1>000. OneRow(x) /\ \A j \in Conn : Handles(j, x) => j = link[TxCp[x]]
  BY <1>00 DEF OneRowInv, OneHandler
<1> USE DEF chargerVars, handlerVars
<1>1. ASSUME NEW k \in Conn, Connect(k) PROVE OneRow(x)'
  <2>1. /\ link' = [link EXCEPT ![CpOf[k]] = k] /\ moved' = moved \union Underway(CpOf[k])
        /\ \A j \in Conn : j # k => txMap'[j] = txMap[j]
        /\ pc[k] = "recv"
        /\ UNCHANGED <<sessions, phase, pc, txn, txid>>
    BY <1>0, <1>1 DEF Connect
  <2>2. phase[x] = "running" => TxCp[x] # CpOf[k]
    BY <2>1 DEF Underway
  <2>3. phase[x] = "running" => link'[TxCp[x]] = link[TxCp[x]]
    BY <1>0, <2>1, <2>2
  <2>4. phase[x] = "running" /\ link[TxCp[x]] \in Conn => link[TxCp[x]] # k
    BY <1>0, <2>2
  <2>5. \A j \in Conn : Handles(j, x)' => Handles(j, x) /\ j # k
    BY <2>1 DEF Handles
  <2> QED  BY <1>000, <2>1, <2>3, <2>4, <2>5, OneRowKept
<1>2. ASSUME NEW k \in Conn, NEW y \in Txn, Start(k, y) PROVE OneRow(x)'
  <2>1. /\ pc[k] = "recv" /\ link[TxCp[y]] = k /\ phase[y] \in {"new", "starting"}
        /\ txn' = [txn EXCEPT ![k] = y] /\ pc' = [pc EXCEPT ![k] = "insert"]
        /\ phase' = [phase EXCEPT ![y] = "starting"]
        /\ UNCHANGED <<sessions, link, txid, txMap>>
    BY <1>2 DEF Start, Deliver
  <2>2. CASE y # x
    <3>1. \A j \in Conn : Handles(j, x)' => Handles(j, x) /\ j # k
      BY <1>0, <2>1, <2>2 DEF Handles
    <3>2. \A j \in Conn : j # k => pc'[j] = pc[j]
      BY <1>0, <2>1
    <3> QED  BY <1>0, <1>000, <2>1, <2>2, <3>1, <3>2, OneRowKept
  <2>3. CASE y = x
    <3>1. ~ Handles(k, x)
      BY <2>1 DEF Handles
    <3>2. \A j \in Conn : ~ Handles(j, x)
      BY <1>000, <2>1, <2>3, <3>1
    <3>3. phase[x] = "new"
      BY <1>00, <2>1, <2>3, <3>2 DEF OneHandler
    <3>4. \A i \in Id : ~ OwnRow(i, x)'
      BY <1>000, <2>1, <3>3 DEF OneRow, OwnRow
    <3>5. \A j \in Conn : Handles(j, x)' => pc'[j] = "insert"
      BY <1>0, <2>1, <3>2 DEF Handles
    <3>6. phase'[x] = "starting"
      BY <1>0, <2>1, <2>3
    <3> QED  BY <3>4, <3>5, <3>6 DEF OneRow
  <2> QED  BY <2>2, <2>3
<1>3. ASSUME NEW k \in Conn, NEW y \in Txn, Stop(k, y) PROVE OneRow(x)'
  <2>1. /\ pc[k] = "recv" /\ link[TxCp[y]] = k /\ phase[y] \in {"running", "ending"}
        /\ txn' = [txn EXCEPT ![k] = y] /\ pc' = [pc EXCEPT ![k] = "update"]
        /\ phase' = [phase EXCEPT ![y] = "ending"]
        /\ UNCHANGED <<sessions, link>>
        /\ \A j \in Conn : j # k => txid'[j] = txid[j]
    BY <1>0, <1>3 DEF Stop, Deliver
  <2>2. CASE y # x
    <3>1. \A j \in Conn : Handles(j, x)' => Handles(j, x) /\ j # k
      BY <1>0, <2>1, <2>2 DEF Handles
    <3>2. \A j \in Conn : txMap'[j][x] = txMap[j][x]
      <4>1. txMap' = [txMap EXCEPT ![k][y] = NoTx] \/ txMap' = txMap
        BY <1>3 DEF Stop
      <4> QED  BY <1>0, <2>2, <4>1
    <3>3. \A j \in Conn : j # k => pc'[j] = pc[j]
      BY <1>0, <2>1
    <3>4. phase'[x] = phase[x]
      BY <1>0, <2>1, <2>2
    <3> QED  BY <1>0, <1>000, <2>1, <3>1, <3>2, <3>3, <3>4, OneRowKept
  <2>3. CASE y = x
    <3>1. ~ Handles(k, x)
      BY <2>1 DEF Handles
    <3>2. \A j \in Conn : ~ Handles(j, x)
      BY <1>000, <2>1, <2>3, <3>1
    <3>3. phase[x] = "running"
      BY <1>00, <2>1, <2>3, <3>2 DEF OneHandler
    <3>4. Only(txMap[k][x], x, NoTxn)
      BY <1>000, <2>1, <2>3, <3>3 DEF OneRow
    <3>5. txMap[k][x] # NoTx
      BY <1>0, <1>00, <3>4 DEF Only, OwnRow, OwnInv, Id
    <3>6. txid'[k] = txMap[k][x]
      BY <1>0, <1>3, <2>3, <3>5 DEF Stop
    <3> PICK t \in Id : t = txMap[k][x]
      BY <3>4 DEF Only, OwnRow
    <3>7. Only(t, x, NoTxn)' /\ txid'[k] = t
      BY <2>1, <3>4, <3>6 DEF Only, OwnRow
    <3>8. \A j \in Conn : Handles(j, x)' => j = k /\ pc'[j] = "update"
      BY <1>0, <2>1, <3>2 DEF Handles
    <3>9. phase'[x] = "ending"
      BY <1>0, <2>1, <2>3
    <3> QED  BY <3>7, <3>8, <3>9 DEF OneRow
  <2> QED  BY <2>2, <2>3
<1>4. ASSUME NEW k \in Conn, InsertSession(k) PROVE OneRow(x)'
  <2> DEFINE r == [txn |-> txn[k], by |-> NoTxn]
  <2> PICK t \in Id : t = lastId + 1
    BY <1>0, <1>4 DEF InsertSession, Id
  <2>1. /\ sessions' = [sessions EXCEPT ![t] = r] /\ lastId' = t
        /\ txid' = [txid EXCEPT ![k] = t % Modulus]
        /\ pc[k] = "insert" /\ pc' = [pc EXCEPT ![k] = "touch"]
        /\ UNCHANGED <<phase, link, txn, txMap>>
    BY <1>0, <1>4 DEF InsertSession, Id
  <2>2. r \in Row /\ r # NoRow /\ r.txn = txn[k] /\ r.by = NoTxn
    BY <1>0, <2>1 DEF Row
  <2>3. sessions[t] = NoRow
    BY <1>0, <1>00, <2>1 DEF OwnInv, Id
  <2>4. t % Modulus = t
    BY <1>0, <2>1, ModSmall
  <2> HIDE DEF r
  <2>5. \A i \in Id : i # t => sessions'[i] = sessions[i]
    BY <1>0, <2>1
  <2>6. sessions'[t] = r
    BY <1>0, <2>1
  <2>7. CASE txn[k] # x
    <3>1. \A i \in Id : (OwnRow(i, x) \/ OwnRow(i, x)') => sessions'[i] = sessions[i]
      BY <2>2, <2>3, <2>5, <2>6, <2>7 DEF OwnRow
    <3>2. \A j \in Conn : Handles(j, x)' => Handles(j, x) /\ j # k
      BY <1>0, <2>1, <2>7 DEF Handles
    <3>3. \A j \in Conn : j # k => pc'[j] = pc[j] /\ txid'[j] = txid[j]
      BY <1>0, <2>1
    <3> QED  BY <1>000, <2>1, <3>1, <3>2, <3>3, OneRowKept
  <2>8. CASE txn[k] = x
    <3>1. Handles(k, x)
      BY <2>1, <2>8 DEF Handles
    <3>2. \A i \in Id : ~ OwnRow(i, x)
      BY <1>000, <2>1, <3>1 DEF OneRow
    <3>3. /\ OwnRow(t, x)' /\ sessions'[t].by = NoTxn
          /\ \A i \in Id : OwnRow(i, x)' => i = t
      BY <2>1, <2>2, <2>5, <2>6, <2>8, <3>2 DEF OwnRow
    <3>4. Only(t, x, NoTxn)'
      BY <3>3 DEF Only
    <3>5. txid'[k] = t /\ pc'[k] = "touch"
      BY <1>0, <2>1, <2>4
    <3>6. \A j \in Conn : Handles(j, x)' => j = k
      BY <1>0, <1>000, <2>1, <3>1 DEF Handles
    <3>7. phase'[x] \notin {"new", "running", "done"}
      BY <1>00, <2>1, <3>1 DEF OneHandler
    <3> QED  BY <3>4, <3>5, <3>6, <3>7 DEF OneRow
  <2> QED  BY <2>7, <2>8
<1>5. ASSUME NEW k \in Conn, TouchCharger(k) PROVE OneRow(x)'
  <2>1. /\ pc[k] = "touch" /\ pc' = [pc EXCEPT ![k] = "startPublish"]
        /\ UNCHANGED <<sessions, phase, link, txn, txid>>
    BY <1>5 DEF TouchCharger
  <2>2. CASE txn[k] # x
    <3>1. \A j \in Conn : Handles(j, x)' => Handles(j, x) /\ j # k
      BY <1>0, <2>1, <2>2 DEF Handles
    <3>2. \A j \in Conn : txMap'[j][x] = txMap[j][x]
      BY <1>0, <1>5, <2>1, <2>2 DEF TouchCharger
    <3>3. \A j \in Conn : j # k => pc'[j] = pc[j]
      BY <1>0, <2>1
    <3> QED  BY <1>000, <2>1, <3>1, <3>2, <3>3, OneRowKept
  <2>3. CASE txn[k] = x
    <3>1. Handles(k, x)
      BY <2>1, <2>3 DEF Handles
    <3>2. Only(txid[k], x, NoTxn)'
      BY <1>000, <2>1, <3>1 DEF OneRow, Only, OwnRow
    <3>3. CpOf[k] \in V201
      BY <1>0, <2>1, <2>3
    <3>4. txMap'[k][x] = txid[k] /\ pc'[k] = "startPublish"
      BY <1>0, <1>5, <2>1, <2>3, <3>3 DEF TouchCharger
    <3>5. \A j \in Conn : Handles(j, x)' => j = k
      BY <1>0, <1>000, <2>1, <3>1 DEF Handles
    <3>6. phase'[x] \notin {"new", "running", "done"}
      BY <1>00, <2>1, <3>1 DEF OneHandler
    <3> QED  BY <2>1, <3>2, <3>4, <3>5, <3>6 DEF OneRow
  <2> QED  BY <2>2, <2>3
<1>6. ASSUME NEW k \in Conn, UpdateSession(k) PROVE OneRow(x)'
  <2> DEFINE S == {i \in OpenRows(CpOf[k]) : i % Modulus = txid[k]}
  <2>1. /\ sessions' = [i \in Id |-> IF i \in S THEN [sessions[i] EXCEPT !.by = txn[k]]
                                                ELSE sessions[i]]
        /\ pc[k] = "update" /\ pc' = [pc EXCEPT ![k] = "stopPublish"]
        /\ UNCHANGED <<lastId, phase, link, txn, txid, txMap>>
    BY <1>6 DEF UpdateSession
  <2>2. \A i \in S : i \in Id /\ i = txid[k] /\ sessions[i] # NoRow /\ sessions[i].txn = txn[k]
    BY <1>00, <2>1, StopFindsOwn DEF OpenRows
  <2>3. \A i \in Id : i \notin S => sessions'[i] = sessions[i]
    BY <2>1
  <2>4. ASSUME NEW i \in S
        PROVE  sessions'[i] # NoRow /\ sessions'[i].txn = txn[k] /\ sessions'[i].by = txn[k]
    <3>1. sessions'[i] = [txn |-> txn[k], by |-> txn[k]]
      BY <1>0, <2>1, <2>2 DEF Row
    <3>2. [txn |-> txn[k], by |-> txn[k]] \in Row
      BY <1>0, <2>1 DEF Row
    <3> QED  BY <3>1, <3>2
  <2>5. CASE txn[k] # x
    <3> HIDE DEF S
    <3>1. \A i \in Id : (OwnRow(i, x) \/ OwnRow(i, x)') => sessions'[i] = sessions[i]
      BY <2>2, <2>3, <2>4, <2>5 DEF OwnRow
    <3>2. \A j \in Conn : Handles(j, x)' => Handles(j, x) /\ j # k
      BY <1>0, <2>1, <2>5 DEF Handles
    <3>3. \A j \in Conn : j # k => pc'[j] = pc[j]
      BY <1>0, <2>1
    <3> QED  BY <1>000, <2>1, <3>1, <3>2, <3>3, OneRowKept
  <2>6. CASE txn[k] = x
    <3>1. Handles(k, x)
      BY <2>1, <2>6 DEF Handles
    <3>0. Only(txid[k], x, NoTxn)
      BY <1>000, <2>1, <3>1 DEF OneRow
    <3> PICK t \in Id : t = txid[k]
      BY <3>0 DEF Only, OwnRow
    <3>2. Only(t, x, NoTxn)
      BY <3>0
    <3>3. t % Modulus = t
      BY <1>0, <1>00, <3>2, ModSmall DEF Only, OwnRow, OwnInv, Id
    <3>4. t \in S
      BY <1>0, <2>1, <2>6, <3>2, <3>3 DEF OpenRows, Only, OwnRow
    <3> HIDE DEF S
    <3>5. OwnRow(t, x)' /\ sessions'[t].by = x
      BY <2>2, <2>4, <2>6, <3>4 DEF OwnRow
    <3>6. \A i \in Id : OwnRow(i, x)' => OwnRow(i, x)
      BY <2>2, <2>3, <2>6 DEF OwnRow
    <3>7. Only(t, x, x)' /\ t \in Id
      BY <3>2, <3>5, <3>6 DEF Only, OwnRow
    <3>8. \A j \in Conn : Handles(j, x)' => j = k
      BY <1>0, <1>000, <2>1, <3>1 DEF Handles
    <3>9. pc'[k] = "stopPublish" /\ phase'[x] \notin {"new", "running", "done"}
      BY <1>0, <1>00, <2>1, <3>1 DEF OneHandler
    <3> QED  BY <3>7, <3>8, <3>9 DEF OneRow
  <2> QED  BY <2>5, <2>6
<1>7. ASSUME NEW k \in Conn, AnswerCharger(k) PROVE OneRow(x)'
  <2>1. /\ pc[k] \in {"startPublish", "stopPublish"}
        /\ pc' = [pc EXCEPT ![k] = "recv"] /\ txn' = [txn EXCEPT ![k] = NoTxn]
        /\ txid' = [txid EXCEPT ![k] = NoTx]
        /\ UNCHANGED <<sessions, link, txMap>>
    BY <1>7 DEF AnswerCharger
  <2>2. \A j \in Conn : Handles(j, x)' => Handles(j, x) /\ j # k
    BY <1>0, <2>1 DEF Handles
  <2>3. CASE txn[k] # x
    <3>1. phase'[x] = phase[x]
      BY <1>0, <1>7, <2>1, <2>3 DEF AnswerCharger
    <3>2. \A j \in Conn : j # k => pc'[j] = pc[j] /\ txid'[j] = txid[j]
      BY <1>0, <2>1
    <3> QED  BY <1>000, <2>1, <2>2, <3>1, <3>2, OneRowKept
  <2>4. CASE txn[k] = x
    <3>1. Handles(k, x)
      BY <2>1, <2>4 DEF Handles
    <3>2. link[TxCp[x]] = k /\ TxCp[x] = CpOf[k] /\ \A j \in Conn : ~ Handles(j, x)'
      BY <1>0, <1>000, <2>1, <2>2, <2>4, <3>1
    <3>3. \A t, by : Only(t, x, by)' <=> Only(t, x, by)
      BY <2>1, RowsKept
    <3>4. CASE pc[k] = "startPublish"
      <4>1. phase'[x] = "running"
        BY <1>0, <1>7, <2>1, <2>4, <3>2, <3>4 DEF AnswerCharger
      <4>2. Only(txMap[k][x], x, NoTxn)
        BY <1>000, <3>1, <3>4 DEF OneRow
      <4> QED  BY <2>1, <3>2, <3>3, <4>1, <4>2 DEF OneRow
    <3>5. CASE pc[k] = "stopPublish"
      <4>1. phase'[x] = "done"
        BY <1>0, <1>7, <2>1, <2>4, <3>2, <3>5 DEF AnswerCharger
      <4>2. \E t \in Id : Only(t, x, x)
        BY <1>000, <3>1, <3>5 DEF OneRow
      <4> QED  BY <3>2, <3>3, <4>1, <4>2 DEF OneRow
    <3> QED  BY <2>1, <3>4, <3>5
  <2> QED  BY <2>3, <2>4
<1>8. ASSUME NEW k \in Conn, HandlerFails(k) PROVE OneRow(x)'
  <2>1. /\ pc' = [pc EXCEPT ![k] = "recv"] /\ txn' = [txn EXCEPT ![k] = NoTxn]
        /\ \A j \in Conn : j # k => txid'[j] = txid[j]
        /\ UNCHANGED <<sessions, phase, link, txMap>>
    BY <1>0, <1>8 DEF HandlerFails
  <2>2. \A j \in Conn : Handles(j, x)' => Handles(j, x) /\ j # k /\ pc'[j] = pc[j]
    BY <1>0, <2>1 DEF Handles
  <2> QED  BY <1>000, <2>1, <2>2, OneRowKept
<1>9. ASSUME Crash PROVE OneRow(x)'
  <2>1. /\ moved' = moved \union UNION {Underway(c) : c \in Charger}
        /\ \A j \in Conn : pc'[j] = "recv"
        /\ UNCHANGED <<sessions, phase>>
    BY <1>9 DEF Crash
  <2>2. phase[x] # "running"
    <3>1. phase[x] = "running" => x \in Underway(TxCp[x])
      BY DEF Underway
    <3>2. TxCp[x] \in Charger
      OBVIOUS
    <3> QED  BY <2>1, <3>1, <3>2
  <2>3. \A j \in Conn : ~ Handles(j, x)'
    BY <2>1 DEF Handles
  <2> QED  BY <1>000, <2>1, <2>2, <2>3, OneRowKept
<1>10. CASE UNCHANGED sesVars
  BY <1>000, <1>10, OneRowKept DEF sesVars, Handles
<1> QED  BY <1>1, <1>2, <1>3, <1>4, <1>5, <1>6, <1>7, <1>8, <1>9, <1>10 DEF SesNext

\* An answered "Ended" has closed exactly one session of its transaction when
\* that stayed on one connection and met no failed call.
THEOREM AnsweredEnded == SesSpec => []AnsweredEndedClosed
<1> DEFINE I == TInv /\ OwnInv /\ OneHandler /\ OneRowInv
<1>1. SesInit => I
  BY InitTInv, InitOwn, InitOneHandler, InitOneRow
<1>2. I /\ [SesNext]_sesVars => I'
  BY TStep, OwnStep, OneHandlerStep, OneRowStep
<1>3. I => AnsweredEndedClosed
  <2> SUFFICES ASSUME OneRowInv, lastId < Modulus, NEW x \in Txn, phase[x] = "done",
                      TxCp[x] \in V201, x \notin moved
               PROVE  Cardinality(ClosedRowsOf(x)) = 1
    BY DEF AnsweredEndedClosed
  <2>1. PICK t \in Id : Only(t, x, x)
    BY DEF OneRowInv, OneRow
  <2>2. ClosedRowsOf(x) = {t}
    BY <2>1 DEF Only, OwnRow, ClosedRowsOf, RowsOf
  <2> QED  BY <2>2, FS_Singleton
<1> QED  BY <1>1, <1>2, <1>3, PTL DEF SesSpec
=============================================================================
