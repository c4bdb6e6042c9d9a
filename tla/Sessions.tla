------------------------------ MODULE Sessions ------------------------------
(***************************************************************************)
(* Charging transactions through the gateway: StartTransaction and         *)
(* StopTransaction of OCPP 1.6 (handler_v16), TransactionEvent of OCPP     *)
(* 2.0.1 (handler_v201, with its per-connection _tx_map), and              *)
(* router.record_session_start / record_session_stop on charger_sessions.  *)
(*                                                                         *)
(* A charger repeats a transaction message until it is answered, over a    *)
(* new connection if the old one is gone; the gateway finishes the message *)
(* of a lost connection all the same.  A step is the code from one await   *)
(* to the next.  Meter readings and times are left out: the stop writes    *)
(* its own into the rows it closes, so which transaction closed a row      *)
(* (`by`) decides them.                                                    *)
(***************************************************************************)
EXTENDS Naturals, FiniteSets

CONSTANTS
    Txn,        \* the charging transactions chargers carry out
    TxCp,       \* the charger of each
    NoTxn,      \* the row is open: stopped_at IS NULL
    NoRow,      \* no row with that id yet
    MaxRows,    \* bound: ids drawn from the sequence of charger_sessions.id
    Charger,
    V201,       \* the chargers that speak OCPP 2.0.1; the others speak 1.6
    Conn,       \* connection slots
    CpOf,       \* the charger of each slot
    NoConn,
    Modulus,    \* 2^31: transaction ids are row ids modulo it
    MaxFailures \* bound: failed calls and gateway crashes

NoTx == Modulus     \* not a transaction id: ids are below Modulus
Id == 1 .. MaxRows
Row == [txn : Txn, by : Txn \union {NoTxn}]

ASSUME SessionConstants ==
    /\ TxCp \in [Txn -> Charger] /\ CpOf \in [Conn -> Charger]
    /\ V201 \subseteq Charger
    /\ NoTxn \notin Txn /\ NoConn \notin Conn
    /\ NoRow \notin Row
    /\ Modulus \in Nat \ {0} /\ MaxRows \in Nat /\ MaxFailures \in Nat

VARIABLES
    sessions,   \* charger_sessions by id: the transaction whose start inserted
                \* the row and the one whose stop closed it
    lastId,     \* the last id drawn
    phase,      \* each transaction, as its charger knows it
    acked,      \* 1.6: the transaction id in the answer to StartTransaction
    link,       \* the connection each charger uses now
    pc,         \* where the handler of each connection is
    txn,        \* the transaction of the message being handled
    txid,       \* tx_id / tx_id_int, the handler's local
    txMap,      \* 2.0.1: handler._tx_map
    failures,
    moved       \* transactions whose charger changed connection, or a call of
                \* theirs failed, since they started (history)

chargerVars == <<phase, acked, link>>
handlerVars == <<pc, txn, txid, txMap>>
sesVars == <<sessions, lastId, chargerVars, handlerVars, failures, moved>>

Phase == {"new", "starting", "running", "ending", "done"}
Pc == {"recv", "insert", "touch", "startPublish", "update", "stopPublish"}
TxId == 0 .. Modulus - 1

SesTypeOK ==
    /\ sessions \in [Id -> Row \union {NoRow}]
    /\ lastId \in 0 .. MaxRows
    /\ phase \in [Txn -> Phase]
    /\ acked \in [Txn -> TxId \union {NoTx}]
    /\ link \in [Charger -> Conn \union {NoConn}]
    /\ pc \in [Conn -> Pc]
    /\ txn \in [Conn -> Txn \union {NoTxn}]
    /\ txid \in [Conn -> TxId \union {NoTx}]
    /\ \A k \in Conn : pc[k] \in {"touch", "startPublish", "update"} => txid[k] \in TxId
    /\ txMap \in [Conn -> [Txn -> TxId \union {NoTx}]]
    /\ failures \in 0 .. MaxFailures
    /\ moved \subseteq Txn

EmptyMap == [x \in Txn |-> NoTx]

SesInit ==
    /\ sessions = [i \in Id |-> NoRow]
    /\ lastId = 0
    /\ phase = [x \in Txn |-> "new"]
    /\ acked = [x \in Txn |-> NoTx]
    /\ link = [c \in Charger |-> NoConn]
    /\ pc = [k \in Conn |-> "recv"]
    /\ txn = [k \in Conn |-> NoTxn]
    /\ txid = [k \in Conn |-> NoTx]
    /\ txMap = [k \in Conn |-> EmptyMap]
    /\ failures = 0
    /\ moved = {}

\* WHERE cp_id = ... AND stopped_at IS NULL
OpenRows(c) == {i \in Id : /\ sessions[i] # NoRow
                           /\ TxCp[sessions[i].txn] = c
                           /\ sessions[i].by = NoTxn}

Underway(c) == {x \in Txn : TxCp[x] = c /\ phase[x] \in {"starting", "running", "ending"}}

-----------------------------------------------------------------------------
\* The charger's connection is gone and it opens another: a new handler with
\* an empty _tx_map.  The old handler may still be at work.
Connect(k) ==
    /\ link[CpOf[k]] # k
    /\ pc[k] = "recv"
    /\ link' = [link EXCEPT ![CpOf[k]] = k]
    /\ txMap' = [txMap EXCEPT ![k] = EmptyMap]
    /\ moved' = moved \union Underway(CpOf[k])
    /\ UNCHANGED <<sessions, lastId, phase, acked, pc, txn, txid, failures>>

\* The message reaches the handler; while unanswered it is sent again.
Deliver(k, x) ==
    /\ link[TxCp[x]] = k /\ pc[k] = "recv"
    /\ txn' = [txn EXCEPT ![k] = x]
    /\ UNCHANGED <<sessions, lastId, acked, link, failures, moved>>

\* on_start_transaction; on_transaction_event, event_type "Started".  The
\* guard on lastId is the bound on rows.
Start(k, x) ==
    /\ Deliver(k, x)
    /\ phase[x] \in {"new", "starting"}
    /\ lastId + Cardinality({j \in Conn : pc[j] = "insert"}) < MaxRows
    /\ phase' = [phase EXCEPT ![x] = "starting"]
    /\ pc' = [pc EXCEPT ![k] = "insert"]
    /\ UNCHANGED <<txid, txMap>>

\* on_stop_transaction: the id the charger was given.
\* "Ended": tx_id_int = self._tx_map.pop(tx_id_str, 0).
Stop(k, x) ==
    /\ Deliver(k, x)
    /\ phase[x] \in {"running", "ending"}
    /\ phase' = [phase EXCEPT ![x] = "ending"]
    /\ pc' = [pc EXCEPT ![k] = "update"]
    /\ IF TxCp[x] \in V201
         THEN /\ txid' = [txid EXCEPT ![k] = IF txMap[k][x] = NoTx THEN 0 ELSE txMap[k][x]]
              /\ txMap' = [txMap EXCEPT ![k][x] = NoTx]
         ELSE /\ txid' = [txid EXCEPT ![k] = acked[x]]
              /\ UNCHANGED txMap

\* Mutant: the id returned is the one before the inserted row's.
MutInsertSession(k) ==
    /\ pc[k] = "insert"
    /\ lastId < MaxRows /\ lastId' = lastId + 1
    /\ sessions' = [sessions EXCEPT ![lastId + 1] = [txn |-> txn[k], by |-> NoTxn]]
    /\ txid' = [txid EXCEPT ![k] = lastId % Modulus]
    /\ pc' = [pc EXCEPT ![k] = "touch"]
    /\ UNCHANGED <<chargerVars, txn, txMap, failures, moved>>

\* Mutant: the id is not truncated.
MutInsertUntruncated(k) ==
    /\ pc[k] = "insert"
    /\ lastId < MaxRows /\ lastId' = lastId + 1
    /\ sessions' = [sessions EXCEPT ![lastId + 1] = [txn |-> txn[k], by |-> NoTxn]]
    /\ txid' = [txid EXCEPT ![k] = lastId']
    /\ pc' = [pc EXCEPT ![k] = "touch"]
    /\ UNCHANGED <<chargerVars, txn, txMap, failures, moved>>

\* record_session_start: INSERT ... RETURNING id.
InsertSession(k) ==
    /\ pc[k] = "insert"
    /\ lastId < MaxRows /\ lastId' = lastId + 1
    /\ sessions' = [sessions EXCEPT ![lastId + 1] = [txn |-> txn[k], by |-> NoTxn]]
    /\ txid' = [txid EXCEPT ![k] = lastId' % Modulus]
    /\ pc' = [pc EXCEPT ![k] = "touch"]
    /\ UNCHANGED <<chargerVars, txn, txMap, failures, moved>>

\* Mutant: the 2.0.1 handler does not remember the id.
MutTouchCharger(k) ==
    /\ pc[k] = "touch"
    /\ pc' = [pc EXCEPT ![k] = "startPublish"]
    /\ UNCHANGED <<sessions, lastId, chargerVars, txn, txid, txMap, failures, moved>>

\* record_session_start: UPDATE chargers SET last_session_at; back in the
\* 2.0.1 handler, self._tx_map[tx_id_str] = tx_id_int.
TouchCharger(k) ==
    /\ pc[k] = "touch"
    /\ pc' = [pc EXCEPT ![k] = "startPublish"]
    /\ txMap' = IF CpOf[k] \in V201
                  THEN [txMap EXCEPT ![k][txn[k]] = txid[k]] ELSE txMap
    /\ UNCHANGED <<sessions, lastId, chargerVars, txn, txid, failures, moved>>

\* Mutant: the stop closes whatever is open on the charger.
MutUpdateAnyOpen(k) ==
    /\ pc[k] = "update"
    /\ sessions' = [i \in Id |-> IF i \in OpenRows(CpOf[k])
                                   THEN [sessions[i] EXCEPT !.by = txn[k]] ELSE sessions[i]]
    /\ pc' = [pc EXCEPT ![k] = "stopPublish"]
    /\ UNCHANGED <<lastId, chargerVars, txn, txid, txMap, failures, moved>>

\* Mutant: the stop does not ask whose session it is.
MutUpdateAnyCharger(k) ==
    /\ pc[k] = "update"
    /\ sessions' = [i \in Id |->
                    IF sessions[i] # NoRow /\ sessions[i].by = NoTxn /\ i % Modulus = txid[k]
                      THEN [sessions[i] EXCEPT !.by = txn[k]] ELSE sessions[i]]
    /\ pc' = [pc EXCEPT ![k] = "stopPublish"]
    /\ UNCHANGED <<lastId, chargerVars, txn, txid, txMap, failures, moved>>

\* record_session_stop: UPDATE ... WHERE cp_id = $4 AND id % 2^31 = $5 AND
\* stopped_at IS NULL.
UpdateSession(k) ==
    /\ pc[k] = "update"
    /\ LET found == {i \in OpenRows(CpOf[k]) : i % Modulus = txid[k]} IN
       sessions' = [i \in Id |-> IF i \in found THEN [sessions[i] EXCEPT !.by = txn[k]]
                                               ELSE sessions[i]]
    /\ pc' = [pc EXCEPT ![k] = "stopPublish"]
    /\ UNCHANGED <<lastId, chargerVars, txn, txid, txMap, failures, moved>>

\* publish(tx_start / tx_stop), then the answer: it reaches the charger unless
\* the charger has left this connection.
AnswerCharger(k) ==
    LET x == txn[k] IN
    /\ pc[k] \in {"startPublish", "stopPublish"}
    /\ pc' = [pc EXCEPT ![k] = "recv"]
    /\ txn' = [txn EXCEPT ![k] = NoTxn]
    /\ txid' = [txid EXCEPT ![k] = NoTx]
    /\ IF link[CpOf[k]] = k
         THEN IF pc[k] = "startPublish"
                THEN /\ phase' = [phase EXCEPT ![x] = "running"]
                     /\ acked' = [acked EXCEPT ![x] = txid[k]]
                ELSE /\ phase' = [phase EXCEPT ![x] = "done"]
                     /\ UNCHANGED acked
         ELSE UNCHANGED <<phase, acked>>
    /\ UNCHANGED <<sessions, lastId, link, txMap, failures, moved>>

-----------------------------------------------------------------------------
\* A call of the handler raises: the charger gets a CallError, no answer.
HandlerFails(k) ==
    /\ pc[k] # "recv"
    /\ failures < MaxFailures /\ failures' = failures + 1
    /\ pc' = [pc EXCEPT ![k] = "recv"]
    /\ moved' = moved \union {txn[k]}
    /\ txn' = [txn EXCEPT ![k] = NoTxn]
    /\ txid' = [txid EXCEPT ![k] = NoTx]
    /\ UNCHANGED <<sessions, lastId, chargerVars, txMap>>

\* The gateway is killed and restarted: the table is what is left.
Crash ==
    /\ failures < MaxFailures /\ failures' = failures + 1
    /\ link' = [c \in Charger |-> NoConn]
    /\ pc' = [k \in Conn |-> "recv"]
    /\ txn' = [k \in Conn |-> NoTxn]
    /\ txid' = [k \in Conn |-> NoTx]
    /\ txMap' = [k \in Conn |-> EmptyMap]
    /\ moved' = moved \union UNION {Underway(c) : c \in Charger}
    /\ UNCHANGED <<sessions, lastId, phase, acked>>

SesNext ==
    \/ \E k \in Conn :
         \/ Connect(k)
         \/ \E x \in Txn : Start(k, x) \/ Stop(k, x)
         \/ InsertSession(k) \/ TouchCharger(k) \/ UpdateSession(k) \/ AnswerCharger(k)
         \/ HandlerFails(k)
    \/ Crash

SesSpec == SesInit /\ [][SesNext]_sesVars

-----------------------------------------------------------------------------
(* Properties *)

RowsOf(x) == {i \in Id : sessions[i] # NoRow /\ sessions[i].txn = x}
ClosedRowsOf(x) == {i \in RowsOf(x) : sessions[i].by # NoTxn}

\* While the ids have not wrapped around 2^31, a session is closed by the stop
\* of the transaction that opened it, not by another of the same charger:
\* its energy and duration are that transaction's.
ClosedByItsOwn ==
    lastId < Modulus =>
        \A i \in Id : sessions[i] # NoRow => sessions[i].by \in {NoTxn, sessions[i].txn}

\* 1.6: a stop that has been answered has closed exactly one session of its
\* transaction, however often start and stop were sent and over however many
\* connections; what else the repeated starts inserted stays open.
AnsweredStopClosedOne ==
    lastId < Modulus =>
        \A x \in Txn : phase[x] = "done" /\ TxCp[x] \notin V201
                         => Cardinality(ClosedRowsOf(x)) = 1

\* 2.0.1: the same, for a transaction that stayed on one connection and met no
\* failed call.
AnsweredEndedClosed ==
    lastId < Modulus =>
        \A x \in Txn : phase[x] = "done" /\ TxCp[x] \in V201 /\ x \notin moved
                         => Cardinality(ClosedRowsOf(x)) = 1

\* The table keeps the promises of SessionLedger, also when the ids wrap: what
\* a stop closes, even one that was repeated, overtaken by another connection
\* or carried the 0 of a lost _tx_map, is open, is of its own charger and goes
\* by the id of a session its transaction started.
Ledger == INSTANCE SessionLedger
KeepsLedger == Ledger!LSpec

\* handler_v201.py:145: "Ended -> tx_stop (finalises session)".
EndedFinalises ==
    \A x \in Txn : phase[x] = "done" /\ TxCp[x] \in V201 => ClosedRowsOf(x) # {}
=============================================================================
