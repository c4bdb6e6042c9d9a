--------------------------- MODULE SessionLedger ---------------------------
(***************************************************************************)
(* What the table charger_sessions promises, whatever messages, handlers   *)
(* and faults produced its rows: a session is inserted open under a fresh  *)
(* id, is closed at most once, by a stop of its own charger that goes by   *)
(* its id, and never changes afterwards.  Ids go by their remainder modulo *)
(* 2^31, so when they wrap two sessions may go by the same.                *)
(***************************************************************************)
EXTENDS Naturals

CONSTANTS
    Txn,        \* the charging transactions chargers carry out
    TxCp,       \* the charger of each
    V201,       \* the chargers that may lose a transaction's id
    NoTxn,      \* the session is open
    NoRow,      \* no session with that id yet
    MaxRows,    \* bound: sessions inserted
    Modulus     \* ids go by their remainder

VARIABLES
    sessions,   \* sessions by id: the transaction whose start inserted it and the
                \* one whose stop closed it
    lastId      \* the last id drawn

Id == 1 .. MaxRows

LInit ==
    /\ sessions = [i \in Id |-> NoRow]
    /\ lastId = 0

\* A start of transaction x inserts an open session under a fresh id.
Open(x) ==
    /\ lastId < MaxRows
    /\ lastId' = lastId + 1
    /\ sessions' = [sessions EXCEPT ![lastId + 1] = [txn |-> x, by |-> NoTxn]]

\* Transaction x goes by t: a start of x inserted a session that does, or its
\* charger lost the id and says 0.
GoesBy(x, t) ==
    \/ \E j \in Id : sessions[j] # NoRow /\ sessions[j].txn = x /\ j % Modulus = t
    \/ TxCp[x] \in V201 /\ t = 0

\* A stop of transaction x closes some sessions, all open, of its charger and
\* going by one of the ids x goes by.
Close(x, S) ==
    /\ \A i \in S : /\ sessions[i] # NoRow /\ sessions[i].by = NoTxn
                    /\ TxCp[sessions[i].txn] = TxCp[x]
    /\ \E t \in 0 .. Modulus - 1 : GoesBy(x, t) /\ \A i \in S : i % Modulus = t
    /\ sessions' = [i \in Id |-> IF i \in S THEN [sessions[i] EXCEPT !.by = x] ELSE sessions[i]]
    /\ UNCHANGED lastId

LNext == \E x \in Txn : Open(x) \/ \E S \in SUBSET Id : Close(x, S)
LSpec == LInit /\ [][LNext]_<<sessions, lastId>>
=============================================================================
