------------------------------ MODULE Gateway ------------------------------
(***************************************************************************)
(* The OCPP gateway process (backend/gateway): the tasks that serve the    *)
(* chargers' websockets (server.handle_connection), the shared registry    *)
(* `_connected`, the heartbeat watchdog, and the writes they make to the   *)
(* status column of the chargers table.                                    *)
(*                                                                         *)
(* The process is one asyncio event loop.  Code between two awaits is      *)
(* atomic; a step below is the code from one await to the next together    *)
(* with the effect of the call it awaits, so two tasks interleave exactly  *)
(* at the awaits.  A connection is a slot k of Conn that always presents   *)
(* the cp_id CpOf[k]; a slot is reused once its task has ended.            *)
(*                                                                         *)
(* router.publish is one step here.  Time advances in units of             *)
(* CHECK_INTERVAL_SEC, one scan of the watchdog per unit.                  *)
(***************************************************************************)
EXTENDS Naturals, FiniteSets

CONSTANTS
    Charger,    \* cp_ids that chargers present (rows come and go in the table)
    Conn,       \* connection slots: how many tasks may exist at a time
    CpOf,       \* the cp_id in the path of each slot's websocket
    NoConn,     \* no connection
    Kinds,      \* the kinds of OCPP calls the chargers make
    Timeout,    \* OCPP_HEARTBEAT_TIMEOUT, in scan intervals
    MaxFaults   \* bound: failed database/Redis calls and gateway crashes

NoMsg == "none"
Heartbeat == "Heartbeat"
\* The calls by what their handler does to chargers.status.
MsgKind == {Heartbeat, "BootNotification", "StatusOk", "StatusFaulted", "Other"}

ASSUME CpOfAssumption == CpOf \in [Conn -> Charger]
ASSUME NoConnAssumption == NoConn \notin Conn
ASSUME KindsAssumption == Kinds \subseteq MsgKind
ASSUME TimeoutAssumption == Timeout \in Nat \ {0}
ASSUME MaxFaultsAssumption == MaxFaults \in Nat

VARIABLES
    status,     \* chargers.status per row; "absent": no row with that cp_id
    connected,  \* server._connected: cp_id -> handler, NoConn if not a key
    pc,         \* where each connection's task is
    sock,       \* each websocket, as the gateway sees it
    victim,     \* the handler whose websocket a task is closing
    msg,        \* the call the charger has made and has no answer to
    age,        \* scan intervals since handler.last_heartbeat
    wdPc,       \* where the watchdog task is
    wdTodo,     \* what is left of the snapshot the scan iterates over
    wdCur,      \* the handler the scan is marking
    stale,      \* HeartbeatWatchdog._stale_marked
    silenced,   \* chargers whose registered handler is silent and has been
                \* announced for it (history)
    orphaned,   \* chargers that lost a task before its mark_offline (history)
    faults      \* faults so far

connVars == <<pc, sock, victim, msg>>
wdVars == <<wdPc, wdTodo, wdCur, stale>>
history == <<silenced, orphaned, faults>>
vars == <<status, connected, connVars, age, wdVars, history>>

Status == {"absent", "offline", "online", "faulted"}
\* handle_connection: awaiting lookup_org, resumed, awaiting close() of the
\* handler it replaces, in the rest of it or resumed; in start(): awaiting
\* recv(), the handler's router write, its publish; in the finally block:
\* mark_offline, publish.
ServingPc == {"serve", "update", "publish"}
Pc == {"idle", "lookup", "check", "closing", "register"} \union ServingPc
        \union {"mark", "bye"}
\* The task has been registered and its mark_offline is still to come.
BeforeMark == ServingPc \union {"mark"}
WdPc == {"sleep", "scan", "mark", "publish"}

ConnsOf(c) == {k \in Conn : CpOf[k] = c}
\* UPDATE chargers SET status = s WHERE cp_id = c: no row, no effect.
UpdateStatus(c, s) ==
    status' = IF status[c] = "absent" THEN status ELSE [status EXCEPT ![c] = s]
\* Mutant: no saturation.
MutOlderBy1(n) == n + 1
OlderBy1(n) == IF n > Timeout THEN n ELSE n + 1

TypeOK ==
    /\ status \in [Charger -> Status]
    /\ connected \in [Charger -> Conn \union {NoConn}]
    /\ pc \in [Conn -> Pc]
    /\ sock \in [Conn -> {"open", "closed"}]
    /\ victim \in [Conn -> Conn \union {NoConn}]
    /\ msg \in [Conn -> Kinds \union {NoMsg}]
    /\ age \in [Conn -> 0 .. Timeout + 1]
    /\ wdPc \in WdPc
    /\ wdTodo \subseteq Conn
    /\ wdCur \in Conn \union {NoConn}
    /\ stale \subseteq Charger
    /\ silenced \subseteq Charger
    /\ orphaned \subseteq Charger
    /\ faults \in 0 .. MaxFaults

Init ==
    /\ status \in [Charger -> {"absent", "offline"}]
    /\ connected = [c \in Charger |-> NoConn]
    /\ pc = [k \in Conn |-> "idle"]
    /\ sock = [k \in Conn |-> "closed"]
    /\ victim = [k \in Conn |-> NoConn]
    /\ msg = [k \in Conn |-> NoMsg]
    /\ age = [k \in Conn |-> 0]
    /\ wdPc = "sleep" /\ wdTodo = {} /\ wdCur = NoConn
    /\ stale = {} /\ silenced = {} /\ orphaned = {}
    /\ faults = 0

-----------------------------------------------------------------------------
(* The chargers' side and the API's side: the environment of the gateway.  *)

\* A slot is reused only when no task and no scan still holds its handler.
Unreferenced(k) == /\ \A j \in Conn : victim[j] # k
                   /\ k \notin wdTodo /\ k # wdCur

\* A charger opens a websocket; the gateway's task starts at lookup_org.
Connect(k) ==
    /\ pc[k] = "idle" /\ Unreferenced(k)
    /\ pc' = [pc EXCEPT ![k] = "lookup"]
    /\ sock' = [sock EXCEPT ![k] = "open"]
    /\ UNCHANGED <<status, connected, victim, msg, age, wdVars, history>>

\* The charger calls the gateway, as soon as the websocket is open: what comes
\* before start() is buffered.  OCPP allows one unanswered call at a time.
Send(k) ==
    /\ sock[k] = "open" /\ msg[k] = NoMsg
    /\ pc[k] \in {"lookup", "check", "closing", "register", "serve"}
    /\ \E m \in Kinds : msg' = [msg EXCEPT ![k] = m]
    /\ UNCHANGED <<status, connected, pc, sock, victim, age, wdVars, history>>

\* The charger closes the websocket, or its keepalive ping goes unanswered.
Drop(k) ==
    /\ pc[k] # "idle" /\ sock[k] = "open"
    /\ sock' = [sock EXCEPT ![k] = "closed"]
    /\ UNCHANGED <<status, connected, pc, victim, msg, age, wdVars, history>>

\* The API adds or deletes the charger's row; the gateway is not told.
CreateCharger(c) ==
    /\ status[c] = "absent"
    /\ status' = [status EXCEPT ![c] = "offline"]
    /\ UNCHANGED <<connected, connVars, age, wdVars, history>>

DeleteCharger(c) ==
    /\ status[c] # "absent"
    /\ status' = [status EXCEPT ![c] = "absent"]
    /\ UNCHANGED <<connected, connVars, age, wdVars, history>>

-----------------------------------------------------------------------------
(* server.handle_connection: accepting a charger.                          *)

\* org_id = await router.lookup_org(cp_id); an unknown cp_id is turned away.
LookupOrg(k) ==
    /\ pc[k] = "lookup"
    /\ IF status[CpOf[k]] = "absent"
         THEN /\ pc' = [pc EXCEPT ![k] = "idle"]
              /\ sock' = [sock EXCEPT ![k] = "closed"]
              /\ msg' = [msg EXCEPT ![k] = NoMsg]
         ELSE /\ pc' = [pc EXCEPT ![k] = "check"]
              /\ UNCHANGED <<sock, msg>>
    /\ UNCHANGED <<status, connected, victim, age, wdVars, history>>

\* if cp_id in _connected: await _connected[cp_id]._connection.close()
CheckExisting(k) ==
    /\ pc[k] = "check"
    /\ connected[CpOf[k]] # NoConn
    /\ victim' = [victim EXCEPT ![k] = connected[CpOf[k]]]
    /\ pc' = [pc EXCEPT ![k] = "closing"]
    /\ UNCHANGED <<status, connected, sock, msg, age, wdVars, history>>

\* The close handshake completes: the old handler's recv() will raise, while
\* close() still waits for the TCP connection to end.
CloseExisting(k) ==
    /\ pc[k] = "closing"
    /\ sock' = [sock EXCEPT ![victim[k]] = "closed"]
    /\ victim' = [victim EXCEPT ![k] = NoConn]
    /\ pc' = [pc EXCEPT ![k] = "register"]
    /\ UNCHANGED <<status, connected, msg, age, wdVars, history>>

\* _connected[cp_id] = cp, a new handler with last_heartbeat = now; start().
Register(k) ==
    /\ \/ pc[k] = "register"
       \/ pc[k] = "check" /\ connected[CpOf[k]] = NoConn
    /\ connected' = [connected EXCEPT ![CpOf[k]] = k]
    /\ pc' = [pc EXCEPT ![k] = "serve"]
    /\ age' = [age EXCEPT ![k] = 0]
    /\ silenced' = silenced \ {CpOf[k]}
    /\ UNCHANGED <<status, sock, victim, msg, wdVars, orphaned, faults>>

-----------------------------------------------------------------------------
(* cp.start(): the handlers of ChargePulseCP16 and ChargePulseCP201.       *)

\* A call is received (one buffered before the close still is).  Only
\* on_heartbeat moves last_heartbeat, before its first await.
Receive(k) ==
    /\ pc[k] = "serve" /\ msg[k] # NoMsg
    /\ pc' = [pc EXCEPT ![k] = IF msg[k] = "Other" THEN "publish" ELSE "update"]
    /\ msg' = [msg EXCEPT ![k] = IF @ = "Other" THEN NoMsg ELSE @]
    /\ IF msg[k] = Heartbeat
         THEN /\ age' = [age EXCEPT ![k] = 0]
              /\ silenced' = IF connected[CpOf[k]] = k
                               THEN silenced \ {CpOf[k]} ELSE silenced
         ELSE UNCHANGED <<age, silenced>>
    /\ UNCHANGED <<status, connected, sock, victim, wdVars, orphaned, faults>>

\* Mutant: a heartbeat writes last_heartbeat_at and leaves the status.
MutHandlerUpdate(k) ==
    /\ pc[k] = "update"
    /\ IF msg[k] = Heartbeat THEN UNCHANGED status
         ELSE UpdateStatus(CpOf[k], IF msg[k] = "StatusFaulted" THEN "faulted" ELSE "online")
    /\ pc' = [pc EXCEPT ![k] = "publish"]
    /\ msg' = [msg EXCEPT ![k] = NoMsg]
    /\ UNCHANGED <<connected, sock, victim, age, wdVars, history>>

\* update_heartbeat, upsert_charger_on_boot, update_status.
HandlerUpdate(k) ==
    /\ pc[k] = "update"
    /\ UpdateStatus(CpOf[k], IF msg[k] = "StatusFaulted" THEN "faulted" ELSE "online")
    /\ pc' = [pc EXCEPT ![k] = "publish"]
    /\ msg' = [msg EXCEPT ![k] = NoMsg]
    /\ UNCHANGED <<connected, sock, victim, age, wdVars, history>>

\* await router.publish(...), then the reply; back to recv().
HandlerPublish(k) ==
    /\ pc[k] = "publish"
    /\ pc' = [pc EXCEPT ![k] = "serve"]
    /\ UNCHANGED <<status, connected, sock, victim, msg, age, wdVars, history>>

\* Mutant: the handler is not popped.
MutConnectionClosed(k) ==
    /\ pc[k] = "serve" /\ msg[k] = NoMsg /\ sock[k] = "closed"
    /\ pc' = [pc EXCEPT ![k] = "mark"]
    /\ UNCHANGED <<status, connected, sock, victim, msg, age, wdVars, history>>

\* recv() raises ConnectionClosed; finally: _connected.pop(cp_id, None) pops
\* whatever handler is registered under the cp_id by now.
ConnectionClosed(k) ==
    /\ pc[k] = "serve" /\ msg[k] = NoMsg /\ sock[k] = "closed"
    /\ connected' = [connected EXCEPT ![CpOf[k]] = NoConn]
    /\ pc' = [pc EXCEPT ![k] = "mark"]
    /\ silenced' = silenced \ {CpOf[k]}
    /\ UNCHANGED <<status, sock, victim, msg, age, wdVars, orphaned, faults>>

\* Mutant: only a charger that has not been replaced in the registry (popped
\* just before) would be marked: none is.
MutMarkOffline(k) ==
    /\ pc[k] = "mark"
    /\ IF connected[CpOf[k]] = k THEN UpdateStatus(CpOf[k], "offline")
                                 ELSE UNCHANGED status
    /\ pc' = [pc EXCEPT ![k] = "bye"]
    /\ UNCHANGED <<connected, sock, victim, msg, age, wdVars, history>>

\* finally: await router.mark_offline(cp_id)
MarkOffline(k) ==
    /\ pc[k] = "mark"
    /\ UpdateStatus(CpOf[k], "offline")
    /\ pc' = [pc EXCEPT ![k] = "bye"]
    /\ orphaned' = orphaned \ {CpOf[k]}
    /\ UNCHANGED <<connected, sock, victim, msg, age, wdVars, silenced, faults>>

\* finally: await router.publish(disconnect, ws_closed); the task ends.
PublishClosed(k) ==
    /\ pc[k] = "bye"
    /\ pc' = [pc EXCEPT ![k] = "idle"]
    /\ UNCHANGED <<status, connected, sock, victim, msg, age, wdVars, history>>

-----------------------------------------------------------------------------
(* HeartbeatWatchdog                                                       *)

\* Mutant: the snapshot is taken before the loop, when nobody is connected.
MutTick ==
    /\ wdPc = "sleep"
    /\ age' = [k \in Conn |-> IF pc[k] = "idle" THEN 0 ELSE OlderBy1(age[k])]
    /\ wdPc' = "scan"
    /\ UNCHANGED <<status, connected, connVars, wdTodo, wdCur, stale, history>>

\* sleep(CHECK_INTERVAL_SEC) ends; _scan takes `now` and the snapshot.
Tick ==
    /\ wdPc = "sleep"
    /\ age' = [k \in Conn |-> IF pc[k] = "idle" THEN 0 ELSE OlderBy1(age[k])]
    /\ wdTodo' = {k \in Conn : connected[CpOf[k]] = k}
    /\ wdPc' = "scan"
    /\ UNCHANGED <<status, connected, connVars, wdCur, stale, history>>

\* age > timeout and cp_id not in _stale_marked: go and mark it offline.
ScanSilent(k) ==
    /\ wdPc = "scan" /\ k \in wdTodo
    /\ age[k] > Timeout /\ CpOf[k] \notin stale
    /\ wdTodo' = wdTodo \ {k}
    /\ wdCur' = k
    /\ wdPc' = "mark"
    /\ UNCHANGED <<status, connected, connVars, age, stale, history>>

\* age <= timeout: discard the mark if there is one; else nothing to do.
ScanOther(k) ==
    /\ wdPc = "scan" /\ k \in wdTodo
    /\ age[k] <= Timeout \/ CpOf[k] \in stale
    /\ wdTodo' = wdTodo \ {k}
    /\ stale' = IF age[k] <= Timeout THEN stale \ {CpOf[k]} ELSE stale
    /\ UNCHANGED <<status, connected, connVars, age, wdPc, wdCur, history>>

ScanDone ==
    /\ wdPc = "scan" /\ wdTodo = {}
    /\ wdPc' = "sleep"
    /\ UNCHANGED <<status, connected, connVars, age, wdTodo, wdCur, stale, history>>

WdMarkOffline ==
    /\ wdPc = "mark"
    /\ UpdateStatus(CpOf[wdCur], "offline")
    /\ wdPc' = "publish"
    /\ orphaned' = orphaned \ {CpOf[wdCur]}
    /\ UNCHANGED <<connected, connVars, age, wdTodo, wdCur, stale,
                   silenced, faults>>

\* Mutant: the charger is not remembered as marked.
MutWdPublish ==
    LET c == CpOf[wdCur] IN
    /\ wdPc = "publish"
    /\ silenced' = IF connected[c] = wdCur /\ age[wdCur] > Timeout
                     THEN silenced \union {c} ELSE silenced
    /\ wdPc' = "scan"
    /\ wdCur' = NoConn
    /\ UNCHANGED <<status, connected, connVars, age, wdTodo, stale, orphaned, faults>>

\* await router.publish(disconnect, heartbeat_timeout); _stale_marked.add.
\* The silence is announced if it has lasted until now.
WdPublish ==
    LET c == CpOf[wdCur] IN
    /\ wdPc = "publish"
    /\ stale' = stale \union {c}
    /\ silenced' = IF connected[c] = wdCur /\ age[wdCur] > Timeout
                     THEN silenced \union {c} ELSE silenced
    /\ wdPc' = "scan"
    /\ wdCur' = NoConn
    /\ UNCHANGED <<status, connected, connVars, age, wdTodo, orphaned, faults>>

-----------------------------------------------------------------------------
(* Faults: a database or Redis call raises, the process is killed.         *)

Fault == faults < MaxFaults /\ faults' = faults + 1

\* The exception of a handler becomes a CallError; the connection goes on.
HandlerFails(k) ==
    /\ Fault
    /\ pc[k] \in {"update", "publish"}
    /\ pc' = [pc EXCEPT ![k] = "serve"]
    /\ msg' = [msg EXCEPT ![k] = NoMsg]
    /\ UNCHANGED <<status, connected, sock, victim, age, wdVars, silenced, orphaned>>

\* An exception in lookup_org, or in the finally block, ends the task there.
TaskFails(k) ==
    /\ Fault
    /\ pc[k] \in {"lookup", "mark", "bye"}
    /\ pc' = [pc EXCEPT ![k] = "idle"]
    /\ sock' = [sock EXCEPT ![k] = "closed"]
    /\ msg' = [msg EXCEPT ![k] = NoMsg]
    /\ orphaned' = IF pc[k] = "mark" THEN orphaned \union {CpOf[k]} ELSE orphaned
    /\ UNCHANGED <<status, connected, victim, age, wdVars, silenced>>

\* "Watchdog scan failed": the rest of the snapshot is not looked at.
ScanFails ==
    /\ Fault
    /\ wdPc \in {"mark", "publish"}
    /\ wdPc' = "sleep" /\ wdTodo' = {} /\ wdCur' = NoConn
    /\ UNCHANGED <<status, connected, connVars, age, stale, silenced, orphaned>>

\* The container dies and is restarted (restart: unless-stopped).
Crash ==
    /\ Fault
    /\ connected' = [c \in Charger |-> NoConn]
    /\ pc' = [k \in Conn |-> "idle"]
    /\ sock' = [k \in Conn |-> "closed"]
    /\ victim' = [k \in Conn |-> NoConn]
    /\ msg' = [k \in Conn |-> NoMsg]
    /\ age' = [k \in Conn |-> 0]
    /\ wdPc' = "sleep" /\ wdTodo' = {} /\ wdCur' = NoConn
    /\ stale' = {} /\ silenced' = {}
    /\ orphaned' = orphaned \union {CpOf[k] : k \in {j \in Conn : pc[j] \in BeforeMark}}
    /\ UNCHANGED status

-----------------------------------------------------------------------------
ConnTask(k) ==
    \/ LookupOrg(k) \/ CheckExisting(k) \/ CloseExisting(k) \/ Register(k)
    \/ Receive(k) \/ HandlerUpdate(k) \/ HandlerPublish(k)
    \/ ConnectionClosed(k) \/ MarkOffline(k) \/ PublishClosed(k)

Scan == (\E k \in Conn : ScanSilent(k) \/ ScanOther(k))
            \/ ScanDone \/ WdMarkOffline \/ WdPublish

ChargerSide(k) == Connect(k) \/ Send(k) \/ Drop(k)
Api(c) == CreateCharger(c) \/ DeleteCharger(c)
Faults == (\E k \in Conn : HandlerFails(k) \/ TaskFails(k)) \/ ScanFails \/ Crash

Next ==
    \/ \E k \in Conn : ChargerSide(k) \/ ConnTask(k)
    \/ \E c \in Charger : Api(c)
    \/ Tick \/ Scan
    \/ Faults

Spec == Init /\ [][Next]_vars

\* The event loop runs every ready task and the clock goes on; chargers,
\* the API and faults are free to do nothing.
Fairness ==
    /\ \A k \in Conn : WF_vars(ConnTask(k))
    /\ WF_vars(Tick) /\ WF_vars(Scan)
FairSpec == Spec /\ Fairness
-----------------------------------------------------------------------------
(* Properties *)

\* The registry never holds a handler whose task has left start(), nor one of
\* another charger: what the watchdog and the command consumer find in
\* _connected is being served, however connects, replacements and the pops of
\* old tasks' finally blocks interleave.
RegistryIsLive ==
    \A c \in Charger : connected[c] # NoConn =>
        /\ connected[c] \in ConnsOf(c)
        /\ pc[connected[c]] \in ServingPc

\* A charger shown online or faulted has a task that will still mark it
\* offline, however many connections it opened and lost and whatever old
\* tasks wrote last, unless a crash or a failed UPDATE took that task away.
UpHasATask ==
    \A c \in Charger : status[c] \in {"online", "faulted"} =>
        \/ \E k \in ConnsOf(c) : pc[k] \in BeforeMark
        \/ c \in orphaned

\* The watchdog never announces one silence twice: between two decisions to
\* mark a charger whose first announcement went through there is a heartbeat
\* of the registered handler, or the registry changed
\* (HeartbeatWatchdog._stale_marked).
SilenceAnnouncedOnce ==
    [][wdPc' = "mark" /\ wdPc # "mark" => CpOf[wdCur'] \notin silenced]_vars

\* Invariant form of what the watchdog's memory must record for that: an
\* announced charger is marked, its handler is still registered and silent,
\* and it is the only one of that charger a scan under way can reach.
AnnouncedIsMarked ==
    \A c \in silenced :
        /\ c \in stale
        /\ connected[c] # NoConn /\ age[connected[c]] > Timeout
        /\ wdTodo \intersect ConnsOf(c) \subseteq {connected[c]}

\* Every silence of a registered charger is announced, unless it ends first:
\* a mark left from an earlier silence (forget is never called) does not
\* swallow the next one.  A silence is what the watchdog takes for one, no
\* Heartbeat in time; that other calls do not end it is the matter of
\* MCSilence.
Silent(c) == connected[c] # NoConn /\ age[connected[c]] > Timeout
SilenceIsAnnounced == \A c \in Charger : Silent(c) ~> (c \in silenced \/ ~Silent(c))

\* A charger left with one connection that keeps its heartbeats coming ends up
\* online or faulted for good: whatever offline marks the watchdog and the old
\* tasks still had under way, a later heartbeat repairs them.
SteadyOn(k) ==
    /\ pc[k] \in ServingPc /\ age[k] <= Timeout
    /\ status[CpOf[k]] # "absent"
    /\ \A j \in ConnsOf(CpOf[k]) \ {k} : pc[j] = "idle"
SteadyIsUp ==
    \A k \in Conn : <>[]SteadyOn(k) => <>[](status[CpOf[k]] # "offline")

\* server.py:32: "_connected ... ensures one connection per CP".
OneConnectionPerCP ==
    \A k, j \in Conn :
        (/\ k # j /\ CpOf[k] = CpOf[j]
         /\ pc[k] \in ServingPc /\ pc[j] \in ServingPc)
        => sock[k] = "closed" \/ sock[j] = "closed"
=============================================================================
