--------------------------- MODULE GatewayProofs ---------------------------
(***************************************************************************)
(* Safety of the gateway for any set of chargers, any number of connection *)
(* slots, any timeout and any number of faults.                            *)
(***************************************************************************)
EXTENDS Gateway, TLAPS

\* What the control points say about the two references tasks hold across an
\* await, and about the snapshot: one handler per charger, and none of the
\* charger the scan is busy with.
ControlInv ==
    /\ \A k \in Conn : pc[k] = "closing" => victim[k] \in Conn
    /\ wdPc \in {"mark", "publish"} =>
         /\ wdCur \in Conn
         /\ \A k \in wdTodo : CpOf[k] # CpOf[wdCur]
    /\ \A j, k \in wdTodo : CpOf[j] = CpOf[k] => j = k

IInv == TypeOK /\ ControlInv /\ RegistryIsLive /\ UpHasATask /\ AnnouncedIsMarked

USE CpOfAssumption, NoConnAssumption, KindsAssumption, TimeoutAssumption,
    MaxFaultsAssumption

\* OlderBy1 saturates just above the timeout.
LEMMA OlderBy1Type ==
    \A n \in 0 .. Timeout + 1 :
        /\ OlderBy1(n) \in 0 .. Timeout + 1
        /\ n > Timeout => OlderBy1(n) > Timeout
  BY DEF OlderBy1

\* An UPDATE of one row leaves the others alone, and writes s or hits no row.
LEMMA UpdateStatusEffect ==
    ASSUME status \in [Charger -> Status], NEW c \in Charger, NEW s \in Status,
           UpdateStatus(c, s)
    PROVE  /\ status' \in [Charger -> Status]
           /\ \A d \in Charger : d # c => status'[d] = status[d]
           /\ status'[c] \in {s, "absent"}
  BY DEF UpdateStatus, Status

\* The initial states satisfy the inductive invariant.
LEMMA InitIInv == Init => IInv
  BY DEF Init, IInv, TypeOK, ControlInv, RegistryIsLive, UpHasATask,
         AnnouncedIsMarked, Status, Pc, WdPc, MsgKind

\* Every step keeps the types.
LEMMA TypeStep == IInv /\ [Next]_vars => TypeOK'
<1> SUFFICES ASSUME IInv, [Next]_vars PROVE TypeOK'
  OBVIOUS
<1> USE DEF IInv, TypeOK, connVars, wdVars, history, ServingPc, Pc, WdPc
<1>1. ASSUME NEW k \in Conn, ChargerSide(k) PROVE TypeOK'
  BY <1>1 DEF ChargerSide, Connect, Send, Drop
<1>2. ASSUME NEW k \in Conn, LookupOrg(k) PROVE TypeOK'
  BY <1>2 DEF LookupOrg
<1>3. ASSUME NEW k \in Conn, CheckExisting(k) PROVE TypeOK'
  BY <1>3 DEF CheckExisting
<1>4. ASSUME NEW k \in Conn, CloseExisting(k) PROVE TypeOK'
  BY <1>4 DEF CloseExisting, ControlInv
<1>5. ASSUME NEW k \in Conn, Register(k) PROVE TypeOK'
  BY <1>5 DEF Register
<1>6. ASSUME NEW k \in Conn, Receive(k) PROVE TypeOK'
  BY <1>6 DEF Receive
<1>7. ASSUME NEW k \in Conn, HandlerUpdate(k) PROVE TypeOK'
  <2>1. status' \in [Charger -> Status]
    BY <1>7, UpdateStatusEffect DEF HandlerUpdate, Status
  <2> QED  BY <1>7, <2>1 DEF HandlerUpdate
<1>8. ASSUME NEW k \in Conn, HandlerPublish(k) PROVE TypeOK'
  BY <1>8 DEF HandlerPublish
<1>9. ASSUME NEW k \in Conn, ConnectionClosed(k) PROVE TypeOK'
  BY <1>9 DEF ConnectionClosed
<1>10. ASSUME NEW k \in Conn, MarkOffline(k) PROVE TypeOK'
  <2>1. status' \in [Charger -> Status]
    BY <1>10, UpdateStatusEffect DEF MarkOffline, Status
  <2> QED  BY <1>10, <2>1 DEF MarkOffline
<1>11. ASSUME NEW k \in Conn, PublishClosed(k) PROVE TypeOK'
  BY <1>11 DEF PublishClosed
<1>12. ASSUME NEW c \in Charger, Api(c) PROVE TypeOK'
  BY <1>12 DEF Api, CreateCharger, DeleteCharger, Status
<1>13. ASSUME Tick PROVE TypeOK'
  <2>1. age' \in [Conn -> 0 .. Timeout + 1]
    BY <1>13, OlderBy1Type DEF Tick
  <2> QED  BY <1>13, <2>1 DEF Tick
<1>14. ASSUME NEW k \in Conn, ScanSilent(k) \/ ScanOther(k) PROVE TypeOK'
  BY <1>14 DEF ScanSilent, ScanOther
<1>15. ASSUME ScanDone PROVE TypeOK'
  BY <1>15 DEF ScanDone
<1>16. ASSUME WdMarkOffline PROVE TypeOK'
  <2>1. wdCur \in Conn
    BY <1>16 DEF WdMarkOffline, ControlInv
  <2>2. status' \in [Charger -> Status]
    BY <1>16, <2>1, UpdateStatusEffect DEF WdMarkOffline, Status
  <2> QED  BY <1>16, <2>1, <2>2 DEF WdMarkOffline
<1>17. ASSUME WdPublish PROVE TypeOK'
  BY <1>17 DEF WdPublish, ControlInv
<1>18. ASSUME NEW k \in Conn, HandlerFails(k) \/ TaskFails(k) PROVE TypeOK'
  BY <1>18 DEF HandlerFails, TaskFails, Fault
<1>19. ASSUME ScanFails PROVE TypeOK'
  BY <1>19 DEF ScanFails, Fault
<1>20. ASSUME Crash PROVE TypeOK'
  BY <1>20 DEF Crash, Fault
<1>21. CASE UNCHANGED vars
  BY <1>21 DEF vars
<1> QED
  BY <1>1, <1>2, <1>3, <1>4, <1>5, <1>6, <1>7, <1>8, <1>9, <1>10, <1>11, <1>12,
     <1>13, <1>14, <1>15, <1>16, <1>17, <1>18, <1>19, <1>20, <1>21
     DEF Next, ConnTask, Scan, Faults

\* Every step keeps what the control points promise.
LEMMA ControlStep == IInv /\ [Next]_vars => ControlInv'
<1> SUFFICES ASSUME IInv, [Next]_vars PROVE ControlInv'
  OBVIOUS
<1> USE DEF IInv, TypeOK, ControlInv, connVars, wdVars, history
<1>1. ASSUME NEW k \in Conn, ChargerSide(k) PROVE ControlInv'
  BY <1>1 DEF ChargerSide, Connect, Send, Drop
<1>2. ASSUME NEW k \in Conn,
             \/ LookupOrg(k) \/ CheckExisting(k) \/ CloseExisting(k)
             \/ HandlerPublish(k) \/ PublishClosed(k)
      PROVE ControlInv'
  BY <1>2 DEF LookupOrg, CheckExisting, CloseExisting, HandlerPublish, PublishClosed
<1>3. ASSUME NEW k \in Conn,
             \/ Register(k) \/ Receive(k) \/ HandlerUpdate(k)
             \/ ConnectionClosed(k) \/ MarkOffline(k)
      PROVE ControlInv'
  BY <1>3 DEF Register, Receive, HandlerUpdate, ConnectionClosed, MarkOffline
<1>4. ASSUME NEW c \in Charger, Api(c) PROVE ControlInv'
  BY <1>4 DEF Api, CreateCharger, DeleteCharger
<1>5. ASSUME Tick PROVE ControlInv'
  BY <1>5 DEF Tick
<1>6. ASSUME NEW k \in Conn, ScanSilent(k) \/ ScanOther(k) PROVE ControlInv'
  BY <1>6 DEF ScanSilent, ScanOther
<1>7. ASSUME ScanDone \/ WdMarkOffline \/ WdPublish PROVE ControlInv'
  BY <1>7 DEF ScanDone, WdMarkOffline, WdPublish
<1>8. ASSUME NEW k \in Conn, HandlerFails(k) \/ TaskFails(k) PROVE ControlInv'
  BY <1>8 DEF HandlerFails, TaskFails
<1>9. ASSUME ScanFails \/ Crash PROVE ControlInv'
  BY <1>9 DEF ScanFails, Crash
<1>10. CASE UNCHANGED vars
  BY <1>10 DEF vars
<1> QED
  BY <1>1, <1>2, <1>3, <1>4, <1>5, <1>6, <1>7, <1>8, <1>9, <1>10
     DEF Next, ConnTask, Scan, Faults

\* Every step keeps the registry pointing at handlers that are being served.
LEMMA RegistryStep == IInv /\ [Next]_vars => RegistryIsLive'
<1> SUFFICES ASSUME IInv, [Next]_vars PROVE RegistryIsLive'
  OBVIOUS
<1> USE DEF IInv, TypeOK, RegistryIsLive, ConnsOf, ServingPc,
            connVars, wdVars, history
<1>1. ASSUME NEW k \in Conn, ChargerSide(k) PROVE RegistryIsLive'
  BY <1>1 DEF ChargerSide, Connect, Send, Drop
<1>2. ASSUME NEW k \in Conn,
             \/ LookupOrg(k) \/ CheckExisting(k) \/ CloseExisting(k)
             \/ HandlerPublish(k) \/ MarkOffline(k) \/ PublishClosed(k)
      PROVE RegistryIsLive'
  BY <1>2 DEF LookupOrg, CheckExisting, CloseExisting, HandlerPublish,
              MarkOffline, PublishClosed
<1>3. ASSUME NEW k \in Conn, Register(k) PROVE RegistryIsLive'
  BY <1>3 DEF Register
<1>4. ASSUME NEW k \in Conn, Receive(k) \/ HandlerUpdate(k) PROVE RegistryIsLive'
  BY <1>4 DEF Receive, HandlerUpdate
<1>5. ASSUME NEW k \in Conn, ConnectionClosed(k) PROVE RegistryIsLive'
  \* The task that leaves start() pops its own cp_id, and its handler can be
  \* registered under no other.
  BY <1>5 DEF ConnectionClosed
<1>6. ASSUME NEW c \in Charger, Api(c) PROVE RegistryIsLive'
  BY <1>6 DEF Api, CreateCharger, DeleteCharger
<1>7. ASSUME Tick \/ Scan PROVE RegistryIsLive'
  BY <1>7 DEF Tick, Scan, ScanSilent, ScanOther, ScanDone, WdMarkOffline, WdPublish
<1>8. ASSUME NEW k \in Conn, HandlerFails(k) \/ TaskFails(k) PROVE RegistryIsLive'
  BY <1>8 DEF HandlerFails, TaskFails
<1>9. ASSUME ScanFails \/ Crash PROVE RegistryIsLive'
  BY <1>9 DEF ScanFails, Crash
<1>10. CASE UNCHANGED vars
  BY <1>10 DEF vars
<1> QED
  BY <1>1, <1>2, <1>3, <1>4, <1>5, <1>6, <1>7, <1>8, <1>9, <1>10
     DEF Next, ConnTask, Faults

\* Every step keeps a task behind each charger that is shown up.
LEMMA UpStep == IInv /\ [Next]_vars => UpHasATask'
<1> SUFFICES ASSUME IInv, [Next]_vars PROVE UpHasATask'
  OBVIOUS
<1> USE DEF IInv, TypeOK, UpHasATask, ConnsOf, BeforeMark, ServingPc,
            connVars, wdVars, history
<1>1. ASSUME NEW k \in Conn, ChargerSide(k) PROVE UpHasATask'
  BY <1>1 DEF ChargerSide, Connect, Send, Drop
<1>2. ASSUME NEW k \in Conn,
             \/ LookupOrg(k) \/ CheckExisting(k) \/ CloseExisting(k)
             \/ HandlerPublish(k) \/ PublishClosed(k)
      PROVE UpHasATask'
  BY <1>2 DEF LookupOrg, CheckExisting, CloseExisting, HandlerPublish, PublishClosed
<1>3. ASSUME NEW k \in Conn, Register(k) \/ Receive(k) \/ ConnectionClosed(k)
      PROVE UpHasATask'
  BY <1>3 DEF Register, Receive, ConnectionClosed
<1>4. ASSUME NEW k \in Conn, HandlerUpdate(k) PROVE UpHasATask'
  <2>1. \A d \in Charger : d # CpOf[k] => status'[d] = status[d]
    BY <1>4, UpdateStatusEffect DEF HandlerUpdate, Status
  <2>2. pc' = [pc EXCEPT ![k] = "publish"] /\ orphaned' = orphaned
    BY <1>4 DEF HandlerUpdate
  <2> QED  BY <2>1, <2>2
<1>5. ASSUME NEW k \in Conn, MarkOffline(k) PROVE UpHasATask'
  <2>1. /\ \A d \in Charger : d # CpOf[k] => status'[d] = status[d]
        /\ status'[CpOf[k]] \in {"offline", "absent"}
    BY <1>5, UpdateStatusEffect DEF MarkOffline, Status
  <2>2. pc' = [pc EXCEPT ![k] = "bye"] /\ orphaned' = orphaned \ {CpOf[k]}
    BY <1>5 DEF MarkOffline
  <2> QED  BY <2>1, <2>2
<1>6. ASSUME NEW c \in Charger, Api(c) PROVE UpHasATask'
  BY <1>6 DEF Api, CreateCharger, DeleteCharger
<1>7. ASSUME \/ Tick \/ ScanDone \/ WdPublish
             \/ \E k \in Conn : ScanSilent(k) \/ ScanOther(k)
      PROVE UpHasATask'
  BY <1>7 DEF Tick, ScanSilent, ScanOther, ScanDone, WdPublish
<1>8. ASSUME WdMarkOffline PROVE UpHasATask'
  <2>1. wdCur \in Conn
    BY <1>8 DEF WdMarkOffline, ControlInv
  <2>2. /\ \A d \in Charger : d # CpOf[wdCur] => status'[d] = status[d]
        /\ status'[CpOf[wdCur]] \in {"offline", "absent"}
    BY <1>8, <2>1, UpdateStatusEffect DEF WdMarkOffline, Status
  <2>3. pc' = pc /\ orphaned' = orphaned \ {CpOf[wdCur]}
    BY <1>8 DEF WdMarkOffline
  <2> QED  BY <2>1, <2>2, <2>3
<1>9. ASSUME NEW k \in Conn, HandlerFails(k) \/ TaskFails(k) PROVE UpHasATask'
  BY <1>9 DEF HandlerFails, TaskFails
<1>10. ASSUME ScanFails \/ Crash PROVE UpHasATask'
  BY <1>10 DEF ScanFails, Crash
<1>11. CASE UNCHANGED vars
  BY <1>11 DEF vars
<1> QED
  BY <1>1, <1>2, <1>3, <1>4, <1>5, <1>6, <1>7, <1>8, <1>9, <1>10, <1>11
     DEF Next, ConnTask, Scan, Faults

\* Every step keeps the watchdog's memory of what it has announced.
LEMMA AnnouncedStep == IInv /\ [Next]_vars => AnnouncedIsMarked'
<1> SUFFICES ASSUME IInv, [Next]_vars PROVE AnnouncedIsMarked'
  OBVIOUS
<1> USE DEF IInv, TypeOK, AnnouncedIsMarked, ConnsOf,
            connVars, wdVars, history
<1>1. ASSUME NEW k \in Conn, ChargerSide(k) PROVE AnnouncedIsMarked'
  BY <1>1 DEF ChargerSide, Connect, Send, Drop
<1>2. ASSUME NEW k \in Conn,
             \/ LookupOrg(k) \/ CheckExisting(k) \/ CloseExisting(k)
             \/ HandlerUpdate(k) \/ HandlerPublish(k)
             \/ MarkOffline(k) \/ PublishClosed(k)
      PROVE AnnouncedIsMarked'
  BY <1>2 DEF LookupOrg, CheckExisting, CloseExisting, HandlerUpdate,
              HandlerPublish, MarkOffline, PublishClosed
<1>3. ASSUME NEW k \in Conn, Register(k) PROVE AnnouncedIsMarked'
  BY <1>3 DEF Register, RegistryIsLive
<1>4. ASSUME NEW k \in Conn, Receive(k) PROVE AnnouncedIsMarked'
  BY <1>4 DEF Receive, RegistryIsLive
<1>5. ASSUME NEW k \in Conn, ConnectionClosed(k) PROVE AnnouncedIsMarked'
  BY <1>5 DEF ConnectionClosed, RegistryIsLive
<1>6. ASSUME NEW c \in Charger, Api(c) PROVE AnnouncedIsMarked'
  BY <1>6 DEF Api, CreateCharger, DeleteCharger
<1>7. ASSUME Tick PROVE AnnouncedIsMarked'
  <2> SUFFICES ASSUME NEW c \in silenced
               PROVE  /\ connected[c] # NoConn /\ age'[connected[c]] > Timeout
                      /\ wdTodo' \intersect ConnsOf(c) \subseteq {connected[c]}
    BY <1>7 DEF Tick
  <2>1. pc[connected[c]] # "idle" /\ connected[c] \in Conn
    BY DEF RegistryIsLive, ServingPc
  <2>2. age'[connected[c]] = OlderBy1(age[connected[c]])
    BY <1>7, <2>1 DEF Tick
  <2> QED  BY <1>7, <2>1, <2>2, OlderBy1Type DEF Tick
<1>8. ASSUME NEW k \in Conn, ScanSilent(k) \/ ScanOther(k) PROVE AnnouncedIsMarked'
  \* The only handler of an announced charger in the snapshot is the silent
  \* one, so its mark is not discarded.
  BY <1>8 DEF ScanSilent, ScanOther
<1>9. ASSUME ScanDone \/ WdMarkOffline PROVE AnnouncedIsMarked'
  BY <1>9 DEF ScanDone, WdMarkOffline
<1>10. ASSUME WdPublish PROVE AnnouncedIsMarked'
  BY <1>10 DEF WdPublish, ControlInv
<1>11. ASSUME NEW k \in Conn, HandlerFails(k) \/ TaskFails(k) PROVE AnnouncedIsMarked'
  BY <1>11 DEF HandlerFails, TaskFails
<1>12. ASSUME ScanFails \/ Crash PROVE AnnouncedIsMarked'
  BY <1>12 DEF ScanFails, Crash
<1>13. CASE UNCHANGED vars
  BY <1>13 DEF vars
<1> QED
  BY <1>1, <1>2, <1>3, <1>4, <1>5, <1>6, <1>7, <1>8, <1>9, <1>10, <1>11, <1>12, <1>13
     DEF Next, ConnTask, Scan, Faults

\* The inductive invariant holds of every behaviour of the gateway.
THEOREM Invariance == Spec => []IInv
<1>1. IInv /\ [Next]_vars => IInv'
  BY TypeStep, ControlStep, RegistryStep, UpStep, AnnouncedStep DEF IInv
<1> QED  BY InitIInv, <1>1, PTL DEF Spec

\* Type correctness: every variable stays in its domain, the ages saturate.
THEOREM TypeCorrect == Spec => []TypeOK
  BY Invariance, PTL DEF IInv

\* What the watchdog and the command consumer find in _connected is a handler
\* of that charger whose task is in start(), for any number of overlapping
\* connections.
THEOREM RegistrySafe == Spec => []RegistryIsLive
  BY Invariance, PTL DEF IInv

\* A charger shown online or faulted has a task that will mark it offline,
\* or lost it to a fault.
THEOREM UpSafe == Spec => []UpHasATask
  BY Invariance, PTL DEF IInv

\* The watchdog's memory covers every silence it has announced.
THEOREM AnnouncedSafe == Spec => []AnnouncedIsMarked
  BY Invariance, PTL DEF IInv

\* The watchdog never announces one silence of a handler twice.
THEOREM AnnouncesOnce == Spec => SilenceAnnouncedOnce
<1>1. IInv /\ [Next]_vars =>
        [wdPc' = "mark" /\ wdPc # "mark" => CpOf[wdCur'] \notin silenced]_vars
  <2> SUFFICES ASSUME IInv, Next, wdPc' = "mark", wdPc # "mark"
               PROVE  CpOf[wdCur'] \notin silenced
    OBVIOUS
  <2>1. PICK k \in Conn : ScanSilent(k)
    BY DEF Next, ChargerSide, Connect, Send, Drop, ConnTask, LookupOrg,
           CheckExisting, CloseExisting, Register, Receive, HandlerUpdate,
           HandlerPublish, ConnectionClosed, MarkOffline, PublishClosed, Api,
           CreateCharger, DeleteCharger, Tick, Scan, ScanOther, ScanDone,
           WdMarkOffline, WdPublish, Faults, HandlerFails, TaskFails, ScanFails,
           Crash, connVars, wdVars
  <2> QED  BY <2>1 DEF ScanSilent, IInv, AnnouncedIsMarked
<1> QED  BY Invariance, <1>1, PTL DEF Spec, SilenceAnnouncedOnce
=============================================================================
