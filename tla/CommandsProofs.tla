--------------------------- MODULE CommandsProofs ---------------------------
(***************************************************************************)
(* Remote commands for any requests, chargers, batch size and number of    *)
(* faults: a command is carried out at most once and "ok" is returned only *)
(* for an answered one (Commands implements RemoteCall).                   *)
(***************************************************************************)
EXTENDS Commands, TLAPS

\* The consumer has a request in hand whenever it is past Dispatch.
Busy == {"call", "wait", "replyOk", "replyError", "ack", "abort"}
TInv == TypeOK /\ (pc \in Busy => cur \in Request)

USE CommandConstants

\* Initially every stream is empty.
LEMMA InitTInv == Init => TInv
  BY DEF Init, TInv, TypeOK, Api, Pc, Done, Busy

\* What XREADGROUP moves the group to is an entry of the stream.
LEMMA LastReadBounds ==
  ASSUME TInv, NEW c \in Charger
  PROVE  LastRead(c) \in Nat /\ delivered[c] <= LastRead(c) /\ LastRead(c) <= Len(stream[c])
<1>1. /\ delivered[c] \in Nat /\ Len(stream[c]) \in Nat
      /\ delivered[c] <= Len(stream[c]) /\ Count \in Nat
  BY DEF TInv, TypeOK
<1> QED  BY <1>1 DEF LastRead

\* The entries of a batch are entries of their streams past the old position
\* of the group and not past the new one.
LEMMA BatchEntries ==
  ASSUME TInv, ReadGroup
  PROVE  \A r \in batch' : \E c \in Charger : \E i \in DOMAIN stream[c] :
           r = stream[c][i] /\ delivered[c] < i /\ i <= delivered'[c]
<1> SUFFICES ASSUME NEW r \in batch'
             PROVE  \E c \in Charger : \E i \in DOMAIN stream[c] :
                      r = stream[c][i] /\ delivered[c] < i /\ i <= delivered'[c]
  OBVIOUS
<1>1. PICK c \in streams : r \in NewEntries(c)
  BY DEF ReadGroup
<1>2. c \in Charger /\ delivered[c] \in Nat /\ LastRead(c) \in Nat
  BY LastReadBounds DEF TInv, TypeOK
<1>2a. PICK i \in delivered[c] + 1 .. LastRead(c) : r = stream[c][i]
  BY <1>1 DEF NewEntries
<1>3. delivered'[c] = LastRead(c)
  BY <1>2 DEF ReadGroup
<1>4. i \in DOMAIN stream[c]
  BY <1>2, <1>2a, LastReadBounds DEF TInv, TypeOK
<1> QED  BY <1>2, <1>2a, <1>3, <1>4

\* A reply keeps the types of the reply streams, which grow.
LEMMA RepliedType ==
  ASSUME TInv, pc \in Busy, NEW ok \in BOOLEAN, Replied(ok)
  PROVE  /\ replies' \in [Charger -> Seq(Reply)]
         /\ \A c \in Charger : Len(replies[c]) <= Len(replies'[c])
         /\ served' \in [Request -> Nat]
         /\ \A r \in Request : served[r] <= served'[r] /\ served'[r] <= Len(replies'[Target[r]])
         /\ heardIn' \in [Request -> SUBSET Where]
<1>1. cur \in Request /\ Target[cur] \in Charger
  BY DEF TInv
<1>2. [req |-> cur, ok |-> ok] \in Reply
  BY <1>1 DEF Reply
<1>3. replies' \in [Charger -> Seq(Reply)] /\ \A c \in Charger : Len(replies[c]) <= Len(replies'[c])
  BY <1>1, <1>2 DEF Replied, TInv, TypeOK
<1>4. heardIn' \in [Request -> SUBSET Where]
  BY <1>1 DEF Replied, TInv, TypeOK, Where
<1>5. /\ \A r \in Request : Target[r] \in Charger /\ Len(replies[Target[r]]) \in Nat
      /\ Len(replies'[Target[cur]]) = Len(replies[Target[cur]]) + 1
  BY <1>1, <1>2 DEF Replied, TInv, TypeOK
<1>6. ASSUME NEW r \in Request
      PROVE  /\ served'[r] \in Nat
             /\ served[r] <= served'[r] /\ served'[r] <= Len(replies'[Target[r]])
  <2>1. served[r] \in Nat /\ served[r] <= Len(replies[Target[r]])
    BY DEF TInv, TypeOK
  <2>2. \/ served'[r] = served[r]
        \/ served'[r] = served[r] + 1 /\ Target[r] = Target[cur]
    BY DEF Replied
  <2> QED  BY <1>3, <1>5, <2>1, <2>2
<1>7. served' \in [Request -> Nat]
  BY <1>6 DEF Replied
<1> QED  BY <1>3, <1>4, <1>6, <1>7

\* What a caller does with what XREAD returned.
LEMMA ReadCases ==
  ASSUME TInv, NEW r \in Request, ReadReply(r)
  PROVE  /\ \/ \E i \in DOMAIN replies[Target[r]] :
                 /\ replies[Target[r]][i].req = r
                 /\ cursor[r] < i /\ i <= served[r]
                 /\ \A j \in cursor[r] + 1 .. served[r] :
                      replies[Target[r]][j].req = r => i <= j
                 /\ cursor' = [cursor EXCEPT ![r] = i]
                 /\ api' = [api EXCEPT ![r] =
                              IF replies[Target[r]][i].ok THEN "ok" ELSE "error"]
            \/ /\ \A j \in cursor[r] + 1 .. served[r] : replies[Target[r]][j].req # r
               /\ cursor' = [cursor EXCEPT ![r] = served[r]]
               /\ \/ api' = [api EXCEPT ![r] = "timeout"]
                  \/ api' = [api EXCEPT ![r] = "sent"]
         /\ api[r] = "reading"
         /\ api' \in [Request -> Api] /\ cursor' \in [Request -> Nat]
         /\ \A q \in Request : cursor[q] <= cursor'[q] /\ cursor'[q] <= served[q]
<1>1. /\ cursor[r] \in Nat /\ served[r] \in Nat /\ Len(replies[Target[r]]) \in Nat
      /\ served[r] <= Len(replies[Target[r]]) /\ cursor[r] < served[r]
      /\ DOMAIN replies[Target[r]] = 1 .. Len(replies[Target[r]])
      /\ api \in [Request -> Api] /\ cursor \in [Request -> Nat]
      /\ \A q \in Request : cursor[q] <= served[q]
  BY DEF ReadReply, TInv, TypeOK
<1>2. ASSUME NEW i \in Mine(r), \A j \in Mine(r) : i <= j,
             cursor' = [cursor EXCEPT ![r] = i],
             api' = [api EXCEPT ![r] = IF replies[Target[r]][i].ok THEN "ok" ELSE "error"]
      PROVE  /\ i \in DOMAIN replies[Target[r]] /\ replies[Target[r]][i].req = r
             /\ cursor[r] < i /\ i <= served[r]
             /\ \A j \in cursor[r] + 1 .. served[r] : replies[Target[r]][j].req = r => i <= j
             /\ api' \in [Request -> Api] /\ cursor' \in [Request -> Nat]
             /\ \A q \in Request : cursor[q] <= cursor'[q] /\ cursor'[q] <= served[q]
  <2>1. /\ i \in cursor[r] + 1 .. served[r] /\ replies[Target[r]][i].req = r
        /\ \A j \in cursor[r] + 1 .. served[r] : replies[Target[r]][j].req = r => i <= j
    BY <1>2 DEF Mine
  <2>2. i \in DOMAIN replies[Target[r]] /\ cursor[r] < i /\ i <= served[r] /\ i \in Nat
    BY <1>1, <2>1
  <2>3. api' \in [Request -> Api]
    BY <1>1, <1>2 DEF Api
  <2>4. /\ cursor' \in [Request -> Nat]
        /\ \A q \in Request : cursor[q] <= cursor'[q] /\ cursor'[q] <= served[q]
    BY <1>1, <1>2, <2>2
  <2> QED  BY <2>1, <2>2, <2>3, <2>4
<1>3. ASSUME Mine(r) = {}, cursor' = [cursor EXCEPT ![r] = served[r]],
             NEW next \in {"timeout", "sent"}, api' = [api EXCEPT ![r] = next]
      PROVE  /\ \A j \in cursor[r] + 1 .. served[r] : replies[Target[r]][j].req # r
             /\ \/ api' = [api EXCEPT ![r] = "timeout"]
                \/ api' = [api EXCEPT ![r] = "sent"]
             /\ api' \in [Request -> Api] /\ cursor' \in [Request -> Nat]
             /\ \A q \in Request : cursor[q] <= cursor'[q] /\ cursor'[q] <= served[q]
  <2>1. \A j \in cursor[r] + 1 .. served[r] : replies[Target[r]][j].req # r
    BY <1>3 DEF Mine
  <2>2. api' \in [Request -> Api]
    BY <1>1, <1>3 DEF Api
  <2>3. /\ cursor' \in [Request -> Nat]
        /\ \A q \in Request : cursor[q] <= cursor'[q] /\ cursor'[q] <= served[q]
    BY <1>1, <1>3
  <2> QED  BY <1>3, <2>1, <2>2, <2>3
<1>4. api[r] = "reading"
  BY DEF ReadReply
<1>5. \/ \E i \in Mine(r) :
           /\ \A j \in Mine(r) : i <= j
           /\ cursor' = [cursor EXCEPT ![r] = i]
           /\ api' = [api EXCEPT ![r] = IF replies[Target[r]][i].ok THEN "ok" ELSE "error"]
      \/ /\ Mine(r) = {} /\ cursor' = [cursor EXCEPT ![r] = served[r]]
         /\ \E next \in {"timeout", "sent"} : api' = [api EXCEPT ![r] = next]
  BY DEF ReadReply
<1> QED  BY <1>2, <1>3, <1>4, <1>5

\* What it tells the caller.
LEMMA ReadTells ==
  ASSUME TInv, NEW r \in Request, ReadReply(r)
  PROVE  /\ \A q \in Request : q # r => cursor'[q] = cursor[q] /\ api'[q] = api[q]
         /\ \/ api'[r] \in {"timeout", "sent"}
            \/ \E i \in DOMAIN replies[Target[r]] :
                 /\ replies[Target[r]][i].req = r
                 /\ api'[r] = IF replies[Target[r]][i].ok THEN "ok" ELSE "error"
<1>0. api \in [Request -> Api] /\ cursor \in [Request -> Nat]
  BY DEF TInv, TypeOK
<1>1. ASSUME NEW i \in DOMAIN replies[Target[r]], replies[Target[r]][i].req = r,
             cursor' = [cursor EXCEPT ![r] = i],
             api' = [api EXCEPT ![r] = IF replies[Target[r]][i].ok THEN "ok" ELSE "error"]
      PROVE  /\ \A q \in Request : q # r => cursor'[q] = cursor[q] /\ api'[q] = api[q]
             /\ api'[r] = IF replies[Target[r]][i].ok THEN "ok" ELSE "error"
  BY <1>0, <1>1
<1>2. ASSUME cursor' = [cursor EXCEPT ![r] = served[r]], NEW v \in {"timeout", "sent"},
             api' = [api EXCEPT ![r] = v]
      PROVE  /\ \A q \in Request : q # r => cursor'[q] = cursor[q] /\ api'[q] = api[q]
             /\ api'[r] \in {"timeout", "sent"}
  BY <1>0, <1>2
<1> QED  BY <1>1, <1>2, ReadCases

\* Every step keeps types.
LEMMA TStep == TInv /\ [Next]_vars => TInv'
<1> SUFFICES ASSUME TInv, [Next]_vars PROVE TInv'
  OBVIOUS
<1>0. ASSUME pc \in Busy, Replied(TRUE) \/ Replied(FALSE) \/ UNCHANGED <<replies, served, heardIn>>
      PROVE  /\ replies' \in [Charger -> Seq(Reply)]
             /\ served' \in [Request -> Nat]
             /\ \A r \in Request : cursor[r] <= served'[r] /\ served'[r] <= Len(replies'[Target[r]])
             /\ heardIn' \in [Request -> SUBSET Where]
  <2>1. CASE UNCHANGED <<replies, served, heardIn>>
    BY <2>1 DEF TInv, TypeOK
  <2>2. CASE Replied(TRUE) \/ Replied(FALSE)
    <3>1. /\ replies' \in [Charger -> Seq(Reply)]
          /\ served' \in [Request -> Nat]
          /\ \A r \in Request : served[r] <= served'[r] /\ served'[r] <= Len(replies'[Target[r]])
          /\ heardIn' \in [Request -> SUBSET Where]
      BY <1>0, <2>2, RepliedType
    <3>2. \A r \in Request : /\ cursor[r] \in Nat /\ served[r] \in Nat /\ served'[r] \in Nat
                             /\ cursor[r] <= served[r]
      BY <3>1 DEF TInv, TypeOK
    <3> QED  BY <3>1, <3>2
  <2> QED  BY <1>0, <2>1, <2>2
<1> USE DEF TInv, TypeOK, Api, Pc, Done, Busy, Where, apiVars, readVars, redisVars, consumerVars
<1>1. ASSUME NEW r \in Request, Send(r) PROVE TInv'
  BY <1>1 DEF Send
<1>2. ASSUME NEW r \in Request, StartRead(r) PROVE TInv'
  <2> DEFINE last == Len(replies[Target[r]])
             from == IF cursor[r] = since[r] THEN last ELSE cursor[r]
             to == IF from + ReplyCount < last THEN from + ReplyCount ELSE last
             begin == IF cursor[r] = since[r] THEN last ELSE since[r]
  <2>1. /\ last \in Nat /\ cursor[r] \in Nat /\ since[r] \in Nat /\ served[r] \in Nat
        /\ since[r] <= cursor[r] /\ cursor[r] <= served[r] /\ served[r] <= last
    OBVIOUS
  <2>2. /\ begin \in Nat /\ from \in Nat /\ to \in Nat
        /\ begin <= from /\ from <= to /\ to <= last
    BY <2>1
  <2>3. /\ since' = [since EXCEPT ![r] = begin]
        /\ cursor' = [cursor EXCEPT ![r] = from] /\ served' = [served EXCEPT ![r] = to]
        /\ api' = [api EXCEPT ![r] = "reading"]
        /\ UNCHANGED <<heardIn, redisVars, replies, live, consumerVars, done, faults>>
    BY <1>2 DEF StartRead
  <2>4. Len(replies[Target[r]]) = last
    OBVIOUS
  <2> HIDE DEF last, from, to, begin
  <2> QED  BY <2>2, <2>3, <2>4
<1>3. ASSUME NEW r \in Request, ReadReply(r) PROVE TInv'
  <2>1. /\ api' \in [Request -> Api] /\ cursor' \in [Request -> Nat]
        /\ \A q \in Request : since[q] <= cursor'[q] /\ cursor'[q] <= served[q]
    <3>1. /\ api' \in [Request -> Api] /\ cursor' \in [Request -> Nat]
          /\ \A q \in Request : cursor[q] <= cursor'[q] /\ cursor'[q] <= served[q]
      BY <1>3, ReadCases
    <3>2. \A q \in Request : /\ since[q] \in Nat /\ cursor[q] \in Nat /\ cursor'[q] \in Nat
                             /\ since[q] <= cursor[q]
      BY <3>1
    <3> QED  BY <3>1, <3>2
  <2>2. UNCHANGED <<since, served, heardIn, redisVars, replies, live, consumerVars, done, faults>>
    BY <1>3 DEF ReadReply
  <2> QED  BY <2>1, <2>2
<1>4. ASSUME NEW r \in Request, BlockEnds(r) PROVE TInv'
  BY <1>4 DEF BlockEnds
<1>5. ASSUME NEW r \in Request, ChargerExecutes(r) PROVE TInv'
  BY <1>5 DEF ChargerExecutes
<1>6. CASE ScanStreams
  BY <1>6 DEF ScanStreams
<1>7. CASE ReadGroup
  <2>1. batch' \subseteq Request
    BY <1>7, BatchEntries
  <2>2. delivered' \in [Charger -> Nat] /\ \A c \in Charger : delivered'[c] <= Len(stream'[c])
    BY <1>7, LastReadBounds DEF ReadGroup
  <2> QED  BY <1>7, <2>1, <2>2 DEF ReadGroup
<1>8. ASSUME NEW r \in Request, Dispatch(r) PROVE TInv'
  BY <1>8 DEF Dispatch
<1>9. CASE CallSend
  BY <1>9 DEF CallSend
<1>10. CASE CallAnswered
  BY <1>10 DEF CallAnswered
<1>11. CASE CallRaises
  BY <1>11 DEF CallRaises
<1>12. CASE ReplyOk
  <2>1. /\ pc \in Busy /\ Replied(TRUE) /\ pc' = "ack"
        /\ UNCHANGED <<api, since, cursor, redisVars, live, streams, batch, cur, done, faults>>
    BY <1>12 DEF ReplyOk
  <2>2. /\ replies' \in [Charger -> Seq(Reply)]
        /\ served' \in [Request -> Nat]
        /\ \A r \in Request : cursor[r] <= served'[r] /\ served'[r] <= Len(replies'[Target[r]])
        /\ heardIn' \in [Request -> SUBSET Where]
    BY <1>0, <2>1
  <2> QED  BY <2>1, <2>2
<1>13. CASE ReplyError
  <2>1. /\ pc \in Busy /\ Replied(FALSE) /\ pc' = "ack"
        /\ UNCHANGED <<api, since, cursor, redisVars, live, streams, batch, cur, done, faults>>
    BY <1>13 DEF ReplyError
  <2>2. /\ replies' \in [Charger -> Seq(Reply)]
        /\ served' \in [Request -> Nat]
        /\ \A r \in Request : cursor[r] <= served'[r] /\ served'[r] <= Len(replies'[Target[r]])
        /\ heardIn' \in [Request -> SUBSET Where]
    BY <1>0, <2>1
  <2> QED  BY <2>1, <2>2
<1>14. CASE Ack
  BY <1>14 DEF Ack
<1>15. ASSUME NEW c \in Charger, ChargerComesOrGoes(c) PROVE TInv'
  BY <1>15 DEF ChargerComesOrGoes
<1>16. CASE ReplyFails
  <2>1. pc \in Busy /\ (Replied(TRUE) \/ Replied(FALSE) \/ UNCHANGED <<replies, served, heardIn>>)
    BY <1>16 DEF ReplyFails
  <2>2. /\ replies' \in [Charger -> Seq(Reply)]
        /\ served' \in [Request -> Nat]
        /\ \A r \in Request : cursor[r] <= served'[r] /\ served'[r] <= Len(replies'[Target[r]])
        /\ heardIn' \in [Request -> SUBSET Where]
    BY <1>0, <2>1
  <2>3. pc' \in {"replyError", "abort"}
    BY <1>16 DEF ReplyFails
  <2>4. Fault
    BY <1>16 DEF ReplyFails
  <2>5. faults' \in 0 .. MaxFaults
    BY <2>4 DEF Fault
  <2>6. UNCHANGED <<api, since, cursor, redisVars, live, streams, batch, cur, done>>
    BY <1>16 DEF ReplyFails
  <2> QED  BY <2>1, <2>2, <2>3, <2>5, <2>6
<1>17. CASE AckFails
  BY <1>17 DEF AckFails, Fault
<1>18. CASE Crash
  BY <1>18 DEF Crash, Fault
<1>19. CASE UNCHANGED vars
  BY <1>19 DEF vars
<1> QED
  BY <1>1, <1>2, <1>3, <1>4, <1>5, <1>6, <1>7, <1>8, <1>9, <1>10, <1>11, <1>12, <1>13,
     <1>14, <1>15, <1>16, <1>17, <1>18, <1>19 DEF Next, Consumer, ApiCall

\* Type correctness; the positions of readers stay inside their streams.
THEOREM TypeCorrect == Spec => []TypeOK
<1>1. Spec => []TInv
  BY InitTInv, TStep, PTL DEF Spec
<1> QED  BY <1>1, PTL DEF TInv

-----------------------------------------------------------------------------
\* What the steps of a caller that is waiting have in common.
LEMMA ReadKeeps ==
  ASSUME TInv, NEW r \in Request, StartRead(r) \/ ReadReply(r) \/ BlockEnds(r)
  PROVE  /\ UNCHANGED <<stream, delivered, pel, replies, batch, cur, pc, done, faults, heardIn>>
         /\ \A q \in Request : api'[q] = "new" <=> api[q] = "new"
<1>0. api \in [Request -> Api]
  BY DEF TInv, TypeOK
<1>1. CASE ReadReply(r)
  <2>1. UNCHANGED <<stream, delivered, pel, replies, batch, cur, pc, done, faults, heardIn>>
    BY <1>1 DEF ReadReply, redisVars, consumerVars
  <2>2. /\ api[r] = "reading"
        /\ \E v \in Api \ {"new"} : api' = [api EXCEPT ![r] = v]
    BY <1>1, ReadCases DEF Api
  <2> QED  BY <1>0, <2>1, <2>2
<1>2. CASE StartRead(r) \/ BlockEnds(r)
  BY <1>0, <1>2 DEF StartRead, BlockEnds, redisVars, consumerVars
<1> QED  BY <1>1, <1>2

\* Each request is at most once in the stream of its charger.
StreamInv ==
    /\ \A c \in Charger : \A i \in DOMAIN stream[c] :
         Target[stream[c][i]] = c /\ api[stream[c][i]] # "new"
    /\ \A c \in Charger : \A i, j \in DOMAIN stream[c] :
         stream[c][i] = stream[c][j] => i = j

\* What has not been delivered, or not been dispatched, has not been called;
\* what is not issued is nowhere.
HandInv ==
    /\ \A c \in Charger : \A i \in DOMAIN stream[c] : delivered[c] < i =>
         /\ done[stream[c][i]] = "no"
         /\ stream[c][i] \notin batch /\ stream[c][i] # cur
    /\ \A r \in batch : done[r] = "no" /\ r # cur /\ api[r] # "new"
    /\ cur # NoRequest => api[cur] # "new"
    /\ \A r \in Request : done[r] # "no" => api[r] # "new"

\* What the control point of the consumer and its good replies say of the call.
AnswerInv ==
    /\ pc = "call" => done[cur] = "no"
    /\ pc = "wait" => done[cur] \in {"sent", "executed"}
    /\ pc = "replyOk" => done[cur] = "answered"
    /\ \A c \in Charger : \A i \in DOMAIN replies[c] :
         replies[c][i].ok => done[replies[c][i].req] = "answered"
    /\ \A r \in Request : api[r] = "ok" => done[r] = "answered"

IInv == TInv /\ StreamInv /\ HandInv /\ AnswerInv

\* The initial states satisfy the inductive invariant.
LEMMA InitIInv == Init => IInv
  BY InitTInv DEF Init, IInv, StreamInv, HandInv, AnswerInv

\* Every step keeps each request in its own stream, once.
LEMMA StreamStep == IInv /\ [Next]_vars => StreamInv'
<1> SUFFICES ASSUME IInv, [Next]_vars PROVE StreamInv'
  OBVIOUS
<1> USE DEF IInv, StreamInv, apiVars, redisVars
<1>1. ASSUME NEW r \in Request, Send(r) PROVE StreamInv'
  <2>1. \A c \in Charger : \A i \in DOMAIN stream[c] : stream[c][i] # r
    BY <1>1 DEF Send
  <2>2. /\ stream[Target[r]] \in Seq(Request) /\ Target[r] \in Charger
        /\ stream' = [stream EXCEPT ![Target[r]] = Append(@, r)]
        /\ api' = [api EXCEPT ![r] = "sent"]
        /\ stream \in [Charger -> Seq(Request)] /\ api \in [Request -> Api]
    BY <1>1 DEF Send, TInv, TypeOK
  <2>3. \A c \in Charger : \A i \in DOMAIN stream'[c] :
          \/ i \in DOMAIN stream[c] /\ stream'[c][i] = stream[c][i]
          \/ i = Len(stream[c]) + 1 /\ c = Target[r] /\ stream'[c][i] = r
    BY <2>2
  <2>4. \A c \in Charger : \A i \in DOMAIN stream'[c] :
          Target[stream'[c][i]] = c /\ api'[stream'[c][i]] # "new"
    BY <2>2, <2>3
  <2>5. \A c \in Charger : \A i, j \in DOMAIN stream'[c] :
          stream'[c][i] = stream'[c][j] => i = j
    BY <2>1, <2>3
  <2> QED  BY <2>4, <2>5
<1>2. ASSUME NEW r \in Request, StartRead(r) \/ ReadReply(r) \/ BlockEnds(r) PROVE StreamInv'
  <2>1. stream' = stream /\ \A q \in Request : api[q] # "new" => api'[q] # "new"
    BY <1>2, ReadKeeps
  <2>2. \A c \in Charger : \A i \in DOMAIN stream[c] : stream[c][i] \in Request
    BY DEF TInv, TypeOK
  <2> QED  BY <2>1, <2>2
<1>3. ASSUME UNCHANGED <<api, stream>> PROVE StreamInv'
  BY <1>3
<1>4. CASE Consumer
  <2>1. UNCHANGED <<api, stream>>
    BY <1>4 DEF Consumer, ScanStreams, ReadGroup, Dispatch, CallSend, CallAnswered,
                CallRaises, ReplyOk, ReplyError, Ack
  <2> QED  BY <1>3, <2>1
<1>5. CASE ReplyFails \/ AckFails \/ Crash \/ UNCHANGED vars
  BY <1>3, <1>5 DEF ReplyFails, AckFails, Crash, vars
<1>6. ASSUME NEW r \in Request, ChargerExecutes(r) PROVE StreamInv'
  BY <1>3, <1>6 DEF ChargerExecutes
<1>7. ASSUME NEW c \in Charger, ChargerComesOrGoes(c) PROVE StreamInv'
  BY <1>3, <1>7 DEF ChargerComesOrGoes
<1> QED  BY <1>1, <1>2, <1>4, <1>5, <1>6, <1>7 DEF Next, ApiCall

\* The request of an entry.
LEMMA EntryType ==
  ASSUME TInv, NEW c \in Charger, NEW i \in DOMAIN stream[c]
  PROVE  stream[c][i] \in Request /\ i \in Nat
<1>1. stream[c] \in Seq(Request)
  BY DEF TInv, TypeOK
<1> QED  BY <1>1

\* Every step keeps what has not been dispatched uncalled.
LEMMA HandStep == IInv /\ [Next]_vars => HandInv'
<1> SUFFICES ASSUME IInv, [Next]_vars PROVE HandInv'
  OBVIOUS
<1>0. /\ api \in [Request -> Api] /\ done \in [Request -> Done]
      /\ batch \subseteq Request /\ cur \in Request \union {NoRequest}
      /\ stream \in [Charger -> Seq(Request)] /\ delivered \in [Charger -> Nat]
      /\ \A c \in Charger : delivered[c] <= Len(stream[c])
  BY DEF IInv, TInv, TypeOK
<1>00. \A c \in Charger : \A i \in DOMAIN stream[c] : stream[c][i] \in Request /\ i \in Nat
  BY EntryType DEF IInv
<1> USE DEF HandInv, apiVars, redisVars, consumerVars
<1>1. ASSUME NEW r \in Request, Send(r) PROVE HandInv'
  <2>1. /\ api[r] = "new" /\ api' = [api EXCEPT ![r] = "sent"]
        /\ stream' = [stream EXCEPT ![Target[r]] = Append(@, r)]
        /\ UNCHANGED <<delivered, batch, cur, done>>
    BY <1>1 DEF Send
  <2>2. done[r] = "no" /\ r \notin batch /\ r # cur
    BY <2>1 DEF IInv
  <2>3. \A c \in Charger : \A i \in DOMAIN stream'[c] :
          \/ i \in DOMAIN stream[c] /\ stream'[c][i] = stream[c][i]
          \/ stream'[c][i] = r
    BY <1>0, <2>1
  <2>4. \A q \in Request : api'[q] = "new" => api[q] = "new"
    BY <1>0, <2>1
  <2> QED  BY <1>0, <2>1, <2>2, <2>3, <2>4 DEF IInv
<1>2. ASSUME NEW r \in Request, StartRead(r) \/ ReadReply(r) \/ BlockEnds(r) PROVE HandInv'
  <2>1. /\ UNCHANGED <<stream, delivered, batch, cur, done>>
        /\ \A q \in Request : api[q] # "new" => api'[q] # "new"
    BY <1>2, ReadKeeps DEF IInv
  <2> QED  BY <1>0, <2>1 DEF IInv
<1>3. ASSUME UNCHANGED <<api, stream, delivered, batch, cur, done>> PROVE HandInv'
  BY <1>3 DEF IInv
<1>4. CASE ReadGroup
  <2>1. UNCHANGED <<api, stream, cur, done>>
    BY <1>4 DEF ReadGroup
  <2>2. \A c \in Charger : delivered[c] <= delivered'[c] /\ delivered'[c] \in Nat
    BY <1>4, LastReadBounds DEF ReadGroup, IInv
  <2>3. \A q \in batch' : \E d \in Charger : \E j \in DOMAIN stream[d] :
           q = stream[d][j] /\ delivered[d] < j /\ j <= delivered'[d]
    BY <1>4, BatchEntries DEF IInv
  <2>4. \A q \in batch' : done[q] = "no" /\ q # cur /\ api[q] # "new"
    BY <2>3 DEF IInv, StreamInv
  <2>5. ASSUME NEW c \in Charger, NEW i \in DOMAIN stream[c], delivered'[c] < i
        PROVE  stream[c][i] \notin batch'
    <3> SUFFICES ASSUME stream[c][i] \in batch' PROVE FALSE
      OBVIOUS
    <3>0. PICK d \in Charger : \E j \in DOMAIN stream[d] :
             stream[c][i] = stream[d][j] /\ j <= delivered'[d]
      BY <2>3
    <3>1. PICK j \in DOMAIN stream[d] : stream[c][i] = stream[d][j] /\ j <= delivered'[d]
      BY <3>0
    <3>2. c = d /\ i = j
      BY <3>1 DEF IInv, StreamInv
    <3> QED  BY <1>00, <2>2, <2>5, <3>1, <3>2
  <2>6. \A c \in Charger : \A i \in DOMAIN stream[c] : delivered'[c] < i => delivered[c] < i
    BY <1>0, <1>00, <2>2
  <2> QED  BY <2>1, <2>4, <2>5, <2>6 DEF IInv
<1>5. ASSUME NEW r \in Request, Dispatch(r) PROVE HandInv'
  <2>1. /\ r \in batch /\ cur' = r /\ batch' = batch \ {r}
        /\ UNCHANGED <<api, stream, delivered, done>>
    BY <1>5 DEF Dispatch, IsNext
  <2> QED  BY <2>1 DEF IInv
<1>6. CASE CallSend
  <2>1. pc = "call" /\ cur \in Request
    BY <1>6 DEF CallSend, IInv, TInv, Busy
  <2>2. done' = [done EXCEPT ![cur] = "sent"] /\ UNCHANGED <<api, stream, delivered, batch, cur>>
    BY <1>6 DEF CallSend
  <2>3. \A q \in Request : q # cur => done'[q] = done[q]
    BY <1>0, <2>2
  <2>4. cur # NoRequest /\ api[cur] # "new"
    BY <2>1 DEF IInv
  <2> QED  BY <1>0, <1>00, <2>1, <2>2, <2>3, <2>4 DEF IInv
<1>7. CASE CallAnswered
  <2>1. pc = "wait" /\ cur \in Request
    BY <1>7 DEF CallAnswered, IInv, TInv, Busy
  <2>2. /\ done' = [done EXCEPT ![cur] = "answered"]
        /\ UNCHANGED <<api, stream, delivered, batch, cur>>
    BY <1>7 DEF CallAnswered
  <2>3. \A q \in Request : q # cur => done'[q] = done[q]
    BY <1>0, <2>2
  <2>4. cur # NoRequest /\ api[cur] # "new"
    BY <2>1 DEF IInv
  <2> QED  BY <1>0, <1>00, <2>1, <2>2, <2>3, <2>4 DEF IInv
<1>8. ASSUME NEW r \in Request, ChargerExecutes(r) PROVE HandInv'
  <2>1. /\ done[r] = "sent" /\ done' = [done EXCEPT ![r] = "executed"]
        /\ UNCHANGED <<api, stream, delivered, batch, cur>>
    BY <1>8 DEF ChargerExecutes
  <2>2. api[r] # "new" /\ \A q \in Request : done[q] = "no" => done'[q] = "no"
    BY <1>0, <2>1 DEF IInv
  <2> QED  BY <1>0, <1>00, <2>1, <2>2 DEF IInv
<1>9. CASE Ack
  <2>1. /\ UNCHANGED <<api, stream, delivered, done>>
        /\ batch' \subseteq batch /\ cur' \in {cur, NoRequest}
    BY <1>9 DEF Ack
  <2> QED  BY <1>0, <1>00, <2>1 DEF IInv
<1>10. CASE AckFails \/ Crash
  <2>1. UNCHANGED <<api, stream, delivered, done>> /\ batch' = {} /\ cur' = NoRequest
    BY <1>10 DEF AckFails, Crash
  <2> QED  BY <1>0, <1>00, <2>1 DEF IInv
<1>11. CASE ScanStreams \/ CallRaises \/ ReplyOk \/ ReplyError \/ ReplyFails \/ UNCHANGED vars
  BY <1>3, <1>11 DEF ScanStreams, CallRaises, ReplyOk, ReplyError, ReplyFails, vars
<1>12. ASSUME NEW c \in Charger, ChargerComesOrGoes(c) PROVE HandInv'
  BY <1>3, <1>12 DEF ChargerComesOrGoes
<1> QED  BY <1>1, <1>2, <1>4, <1>5, <1>6, <1>7, <1>8, <1>9, <1>10, <1>11, <1>12
         DEF Next, ApiCall, Consumer

\* An appended reply is about the request in hand.
LEMMA RepliesAre ==
  ASSUME TInv, pc \in Busy, NEW ok \in BOOLEAN, Replied(ok)
  PROVE  \A c \in Charger : \A i \in DOMAIN replies'[c] :
           \/ i \in DOMAIN replies[c] /\ replies'[c][i] = replies[c][i]
           \/ replies'[c][i] = [req |-> cur, ok |-> ok]
<1>1. cur \in Request /\ Target[cur] \in Charger /\ replies \in [Charger -> Seq(Reply)]
  BY DEF TInv, TypeOK
<1>2. replies' = [replies EXCEPT ![Target[cur]] = Append(@, [req |-> cur, ok |-> ok])]
  BY DEF Replied
<1>3. \A c \in Charger : replies[c] \in Seq(Reply)
  BY <1>1
<1>4. \A c \in Charger : c # Target[cur] => replies'[c] = replies[c]
  BY <1>1, <1>2
<1>5. replies'[Target[cur]] = Append(replies[Target[cur]], [req |-> cur, ok |-> ok])
  BY <1>1, <1>2
<1>6. \A i \in DOMAIN replies'[Target[cur]] :
        \/ i \in DOMAIN replies[Target[cur]] /\ replies'[Target[cur]][i] = replies[Target[cur]][i]
        \/ replies'[Target[cur]][i] = [req |-> cur, ok |-> ok]
  <2> DEFINE old == replies[Target[cur]]
             e == [req |-> cur, ok |-> ok]
  <2>1. old \in Seq(Reply)
    BY <1>1, <1>3
  <2> HIDE DEF old, e
  <2>2. \A i \in DOMAIN Append(old, e) :
          (i \in DOMAIN old /\ Append(old, e)[i] = old[i]) \/ Append(old, e)[i] = e
    BY <2>1
  <2> QED  BY <1>5, <2>2 DEF old, e
<1> QED  BY <1>4, <1>6

\* Every step keeps good replies true.
LEMMA AnswerStep == IInv /\ [Next]_vars => AnswerInv'
<1> SUFFICES ASSUME IInv, [Next]_vars PROVE AnswerInv'
  OBVIOUS
<1>0. /\ api \in [Request -> Api] /\ done \in [Request -> Done]
      /\ cursor \in [Request -> Nat]
      /\ replies \in [Charger -> Seq(Reply)]
      /\ pc \in Busy => cur \in Request
  BY DEF IInv, TInv, TypeOK
<1>00. \A c \in Charger : \A i \in DOMAIN replies[c] : replies[c][i].req \in Request
  <2> SUFFICES ASSUME NEW c \in Charger, NEW i \in DOMAIN replies[c]
               PROVE  replies[c][i].req \in Request
    OBVIOUS
  <2>1. replies[c] \in Seq(Reply)
    BY <1>0
  <2>2. replies[c][i] \in Reply
    BY <2>1
  <2> QED  BY <2>2 DEF Reply
<1> USE DEF AnswerInv, apiVars, redisVars, consumerVars
<1>1. ASSUME NEW r \in Request, Send(r) PROVE AnswerInv'
  <2>1. api' = [api EXCEPT ![r] = "sent"] /\ UNCHANGED <<pc, cur, done, replies>>
    BY <1>1 DEF Send
  <2> QED  BY <1>0, <2>1 DEF IInv
<1>2. ASSUME NEW r \in Request, StartRead(r) \/ BlockEnds(r) PROVE AnswerInv'
  <2>1. /\ UNCHANGED <<pc, cur, done, replies>>
        /\ \A q \in Request : api'[q] = "ok" => api[q] = "ok"
    BY <1>0, <1>2 DEF StartRead, BlockEnds
  <2> QED  BY <2>1 DEF IInv
<1>3. ASSUME NEW r \in Request, ReadReply(r) PROVE AnswerInv'
  <2>1. UNCHANGED <<pc, cur, done, replies>>
    BY <1>3, ReadKeeps DEF IInv
  <2>2. \A q \in Request : api'[q] = "ok" =>
          \/ api[q] = "ok"
          \/ q = r /\ \E i \in DOMAIN replies[Target[r]] :
                        replies[Target[r]][i].req = r /\ replies[Target[r]][i].ok
    BY <1>3, ReadTells DEF IInv
  <2>3. Target[r] \in Charger
    OBVIOUS
  <2>4. \A q \in Request : api'[q] = "ok" => done[q] = "answered"
    BY <2>2, <2>3 DEF IInv
  <2> QED  BY <2>1, <2>4 DEF IInv
<1>4. ASSUME NEW r \in Request, Dispatch(r) PROVE AnswerInv'
  <2>1. /\ r \in batch /\ cur' = r /\ pc' \in {"call", "replyError"}
        /\ UNCHANGED <<api, done, replies>>
    BY <1>4 DEF Dispatch, IsNext
  <2> QED  BY <2>1 DEF IInv, HandInv
<1>5. CASE CallSend
  <2>1. /\ pc = "call" /\ pc' = "wait" /\ done' = [done EXCEPT ![cur] = "sent"]
        /\ UNCHANGED <<api, replies, cur>>
    BY <1>5 DEF CallSend
  <2>2. cur \in Request /\ done[cur] = "no"
    BY <1>0, <2>1 DEF IInv, Busy
  <2>3. \A q \in Request : done[q] = "answered" => done'[q] = "answered"
    BY <1>0, <2>1, <2>2
  <2> QED  BY <1>0, <1>00, <2>1, <2>2, <2>3 DEF IInv
<1>6. CASE CallAnswered
  <2>1. /\ pc = "wait" /\ pc' = "replyOk" /\ done' = [done EXCEPT ![cur] = "answered"]
        /\ UNCHANGED <<api, replies, cur>>
    BY <1>6 DEF CallAnswered
  <2>2. cur \in Request
    BY <1>0, <2>1 DEF Busy
  <2>3. \A q \in Request : done[q] = "answered" => done'[q] = "answered"
    BY <1>0, <2>1, <2>2
  <2> QED  BY <1>0, <1>00, <2>1, <2>2, <2>3 DEF IInv
<1>7. ASSUME NEW r \in Request, ChargerExecutes(r) PROVE AnswerInv'
  <2>1. /\ done[r] = "sent" /\ done' = [done EXCEPT ![r] = "executed"]
        /\ UNCHANGED <<api, replies, cur, pc>>
    BY <1>7 DEF ChargerExecutes
  <2>2. \A q \in Request : /\ done[q] = "answered" => done'[q] = "answered"
                           /\ done[q] = "no" => done'[q] = "no"
                           /\ done[q] \in {"sent", "executed"} => done'[q] \in {"sent", "executed"}
    BY <1>0, <2>1
  <2> QED  BY <1>0, <1>00, <2>1, <2>2 DEF IInv, Busy
<1>8. CASE ReplyOk \/ ReplyError \/ ReplyFails
  <2>1. /\ pc \in Busy /\ UNCHANGED <<api, done, cur>>
        /\ pc' \in {"ack", "abort", "replyError"}
    BY <1>8 DEF ReplyOk, ReplyError, ReplyFails, Busy
  <2>2. \/ pc = "replyOk" /\ Replied(TRUE)
        \/ Replied(FALSE)
        \/ replies' = replies
    BY <1>8 DEF ReplyOk, ReplyError, ReplyFails
  <2>3. CASE pc = "replyOk" /\ Replied(TRUE)
    <3>1. \A c \in Charger : \A i \in DOMAIN replies'[c] :
             \/ i \in DOMAIN replies[c] /\ replies'[c][i] = replies[c][i]
             \/ replies'[c][i] = [req |-> cur, ok |-> TRUE]
      BY <2>1, <2>3, RepliesAre DEF IInv
    <3> QED  BY <1>00, <2>1, <2>3, <3>1 DEF IInv
  <2>4. CASE Replied(FALSE)
    <3>1. \A c \in Charger : \A i \in DOMAIN replies'[c] :
             \/ i \in DOMAIN replies[c] /\ replies'[c][i] = replies[c][i]
             \/ replies'[c][i] = [req |-> cur, ok |-> FALSE]
      BY <2>1, <2>4, RepliesAre DEF IInv
    <3> QED  BY <1>00, <2>1, <3>1 DEF IInv
  <2>5. CASE replies' = replies
    BY <2>1, <2>5 DEF IInv
  <2> QED  BY <2>2, <2>3, <2>4, <2>5
<1>9. CASE ScanStreams \/ ReadGroup \/ CallRaises \/ Ack \/ AckFails \/ Crash
  <2>1. UNCHANGED <<api, done, replies>>
    BY <1>9 DEF ScanStreams, ReadGroup, CallRaises, Ack, AckFails, Crash
  <2>2. pc' \notin {"call", "wait", "replyOk"}
    BY <1>9 DEF ScanStreams, ReadGroup, CallRaises, Ack, AckFails, Crash
  <2> QED  BY <2>1, <2>2 DEF IInv
<1>10. ASSUME UNCHANGED <<api, done, replies, pc, cur>> PROVE AnswerInv'
  BY <1>10 DEF IInv
<1>11. ASSUME NEW c \in Charger, ChargerComesOrGoes(c) PROVE AnswerInv'
  BY <1>10, <1>11 DEF ChargerComesOrGoes
<1>12. CASE UNCHANGED vars
  BY <1>10, <1>12 DEF vars
<1> QED  BY <1>1, <1>2, <1>3, <1>4, <1>5, <1>6, <1>7, <1>8, <1>9, <1>11, <1>12
         DEF Next, ApiCall, Consumer

\* The inductive invariant holds of every behaviour.
LEMMA Invariance == Spec => []IInv
<1>1. Init => IInv
  BY InitIInv
<1>2. IInv /\ [Next]_vars => IInv'
  <2> SUFFICES ASSUME IInv, [Next]_vars PROVE IInv'
    OBVIOUS
  <2> QED  BY TStep, StreamStep, HandStep, AnswerStep DEF IInv
<1> QED  BY <1>1, <1>2, PTL DEF Spec

-----------------------------------------------------------------------------
(* Commands implements RemoteCall *)

\* Every step is one of RemoteCall, or a stutter.
LEMMA CallerStep == IInv /\ [Next]_vars =>
    [Caller!RNext]_<<[r \in Request |-> IF api[r] \in {"sent", "reading"} THEN "pending" ELSE api[r]],
                     [r \in Request |-> IF done[r] = "sent" THEN "no" ELSE done[r]]>>
<1> DEFINE mapi == [r \in Request |-> IF api[r] \in {"sent", "reading"} THEN "pending" ELSE api[r]]
           mdone == [r \in Request |-> IF done[r] = "sent" THEN "no" ELSE done[r]]
<1> SUFFICES ASSUME IInv, [Next]_vars PROVE Caller!RNext \/ UNCHANGED <<mapi, mdone>>
  OBVIOUS
<1>0. api \in [Request -> Api] /\ done \in [Request -> Done]
  BY DEF IInv, TInv, TypeOK
<1>1. ASSUME UNCHANGED <<api, done>> PROVE UNCHANGED <<mapi, mdone>>
  BY <1>1
<1>2. ASSUME NEW r \in Request, Send(r) PROVE Caller!Issue(r)
  BY <1>0, <1>2 DEF Send, Caller!Issue
<1>3. ASSUME NEW r \in Request, StartRead(r) PROVE UNCHANGED <<mapi, mdone>>
  BY <1>0, <1>3 DEF StartRead
<1>4. ASSUME NEW r \in Request, ReadReply(r) PROVE Caller!Return(r) \/ UNCHANGED <<mapi, mdone>>
  <2>1. /\ api[r] = "reading" /\ done' = done
        /\ \E v \in {"ok", "error", "timeout", "sent"} : api' = [api EXCEPT ![r] = v]
    BY <1>4, ReadCases, ReadKeeps DEF IInv
  <2>2. api'[r] = "ok" => done[r] = "answered"
    BY <1>0, <2>1, AnswerStep DEF IInv, AnswerInv
  <2>3. PICK v \in {"ok", "error", "timeout", "sent"} : api' = [api EXCEPT ![r] = v]
    BY <2>1
  <2>4. CASE v = "sent"
    BY <1>0, <2>1, <2>3, <2>4
  <2>5. CASE v # "sent"
    BY <1>0, <2>1, <2>2, <2>3, <2>5 DEF Caller!Return, Caller!Result
  <2> QED  BY <2>4, <2>5
<1>5. ASSUME NEW r \in Request, BlockEnds(r) PROVE Caller!Return(r) \/ UNCHANGED <<mapi, mdone>>
  BY <1>0, <1>5 DEF BlockEnds, Caller!Return, Caller!Result
<1>6. ASSUME NEW r \in Request, ChargerExecutes(r) PROVE Caller!Execute(r)
  <2>1. api[r] # "new"
    BY <1>6 DEF ChargerExecutes, IInv, HandInv
  <2>2. done[r] = "sent" /\ done' = [done EXCEPT ![r] = "executed"] /\ api' = api
    BY <1>6 DEF ChargerExecutes, apiVars
  <2>3. mdone[r] = "no" /\ mapi[r] # "new" /\ mapi' = mapi
    BY <1>0, <2>1, <2>2
  <2>4. mdone' = [mdone EXCEPT ![r] = "executed"]
    BY <1>0, <2>2
  <2> HIDE DEF mapi, mdone
  <2>5. Caller!Execute(r) <=> /\ mapi[r] # "new" /\ mdone[r] = "no"
                              /\ mdone' = [mdone EXCEPT ![r] = "executed"] /\ mapi' = mapi
    BY DEF Caller!Execute, mapi, mdone
  <2> QED  BY <2>3, <2>4, <2>5
<1>7. ASSUME CallSend PROVE UNCHANGED <<mapi, mdone>>
  <2>1. cur \in Request /\ done[cur] = "no"
    BY <1>7 DEF CallSend, IInv, TInv, AnswerInv, Busy
  <2>2. done' = [done EXCEPT ![cur] = "sent"] /\ api' = api
    BY <1>7 DEF CallSend, apiVars
  <2> QED  BY <1>0, <2>1, <2>2
<1>8. ASSUME CallAnswered PROVE \E r \in Request : Caller!Answer(r)
  <2>1. PICK r \in Request : r = cur
    BY <1>8 DEF CallAnswered, IInv, TInv, Busy
  <2>2. done[r] = "executed" /\ done' = [done EXCEPT ![r] = "answered"] /\ api' = api
    BY <1>8, <2>1 DEF CallAnswered, apiVars
  <2>3. mdone[r] = "executed" /\ mapi' = mapi
    BY <1>0, <2>2
  <2>4. mdone' = [mdone EXCEPT ![r] = "answered"]
    BY <1>0, <2>2
  <2> HIDE DEF mapi, mdone
  <2>5. Caller!Answer(r) <=> /\ mdone[r] = "executed"
                             /\ mdone' = [mdone EXCEPT ![r] = "answered"] /\ mapi' = mapi
    BY DEF Caller!Answer, mapi, mdone
  <2> QED  BY <2>3, <2>4, <2>5
<1>9. ASSUME ScanStreams \/ ReadGroup \/ CallRaises \/ ReplyOk \/ ReplyError \/ Ack
      PROVE  UNCHANGED <<mapi, mdone>>
  <2>1. UNCHANGED <<api, done>>
    BY <1>9 DEF ScanStreams, ReadGroup, CallRaises, ReplyOk, ReplyError, Ack, apiVars
  <2> QED  BY <1>1, <2>1
<1>10. ASSUME NEW r \in Request, Dispatch(r) PROVE UNCHANGED <<mapi, mdone>>
  BY <1>1, <1>10 DEF Dispatch, apiVars
<1>11. ASSUME ReplyFails \/ AckFails \/ Crash \/ UNCHANGED vars
       PROVE  UNCHANGED <<mapi, mdone>>
  BY <1>1, <1>11 DEF ReplyFails, AckFails, Crash, vars, apiVars
<1>12. ASSUME NEW c \in Charger, ChargerComesOrGoes(c) PROVE UNCHANGED <<mapi, mdone>>
  BY <1>1, <1>12 DEF ChargerComesOrGoes, apiVars
<1> HIDE DEF mapi, mdone
<1> QED  BY <1>2, <1>3, <1>4, <1>5, <1>6, <1>7, <1>8, <1>9, <1>10, <1>11, <1>12
         DEF Next, ApiCall, Consumer, Caller!RNext

\* Whatever fails and whoever reconnects, a command is carried out at most
\* once, and its caller is told "ok" only after the charger has answered.
THEOREM CarriedOutAtMostOnce == Spec => AtMostOnce
<1>1. Init => Caller!RInit
  BY DEF Init, Caller!RInit
<1> QED  BY <1>1, Invariance, CallerStep, PTL DEF Spec, AtMostOnce, Caller!RSpec

-----------------------------------------------------------------------------
(* What an entry of the reply stream says, and who is told of it *)

\* No reply of the request has been appended.
Fresh(q) == \A c \in Charger : \A i \in DOMAIN replies[c] : replies[c][i].req # q

\* A request has no reply before its charger has been called, or the call has
\* been given up: the consumer meets it once.
FreshInv ==
    /\ \A q \in Request : api[q] = "new" => Fresh(q)
    /\ \A c \in Charger : \A i \in DOMAIN stream[c] : delivered[c] < i => Fresh(stream[c][i])
    /\ \A q \in batch : Fresh(q)
    /\ pc \in {"call", "wait"} => Fresh(cur)

\* A reply is added at the end of its stream and changes no other.
LEMMA RepliesGrow ==
  ASSUME TInv, pc \in Busy, NEW ok \in BOOLEAN, Replied(ok)
  PROVE  /\ \A c \in Charger : \A i \in DOMAIN replies[c] :
              i \in DOMAIN replies'[c] /\ replies'[c][i] = replies[c][i]
         /\ Len(replies[Target[cur]]) + 1 \in DOMAIN replies'[Target[cur]]
         /\ replies'[Target[cur]][Len(replies[Target[cur]]) + 1].req = cur
<1>1. cur \in Request /\ Target[cur] \in Charger /\ replies \in [Charger -> Seq(Reply)]
  BY DEF TInv, TypeOK
<1>2. /\ \A c \in Charger : c # Target[cur] => replies'[c] = replies[c]
      /\ replies'[Target[cur]] = Append(replies[Target[cur]], [req |-> cur, ok |-> ok])
  BY <1>1 DEF Replied
<1> DEFINE old == replies[Target[cur]]
           e == [req |-> cur, ok |-> ok]
<1>3. old \in Seq(Reply) /\ e.req = cur
  BY <1>1
<1> HIDE DEF old, e
<1>4. /\ \A i \in DOMAIN old : i \in DOMAIN Append(old, e) /\ Append(old, e)[i] = old[i]
      /\ Len(old) + 1 \in DOMAIN Append(old, e) /\ Append(old, e)[Len(old) + 1] = e
  BY <1>3
<1> QED  BY <1>1, <1>2, <1>3, <1>4 DEF old, e

\* A step that appends no reply and hands out fresh requests only.
LEMMA FreshKept ==
  ASSUME IInv, FreshInv, UNCHANGED <<replies, stream>>,
         \A q \in Request : api'[q] = "new" => api[q] = "new",
         \A c \in Charger : delivered'[c] \in Nat /\ delivered[c] <= delivered'[c],
         \A q \in batch' : Fresh(q),
         pc' \in {"call", "wait"} => Fresh(cur')
  PROVE  FreshInv'
<1>1. \A q : Fresh(q)' <=> Fresh(q)
  BY DEF Fresh
<1>2. \A c \in Charger : delivered[c] \in Nat
  BY DEF IInv, TInv, TypeOK
<1>3. \A c \in Charger : \A i \in DOMAIN stream[c] : i \in Nat
  BY EntryType DEF IInv
<1>4. \A c \in Charger : \A i \in DOMAIN stream[c] : delivered'[c] < i => delivered[c] < i
  BY <1>2, <1>3
<1> QED  BY <1>1, <1>4 DEF FreshInv

\* Every step keeps what has not been called without a reply.
LEMMA FreshStep == IInv /\ FreshInv /\ [Next]_vars => FreshInv'
<1> SUFFICES ASSUME IInv, FreshInv, [Next]_vars PROVE FreshInv'
  OBVIOUS
<1>0. /\ api \in [Request -> Api] /\ stream \in [Charger -> Seq(Request)]
      /\ delivered \in [Charger -> Nat]
  BY DEF IInv, TInv, TypeOK
<1> USE DEF apiVars, redisVars, consumerVars
<1>1. ASSUME NEW r \in Request, Send(r) PROVE FreshInv'
  <2>1. /\ api[r] = "new" /\ api' = [api EXCEPT ![r] = "sent"]
        /\ stream' = [stream EXCEPT ![Target[r]] = Append(@, r)]
        /\ UNCHANGED <<delivered, batch, cur, pc, replies>>
    BY <1>1 DEF Send
  <2>2. \A q : Fresh(q)' <=> Fresh(q)
    BY <2>1 DEF Fresh
  <2>3. Target[r] \in Charger /\ stream[Target[r]] \in Seq(Request)
    BY <1>0
  <2>4. \A c \in Charger : \A i \in DOMAIN stream'[c] :
          \/ i \in DOMAIN stream[c] /\ stream'[c][i] = stream[c][i]
          \/ stream'[c][i] = r
    BY <1>0, <2>1, <2>3
  <2>5. Fresh(r)
    BY <2>1 DEF FreshInv
  <2>6. \A q \in Request : api'[q] = "new" => api[q] = "new"
    BY <1>0, <2>1
  <2> QED  BY <2>1, <2>2, <2>4, <2>5, <2>6 DEF FreshInv
<1>2. ASSUME NEW r \in Request, StartRead(r) \/ ReadReply(r) \/ BlockEnds(r) PROVE FreshInv'
  <2>1. /\ UNCHANGED <<replies, stream, delivered, batch, cur, pc>>
        /\ \A q \in Request : api'[q] = "new" => api[q] = "new"
    BY <1>2, ReadKeeps DEF IInv
  <2> QED  BY <1>0, <2>1, FreshKept DEF FreshInv
<1>3. CASE ReadGroup
  <2>1. UNCHANGED <<api, stream, replies>> /\ pc' \notin {"call", "wait"}
    BY <1>3 DEF ReadGroup
  <2>2. \A c \in Charger : delivered'[c] \in Nat /\ delivered[c] <= delivered'[c]
    BY <1>3, LastReadBounds DEF ReadGroup, IInv
  <2>3. \A q \in batch' : Fresh(q)
    BY <1>3, BatchEntries DEF IInv, FreshInv
  <2> QED  BY <2>1, <2>2, <2>3, FreshKept
<1>4. ASSUME NEW r \in Request, Dispatch(r) PROVE FreshInv'
  <2>1. /\ UNCHANGED <<api, stream, delivered, replies>>
        /\ r \in batch /\ cur' = r /\ batch' = batch \ {r}
    BY <1>4 DEF Dispatch, IsNext
  <2> QED  BY <1>0, <2>1, FreshKept DEF FreshInv
<1>5. CASE ScanStreams \/ CallSend \/ CallAnswered \/ CallRaises \/ Ack \/ AckFails \/ Crash
           \/ UNCHANGED vars
  <2>1. /\ UNCHANGED <<api, stream, delivered, replies>> /\ batch' \subseteq batch
        /\ pc' \in {"call", "wait"} => pc \in {"call", "wait"} /\ cur' = cur
    BY <1>5 DEF ScanStreams, CallSend, CallAnswered, CallRaises, Ack, AckFails, Crash, vars
  <2> QED  BY <1>0, <2>1, FreshKept DEF FreshInv
<1>6. CASE ReplyOk \/ ReplyError \/ ReplyFails
  <2>1. /\ UNCHANGED <<api, stream, delivered, batch, cur>>
        /\ pc \in Busy /\ pc' \notin {"call", "wait"}
    BY <1>6 DEF ReplyOk, ReplyError, ReplyFails, Busy
  <2>2. CASE UNCHANGED replies
    BY <1>0, <2>1, <2>2, FreshKept DEF FreshInv
  <2>3. ASSUME NEW ok \in BOOLEAN, Replied(ok) PROVE FreshInv'
    <3>0. \A c \in Charger : \A i \in DOMAIN replies'[c] :
             \/ i \in DOMAIN replies[c] /\ replies'[c][i] = replies[c][i]
             \/ replies'[c][i] = [req |-> cur, ok |-> ok]
      BY <2>1, <2>3, RepliesAre DEF IInv
    <3>1. \A q : Fresh(q) /\ q # cur => Fresh(q)'
      BY <3>0 DEF Fresh
    <3>2. cur \in Request /\ cur # NoRequest
      BY <2>1 DEF IInv, TInv
    <3> QED  BY <2>1, <3>1, <3>2 DEF FreshInv, IInv, HandInv
  <2> QED  BY <1>6, <2>2, <2>3 DEF ReplyOk, ReplyError, ReplyFails
<1>7. ASSUME NEW r \in Request, ChargerExecutes(r) PROVE FreshInv'
  BY <1>0, <1>7, FreshKept DEF ChargerExecutes, FreshInv
<1>8. ASSUME NEW c \in Charger, ChargerComesOrGoes(c) PROVE FreshInv'
  BY <1>0, <1>8, FreshKept DEF ChargerComesOrGoes, FreshInv
<1> QED  BY <1>1, <1>2, <1>3, <1>4, <1>5, <1>6, <1>7, <1>8 DEF Next, ApiCall, Consumer

\* Who is told "error" has such a reply; while nothing fails, such a reply is
\* of a call that the charger has not answered, and will not be answered.
ErrorInv ==
    /\ \A r \in Request : api[r] = "error" =>
         \E i \in DOMAIN replies[Target[r]] :
            replies[Target[r]][i].req = r /\ ~ replies[Target[r]][i].ok
    /\ faults = 0 =>
         /\ pc = "replyError" => done[cur] # "answered"
         /\ \A c \in Charger : \A i \in DOMAIN replies[c] :
              ~ replies[c][i].ok => done[replies[c][i].req] # "answered"

\* A step that appends no reply and does not answer a call whose error is known.
LEMMA ErrorKept ==
  ASSUME ErrorInv, replies' = replies, faults' = faults \/ faults' # 0,
         \A r \in Request : api'[r] = "error" => api[r] = "error",
         faults' = 0 /\ pc' = "replyError" => done'[cur'] # "answered",
         faults' = 0 => \A c \in Charger : \A i \in DOMAIN replies[c] :
             ~ replies[c][i].ok /\ done'[replies[c][i].req] = "answered"
               => done[replies[c][i].req] = "answered"
  PROVE  ErrorInv'
  BY DEF ErrorInv

\* The request of a reply.
LEMMA ReplyType ==
  ASSUME TInv, NEW c \in Charger, NEW i \in DOMAIN replies[c]
  PROVE  replies[c][i] \in Reply /\ replies[c][i].req \in Request
<1>1. replies[c] \in Seq(Reply)
  BY DEF TInv, TypeOK
<1>2. replies[c][i] \in Reply
  BY <1>1
<1> QED  BY <1>2 DEF Reply

\* A failure is remembered.
LEMMA FaultCounts == TInv /\ Fault => faults' # 0
  BY DEF TInv, TypeOK, Fault

\* What the steps that reply have in common.
LEMMA ReplySteps ==
  ASSUME TInv, ReplyOk \/ ReplyError \/ ReplyFails
  PROVE  /\ pc \in {"replyOk", "replyError"}
         /\ UNCHANGED <<api, cursor, pel, batch, done, cur>>
         /\ \/ faults' = faults /\ pc' = "ack"
            \/ faults' # 0 /\ pc' \in {"replyError", "abort"}
<1> USE DEF redisVars
<1>1. CASE ReplyOk
  BY <1>1 DEF ReplyOk
<1>2. CASE ReplyError
  BY <1>2 DEF ReplyError
<1>3. CASE ReplyFails
  <2>1. Fault
    BY <1>3 DEF ReplyFails
  <2>2. /\ pc \in {"replyOk", "replyError"} /\ pc' \in {"replyError", "abort"}
        /\ UNCHANGED <<api, cursor, pel, batch, done, cur>>
    BY <1>3 DEF ReplyFails
  <2> QED  BY <2>1, <2>2, FaultCounts
<1> QED  BY <1>1, <1>2, <1>3

\* Every step keeps what an error reply says.
LEMMA ErrorStep == IInv /\ FreshInv /\ ErrorInv /\ [Next]_vars => ErrorInv'
<1> SUFFICES ASSUME IInv, FreshInv, ErrorInv, [Next]_vars PROVE ErrorInv'
  OBVIOUS
<1>0. /\ api \in [Request -> Api] /\ done \in [Request -> Done] /\ faults \in Nat
      /\ cursor \in [Request -> Nat] /\ replies \in [Charger -> Seq(Reply)]
      /\ pc \in Busy => cur \in Request
      /\ \A c \in Charger : \A i \in DOMAIN replies[c] : replies[c][i].req \in Request
  BY ReplyType DEF IInv, TInv, TypeOK
<1> USE DEF apiVars, redisVars, consumerVars
<1>1. ASSUME NEW r \in Request, Send(r) \/ StartRead(r) \/ BlockEnds(r) PROVE ErrorInv'
  <2>1. /\ UNCHANGED <<replies, pc, cur, done, faults>>
        /\ \A q \in Request : api'[q] = "error" => api[q] = "error"
    BY <1>0, <1>1 DEF Send, StartRead, BlockEnds
  <2> QED  BY <2>1 DEF ErrorInv
<1>2. ASSUME NEW r \in Request, ReadReply(r) PROVE ErrorInv'
  <2>1. UNCHANGED <<replies, pc, cur, done, faults>>
    BY <1>2, ReadKeeps DEF IInv
  <2>2. \A q \in Request : api'[q] = "error" =>
          \/ api[q] = "error"
          \/ q = r /\ \E i \in DOMAIN replies[Target[r]] :
                        replies[Target[r]][i].req = r /\ ~ replies[Target[r]][i].ok
    BY <1>2, ReadTells DEF IInv
  <2>3. \A q \in Request : api'[q] = "error" =>
          \E i \in DOMAIN replies[Target[q]] :
             replies[Target[q]][i].req = q /\ ~ replies[Target[q]][i].ok
    BY <2>2 DEF ErrorInv
  <2> QED  BY <2>1, <2>3 DEF ErrorInv
<1>3. ASSUME NEW r \in Request, Dispatch(r) PROVE ErrorInv'
  <2>1. r \in batch /\ cur' = r /\ UNCHANGED <<api, replies, done, faults>>
    BY <1>3 DEF Dispatch, IsNext
  <2>2. done'[cur'] = "no"
    BY <2>1 DEF IInv, HandInv
  <2> QED  BY <2>1, <2>2, ErrorKept
<1>4. CASE CallSend
  <2>1. /\ pc = "call" /\ done' = [done EXCEPT ![cur] = "sent"] /\ pc' = "wait"
        /\ UNCHANGED <<api, replies, faults>>
    BY <1>4 DEF CallSend
  <2>2. \A q \in Request : done'[q] = "answered" => done[q] = "answered"
    BY <1>0, <2>1
  <2> QED  BY <1>0, <2>1, <2>2, ErrorKept
<1>5. CASE CallAnswered
  <2>1. /\ pc = "wait" /\ done' = [done EXCEPT ![cur] = "answered"] /\ pc' = "replyOk"
        /\ UNCHANGED <<api, replies, faults>>
    BY <1>5 DEF CallAnswered
  <2>2. \A c \in Charger : \A i \in DOMAIN replies[c] : replies[c][i].req # cur
    BY <2>1 DEF FreshInv, Fresh
  <2>3. \A c \in Charger : \A i \in DOMAIN replies[c] :
          done'[replies[c][i].req] = done[replies[c][i].req]
    BY <1>0, <2>1, <2>2
  <2> QED  BY <2>1, <2>3, ErrorKept
<1>6. CASE CallRaises
  <2>1. /\ pc \in {"call", "wait"} /\ UNCHANGED <<api, replies, done, cur, faults>>
    BY <1>6 DEF CallRaises
  <2>2. done[cur] # "answered"
    BY <2>1 DEF IInv, AnswerInv
  <2> QED  BY <2>1, <2>2, ErrorKept
<1>7. ASSUME NEW r \in Request, ChargerExecutes(r) PROVE ErrorInv'
  <2>1. /\ done' = [done EXCEPT ![r] = "executed"]
        /\ UNCHANGED <<api, replies, cur, pc, faults>>
    BY <1>7 DEF ChargerExecutes
  <2>2. \A q \in Request : done'[q] = "answered" => done[q] = "answered"
    BY <1>0, <2>1
  <2>3. faults = 0 /\ pc = "replyError" => done'[cur] # "answered"
    BY <1>0, <2>2 DEF ErrorInv, Busy
  <2> QED  BY <1>0, <2>1, <2>2, <2>3, ErrorKept
<1>8. CASE ReplyOk \/ ReplyError \/ ReplyFails
  <2>1. /\ pc \in Busy /\ UNCHANGED <<api, done, cur>>
        /\ (faults' = faults /\ pc' = "ack") \/ faults' # 0
    BY <1>8, ReplySteps DEF Busy, IInv
  <2>2. CASE UNCHANGED replies
    BY <2>1, <2>2 DEF ErrorInv
  <2>3. ASSUME NEW ok \in BOOLEAN, Replied(ok),
               faults' = 0 /\ ~ ok => pc = "replyError"
        PROVE  ErrorInv'
    <3>1. \A c \in Charger : \A i \in DOMAIN replies[c] :
            i \in DOMAIN replies'[c] /\ replies'[c][i] = replies[c][i]
      BY <2>1, <2>3, RepliesGrow DEF IInv
    <3>2. \A c \in Charger : \A i \in DOMAIN replies'[c] :
             \/ i \in DOMAIN replies[c] /\ replies'[c][i] = replies[c][i]
             \/ replies'[c][i] = [req |-> cur, ok |-> ok]
      BY <2>1, <2>3, RepliesAre DEF IInv
    <3>3. ASSUME NEW r \in Request, api'[r] = "error"
          PROVE  \E i \in DOMAIN replies'[Target[r]] :
                    replies'[Target[r]][i].req = r /\ ~ replies'[Target[r]][i].ok
      <4>1. PICK i \in DOMAIN replies[Target[r]] :
              replies[Target[r]][i].req = r /\ ~ replies[Target[r]][i].ok
        BY <2>1, <3>3 DEF ErrorInv
      <4> QED  BY <3>1, <4>1
    <3>4. ASSUME faults' = 0, NEW c \in Charger, NEW i \in DOMAIN replies'[c], ~ replies'[c][i].ok
          PROVE  done[replies'[c][i].req] # "answered"
      <4>0. faults = 0
        BY <2>1, <3>4
      <4>1. CASE i \in DOMAIN replies[c] /\ replies'[c][i] = replies[c][i]
        BY <3>4, <4>0, <4>1 DEF ErrorInv
      <4>2. CASE replies'[c][i] = [req |-> cur, ok |-> ok]
        BY <2>3, <3>4, <4>0, <4>2 DEF ErrorInv
      <4> QED  BY <3>2, <4>1, <4>2
    <3>5. faults' = 0 => pc' # "replyError"
      BY <2>1
    <3> QED  BY <2>1, <3>3, <3>4, <3>5 DEF ErrorInv
  <2>4. \/ UNCHANGED replies
        \/ Replied(TRUE)
        \/ Replied(FALSE) /\ pc = "replyError"
    BY <1>8 DEF ReplyOk, ReplyError, ReplyFails
  <2> QED  BY <2>2, <2>3, <2>4
<1>9. CASE ScanStreams \/ ReadGroup \/ Ack \/ UNCHANGED vars
  <2>1. /\ UNCHANGED <<api, replies, done, faults>>
        /\ pc' = "replyError" => pc = "replyError" /\ cur' = cur
    BY <1>9 DEF ScanStreams, ReadGroup, Ack, vars
  <2> QED  BY <2>1 DEF ErrorInv
<1>10. CASE AckFails \/ Crash
  <2>1. UNCHANGED <<api, replies>> /\ faults' # 0
    BY <1>0, <1>10 DEF AckFails, Crash, Fault
  <2> QED  BY <2>1, ErrorKept
<1>11. ASSUME NEW c \in Charger, ChargerComesOrGoes(c) PROVE ErrorInv'
  BY <1>11 DEF ChargerComesOrGoes, ErrorInv
<1> QED  BY <1>1, <1>2, <1>3, <1>4, <1>5, <1>6, <1>7, <1>8, <1>9, <1>10, <1>11
         DEF Next, ApiCall, Consumer

\* A caller learns of an error that hides an answer only if Redis has failed.
THEOREM ErrorHonest == Spec => []ErrorIsHonest
<1>1. Init => FreshInv /\ ErrorInv
  BY DEF Init, FreshInv, Fresh, ErrorInv
<1>2. IInv /\ ErrorInv => ErrorIsHonest
  <2> SUFFICES ASSUME IInv, ErrorInv, NEW r \in Request,
                      api[r] = "error", done[r] = "answered"
               PROVE  faults > 0
    BY DEF ErrorIsHonest
  <2>1. faults # 0
    BY DEF ErrorInv
  <2> QED  BY <2>1 DEF IInv, TInv, TypeOK
<1> QED  BY <1>1, <1>2, Invariance, FreshStep, ErrorStep, PTL DEF Spec

-----------------------------------------------------------------------------
(* A caller blocked in XREAD *)

\* Redis appended a reply of r while r was blocked: it is in what XREAD
\* returned, or has been read.  Where XREAD blocks there is nothing more.  No
\* own reply is behind the cursor of a caller that was told nothing.
Ahead(r) == \E i \in DOMAIN replies[Target[r]] :
                cursor[r] < i /\ i <= served[r] /\ replies[Target[r]][i].req = r
Awaits(r) ==
    /\ Blocked(r) => cursor[r] = Len(replies[Target[r]])
    /\ "blocked" \in heardIn[r] =>
         api[r] \in {"ok", "error"} \/ (api[r] = "reading" /\ Ahead(r))
    /\ api[r] \notin {"ok", "error"} =>
         \A i \in since[r] + 1 .. cursor[r] : replies[Target[r]][i].req # r
AwaitInv == \A r \in Request : Awaits(r)

\* A step that is not about this caller.
LEMMA AwaitKept ==
  ASSUME NEW r \in Request, Awaits(r), api'[r] = api[r], since'[r] = since[r],
         cursor'[r] = cursor[r], served'[r] = served[r], heardIn'[r] = heardIn[r],
         replies' = replies
  PROVE  Awaits(r)'
  BY DEF Awaits, Ahead, Blocked

\* Every step keeps the awaited reply ahead of the cursor, or returns it.
LEMMA AwaitStep == IInv /\ AwaitInv /\ [Next]_vars => AwaitInv'
<1> SUFFICES ASSUME IInv, AwaitInv, [Next]_vars PROVE AwaitInv'
  OBVIOUS
<1>0. /\ api \in [Request -> Api] /\ heardIn \in [Request -> SUBSET Where]
      /\ since \in [Request -> Nat] /\ cursor \in [Request -> Nat] /\ served \in [Request -> Nat]
      /\ replies \in [Charger -> Seq(Reply)]
      /\ \A r \in Request : /\ since[r] <= cursor[r] /\ cursor[r] <= served[r]
                            /\ served[r] <= Len(replies[Target[r]])
  BY DEF IInv, TInv, TypeOK
<1>00. \A r \in Request : /\ DOMAIN replies[Target[r]] = 1 .. Len(replies[Target[r]])
                          /\ Len(replies[Target[r]]) \in Nat /\ Target[r] \in Charger
  BY <1>0
<1> USE DEF apiVars, readVars, redisVars, consumerVars
<1>1. ASSUME UNCHANGED <<api, readVars, heardIn, replies>> PROVE AwaitInv'
  BY <1>1, AwaitKept DEF AwaitInv
<1>2. ASSUME NEW r \in Request, Send(r) PROVE AwaitInv'
  <2>1. /\ api[r] = "new" /\ api' = [api EXCEPT ![r] = "sent"]
        /\ UNCHANGED <<readVars, heardIn, replies>>
    BY <1>2 DEF Send
  <2>2. Awaits(r)'
    BY <1>0, <2>1 DEF AwaitInv, Awaits, Ahead, Blocked
  <2> QED  BY <1>0, <2>1, <2>2, AwaitKept DEF AwaitInv
<1>3. ASSUME NEW r \in Request, StartRead(r) PROVE AwaitInv'
  <2>1. /\ api[r] = "sent" /\ api' = [api EXCEPT ![r] = "reading"]
        /\ \A q \in Request : q # r => /\ since'[q] = since[q]
                                       /\ cursor'[q] = cursor[q] /\ served'[q] = served[q]
        /\ UNCHANGED <<heardIn, replies>>
    BY <1>0, <1>3 DEF StartRead
  <2>2. "blocked" \notin heardIn[r]
    BY <2>1 DEF AwaitInv, Awaits
  <2>3. (since'[r] = since[r] /\ cursor'[r] = cursor[r]) \/ since'[r] = cursor'[r]
    BY <1>0, <1>3 DEF StartRead
  <2>4. served'[r] = cursor'[r] => cursor'[r] = Len(replies[Target[r]])
    <3> DEFINE last == Len(replies[Target[r]])
               from == IF cursor[r] = since[r] THEN last ELSE cursor[r]
    <3>1. cursor'[r] = from
          /\ served'[r] = IF from + ReplyCount < last THEN from + ReplyCount ELSE last
      BY <1>0, <1>3 DEF StartRead
    <3>2. from \in Nat /\ last \in Nat
      BY <1>0, <1>00
    <3> HIDE DEF from
    <3> QED  BY <3>1, <3>2
  <2>5. \A i \in since'[r] + 1 .. cursor'[r] : replies[Target[r]][i].req # r
    <3>1. CASE since'[r] = since[r] /\ cursor'[r] = cursor[r]
      BY <2>1, <3>1 DEF AwaitInv, Awaits
    <3>2. CASE since'[r] = cursor'[r]
      <4>1. cursor'[r] \in Nat
        BY TStep DEF IInv, TInv, TypeOK
      <4> QED  BY <3>2, <4>1
    <3> QED  BY <2>3, <3>1, <3>2
  <2>6. Awaits(r)'
    BY <2>1, <2>2, <2>4, <2>5 DEF Awaits, Blocked
  <2> QED  BY <1>0, <2>1, <2>6, AwaitKept DEF AwaitInv
<1>4. ASSUME NEW r \in Request, BlockEnds(r) PROVE AwaitInv'
  <2>1. /\ api[r] = "reading" /\ cursor[r] = served[r]
        /\ api'[r] \in {"timeout", "sent"}
        /\ \A q \in Request : q # r => api'[q] = api[q]
        /\ UNCHANGED <<readVars, heardIn, replies>>
    BY <1>0, <1>4 DEF BlockEnds
  <2>2. "blocked" \notin heardIn[r]
    <3>1. ~ Ahead(r)
      BY <1>0, <1>00, <2>1 DEF Ahead
    <3> QED  BY <2>1, <3>1 DEF AwaitInv, Awaits
  <2>3. Awaits(r)'
    BY <2>1, <2>2 DEF AwaitInv, Awaits, Blocked
  <2> QED  BY <1>0, <2>1, <2>3, AwaitKept DEF AwaitInv
<1>5. ASSUME NEW r \in Request, ReadReply(r) PROVE AwaitInv'
  <2>1. UNCHANGED <<since, served, heardIn, replies>>
    BY <1>5 DEF ReadReply
  <2>2. \A q \in Request : q # r => cursor'[q] = cursor[q] /\ api'[q] = api[q]
    BY <1>5, ReadTells DEF IInv
  <2>3. CASE api'[r] \in {"ok", "error"}
    <3>1. Awaits(r)'
      BY <2>3 DEF Awaits, Blocked
    <3> QED  BY <2>1, <2>2, <3>1, AwaitKept DEF AwaitInv
  <2>4. CASE api'[r] \notin {"ok", "error"}
    <3>1. /\ \A j \in cursor[r] + 1 .. served[r] : replies[Target[r]][j].req # r
          /\ cursor'[r] = served[r] /\ api'[r] \in {"timeout", "sent"} /\ api[r] = "reading"
      BY <1>0, <1>5, <2>4, ReadCases DEF IInv
    <3>2. ~ Ahead(r)
      BY <1>0, <1>00, <3>1 DEF Ahead
    <3>3. "blocked" \notin heardIn[r]
      BY <3>1, <3>2 DEF AwaitInv, Awaits
    <3>4. \A i \in since[r] + 1 .. cursor'[r] : replies[Target[r]][i].req # r
      <4> SUFFICES ASSUME NEW i \in since[r] + 1 .. cursor'[r]
                   PROVE  replies[Target[r]][i].req # r
        OBVIOUS
      <4>1. i \in since[r] + 1 .. cursor[r] \/ i \in cursor[r] + 1 .. served[r]
        BY <1>0, <3>1
      <4> QED  BY <3>1, <4>1 DEF AwaitInv, Awaits
    <3>5. Awaits(r)'
      BY <2>1, <3>1, <3>3, <3>4 DEF Awaits, Blocked
    <3> QED  BY <2>1, <2>2, <3>5, AwaitKept DEF AwaitInv
  <2> QED  BY <2>3, <2>4
<1>6. ASSUME NEW ok \in BOOLEAN, Replied(ok), pc \in Busy, UNCHANGED <<api, since, cursor>>
      PROVE  AwaitInv'
  <2> PICK q \in Request : q = cur
    BY <1>6 DEF IInv, TInv
  <2>1. heardIn' = [heardIn EXCEPT ![q] =
                      @ \union {IF Blocked(q) THEN "blocked" ELSE api[q]}]
    BY <1>6 DEF Replied
  <2>2. /\ \A c \in Charger : \A i \in DOMAIN replies[c] :
              i \in DOMAIN replies'[c] /\ replies'[c][i] = replies[c][i]
        /\ Len(replies[Target[q]]) + 1 \in DOMAIN replies'[Target[q]]
        /\ replies'[Target[q]][Len(replies[Target[q]]) + 1].req = q
    BY <1>6, RepliesGrow DEF IInv
  <2>3. \A r \in Request : /\ Blocked(r) /\ Target[r] = Target[q] => served'[r] = served[r] + 1
                           /\ served'[r] = served[r] \/ served'[r] = served[r] + 1
    BY <1>6 DEF Replied
  <2>4. \A r \in Request : Target[r] # Target[q] => replies'[Target[r]] = replies[Target[r]]
    BY <1>0, <1>6 DEF Replied
  <2>5. ASSUME NEW r \in Request, Blocked(r)' PROVE cursor'[r] = Len(replies'[Target[r]])
    <3>1. served'[r] = cursor[r] /\ api[r] = "reading"
      BY <1>6, <2>5 DEF Blocked
    <3>2. Blocked(r) /\ Target[r] # Target[q]
      BY <1>0, <2>3, <3>1 DEF Blocked
    <3> QED  BY <1>6, <2>4, <3>2 DEF AwaitInv, Awaits
  <2>6. ASSUME NEW r \in Request, Ahead(r) PROVE Ahead(r)'
    <3>0. served[r] \in Nat
      BY <1>0
    <3>1. served[r] <= served'[r] /\ served'[r] \in Nat
      BY <2>3, <3>0
    <3>2. PICK i \in DOMAIN replies[Target[r]] :
             cursor[r] < i /\ i <= served[r] /\ replies[Target[r]][i].req = r
      BY <2>6 DEF Ahead
    <3>3. i \in Nat
      BY <1>00
    <3>4. /\ i \in DOMAIN replies'[Target[r]] /\ replies'[Target[r]][i].req = r
          /\ cursor'[r] < i /\ i <= served'[r]
      BY <1>00, <1>6, <2>2, <3>0, <3>1, <3>2, <3>3
    <3> QED  BY <3>4 DEF Ahead
  <2>7. ASSUME Blocked(q) PROVE Ahead(q)'
    <3>1. cursor[q] = Len(replies[Target[q]]) /\ served[q] = cursor[q]
      BY <2>7 DEF AwaitInv, Awaits, Blocked
    <3>2. served'[q] = Len(replies[Target[q]]) + 1
      BY <2>3, <2>7, <3>1
    <3> PICK i \in DOMAIN replies'[Target[q]] : i = Len(replies[Target[q]]) + 1
      BY <2>2
    <3>3. cursor'[q] < i /\ i <= served'[q] /\ replies'[Target[q]][i].req = q
      BY <1>00, <1>6, <2>2, <3>1, <3>2
    <3> QED  BY <3>3 DEF Ahead
  <2>8. \A r \in Request : "blocked" \in heardIn'[r] =>
          "blocked" \in heardIn[r] \/ (r = q /\ Blocked(q))
    BY <1>0, <2>1 DEF Api
  <2>9. ASSUME NEW r \in Request, "blocked" \in heardIn'[r]
        PROVE  api'[r] \in {"ok", "error"} \/ (api'[r] = "reading" /\ Ahead(r)')
    <3>1. CASE "blocked" \in heardIn[r]
      BY <1>6, <2>6, <3>1 DEF AwaitInv, Awaits
    <3>2. CASE r = q /\ Blocked(q)
      BY <1>6, <2>7, <3>2 DEF Blocked
    <3> QED  BY <2>8, <2>9, <3>1, <3>2
  <2>10. ASSUME NEW r \in Request, api'[r] \notin {"ok", "error"},
                NEW i \in since'[r] + 1 .. cursor'[r]
         PROVE  replies'[Target[r]][i].req # r
    <3>1. i \in since[r] + 1 .. cursor[r] /\ api[r] \notin {"ok", "error"}
      BY <1>6, <2>10
    <3>2. i \in DOMAIN replies[Target[r]]
      BY <1>0, <1>00, <3>1
    <3> QED  BY <1>00, <2>2, <3>1, <3>2 DEF AwaitInv, Awaits
  <2> QED  BY <2>5, <2>9, <2>10 DEF AwaitInv, Awaits
<1>7. CASE ReplyOk \/ ReplyError \/ ReplyFails
  <2>1. pc \in Busy /\ UNCHANGED <<api, since, cursor>>
    BY <1>7 DEF ReplyOk, ReplyError, ReplyFails, Busy
  <2>2. Replied(TRUE) \/ Replied(FALSE) \/ UNCHANGED <<replies, served, heardIn>>
    BY <1>7 DEF ReplyOk, ReplyError, ReplyFails
  <2> QED  BY <1>1, <1>6, <2>1, <2>2
<1>8. CASE ScanStreams \/ ReadGroup \/ CallSend \/ CallAnswered \/ CallRaises \/ Ack
           \/ AckFails \/ Crash \/ UNCHANGED vars
  BY <1>1, <1>8 DEF ScanStreams, ReadGroup, CallSend, CallAnswered, CallRaises, Ack,
                    AckFails, Crash, vars
<1>9. ASSUME NEW r \in Request, Dispatch(r) \/ ChargerExecutes(r) PROVE AwaitInv'
  BY <1>1, <1>9 DEF Dispatch, ChargerExecutes
<1>10. ASSUME NEW c \in Charger, ChargerComesOrGoes(c) PROVE AwaitInv'
  BY <1>1, <1>10 DEF ChargerComesOrGoes
<1> QED  BY <1>2, <1>3, <1>4, <1>5, <1>7, <1>8, <1>9, <1>10 DEF Next, ApiCall, Consumer

\* A reply appended while its caller is blocked in XREAD is returned to it, and
\* so is any that XREAD returns among those of others, for every batch size.
THEOREM AwaitedIsReturned == Spec => []AwaitedReplyIsReturned
<1>1. Init => AwaitInv
  <2> SUFFICES ASSUME Init, NEW r \in Request PROVE Awaits(r)
    BY DEF AwaitInv
  <2>1. api[r] = "new" /\ since[r] = 0 /\ cursor[r] = 0 /\ heardIn[r] = {}
    BY DEF Init
  <2> QED  BY <2>1 DEF Awaits, Blocked
<1>2. AwaitInv => AwaitedReplyIsReturned
  BY DEF AwaitInv, Awaits, AwaitedReplyIsReturned
<1> QED  BY <1>1, <1>2, Invariance, AwaitStep, PTL DEF Spec

-----------------------------------------------------------------------------
(* The group's pending entries *)

\* Between batches the consumer holds nothing; while nothing fails the pending
\* entries are what it holds.
PelInv ==
    /\ pc \in {"scan", "read"} => batch = {} /\ cur = NoRequest
    /\ faults = 0 => pc # "abort" /\ NothingLeftPending

\* Every step keeps the pending entries and the consumer's hand together.
LEMMA PelStep == IInv /\ PelInv /\ [Next]_vars => PelInv'
<1> SUFFICES ASSUME IInv, PelInv, [Next]_vars PROVE PelInv'
  OBVIOUS
<1>0. /\ pc \in Busy => cur \in Request /\ cur # NoRequest
      /\ pc \in Pc /\ faults \in Nat /\ cur \notin batch
  BY DEF IInv, TInv, TypeOK, HandInv
<1> USE DEF PelInv, NothingLeftPending, InHand, apiVars, redisVars, consumerVars, Busy, Pc
<1>1. ASSUME UNCHANGED <<pel, pc, batch, cur, faults>> PROVE PelInv'
  BY <1>1
<1>2. ASSUME NEW r \in Request, Send(r) \/ ApiCall(r) \/ ChargerExecutes(r) PROVE PelInv'
  BY <1>1, <1>2 DEF Send, ApiCall, StartRead, ReadReply, BlockEnds, ChargerExecutes
<1>3. CASE ScanStreams
  BY <1>3 DEF ScanStreams
<1>4. CASE ReadGroup
  BY <1>4 DEF ReadGroup
<1>5. ASSUME NEW r \in Request, Dispatch(r) PROVE PelInv'
  <2>1. /\ r \in batch /\ cur' = r /\ batch' = batch \ {r} /\ pc = "next"
        /\ pc' \in {"call", "replyError"} /\ UNCHANGED <<pel, faults>>
    BY <1>5 DEF Dispatch, IsNext
  <2>2. r # NoRequest
    OBVIOUS
  <2> QED  BY <2>1, <2>2
<1>6. CASE CallSend \/ CallAnswered \/ CallRaises \/ ReplyOk \/ ReplyError
  <2>1. UNCHANGED <<pel, batch, cur, faults>> /\ pc \in Busy /\ pc' \in Busy \ {"abort"}
    BY <1>6 DEF CallSend, CallAnswered, CallRaises, ReplyOk, ReplyError
  <2> QED  BY <2>1
<1>7. CASE Ack
  BY <1>0, <1>7 DEF Ack
<1>8. CASE ReplyFails
  <2>1. faults' # 0 /\ pc' \in {"replyError", "abort"}
    BY <1>8, ReplySteps, FaultCounts DEF ReplyFails, IInv
  <2> QED  BY <2>1
<1>9. CASE AckFails \/ Crash
  <2>1. faults' # 0 /\ batch' = {} /\ cur' = NoRequest
    BY <1>0, <1>9 DEF AckFails, Crash, Fault
  <2> QED  BY <2>1
<1>10. ASSUME NEW c \in Charger, ChargerComesOrGoes(c) PROVE PelInv'
  BY <1>1, <1>10 DEF ChargerComesOrGoes
<1>11. CASE UNCHANGED vars
  BY <1>1, <1>11 DEF vars
<1> QED  BY <1>2, <1>3, <1>4, <1>5, <1>6, <1>7, <1>8, <1>9, <1>10, <1>11 DEF Next, Consumer

\* While nothing fails, every command that was handed out is acknowledged or
\* in the consumer's hand: no early return and no error leaves one pending.
THEOREM NothingPending == Spec => []NothingLeftPending
<1>1. Init => PelInv
  BY DEF Init, PelInv, NothingLeftPending, InHand
<1>2. PelInv => NothingLeftPending
  BY DEF PelInv, NothingLeftPending
<1> QED  BY <1>1, <1>2, Invariance, PelStep, PTL DEF Spec
=============================================================================
