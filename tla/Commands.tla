------------------------------ MODULE Commands ------------------------------
(***************************************************************************)
(* Remote commands: the API (chargers/service.send_command) appends to     *)
(* stream:commands:{cp_id} and waits for the entry of its request in       *)
(* stream:command_replies:{cp_id}; in the gateway one CommandConsumer      *)
(* reads the commands of all chargers through a consumer group, calls the  *)
(* charger and appends the reply.                                          *)
(*                                                                         *)
(* Each request is issued once.  The API's calls run in any number of      *)
(* backend processes; the consumer is one asyncio task; a step is the code *)
(* from one await to the next.  MAXLEN trimming of the streams is left     *)
(* out: they never hold 1000 entries here.                                 *)
(***************************************************************************)
EXTENDS Naturals, Sequences

CONSTANTS
    Request,    \* request ids (uuid4)
    Charger,
    Target,     \* the charger each request is for
    Supported,  \* requests whose action is in the table of the protocol
    NoRequest,
    Count,      \* count=16 of XREADGROUP
    ReplyCount, \* count=10 of the XREAD of replies
    MaxFaults   \* bound: failed Redis calls and gateway crashes

ASSUME CommandConstants ==
    /\ Target \in [Request -> Charger]
    /\ Supported \subseteq Request
    /\ NoRequest \notin Request
    /\ Count \in Nat \ {0} /\ ReplyCount \in Nat \ {0} /\ MaxFaults \in Nat

VARIABLES
    api,        \* send_command of each request: where it is, or its result
    since,      \* what "$" stood for when Redis last saw it, an index into the
                \* replies
    cursor,     \* last_id, likewise; it is still "$" while cursor is since
    served,     \* up to where XREAD has returned; it blocks while served is cursor
    stream,     \* stream:commands:{cp_id}
    delivered,  \* last-delivered-id of the group gateway_dispatch
    pel,        \* the group's pending entries: delivered, not XACKed
    replies,    \* stream:command_replies:{cp_id}: request and ok
    live,       \* chargers with a handler in _connected whose socket works
    pc,         \* the consumer task
    streams,    \* the streams its SCAN has found
    batch,      \* the messages XREADGROUP returned, not dispatched yet
    cur,        \* the message being dispatched; the last one when idle
    done,       \* the charger's side of each call
    faults,
    heardIn     \* where the call was when a reply of it was appended (history)

readVars == <<since, cursor, served>>
apiVars == <<api, readVars, heardIn>>
redisVars == <<stream, delivered, pel>>
consumerVars == <<pc, streams, batch, cur>>
vars == <<apiVars, redisVars, replies, live, consumerVars, done, faults>>

Api == {"new", "sent", "reading", "ok", "error", "timeout"}
Where == Api \union {"blocked"}
Pc == {"scan", "read", "next", "call", "wait", "replyOk", "replyError", "ack", "abort"}
Done == {"no", "sent", "executed", "answered"}
Reply == [req : Request, ok : BOOLEAN]

TypeOK ==
    /\ api \in [Request -> Api]
    /\ since \in [Request -> Nat] /\ cursor \in [Request -> Nat] /\ served \in [Request -> Nat]
    /\ \A r \in Request : /\ since[r] <= cursor[r] /\ cursor[r] <= served[r]
                          /\ served[r] <= Len(replies[Target[r]])
    /\ stream \in [Charger -> Seq(Request)]
    /\ delivered \in [Charger -> Nat]
    /\ \A c \in Charger : delivered[c] <= Len(stream[c])
    /\ pel \subseteq Request
    /\ replies \in [Charger -> Seq(Reply)]
    /\ live \subseteq Charger
    /\ pc \in Pc
    /\ streams \subseteq Charger
    /\ batch \subseteq Request
    /\ cur \in Request \union {NoRequest}
    /\ done \in [Request -> Done]
    /\ faults \in 0 .. MaxFaults
    /\ heardIn \in [Request -> SUBSET Where]

Init ==
    /\ api = [r \in Request |-> "new"]
    /\ since = [r \in Request |-> 0] /\ cursor = since /\ served = since
    /\ stream = [c \in Charger |-> <<>>] /\ delivered = [c \in Charger |-> 0]
    /\ pel = {}
    /\ replies = [c \in Charger |-> <<>>]
    /\ live \in SUBSET Charger
    /\ pc = "scan" /\ streams = {} /\ batch = {} /\ cur = NoRequest
    /\ done = [r \in Request |-> "no"]
    /\ faults = 0
    /\ heardIn = [r \in Request |-> {}]

-----------------------------------------------------------------------------
(* send_command *)

\* XADD stream:commands:{cp_id}.
Send(r) ==
    /\ api[r] = "new"
    /\ api' = [api EXCEPT ![r] = "sent"]
    /\ stream' = [stream EXCEPT ![Target[r]] = Append(@, r)]
    /\ UNCHANGED <<readVars, heardIn, delivered, pel, replies, live, consumerVars, done, faults>>

\* Mutant: every XREAD starts from "$".
MutStartRead(r) ==
    /\ api[r] = "sent"
    /\ api' = [api EXCEPT ![r] = "reading"]
    /\ cursor' = [cursor EXCEPT ![r] = Len(replies[Target[r]])]
    /\ served' = [served EXCEPT ![r] = Len(replies[Target[r]])]
    /\ UNCHANGED <<since, heardIn, redisVars, replies, live, consumerVars, done, faults>>

\* XREAD reaches Redis, where "$" becomes the last entry there is.  It returns
\* at most count of the entries after last_id, or blocks if there is none.
StartRead(r) ==
    LET last == Len(replies[Target[r]])
        from == IF cursor[r] = since[r] THEN last ELSE cursor[r] IN
    /\ api[r] = "sent"
    /\ api' = [api EXCEPT ![r] = "reading"]
    /\ since' = IF cursor[r] = since[r] THEN [since EXCEPT ![r] = last] ELSE since
    /\ cursor' = [cursor EXCEPT ![r] = from]
    /\ served' = [served EXCEPT ![r] = IF from + ReplyCount < last THEN from + ReplyCount
                                       ELSE last]
    /\ UNCHANGED <<heardIn, redisVars, replies, live, consumerVars, done, faults>>

\* Mutant: an entry is taken for the reply without looking at its request.
MutTakeAny(r) ==
    LET entry == replies[Target[r]][cursor[r] + 1] IN
    /\ api[r] = "reading" /\ cursor[r] < served[r]
    /\ cursor' = [cursor EXCEPT ![r] = @ + 1]
    /\ api' = [api EXCEPT ![r] = IF entry.ok THEN "ok" ELSE "error"]
    /\ UNCHANGED <<since, served, heardIn, redisVars, replies, live, consumerVars, done, faults>>

\* XREAD has returned entries: the first one of this request ends the wait.  If
\* there is none, they only move last_id, and XREAD is called once more unless
\* the deadline has passed.
Mine(r) == {i \in cursor[r] + 1 .. served[r] : replies[Target[r]][i].req = r}
ReadReply(r) ==
    /\ api[r] = "reading" /\ cursor[r] < served[r]
    /\ \/ \E i \in Mine(r) :
            /\ \A j \in Mine(r) : i <= j
            /\ cursor' = [cursor EXCEPT ![r] = i]
            /\ api' = [api EXCEPT ![r] = IF replies[Target[r]][i].ok THEN "ok" ELSE "error"]
       \/ /\ Mine(r) = {}
          /\ cursor' = [cursor EXCEPT ![r] = served[r]]
          /\ \E next \in {"timeout", "sent"} : api' = [api EXCEPT ![r] = next]
    /\ UNCHANGED <<since, served, heardIn, redisVars, replies, live, consumerVars, done, faults>>

\* The block runs out with nothing to return: at the deadline, or (it is
\* rounded down to milliseconds) just before, and XREAD is called once more.
BlockEnds(r) ==
    /\ api[r] = "reading" /\ cursor[r] = served[r]
    /\ \E next \in {"timeout", "sent"} : api' = [api EXCEPT ![r] = next]
    /\ UNCHANGED <<readVars, heardIn, redisVars, replies, live, consumerVars, done, faults>>

-----------------------------------------------------------------------------
(* CommandConsumer *)

\* scan_iter(match="stream:commands:*"); asyncio.sleep(2) if there is none.
ScanStreams ==
    /\ pc = "scan"
    /\ streams' = {c \in Charger : stream[c] # <<>>}
    /\ pc' = IF streams' = {} THEN "scan" ELSE "read"
    /\ UNCHANGED <<apiVars, redisVars, replies, live, batch, cur, done, faults>>

\* XREADGROUP ">" count=16 on each stream found, into the pending list; it
\* returns with what there is, or with nothing when the block runs out.
LastRead(c) == IF c \notin streams THEN delivered[c]
               ELSE IF delivered[c] + Count < Len(stream[c])
                      THEN delivered[c] + Count ELSE Len(stream[c])
NewEntries(c) == {stream[c][i] : i \in delivered[c] + 1 .. LastRead(c)}
\* Mutant: what is still pending is read again, as with id "0".
MutReadPending ==
    /\ pc = "read"
    /\ batch' = pel \union UNION {NewEntries(c) : c \in streams}
    /\ delivered' = [c \in Charger |-> LastRead(c)]
    /\ pel' = pel \union batch'
    /\ pc' = IF batch' = {} THEN "scan" ELSE "next"
    /\ UNCHANGED <<apiVars, stream, replies, live, streams, cur, done, faults>>

\* Mutant: the group is moved by count, whatever there is.
MutReadCount ==
    /\ pc = "read"
    /\ batch' = UNION {NewEntries(c) : c \in streams}
    /\ delivered' = [c \in Charger |-> IF c \in streams THEN delivered[c] + Count
                                      ELSE delivered[c]]
    /\ pel' = pel \union batch'
    /\ pc' = IF batch' = {} THEN "scan" ELSE "next"
    /\ UNCHANGED <<apiVars, stream, replies, live, streams, cur, done, faults>>

ReadGroup ==
    /\ pc = "read"
    /\ batch' = UNION {NewEntries(c) : c \in streams}
    /\ delivered' = [c \in Charger |-> LastRead(c)]
    /\ pel' = pel \union batch'
    /\ pc' = IF batch' = {} THEN "scan" ELSE "next"
    /\ UNCHANGED <<apiVars, stream, replies, live, streams, cur, done, faults>>

\* for stream_name, messages ...: for msg_id, fields ...: one stream after the
\* other, each in its order.
Position(r) == CHOOSE i \in DOMAIN stream[Target[r]] : stream[Target[r]][i] = r
IsNext(r) ==
    /\ r \in batch
    /\ \A q \in batch : Target[q] = Target[r] => Position(r) <= Position(q)
    /\ \A q \in batch : cur # NoRequest /\ Target[q] = Target[cur]
                          => Target[r] = Target[cur]

\* _dispatch up to its first await.
Dispatch(r) ==
    /\ pc = "next" /\ IsNext(r)
    /\ cur' = r
    /\ batch' = batch \ {r}
    /\ pc' = IF Target[r] \in live /\ r \in Supported THEN "call" ELSE "replyError"
    /\ UNCHANGED <<apiVars, redisVars, replies, live, streams, done, faults>>

\* response = await cp.call(payload): the frame is sent ...
CallSend ==
    /\ pc = "call" /\ Target[cur] \in live
    /\ done' = [done EXCEPT ![cur] = "sent"]
    /\ pc' = "wait"
    /\ UNCHANGED <<apiVars, redisVars, replies, live, streams, batch, cur, faults>>

\* ... and answered, with a result or (suppressed: None) with a CallError;
CallAnswered ==
    /\ pc = "wait" /\ done[cur] = "executed"
    /\ done' = [done EXCEPT ![cur] = "answered"]
    /\ pc' = "replyOk"
    /\ UNCHANGED <<apiVars, redisVars, replies, live, streams, batch, cur, faults>>

\* Mutant: cp.call has no timeout.
MutNoCallTimeout ==
    /\ pc = "call"
    /\ pc' = "replyError"
    /\ UNCHANGED <<apiVars, redisVars, replies, live, streams, batch, cur, done, faults>>

\* or it raises: parameters missing, socket closed, no answer in time.
CallRaises ==
    /\ pc \in {"call", "wait"}
    /\ pc' = "replyError"
    /\ UNCHANGED <<apiVars, redisVars, replies, live, streams, batch, cur, done, faults>>

\* XADD stream:command_replies:{cp_id}, which every XREAD blocked on it returns.
Blocked(r) == api[r] = "reading" /\ served[r] = cursor[r]
Replied(ok) ==
    /\ replies' = [replies EXCEPT ![Target[cur]] = Append(@, [req |-> cur, ok |-> ok])]
    /\ served' = [r \in Request |-> IF Blocked(r) /\ Target[r] = Target[cur]
                                     THEN served[r] + 1 ELSE served[r]]
    /\ heardIn' = [heardIn EXCEPT ![cur] =
                      @ \union {IF Blocked(cur) THEN "blocked" ELSE api[cur]}]

\* await self._reply(...)
ReplyOk ==
    /\ pc = "replyOk"
    /\ Replied(TRUE)
    /\ pc' = "ack"
    /\ UNCHANGED <<api, since, cursor, redisVars, live, streams, batch, cur, done, faults>>

\* Mutant: the early returns of _dispatch skip the XACK.
MutReplyNoAck ==
    /\ pc = "replyError"
    /\ Replied(FALSE)
    /\ pc' = IF batch = {} THEN "scan" ELSE "next"
    /\ UNCHANGED <<api, since, cursor, redisVars, live, streams, batch, cur, done, faults>>

ReplyError ==
    /\ pc = "replyError"
    /\ Replied(FALSE)
    /\ pc' = "ack"
    /\ UNCHANGED <<api, since, cursor, redisVars, live, streams, batch, cur, done, faults>>

\* finally: XACK.  After an exception the rest of the batch is not dispatched.
Ack ==
    /\ pc \in {"ack", "abort"}
    /\ pel' = pel \ {cur}
    /\ batch' = IF pc = "abort" THEN {} ELSE batch
    /\ pc' = IF batch' = {} THEN "scan" ELSE "next"
    /\ cur' = IF batch' = {} THEN NoRequest ELSE cur
    /\ UNCHANGED <<apiVars, stream, delivered, replies, live, streams, done, faults>>

-----------------------------------------------------------------------------
(* Chargers *)

\* The charger carries out what it was sent, perhaps too late for cp.call.
ChargerExecutes(r) ==
    /\ done[r] = "sent"
    /\ done' = [done EXCEPT ![r] = "executed"]
    /\ UNCHANGED <<apiVars, redisVars, replies, live, consumerVars, faults>>

ChargerComesOrGoes(c) ==
    /\ live' = IF c \in live THEN live \ {c} ELSE live \union {c}
    /\ UNCHANGED <<apiVars, redisVars, replies, consumerVars, done, faults>>

-----------------------------------------------------------------------------
(* Faults *)
Fault == faults < MaxFaults /\ faults' = faults + 1

\* XADD of the reply raises, before or after Redis has appended it: after the
\* good answer this falls into the except branch, which replies an error; in
\* that branch it ends the batch.
ReplyFails ==
    /\ Fault
    /\ \/ pc = "replyOk" /\ pc' = "replyError" /\ Replied(TRUE)
       \/ pc = "replyError" /\ pc' = "abort" /\ Replied(FALSE)
       \/ pc = "replyOk" /\ pc' = "replyError" /\ UNCHANGED <<replies, served, heardIn>>
       \/ pc = "replyError" /\ pc' = "abort" /\ UNCHANGED <<replies, served, heardIn>>
    /\ UNCHANGED <<api, since, cursor, redisVars, live, streams, batch, cur, done>>

\* XACK raises: the message stays pending and so does the rest of the batch.
AckFails ==
    /\ Fault
    /\ pc \in {"ack", "abort"}
    /\ pc' = "scan" /\ batch' = {} /\ cur' = NoRequest
    /\ UNCHANGED <<apiVars, redisVars, replies, live, streams, done>>

\* The gateway is killed and restarted; it reads ">" only, so what it had
\* read before stays pending.
Crash ==
    /\ Fault
    /\ pc' = "scan" /\ streams' = {} /\ batch' = {} /\ cur' = NoRequest
    /\ live' = {}
    /\ UNCHANGED <<apiVars, redisVars, replies, done>>

-----------------------------------------------------------------------------
Consumer ==
    \/ ScanStreams \/ ReadGroup \/ \E r \in Request : Dispatch(r)
    \/ CallSend \/ CallAnswered \/ CallRaises \/ ReplyOk \/ ReplyError \/ Ack

ApiCall(r) == StartRead(r) \/ ReadReply(r) \/ BlockEnds(r)

Next ==
    \/ \E r \in Request : Send(r) \/ ApiCall(r) \/ ChargerExecutes(r)
    \/ Consumer
    \/ \E c \in Charger : ChargerComesOrGoes(c)
    \/ ReplyFails \/ AckFails \/ Crash

Spec == Init /\ [][Next]_vars

\* The consumer's loop and the API's handlers run on (cp.call and the API's
\* wait have timeouts); callers and chargers may do nothing.
Fairness == WF_vars(Consumer) /\ \A r \in Request : WF_vars(ApiCall(r))
FairSpec == Spec /\ Fairness

-----------------------------------------------------------------------------
(* Properties *)

HasReply(r) == \E i \in DOMAIN replies[Target[r]] : replies[Target[r]][i].req = r

\* Across crashes, failed Redis calls and charger reconnects a command is
\* carried out at most once, and "ok" means that the charger answered it.
Caller == INSTANCE RemoteCall WITH
    api <- [r \in Request |-> IF api[r] \in {"sent", "reading"} THEN "pending" ELSE api[r]],
    done <- [r \in Request |-> IF done[r] = "sent" THEN "no" ELSE done[r]]
AtMostOnce == Caller!RSpec

\* A caller is told "error" about a command that the charger answered only if
\* Redis failed in between.
ErrorIsHonest ==
    \A r \in Request : api[r] = "error" /\ done[r] = "answered" => faults > 0

\* A caller told "timeout" has missed no reply that was appended while it was
\* blocked in XREAD, and none after the point where its "$" was resolved and
\* before the last entry XREAD has returned to it: of the replies of others
\* that it skips, none was its own.
AwaitedReplyIsReturned ==
    \A r \in Request : api[r] = "timeout" =>
        /\ "blocked" \notin heardIn[r]
        /\ \A i \in since[r] + 1 .. cursor[r] : replies[Target[r]][i].req # r

\* Without a fault, what the group has handed out and not seen acknowledged is
\* exactly what the consumer still has in hand: nothing is left pending.
InHand == IF cur = NoRequest \/ pc = "next" THEN {} ELSE {cur}
NothingLeftPending == faults = 0 => pel = batch \union InHand

\* Without a fault every command gets a reply, also behind a charger that does
\* not answer.
EveryCommandIsReplied ==
    \A r \in Request : api[r] = "sent" ~> (HasReply(r) \/ faults > 0)

\* service.py:250 on last_id = "$": "only future replies".  A reply appended
\* after the command was sent and before the deadline is such a future reply.
TimeoutMeansNoReply ==
    \A r \in Request : api[r] = "timeout" => heardIn[r] \subseteq {"timeout"}
=============================================================================
