------------------------------- MODULE LiveFeed -------------------------------
(***************************************************************************)
(* The dashboard's live feed (app/ws.py) in one process of the API: the    *)
(* sockets of each organisation, and the task that tails every             *)
(* stream:incidents:{cp_id} and broadcasts what it reads.  A process has   *)
(* its own sockets and its own task; processes share only the streams.     *)
(*                                                                         *)
(* A step is the code from one await to the next, except that between two  *)
(* messages of one reply the task is let pause where the code does not.    *)
(* An incident is its place in the stream of its charger; a socket that    *)
(* has been closed is not used again, so a client that comes back has a    *)
(* new one.  Sockets with a token that decode_token refuses are closed     *)
(* before they get here.                                                   *)
(***************************************************************************)
EXTENDS Naturals, Sequences, FiniteSets

CONSTANTS
    Feed,       \* the incident streams, one for each charger
    Socket,
    Org,
    FeedOrg,    \* the org_id that the entries of a stream carry
    SocketOrg,  \* the org_id in the token of each socket
    NoSocket,
    FeedCount,  \* count=32 of XREAD
    MaxEntries, \* bound: incidents in each stream
    MaxOutages  \* bound: failed calls of Redis and restarts of the process

ASSUME FeedConstants ==
    /\ FeedOrg \in [Feed -> Org] /\ SocketOrg \in [Socket -> Org]
    /\ IsFiniteSet(Socket) /\ NoSocket \notin Socket
    /\ FeedCount \in Nat \ {0} /\ MaxEntries \in [Feed -> Nat] /\ MaxOutages \in Nat

VARIABLES
    entries,    \* the length of each stream
    known,      \* the keys of last_ids: the streams that a scan has found
    fresh,      \* those whose last_id is still "$"
    lastId,     \* the last_id; for "$", what Redis has taken it to be
    upto,       \* the last entry that the reply of XREAD holds
    tail,       \* the tailing task
    item,        \* the message in hand: its stream and its place there
    target,     \* the socket whose send_json is awaited
    size,       \* the size of the set when its iteration began
    todo, dead, \* what the iteration has still to yield; sockets that raised
    clients,    \* _clients: the sockets in the set of their organisation
    link,       \* the connection of each socket and its handler
    heard,      \* what each open socket was sent, stream by stream
    handled,    \* the entries of each stream broadcast so far (history)
    base,       \* for each socket, `handled` when it was added (history)
    churned,    \* entries during whose broadcast the set changed (history)
    outages

streamVars == <<entries, known, fresh, lastId, upto>>
castVars == <<item, target, size, todo, dead>>
socketVars == <<clients, link>>
feedHistory == <<heard, handled, base, churned>>
feedVars == <<streamVars, tail, castVars, socketVars, feedHistory, outages>>

Entry == Feed \X Nat
NoEntry == <<>>
Members(org) == {s \in clients : SocketOrg[s] = org}

FeedTypeOK ==
    /\ entries \in [Feed -> Nat] /\ \A f \in Feed : entries[f] <= MaxEntries[f]
    /\ fresh \subseteq known /\ known \subseteq Feed
    /\ lastId \in [Feed -> Nat] /\ upto \in [Feed -> Nat]
    /\ \A f \in Feed : lastId[f] <= upto[f] /\ upto[f] <= entries[f]
    /\ tail \in {"none", "scan", "read", "blocked", "next", "send"}
    /\ item \in Entry \union {NoEntry}
    /\ target \in Socket \union {NoSocket}
    /\ size \in Nat /\ todo \subseteq Socket /\ dead \subseteq Socket
    /\ tail = "send" => item \in Entry /\ target \in Socket
    /\ clients \subseteq Socket
    /\ link \in [Socket -> {"new", "open", "lost", "closed"}]
    /\ heard \in [Socket -> [Feed -> Seq(Nat)]]
    /\ handled \in [Feed -> SUBSET Nat]
    /\ base \in [Socket -> [Feed -> SUBSET Nat]]
    /\ churned \subseteq Entry
    /\ outages \in 0 .. MaxOutages

FeedInit ==
    /\ entries = [f \in Feed |-> 0]
    /\ known = {} /\ fresh = {}
    /\ lastId = [f \in Feed |-> 0] /\ upto = [f \in Feed |-> 0]
    /\ tail = "none"
    /\ item = NoEntry /\ target = NoSocket /\ size = 0 /\ todo = {} /\ dead = {}
    /\ clients = {} /\ link = [s \in Socket |-> "new"]
    /\ heard = [s \in Socket |-> [f \in Feed |-> <<>>]]
    /\ handled = [f \in Feed |-> {}]
    /\ base = [s \in Socket |-> [f \in Feed |-> {}]]
    /\ churned = {}
    /\ outages = 0

-----------------------------------------------------------------------------
(* ws_live *)

\* A socket is added to or discarded from the set of `org`.  When _broadcast
\* is iterating over that very set, what is still to come is then any part of
\* it (an insertion may lay the hash table out anew).
SetChanges(org) ==
    IF tail = "send" /\ FeedOrg[item[1]] = org
      THEN /\ churned' = churned \union {item}
           /\ todo' \in SUBSET {s \in clients' : SocketOrg[s] = org}
      ELSE UNCHANGED <<churned, todo>>

\* accept, ensure_tail_task, _clients[org_id].add
Join(s) ==
    /\ link[s] = "new"
    /\ link' = [link EXCEPT ![s] = "open"]
    /\ clients' = clients \union {s}
    /\ SetChanges(SocketOrg[s])
    /\ tail' = IF tail = "none" THEN "scan" ELSE tail
    /\ base' = [base EXCEPT ![s] = handled]
    /\ UNCHANGED <<streamVars, item, target, size, dead, heard, handled, outages>>

\* The browser goes away, or does not answer the server's pings.
Disconnect(s) ==
    /\ link[s] = "open"
    /\ link' = [link EXCEPT ![s] = "lost"]
    /\ UNCHANGED <<streamVars, tail, castVars, clients, feedHistory, outages>>

\* WebSocketDisconnect; finally: _clients[org_id].discard
Leave(s) ==
    /\ link[s] = "lost"
    /\ link' = [link EXCEPT ![s] = "closed"]
    /\ clients' = clients \ {s}
    /\ IF s \in clients THEN SetChanges(SocketOrg[s]) ELSE UNCHANGED <<churned, todo>>
    /\ UNCHANGED <<streamVars, tail, item, target, size, dead, heard, handled, base, outages>>

-----------------------------------------------------------------------------
(* _tail_incident_streams *)

\* XADD by the inference worker; a task that is blocked in XREAD on the stream
\* is given the entry at once.
Publish(f) ==
    /\ entries[f] < MaxEntries[f]
    /\ entries' = [entries EXCEPT ![f] = @ + 1]
    /\ IF tail = "blocked" /\ f \in known
         THEN tail' = "next" /\ upto' = [upto EXCEPT ![f] = entries[f] + 1]
         ELSE UNCHANGED <<tail, upto>>
    /\ UNCHANGED <<known, fresh, lastId, castVars, socketVars, feedHistory, outages>>

\* scan_iter(match="stream:incidents:*") with last_ids.setdefault(k, "$");
\* asyncio.sleep(2) if there is none.
FindStreams ==
    LET found == {f \in Feed : entries[f] > 0} IN
    /\ tail = "scan"
    /\ known' = known \union found
    /\ fresh' = fresh \union (found \ known)
    /\ tail' = IF found = {} THEN "scan" ELSE "read"
    /\ UNCHANGED <<entries, lastId, upto, castVars, socketVars, feedHistory, outages>>

\* Mutant: the count, whatever there is.
MutFeedMin(a, b) == a
FeedMin(a, b) == IF a < b THEN a ELSE b
\* Mutant: every call of XREAD starts from "$".
MutResolved(f) == IF f \in known THEN entries[f] ELSE lastId[f]
\* The id that XREAD reads stream f after: "$" becomes its last one.
Resolved(f) == IF f \in fresh THEN entries[f] ELSE lastId[f]

\* XREAD count=32 block=5000 reaches Redis: it returns what there is on the
\* streams it names, or blocks.
Read ==
    /\ tail = "read"
    /\ lastId' = [f \in Feed |-> Resolved(f)]
    /\ upto' = [f \in Feed |-> IF f \in known
                                 THEN FeedMin(Resolved(f) + FeedCount, entries[f])
                                 ELSE upto[f]]
    /\ tail' = IF upto' = lastId' THEN "blocked" ELSE "next"
    /\ UNCHANGED <<entries, known, fresh, castVars, socketVars, feedHistory, outages>>

FeedBlockEnds ==
    /\ tail = "blocked"
    /\ tail' = "scan"
    /\ UNCHANGED <<streamVars, castVars, socketVars, feedHistory, outages>>

\* for stream_name, messages ...: for msg_id, fields ...
NextMessage(f) ==
    /\ lastId[f] < upto[f]
    /\ item # NoEntry /\ lastId[item[1]] < upto[item[1]] => f = item[1]

\* Mutant: the sockets of all organisations.
MutAudience(f) == clients
Audience(f) == Members(FeedOrg[f])

\* last_ids[stream_name] = msg_id, then _broadcast as far as the first send.
Handle(f) ==
    /\ tail = "next" /\ NextMessage(f)
    /\ lastId' = [lastId EXCEPT ![f] = @ + 1]
    /\ fresh' = fresh \ {f}
    /\ item' = <<f, lastId[f] + 1>>
    /\ handled' = [handled EXCEPT ![f] = @ \union {lastId[f] + 1}]
    /\ size' = Cardinality(Audience(f))
    /\ dead' = {}
    /\ IF Audience(f) = {}
         THEN tail' = "next" /\ target' = NoSocket /\ todo' = {}
         ELSE /\ tail' = "send"
              /\ target' \in Audience(f)
              /\ todo' = Audience(f) \ {target'}
    /\ UNCHANGED <<entries, known, upto, socketVars, heard, base, churned, outages>>

\* The iteration goes on after a send: Python refuses if the size of the set
\* has changed (the RuntimeError ends this broadcast); it yields the next
\* socket; or it is over, and the sockets that raised are discarded.
Advance ==
    \/ /\ Cardinality(Audience(item[1])) # size
       /\ tail' = "next" /\ target' = NoSocket /\ todo' = {}
       /\ UNCHANGED clients
    \/ /\ Cardinality(Audience(item[1])) = size
       /\ target' \in todo /\ todo' = todo \ {target'}
       /\ UNCHANGED <<tail, clients>>
    \/ /\ Cardinality(Audience(item[1])) = size /\ todo = {}
       /\ tail' = "next" /\ target' = NoSocket /\ todo' = {}
       /\ clients' = clients \ dead'

\* Mutant: a send that raises is not caught and stops the task.
MutSendEnds ==
    /\ tail = "send" /\ link[target] = "open"
    /\ heard' = [heard EXCEPT ![target][item[1]] = Append(@, item[2])]
    /\ dead' = dead
    /\ Advance
    /\ UNCHANGED <<streamVars, item, size, link, handled, base, churned, outages>>

\* await ws.send_json(message) returns, or raises on a connection that is gone
\* (it need not notice).
SendEnds ==
    /\ tail = "send"
    /\ IF link[target] = "open"
         THEN /\ heard' = [heard EXCEPT ![target][item[1]] = Append(@, item[2])]
              /\ dead' = dead
         ELSE /\ heard' = heard
              /\ dead' \in {dead, dead \union {target}}
    /\ Advance
    /\ UNCHANGED <<streamVars, item, size, link, handled, base, churned, outages>>

BatchEnds ==
    /\ tail = "next" /\ lastId = upto
    /\ tail' = "scan"
    /\ item' = NoEntry
    /\ UNCHANGED <<streamVars, target, size, todo, dead, socketVars, feedHistory, outages>>

-----------------------------------------------------------------------------
(* Outages *)
Outage == outages < MaxOutages /\ outages' = outages + 1

\* SCAN or XREAD raises ("incident tail loop error"), two seconds, again.  The
\* scan may have found some streams before.
RedisFails ==
    /\ Outage
    /\ tail \in {"scan", "read", "blocked"}
    /\ \E found \in SUBSET {f \in Feed : entries[f] > 0} :
         /\ tail # "scan" => found = {}
         /\ known' = known \union found
         /\ fresh' = fresh \union (found \ known)
    /\ tail' = "scan"
    /\ UNCHANGED <<entries, lastId, upto, castVars, socketVars, feedHistory>>

\* The process dies with its sockets, and another takes its place.
Restart ==
    /\ Outage
    /\ known' = {} /\ fresh' = {}
    /\ lastId' = [f \in Feed |-> 0] /\ upto' = [f \in Feed |-> 0]
    /\ tail' = "none"
    /\ item' = NoEntry /\ target' = NoSocket /\ size' = 0 /\ todo' = {} /\ dead' = {}
    /\ clients' = {}
    /\ link' = [s \in Socket |-> IF link[s] = "new" THEN "new" ELSE "closed"]
    /\ heard' = [s \in Socket |-> [f \in Feed |-> <<>>]]
    /\ handled' = [f \in Feed |-> {}]
    /\ base' = [s \in Socket |-> [f \in Feed |-> {}]]
    /\ churned' = {}
    /\ UNCHANGED entries

-----------------------------------------------------------------------------
TailTask == FindStreams \/ Read \/ FeedBlockEnds \/ (\E f \in Feed : Handle(f)) \/ SendEnds \/ BatchEnds

FeedNext ==
    \/ \E s \in Socket : Join(s) \/ Disconnect(s) \/ Leave(s)
    \/ \E f \in Feed : Publish(f)
    \/ TailTask
    \/ RedisFails \/ Restart

FeedSpec == FeedInit /\ [][FeedNext]_feedVars

\* The task is one coroutine of a running event loop: a block has a timeout,
\* and a send ends at the latest when the server's pings go unanswered.
FeedFairness == WF_feedVars(TailTask)

-----------------------------------------------------------------------------
(* Properties *)

\* The places at which s has been sent entry i of f.
HeardAt(s, f, i) == {k \in DOMAIN heard[s][f] : heard[s][f][k] = i}
\* The broadcast of the message in hand has not come to s yet.
Awaits(s, f, i) == tail = "send" /\ item = <<f, i>> /\ s \in todo \union {target}

\* An open socket has been sent every incident of its organisation that was
\* read since it was added exactly once and in order, and nothing else.  Only
\* a broadcast during which some socket of the organisation came or went may
\* have left it out or come to it twice, and only for that one incident.
HearsEachOnce ==
    \A s \in Socket, f \in Feed : link[s] = "open" =>
        /\ heard[s][f] # <<>> => FeedOrg[f] = SocketOrg[s]
        /\ \A k \in DOMAIN heard[s][f] :
             /\ heard[s][f][k] \in handled[f]
             /\ \A j \in 1 .. k : heard[s][f][j] <= heard[s][f][k]
        /\ FeedOrg[f] = SocketOrg[s] =>
             \A i \in handled[f] \ base[s][f] :
                 <<f, i>> \notin churned /\ ~Awaits(s, f, i) => Cardinality(HeardAt(s, f, i)) = 1

\* From the first entry of a stream that the task has read on, it reads them
\* all, however Redis fails; a stream of which it has read none is read from
\* "$" each time.
NoneSkipped ==
    \A f \in Feed :
        IF f \in known \ fresh
          THEN \E first \in 1 .. lastId[f] : handled[f] = first .. lastId[f]
          ELSE handled[f] = {}

\* An incident that is appended to a stream the task has begun to read is read
\* and its broadcast ends, whichever sockets come, go or do not answer, unless
\* the process dies first.  (The first entry is never one of them: by it the
\* scan finds the stream.)
FeedGoesOn ==
    \A f \in Feed : \A i \in 2 .. MaxEntries[f] :
        (f \in known \ fresh /\ i <= entries[f])
            ~> (f \notin known \/ (i <= lastId[f] /\ (tail = "send" => item # <<f, i>>)))
=============================================================================
