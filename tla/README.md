# ChargePulse: a TLA+ verification project

ChargePulse is a multi-tenant monitoring service for electric-vehicle chargers
(`src/backend`): an OCPP gateway that the chargers connect to, background
workers that turn their messages into features, incidents and alerts, an HTTP
API, PostgreSQL/TimescaleDB for everything that lasts and Redis streams between
the processes.  Every module here is translated from the Python source; where a
comment or a document says something else, the code is what is modelled and the
sentence may become a *violation* run.

## 1. Inventory

### Processes and what they share

| process | code | keeps in memory | writes |
|---|---|---|---|
| gateway (one asyncio loop) | `gateway/` | `_connected` (cp_id -> handler), one handler per websocket (`last_heartbeat`, 2.0.1: `_tx_map`), `HeartbeatWatchdog._stale_marked` | `chargers.status`, `charger_sessions`, `ocpp_events`, `stream:ocpp:*`, `stream:command_replies:*` |
| API (uvicorn, two processes in production) | `app/` | live feed: `_clients` (organisation -> sockets), one tail task | every business table, `stream:commands:*` |
| feature worker | `workers/feature_worker.py`, `ml/features.py` | nothing that matters | `feature_vectors`, `stream:features` |
| inference worker | `workers/inference_worker.py`, `ml/rules.py`, `ml/inference.py` | cached model | `incidents`, the scores in `feature_vectors`, `stream:incidents` |
| alert worker | `workers/alert_worker.py`, `app/alerts/dispatcher.py` | nothing | e-mail, Slack, webhooks |
| training scheduler | `workers/training_scheduler.py`, `ml/training/` | nothing | `ml_models`, model files |
| health-score worker | `workers/health_score_worker.py` | nothing | `chargers.health_score` |

The arrows are: charger <-> gateway (OCPP calls, one unanswered call per side at
a time); gateway -> database and `stream:ocpp` (nobody reads it); database -> feature worker ->
`stream:features` -> inference worker -> `stream:incidents` -> alert worker; API
-> `stream:commands:{cp_id}` -> gateway -> `stream:command_replies:{cp_id}` ->
API.  No process talks to another except through a table or a stream, each
write is a transaction of its own, and every process is restarted when it dies
(`docker-compose.prod.yml`, `restart: unless-stopped`).

### Components

| component | state | operations | hard behaviour | what makes it correct |
|---|---|---|---|---|
| Gateway connections, registry, watchdog | `_connected`, tasks, `last_heartbeat`, `_stale_marked`, `chargers.status` | accept / replace / end a connection, OCPP calls, scan | every task interleaves with every other at each await; late offline marks; crash | the registry holds live handlers; an online charger has a task that will mark it offline; each silence is announced, once; a steady charger ends up online |
| Charging sessions | `charger_sessions`, `_tx_map`, the charger's transaction | start, stop, repeat, reconnect | lost answers and repeats, a handler at work for a lost connection, per-connection memory, ids modulo 2^31 | a session is closed once, by its own stop, and by one of its charger and id when ids have wrapped; an answered stop has closed one |
| Remote commands | command and reply streams, consumer group, caller's cursor | send, dispatch, reply, acknowledge, time out | two timeouts race one answer; crash between delivery and XACK; callers share a reply stream | executed at most once; honest results; every command replied to |
| Event publication | `ocpp_events`, `stream:ocpp` | INSERT then XADD | a failure between the two | the table is what the workers read |
| Incident pipeline: feature, inference, alert workers | `feature_vectors`, `incidents`, two streams with groups, alert configs | window, evaluate rules, deduplicate, dispatch | crash between INSERT and XADD or before XACK; `>`-only reads; late events | one vector per window; each incident is alerted at most once per channel, and at least once when nothing fails; streams in step with tables; no two open incidents of one type from one message; every alert is explained by a stored vector |
| Model registry | `ml_models`, model files, worker's cache | train, promote, demote, load | two UPDATEs without a transaction, a manual run beside the nightly one, a stale cache | at most one active model, none only between two statements; the best one is served |
| Live feed | `_clients`, the tail task's `last_ids` and its place in a broadcast | join, leave, scan, read, broadcast, discard | a set changed while iterated across awaits, a send that raises or hangs, `$` between two reads, outages | every open socket is sent each incident of its organisation once and in order, unless its broadcast met a join or leave; nothing is skipped after the first entry read; one socket does not stop the others |
| Registration and quota | `chargers` and their organisation, `max_chargers` | create, bulk import, delete | count, compare and insert without a transaction, in several processes | calls that do not overlap keep the quota |
| Accounts and invitations | `users`, `organisations`, `superadmins` | register, invite, accept, change role, remove, create an organisation, grant, login | check-then-write over two tables, a token looked up in one statement and spent in another | an e-mail is not a superadmin's and an invited user's at once; an invitation opens once; no other request takes login from an owner |
| Vendor profiles, health scores | none | pure functions | boundaries | not modelled, sections 6 and 7 |
| Classifier, neural network, read-only API, HTTP layer, web clients, scripts | - | - | - | not modelled, see section 6 |

`PROJECT.json` lists them with their files and status, and under `hazards` every
place where something can go wrong that a test would hardly reach.

## 2. Modules

| module | models | lines |
|---|---|---|
| `Gateway` | connections, registry, watchdog, `chargers.status` | `server.py`, `heartbeat_watchdog.py`, the status writes of the handlers and of `message_router.py` |
| `SessionLedger` | abstract: a table of sessions that opens, closes once by charger and id, and freezes each | `message_router.py` INSERT/UPDATE |
| `Sessions` | transactions of OCPP 1.6 and 2.0.1 through the handlers; implements `SessionLedger` | `handler_v16.py`, `handler_v201.py`, `message_router.py` |
| `RemoteCall` | abstract: what a caller may rely on when it sends a command | - |
| `Commands` | `send_command`, the streams, the consumer, the charger; implements `RemoteCall` | `chargers/service.py`, `command_consumer.py` |
| `PipelineState` | the variables of the incident pipeline, the rule table | `ml/rules.py`, `init.sql` |
| `FeatureWorker`, `InferenceWorker`, `AlertWorker` | one worker each: its loop, its handler, its failures | `workers/*.py`, `alerts/dispatcher.py` |
| `Pipeline` | the three workers with events, clock and API; implements `Alerting` | as above, `incidents/service.py`, `alerts/service.py` |
| `Alerting` | abstract: what an alert channel may rely on | - |
| `ModelRegistry` | `ml_models` of one charger, training by hand and by the scheduler, the revert, the inference worker's cache | `train_anomaly.py`, `training_scheduler.py`, `ml/inference.py` |
| `LiveFeed` | the dashboard's websockets: sockets of one API process, the tail task, the broadcast, outages of Redis and of the process | `app/ws.py` |
| `Registration` | rows of `chargers` under a quota | `chargers/service.py` |
| `Accounts` | who may log in: rows of `users`, `organisations`, `superadmins` | `auth/service.py`, `users/service.py`, `admin/service.py`, `scripts/create_superadmin.py` |
| `*Proofs` | the theorems | - |
| `MC*` | instances for TLC: model values, functions between them, symmetry | - |

All of them read a step as *the code from one await to the next, with the effect
of the call it awaits*.  An asyncio task cannot be interrupted elsewhere, so no
interleaving is lost; that a call's effect is placed at one moment is right
because each is one SQL statement or one Redis command.  A fault is an exception
out of such a call or the death of the process; the number of faults of one
behaviour is bounded by `MaxFaults`.

### Gateway

State: `connected` is `server._connected`; `pc[k]` is where the task of
connection slot `k` is (`lookup` = awaiting `lookup_org`, `check`, `closing` =
awaiting the close of the handler it replaces, `register`, `serve` = awaiting
`recv()`, `update`/`publish` = awaiting the router in a handler, `mark`/`bye` =
the two awaits of the `finally` block); `age[k]` is the age of
`handler.last_heartbeat` in scan intervals; `stale` is `_stale_marked`; `wdPc`,
`wdTodo`, `wdCur` are the watchdog's place in `_scan`.  OCPP calls are told
apart by what their handler does to the status and to `last_heartbeat`
(`MsgKind`): Heartbeat, BootNotification, a StatusNotification that maps to
`online` or to `faulted`, and the rest.  Rows come and go by the API
(`CreateCharger`, `DeleteCharger`), so `UPDATE ... WHERE cp_id` may find none.
`silenced`, `orphaned` and `faults` are history: no guard of the code's steps
reads them except the bound on faults.  `router.publish` is one step: the
failure of its XADD after its INSERT belongs to the event tables, which nothing
here relates to the watchdog.  A charger may call as soon as its websocket is
open (`Send`); what comes before `start()` is buffered.  `close()` is two steps:
the handshake, after which the old handler's `recv()` raises, and the rest, in
which it waits for the TCP connection to end.  `MCSilence` adds to `Gateway` what
the watchdog does not keep: how long a charger has said nothing at all.

### Sessions

A transaction `x` is a member of `Txn`; its charger repeats each message until
it is answered, on the connection it has then.  `sessions` is `charger_sessions`
(who opened the row, who closed it: the stop writes its own time and energy, so
the closer decides them), `txMap[k]` the `_tx_map` of a 2.0.1 handler, `acked[x]`
the id that 1.6 returns to the charger.  `id % 2^31` is `% Modulus`.  The
handler of a lost connection finishes its message; its answer is lost.

`SessionLedger` has actions and helpers of its own and knows no handlers: a stop
of `x` may close a set of rows only if they are open, of the charger of `x`, and
all go by one id that some session of `x` goes by (or by 0, for a charger whose
`_tx_map` may be lost).  That `UpdateSession`, which looks only at the id in the
message, does no more than that is what `KeepsLedger` says, and it holds however
often the ids have wrapped.

### Commands

`stream`, `delivered` and `pel` are a command stream and its consumer group;
`replies` the reply streams; `api[r]` is `send_command` for request `r`: `sent`
(its next XREAD is on its way), `reading` (blocked in Redis, or with what XREAD
has returned) or its result.  `"$"` is resolved when XREAD arrives (`StartRead`),
which is why a reply appended between the XADD and that moment is missed;
`since` is what it stood for, `cursor` is `last_id` and `served` the last entry
XREAD has returned: at most `ReplyCount` of those there are, or the next one
appended.  After each XREAD, also one with others' replies only, the caller
looks at the deadline, which may have passed or not (`ReadReply`, `BlockEnds`).
The consumer reads a batch from all
streams at once and dispatches it in order.  `heardIn` is history.

### Incident pipeline

`PipelineState` declares the variables; each worker is a module of actions over
its own of them, and `Pipeline` adds the environment (an event reaches
`ocpp_events`, a window or a second passes, a user resolves an incident or
switches an alert config, a charger is deleted) and the specification.  A
feature vector is the *set of rules that fire on it* (`Firings` gives the sets
TLC tries, the theorems hold for all), so the arithmetic of `features.extract`
and of the predicates is left out, while failure types and severities are those
of `rules.RULES`.  `vectors`, `features` (the stream), `incidents`, `alarms` (the
incident stream) are sequences in order of insertion.

The model's verdict is a choice as well: `score_latest_window` scores the newest
windows of the charger, which need not end with the message's, so of the model's
incident `AlertsAreExplained` says only that no rule fires on the window that it
names and that the charger has a model.

A consumer group is two positions per stream: `read`, up to which entries have
been delivered, and `done`, up to which the worker has handled or given up.
Both workers read with `">"` only, so an entry that was delivered and lost by a
crash or a raising XACK is never seen again: dying sets `done` to `read`.  The
batch is all that is there; `count=64` and `count=32` are not reached.

`second` are the incidents detected in the current second of the clock and
`since` those with `detected_at > now.replace(microsecond=0)` for the `now` that
the message in hand took: that is all the duplicate check can see, and the
reason for the finding below.  One clock is assumed for worker and database.  An
`incidents` row stays in the model when its charger is deleted (a record of what
happened), and every query of it asks whether the charger is `registered`.

### Model registry

`models` holds the rows of `ml_models` of one charger by version, each with the
number of the run that trained it.  `train_anomaly.py` is one process per member
of `Trainer`; one of them, `Nightly`, is the subprocess of the scheduler, whose
own place in `nightly_retrain` is `npc` (`listed`: a candidate; `judge`:
`_maybe_demote_worse_model` reads the two highest versions; `off` and `on`: its
two UPDATEs).  Training is a choice of `val_mse`, as a rank; the table writes
after it are the actions `Deactivate` and `Insert`.  `newRun` and `oldRun` are
the ids read by the revert: the rows are looked for again by each UPDATE, and
may be gone.  `cache` is the inference worker's.  `overlapped` is history: a run
was started while another was under way.  A statement is atomic, with its
sub-SELECT; two overlapping INSERTs may take the same `MAX(version) + 1` in the
database, which is why `CacheIsRegistered`, the one property that speaks of versions
in arbitrary runs, excludes runs that overlap.

### Live feed

`tail` is the place of `_tail_incident_streams`: `scan`, `read` (XREAD on its
way), `blocked` (in Redis), `next` (between two messages of a reply), `send`
(awaiting `send_json`).  An incident is its position in the stream of its
charger.  `known` are the keys of `last_ids`, `fresh` those whose value is still
`"$"`; `lastId` and `upto` delimit what the reply in hand has left.  `"$"` is
resolved each time XREAD arrives, so a stream of which nothing has been read
starts anew with each call.  `_broadcast` iterates over the live set:
`todo` is what the iteration has yet to yield, `size` the size of the set when it
began.  If a socket of that organisation is added or discarded meanwhile, `todo`
becomes any part of the set, because the hash table may be laid out anew, and
Python's size check may end the broadcast with a `RuntimeError` or, when one came
and one left, may not notice.  `link` tells a socket that is open from one whose
peer is gone (a send may or may not raise) and from one whose handler has
finished.  `handled`, `base` and `churned` are history.

### Registration

`step[c]` is where call `c` is: `exists`, `count`, `insert` of `create_charger`;
`importCount`, `row`, `importInsert` of `bulk_import`, which counts once and then
counts its own rows (`used`).  `owner` is the `org_id` of each row.  `outrun` are
the calls whose count another call's row has made too low since, and `hasty` the
rows that such calls inserted: both are history, and `QuotaKept` charges an
excess to them alone.

### Accounts

A request (`job`) is about an e-mail (`about`) and for an organisation (`place`),
or holds the row that `accept_invite` has found (`whom`).  UNIQUE on e-mails is a
guard of the INSERT; a violation is `RequestFails`.  `account[u]` keeps `owner`
(the only role that `login` looks at), `active`, `invited` (an `invite_token` is
there), and as history `asked` (the row came by an invitation) and `joined` (how
often it was accepted).  `met` and `rushed` record requests that overlapped.
`InviteUserRequest.role` and `UserUpdateRoleRequest.role` exclude `owner`
(`users/schemas.py`), so a row is an owner's only by `register`.

## 3. Runs

`MCSockets`, `MCStreams` and `MCTables` put parts of the system that share no
variable into one run: the first state chooses a part, that part moves by its
own `Next`, and the others stand still.  The reachable states are the disjoint
union of those of the parts, each with all the others' initial states, so an
invariant or an action property of a part holds in the run exactly if it holds of
its own specification; and for liveness the parts that stand still have nothing
enabled that fairness could ask for (with no command sent, a scan of the
commands' consumer changes nothing, and with no socket no tail task runs).

| run | instance | shows |
|---|---|---|
| `gw_safety` | one charger, two connections, Boot/Heartbeat/StatusFaulted/other calls, timeout 1, one fault | `RegistryIsLive`, `UpHasATask`, `SilenceAnnouncedOnce` and its invariant `AnnouncedIsMarked` |
| | beside it (`MCSockets`) the live feed: three sockets of one organisation, three incidents of it and two of another, one entry per reply | `HearsEachOnce` |
| `gw_live` | one charger, two connections, heartbeats and other calls, timeout 2, one fault | `SilenceIsAnnounced`, `SteadyIsUp` under fairness |
| `gw_onecp` | two connections | **violation**: two connections of one cp_id are served at once (`server.py:32` says otherwise) |
| `gw_silent` | two connections, heartbeats and other calls, timeout 1, no fault | **violation**: a charger that talks, but sends no Heartbeat, is marked as silent (`heartbeat_watchdog.py:3`) |
| `ss_ended` | one 2.0.1 charger, two connections | **violation**: a transaction that changes connection ends and its session stays open (`handler_v201.py:145`) |
| `cmd_once` | two requests for one charger, batches of two, one reply per XREAD, one fault | `AtMostOnce` (refinement of `RemoteCall`), `ErrorIsHonest`, `AwaitedReplyIsReturned`, `NothingLeftPending`, `EveryCommandIsReplied` |
| | beside it (`MCStreams`) the live feed: one stream of four incidents, one entry per reply, two sockets, one failed call of Redis or restart | `NoneSkipped`, and `FeedGoesOn` under fairness |
| `cmd_lost` | one request, no fault | **violation**: the reply arrives between XADD and XREAD and is missed (`service.py:250`) |
| `pl_safety` | one charger, one channel, two windows, vectors on which nothing or rules 3 and 6 (same type, the second less severe) fire, one fault | `OneVectorPerWindow`, `OpenOncePerMessage`, `StreamsFollowTables`, `AlertsAreExplained`, `AlertedOnce` (refinement of `Alerting`) |
| `pl_live` | one charger, one channel, one window; no rule, two rules of one type, or three of which two share a type; no fault | `FiredRuleIsRaised`, `IncidentIsAlerted` under fairness |
| `pl_hour` | one charger, two windows, no fault | **violation**: an identical incident is opened beside the open one (`inference_worker.py:117`) |
| `mr_safety` | one charger, the scheduler and a manual trainer, two losses, three models, one fault, one deletion | `ModelIsServed`, `OneActive`, `CacheIsRegistered`, `BestIsServed` |
| | beside it (`MCTables`) registration: two organisations with a quota of one, three cp_ids, two calls, an import of two rows | `QuotaKept` |
| | and accounts: two users, organisations, e-mails and requests | `EmailsApart`, `InvitationOpensOnce`, `OwnerKeepsLogin` |
| | and charging sessions: a 2.0.1 charger with one transaction and a 1.6 charger with two, both on two connections, three rows with ids modulo 3, one fault | `ClosedByItsOwn`, `AnsweredStopClosedOne` (1.6), `AnsweredEndedClosed` (2.0.1), and `KeepsLedger` (refinement of `SessionLedger`), also when the third id wraps to 0 |
| `mr_revert` | the scheduler alone, three losses, three models, no fault | **violation**: after two reverts a worse model than the active one is activated (`training_scheduler.py:5`) |

### Bounds, and why they are enough

- **Gateway.** The races are between tasks of one `cp_id`, and chargers share
  only the watchdog's scan: one charger and two connection slots give every
  race of an old task with the task that replaces it, and a slot is used again
  as soon as its task has ended, so that chains of replacements arise.  A
  timeout of 1 makes silence and scan race; the theorems cover any number of
  chargers, slots, and any timeout.  In `gw_live` a timeout of 2 leaves room for
  the scan that a fault makes the watchdog miss, and the calls are Heartbeats and
  others: what the remaining kinds do to the status is in `gw_safety`.
  `SilenceIsAnnounced` needs `MaxFaults < Timeout`: if a scan fails at each tick
  of a timeout, no scan sees the heartbeat that should discard an old mark, and
  the next silence is taken for announced.
- **Sessions.** Rows bound the repetitions of a start.  Three rows
  suffice for a repeated start of one transaction beside another.  With
  `Modulus = 3` two rows stay below the modulus, which `ClosedByItsOwn` and the two
  about answered stops ask for, and the third has the id 0, which a 2.0.1 stop uses
  for "unknown".  Two rows with one id are left to the theorem `ImplementsLedger`,
  as are three and more below the modulus to those about the other three
  properties.  `mr_safety` takes e-mails, requests and the two transactions of the
  1.6 charger as symmetric: no definition tells them apart.
- **Commands.** Two requests for one charger share both streams, the batch and
  the reader's position; one fault hits each step.  `ReplyCount = 1` makes the
  other's reply a whole answer of XREAD, after which the caller goes on or gives
  up; with 2 the run passes as well.  Requests for two chargers
  share only the consumer, which works through a batch in any order of streams.
- **Pipeline.** Two windows and two firing rules give up to four incidents, so
  that a second vector arrives while the first is being handled.  The workers
  treat chargers and channels alike; the theorems are for any number of both.
  `Watched` lists the incidents that the liveness property follows.
- **Live feed.** One socket must be sent to while another leaves and a third
  joins, so that the set has its old size and Python does not notice: three are
  the least.  A second organisation's stream shows what a socket must not hear.
  To be behind by more than a reply holds, a stream needs four entries: one finds
  the stream, one is read, two wait.  Deadlock is not checked in these two runs:
  with every incident published, every socket used and no task ever started (or,
  for the gateway and the commands, as they stood before), nothing is left to do.
- **Registration and accounts.** Every property is about two requests that
  overlap, on one organisation or e-mail, or one row.  A quota of one with three
  cp_ids leaves room for an excess of two; an import of two rows counts its own.
  Two ids per table let a row be removed and its e-mail come back with another.
  The theorems are for any number of each.
- **Model registry.** Chargers share nothing: one is enough.  Three models are
  the least after which the second highest version is not the one that was
  active.  `BestIsServed` says how far the scheduler's promise does hold: with
  one revert at most.

The `MaxFaults` of each module bounds a behaviour's failed calls and crashes
together; the theorems hold for any value of it.

### Fairness, and what justifies it

Weak fairness is assumed of each task's next step: an asyncio loop runs every
ready task, the awaited database and Redis calls return, `cp.call` has a timeout
of 30 s, the caller's wait one of 5 s, and `restart: unless-stopped` starts a
process that died.  In `Gateway` it is per connection task, and for the
watchdog's timer and scan; in `Commands` for the consumer as a whole and each
caller; in `Pipeline` for each worker's loop; in `LiveFeed` for the tail task as
a whole: XREAD has `block=5000`, and a `send_json` to a peer that no longer reads
ends at the latest when uvicorn's keepalive pings go unanswered and it closes the
connection.  No fairness is assumed of sockets.  Nothing is assumed of chargers,
users, the clock of windows and seconds, or faults: they may do nothing, or act
for ever.  `SteadyIsUp` names what it needs of the charger (its handler stays,
and its heartbeats keep coming within the timeout) as its hypothesis.

## 4. Proofs

Every theorem is for all values of the constants under the `ASSUME`s of its
module (functions between the constant sets, model values outside them, positive
timeouts and counts), and no run overrides a definition the proofs use.

| theorem | says | inductive invariant |
|---|---|---|
| `GatewayProofs!TypeCorrect`, `RegistrySafe`, `UpSafe`, `AnnouncedSafe` | `TypeOK`, `RegistryIsLive`, `UpHasATask`, `AnnouncedIsMarked` | their conjunction with `ControlInv`: a closing task has a victim, the scan's snapshot holds one handler per charger and none of the charger being marked |
| `GatewayProofs!AnnouncesOnce` | `SilenceAnnouncedOnce`, an action property | from the same: a decision to mark needs a charger outside `stale`, and what has been announced is inside |
| `SessionsProofs!TypeCorrect`, `ImplementsLedger` | `SesTypeOK`; every step is a step of `SessionLedger` or leaves the table alone | `TInv`: types, the charger of each message is that of its connection, and it knows the id of what it has started; for the second `CarryInv`: an id that a handler, a map or a charger holds is, modulo the modulus, that of a row its transaction started (or 0, at a 2.0.1 handler), which rows being added and closed leaves so (`StartedStays`) |
| `SessionsProofs!ClosedByOwn` | `ClosedByItsOwn` | `OwnInv`: whoever holds an id (handler, map, charger) holds that of a row of the transaction |
| `SessionsProofs!AnsweredStop` | `AnsweredStopClosedOne` | `StopInv`: what the answer under way has closed, which survives repeats over other connections |
| `SessionsProofs!AnsweredEnded` | `AnsweredEndedClosed` | `OneHandler`: a transaction that never moved is with one handler, that of its charger's link; on it `OneRowInv`: from the INSERT on it has one row, whose id handler and `_tx_map` hold until the stop closes it |
| `CommandsProofs!TypeCorrect`, `CarriedOutAtMostOnce` | types; `Commands` implements `RemoteCall` | requests are in one stream once; what is not delivered is in no batch and uncalled; a good reply is about an answered call |
| `CommandsProofs!ErrorHonest` | `ErrorIsHonest` | `FreshInv`: no reply before the consumer has met the request, so it meets each once; `ErrorInv`: while nothing fails, an error reply is of a call that no answer will come to |
| `CommandsProofs!AwaitedIsReturned` | `AwaitedReplyIsReturned` | `AwaitInv`: nothing up to the cursor is the caller's own while it waits, and a reply that came while it was blocked is among what XREAD has returned and not been looked at (`Ahead`), so that the caller reads it before it comes to the deadline |
| `CommandsProofs!NothingPending` | `NothingLeftPending` | `PelInv`: between batches the hand is empty, and only a fault leads to `abort` |
| `PipelineProofs!TypeCorrect` | types | one part per worker (`FInv`, `IInv`, `AInv`): its position is inside the stream it reads.  Steps of the others keep it because streams only grow |
| `PipelineProofs!OneVector` | `OneVectorPerWindow` | while a vector is being computed its window has none |
| `PipelineProofs!AlertsOnce` | `Pipeline` implements `Alerting` | an incident is in one stream once; a channel has been told only of entries before `done`, and the config in hand not of the current one |
| `PipelineProofs!StreamsFollow` | `StreamsFollowTables` | `VectorsFollow` and `AlarmsFollow`: stream and table, with the row in hand as their only difference, and that row is of the charger in hand; order, from what `AlertsOnce` needs |
| `PipelineProofs!OpenOnce` | `OpenOncePerMessage` | `WinsInv`: the entries of a stream are rows of different windows; `OpenInv`: incidents are of vectors that were taken before the one to be scored (`FromTaken`), so that a message starts without any, all of them are in `since` (`Seen`), the model's, which is not checked, is alone (`Alone`), and the check still holds at the INSERT (`Unduplicated`) |
| `PipelineProofs!AlertsExplained` | `AlertsAreExplained` | `CauseInv`: the rules in hand are among those of the message in hand, and every incident has its vector; with `WinsInv` a message is a row of the table, and with `AlertsOnce`'s invariant what a channel is told is on record |
| `ModelRegistryProofs!TypeCorrect` | types | `RowsInv`: a run has at most one row, the scheduler waits for its subprocess, no rows without a charger |
| `ModelRegistryProofs!OneModelActive` | `OneActive` | `OneInv`: what is active at each point of a run, from its UPDATE to the end of the revert |
| `ModelRegistryProofs!AModelIsServed` | `ModelIsServed` | `ServedInv`: while nothing is active somebody will activate a row that exists; the row to go back to exists while the one to take back does |
| `ModelRegistryProofs!CacheCorrect` | `CacheIsRegistered` | `CacheInv`, with the runs of rows distinct |
| `ModelRegistryProofs!TheBestIsServed` | `BestIsServed` | `BestInv`: what each phase of the scheduler and its subprocess finds: the best active, and the newest unless one was taken back; nothing active while it is replaced, with its loss in `prev`; the newest under judgement, next to that loss; the one before it, the best, while it is taken back |
| `LiveFeedProofs!FeedTypeCorrect`, `NoneSkippedCorrect`, `HearsCorrect` | `FeedTypeOK`, `NoneSkipped`, `HearsEachOnce` | `FeedInv`: the broadcast under way is of the last entry read (`CastIsLast`), which nobody awaiting it has had while the set has its size (`CastIsEven`), and an open socket is never discarded (`OpenIsMember`) |
| `RegistrationProofs!RegTypeCorrect`, `QuotaCorrect` | `RegTypeOK`, `QuotaKept` | `RegInv`: a count that no other row has outrun is not too low (`CountHolds`) and still below the quota at the INSERT (`BelowQuota`) |
| `AccountsProofs!AccTypeCorrect`, `ApartCorrect`, `InvitationCorrect` | `AccTypeOK`, `EmailsApart`, `InvitationOpensOnce` | `AccInv`: two requests about one e-mail or row are on record (`OverlapsKnown`), what a request found in the other table still stands (`ChecksStand`), and an open invitation is unused (`OpenIsUnused`) |
| `AccountsProofs!OwnerKeepsCorrect` | `OwnerKeepsLogin`, an action property | the same: only a grant adds a superadmin, and that no user of any kind had the e-mail when the script looked still stands at its INSERT |

The invariants as they stand are not inductive: `RegistryIsLive` for example
needs to know that the handler a closing task waits for is a real one,
`AlertedOnce` that no entry is repeated in the streams, and `OpenOncePerMessage`
that a message which is scored has no incident yet, which rests in turn on a
window having one vector.  `BestIsServed` speaks of one revert at most because
its invariant breaks at the second, which is the finding `mr_revert`.

Every safety property of the passing runs, invariant or action property, is
stated by a theorem of the table.  The types of `Registration` and `Accounts`
(`RegTypeOK`, `AccTypeOK`) are proved only.

Only model-checked is all liveness (`SilenceIsAnnounced`, `SteadyIsUp`,
`EveryCommandIsReplied`, `FiredRuleIsRaised`,
`IncidentIsAlerted`, `FeedGoesOn`), which is outside what TLAPS proves; and that
the comments and documents of section 5 are wrong, which one behaviour shows.

## 5. Findings

- `gw_onecp`: while a connection waits in `close()` for the one it replaces
  (`server.py:61`), the old task ends and pops the entry (`:85`), and the charger
  connects once more: that connection finds no entry at `:58` and registers, and
  the waiting one then registers over it (`:75`).  Both are served; the comment on
  `_connected` promises one.  (In the run the third connection uses the slot of
  the first, whose task has ended.)
- `gw_silent`: the watchdog looks at `last_heartbeat`, which only a Heartbeat
  moves; its docstring says "(or any message)".  A charger that sends other calls
  is announced as silent while it talks.  `SilenceIsAnnounced` and
  `SilenceAnnouncedOnce` are about silence as the code takes it.
- `ss_ended`: a 2.0.1 `Ended` on another connection than `Started` finds no entry
  in `_tx_map` and closes no session.
- `cmd_lost`: `last_id = "$"` is resolved at the first XREAD, after the command
  has been sent: a fast reply is missed and the caller is told "timeout".  The
  same at the other end: the deadline is looked at after each XREAD
  (`service.py:262`), and a reply that was appended while a batch of others'
  replies was gone through is then left unread.
- `pl_hour`: the duplicate check looks back to the start of the second instead
  of an hour; `DEDUP_WINDOW_MIN` is unused.
- `mr_revert`: the scheduler takes a worse model back by activating the second
  highest version, which after an earlier revert is the model rejected then.

## 6. Not modelled

- **Numerics**: the autoencoder, its training loop, the failure classifier and
  the arithmetic of features: floating point.  Their results are choices.
- **Presentation and plumbing**: web clients, HTTP routing, settings, e-mail and
  message texts, seed scripts, deployment files.
- **Alert policy of `CHARGEPULSE_DEV_SPEC.md`** (lines 1183-1185): one alert per
  charger and failure type within an hour, ten per organisation and hour, and a
  second one after four hours unresolved.  None of the three is implemented
  (neither `alert_worker.py` nor `dispatcher.py` counts, remembers or waits), so
  there is no behaviour to model; `AlertedOnce` and `IncidentIsAlerted` are about
  one incident and one channel.
- **Severity changes**: a config keeps its `severity_min` in `SwitchConfig`, which
  `alerts/service.py` lets a user change.
- **Read-only API**: single SELECTs without state.
- **Trimming and eviction**: `MAXLEN` of the streams and Redis'
  `allkeys-lru`, which may drop a stream with its group; every statement about a
  stream is for a Redis that keeps it.
- `stream:ocpp`: no code in the repository reads it.
- A deleted charger that is registered again (`Gateway` models it for the
  connections, `Pipeline` does not).
- **Accounts**: profiles, passwords and their resets, `last_login_at`, plans,
  the status of an organisation and impersonation: single writes that no property
  here relates to anything.  (The invitation e-mail says "This link expires in 7
  days" and `accept_invite` compares no date; nothing in the code records one.)
- **Live feed**: production runs several API processes, each with its own
  sockets and tail task; one is modelled, because they share only streams that
  they read without a group.  Pings, pongs and the hello are left out.
- **Vendor profiles** map error codes by table and the **health score** is a
  weighted sum written to one column by one process: no behaviour over time.
- Two hazards have no property, because the code promises nothing that could be
  stated: windows that pass between two runs of the feature worker never get a
  vector, and late events change no vector.  The model has both behaviours.

## 7. Plan

1. **Done**: `Gateway`, `Sessions`, `Commands`, `Pipeline` with their abstract
   specifications, `ModelRegistry`, and the theorems above.
2. **Done**: `LiveFeed`, `Registration`, `Accounts`, each with its theorems.
3. `LiveFeed` composed with the incident stream of `Pipeline`: from a rule that
   fires to the browser.
4. Pure functions against reference definitions: vendor error-code tables, the
   health score, the boundaries of the rules' predicates, window rounding.
5. **Done**: the proofs of every safety property that the runs check.
