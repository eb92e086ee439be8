# A formal model of the factory data path

TLA+ specifications of the parts of this repository that carry production data
from a PLC to the operations database, on to Open Data Fusion (and into it from
the sources an edge agent collects), and from there to its live clients, with TLC instances that check them and TLAPS proofs about
them. The code is the reference throughout: a comment or document is modelled
nowhere, and where one disagrees with the code the disagreement is listed under
*Findings*.

Sections: [1 the system](#1-the-system) · [2 the modules](#2-the-modules) ·
[3 the runs](#3-the-runs) · [4 the proofs](#4-the-proofs) ·
[5 findings](#5-findings) · [6 limits](#6-limits-of-the-models) ·
[7 plan](#7-plan)

## 1 The system

```
 PLC --> ClientPLC ---------MQTT---------> backend ------SQL------> fusion_outbox
         polling, units, alarms            MQTT server              Fusion Adapter
         telemetry_records (SQLite)        ingestion queue          --HTTP--> Open Data Fusion
         mqtt_offline_queue (SQLite) <-ack- operations DB (Postgres)          workspaces, outbox
                                           rules, alerts, sync               outbox worker --> Redis stream
 files, databases --> edge agent --HTTP--> raw landing, ingest               --> event delivery --> browsers
```

Every arrow crosses a process boundary and a failure domain; at each there is a
durable table on the sending side, an idempotency key on the receiving side and
a loop that sends what is not yet confirmed. These tables and loops are the core
logic of the repository and the subject of this project.

| component | state | operations | hard behaviour | what makes it correct |
|---|---|---|---|---|
| ClientPLC offline queue (`SqliteOfflineQueueRepository`) | queue rows, audit log with summaries, topic blockers | enqueue, mark awaiting, complete, retry, quarantine, operator decisions, expiry, eviction | long sequences over one message id; limits of attempts, bytes and audit rows | tables agree with each other, budgets hold, only a decision frees a blocked topic |
| ClientPLC delivery (`MqttClientService`, `LocalDbService`) | records with a synced flag; producers, pump | store, prepare, publish, replay, sync batch, stop, restart | one record is written by several threads; a crash between any two transactions | nothing is lost or counted as synced too early |
| ClientPLC acknowledgement handler | none of its own | committed, busy, retryable, permanent | late and repeated answers to earlier copies | an answer does to the queue what the server meant |
| ClientPLC transport (`MqttTransport`) | connection, loop task | start, stop, publish, connect | stop against reconnect | the client reconnects |
| ClientPLC machine state, alarms, units, shifts | last state, open alarms, counters | PLC polling, edges, shift change | rising edges across restarts | one alarm per edge |
| backend MQTT server | connections | commit and acknowledge a publish | clean sessions, lost replies | commit before acknowledgement |
| backend ingress (`TelemetryIngestionService`) | bounded channel, byte reservation, waiting submitters | submit, persist, complete, project | admission timeout, release on every path, shutdown | bounds kept, nobody waits for ever |
| backend operations database (`DatabaseService`) | receipts, telemetry, projections, outbox, secondary deliveries | persist batch, project, claim and complete deliveries, device presence | duplicates, replays out of order, leases | a receipt once; newer data wins |
| backend rules, alerts, health | cooldowns, alerts | evaluate, raise, resolve | cooldown under concurrency | no alert twice, none missed |
| backend sync batches (`SyncService`) | none of its own | validate a batch, enqueue it as one | a batch refused or committed in part | all records of a batch or none |
| backend simulation and publishers (CEP, Timescale, backfill) | a cursor | targets of the secondary deliveries; a backfill loop | restart from a cursor | no gap |
| Fusion Adapter outbox dispatch | `fusion_outbox` rows, leases | claim, send, mark delivered, retry, dead | leases under slow requests, lost answers | one true outcome per event |
| Open Data Fusion workspace transactions | workspace versions, members, outbox rows | save, change members | overlapping transactions | one history per workspace |
| Open Data Fusion outbox worker | `odf.outbox_events`, Redis stream | claim, XADD, mark, release, dead letter, requeue | lost leases, repeated XADD, dead letters | per-workspace order, no event lost |
| Open Data Fusion event delivery | stream cursor, seen ids, subscriptions, promise chain of each response | read, filter, hand out, check membership, write | repeated XADDs, membership revoked meanwhile, replicas behind, failing Redis | no event missed, repeated or sent to a removed member |
| Open Data Fusion raw landing and ingest | objects, landings with their events, ingestion runs | store, land, ingest, record failure, close | four transactions per request, requests of one run in parallel, lost acknowledgements | a run has one payload, its evidence, and completes once |
| Open Data Fusion edge agent | source checkpoints, queued batches with leases | poll, archive, enqueue, claim, deliver, mark, release | crash between delivery and mark, retries out of order | checkpoint and batch in one transaction; every batch sent |
| Open Data Fusion pipelines and writebacks | runs, requests | claim, finish, approve, begin, complete | no lease, repeated begin | executed at most once |
| Factory AI platform, Odysseus, frontend, contracts, infrastructure | own stores or none | request handlers | — | — |

How they interact: ClientPLC and backend exchange messages over MQTT (publish
with a broker answer, then an application acknowledgement on a second topic).
The backend and the Fusion Adapter share the table `fusion_outbox`: one inserts
in the telemetry transaction, the other claims. Adapter and Open Data Fusion
talk HTTP with external ids that make ingestion idempotent; so do edge agent and
Open Data Fusion, with the hash of a batch as its run id. Inside Open Data
Fusion the API writes outbox rows in its own transactions, the worker carries
them to Redis, and the API processes read the stream. What is hard to test
about each of them is listed with its line in `PROJECT.json` under `hazards`.

## 2 The modules

| module | models | main abstraction |
|---|---|---|
| `OfflineQueue` | the queue repository, one action per public operation | time reduced to three comparisons; payloads to their size |
| `TelemetryContract` | what telemetry delivery promises, with no queue or network | — |
| `TelemetryDelivery` | client, network and backend around an `INSTANCE` of `OfflineQueue` | a message is the record it carries |
| `FusionOutbox` | `fusion_outbox`, its adapters and Open Data Fusion's answers | backoff and lease as events of time |
| `SharedEventOutbox` | workspace transactions, outbox rows, workers and stream | an event is the transaction that wrote it |
| `RawIngest` | the ingest handler of the API, its landing, run and object tables | a bundle stands for its bytes |
| `EdgeAgent` | the edge agent with its queue, posting to `RawIngest` (which it extends) | a batch is what a source returns past one checkpoint |
| `IngestContract` | what collecting and ingesting promise together | — |
| `LiveEvents` | the stream of all workspaces and its reader at one replica, the hub and the SSE responses of one workspace | an event is its place in the order of commits |
| `*Proofs` | theorems about the module of that name | |
| `DeliveryQueueProofs` | theorems about the queue within `TelemetryDelivery` | |
| `Sums` | lemmas about sums over finite sets | |
| `MC*` | values of the constants for TLC (`FusionOutbox` and `LiveEvents` need none) | |

### OfflineQueue

`row[m]` is the row of `mqtt_offline_queue` with message id `m`, `blocker[m]`
its row of `mqtt_offline_queue_blocker`, `audit` the audit table in id order,
`summary` the folded counts, `nextId` the AUTOINCREMENT counter. `audited` is a
history variable. Each public method is one SQLite transaction and one action
with everything it calls: `Enqueue` removes expired rows, makes room, inserts,
writes the removal events, sets the blockers and folds the audit log.
`GetDueMessages` is three transactions in the code and therefore three here
(`RemoveExpired`, `MoveExpiredAcknowledgementsToDead`, the reading `DueBatch`);
the composition puts them in order, which is what the `attempts` finding needs.
Time is `due`, `old` and the old part of the audit log; `Elapse` and `Age` let it
pass. `created_at` is the time of the insertion (no caller passes another) and
the clock is taken not to run backwards. The read-only listings are left out.

### TelemetryDelivery

Each record has a producer (`idle`, `check`, `prepare`, `send`, `puback`, …),
whose steps are the database transactions and the awaits of
`SendTelemetryInternalAsync`; the pump has the steps of `PumpDeliveryAsync`,
`ProcessOfflineQueueAsync` and `ProcessSyncAsync`; the handler marks records
and completes the row in two transactions. `_publishLock` lets one publish run
at a time, and the backend's interceptor commits and acknowledges before the
broker answers, so `wire` holds at most the message being handled on this
connection; `orphans` are those still in work for connections that have closed,
`acks` what has been sent back and not been handled, lost with a clean session.
The backend side is `ServerCommit` (whose transaction skips records it has a
receipt for), `ServerInterrupted` (the outcome of the commit is unknown to the
answer), `ServerBusy`, `ServerReject` (a device that is not approved, or a failure
of the database that `ClassifyDatabaseFailure` takes for permanent, which counts as a
fault) and `ServerLose`. `Starts` says how a run may begin: whether the device is
approved, and how many of the faults are spent.
`Crash`, `Stop`/`StoreFinal`/`Stopped`, `Restart`, `RestartConnection`, `Drop`
and `Connect` are the life of process and connection. `Operator` is RetryDead or
ResolveDead at any time. The history variable `raced` names the batches retried
between the first and the second query of `CanCreateSyncBatch`
(`OneBatchUnlessRaced`: nothing else makes two batches live together). Left out:
registration, heartbeats, remote commands, the switch that turns communication
off, a failing disk at the client.

`TelemetryContract` has one variable per record: none → pending → committed →
confirmed, where the backend takes the records of one message together.
`ImplementsContract` maps the two databases onto it (`Progress`).

### FusionOutbox

`Capture` is the insert in the backend's telemetry transaction. A worker's cycle
is `Claim` (release expired leases, take the oldest due rows with FOR UPDATE
SKIP LOCKED, taken as one step), then `Send` and `Mark` per event; `Mark` is
guarded by status and lease id, as in the three UPDATE statements. The random
lease id is the worker that drew it. `Crash` is the end of a process and equally
a cycle that throws: both forget the claim and keep the leases. Answers are
those of `OpenDataFusionClient`: delivered, permanent, authentication and
transient, the last of which may hide that the event was processed
(`accepted`). Ingestion is idempotent by external ids, so `accepted` is a set.

### SharedEventOutbox

`tx[e]` is the transaction that writes event `e`: its phase, whether it is a save
with a version check or a change of a membership, the events of the same
workspace with an earlier `occurred_at` (`older`: the column defaults to `now()`,
which in Postgres is the start of the transaction), and as histories the events
that were committed when it began (`before`) and when it was committed itself
(`under`). `row[e]` is its outbox row, `pump[w]` the batch of a worker and the
call it is in, `wire` the XADD commands that are sent and not executed, `stream`
the set of events that are on the stream. The order on the stream is stated by
what must already be there when an event arrives; consumers drop an id they have
seen, so the first copy counts. A lease may run out under its worker, an XADD
fail before or after Redis took it, a mark or a release fail, a process end:
`troubles` counts them all. The clock of Postgres is taken to be strictly
increasing; two outstanding commands of one worker for one event are one; which
of the due heads LIMIT takes, and in which order, is left open; the trimming of
the stream at 100 000 entries is not reached.

### RawIngest, EdgeAgent and IngestContract

A request of `POST /api/v1/ingest/bundle` goes through the steps of
`ingestHandler`, each a transaction or a call of its own: `Find`, `Put` and
`LandRun` are `PostgresRawLandingStore.archive` (the object is stored outside of
any transaction, and the landing is looked for again under the run's lock),
`Ingest` is the one big transaction, `RecordFailedRun` the one that records its
failure and never lets its own error out, `Accept` and `Fail` close the landing.
`CallFails` lets any of them fail with or without its effect: a failing ingest leads to
`RecordFailedRun`, a failing `complete('accepted')` into the catch that writes
`failed`. `landing[r]` is the landing of run `r` with its last event, `run[r]` its row in
`odf.ingestion_runs`, `completed` counts the events 'ingestion.completed'.
Several requests are handled at a time (`req`), those of the agent and of others.

`EdgeAgent` has a poll loop (`Read`, `Archive`, `Enqueue`: three steps with
awaits between them, the last one SQLite transaction that writes the
row and moves the checkpoint) and a delivery loop (`Claim`, `Post`, `Answer`,
`MarkSent`, `Release`). `due` is the queue in the order of `available_at`, a
batch that was released joins it at its end when its delay is over
(`DelayEnds`), and a leased batch nobody holds when the lease has ended
(`LeaseEnds`). A request that times out (`DeliveryFails`) goes on at the API.
`Stop` and `Shutdown` are the drain on SIGTERM, `Crash` the end of either loop
anywhere. The contract is composed of both systems: `collected`, `ingested` and
`delivered` map to checkpoints, runs and sent rows.

### LiveEvents

`log` is the commits in their order: saves and changes of members of the workspace,
and those of other workspaces, which share stream, reader and memory with it. `stream`
is what workers add to Redis, here in any order, and any event again at any later time:
a lost lease, retries and an operator's requeue (`outbox.ts:56`, `postgres.ts:191`) set no
limit to how far apart two XADDs of an event are. The reader of the replica
(`XRead`, `Timeout`, `Reply`, `Consume`) is `readLoop` and `consume`: the cursor
"$" is `FromNow` until a first message comes, a reply of several messages is
consumed without an await between them (`Idle` keeps everything else of the process out),
`seen` is the bounded set of ids. `client[c]` is a response: admitted
(`requireWorkspaceMember`) before it subscribes, its promise chain, and whether
the membership has been read for the event at its head, which is another step
than the write. Handing out a removal ends the member's subscription, writing it
ends the response. `frames` is what has been written to an open response, and
`until` the history that says what each user may see. Presence, the in-memory mode and the API's own publish, which
PostgreSQL mode does not use, are left out.

## 3 The runs

Reproduce one with `tlc -config <cfg> <module>` in this directory. States are
distinct states.

| run | module, cfg | states | question |
|---|---|---|---|
| `queue` | MCOfflineQueue | 644 k | does any sequence of calls bring attempts, audit and blockers into disagreement? are the budget kept, eviction minimal and oldest first, and audit events conserved? |
| `delivery_failures` | MCTelemetryDelivery, `_failures` | 1.63 M | with a fault or a late approval, a crash or a stop, expiry and an operator: is anything synced that is not committed, or removed undelivered, and does anything but a retry in the middle of the check make a second live batch? |
| `delivery_restarts` | MCTelemetryDelivery, `_restarts` | 1.23 M | with two records and two batch ids, across a crash or a stop: does every step implement the contract? |
| `delivery_liveness` | MCTelemetryDelivery, `_liveness` | 107 k | is every record confirmed in the end? |
| `fusion_outbox` | FusionOutbox, `MCFusionOutbox` | 104 k | do overlapping leases keep one true outcome per event, and does every event settle? |
| `shared_events` | MCSharedEventOutbox | 427 k | does the stream keep the order of a workspace, and is every event published? |
| `ingest` | MCEdgeAgent | 401 k | whatever of agent and API fails or is repeated: does a checkpoint cover what it passes, is what is sent ingested, once and with its evidence, and is every batch delivered? |
| `live_events` | LiveEvents, `MCLiveEvents` | 599 k | is a removed member sent nothing later, nobody anything out of order or again before the reader may have forgotten it, and every event heard? |
| `delivery_reconnect`, `delivery_attempts`, `delivery_quarantine` | MCTelemetryDelivery | | counterexamples, see *Findings* |
| `shared_events_order` | MCSharedEventOutbox, `_order` | | counterexample, see *Findings* |

**Bounds, and why they are enough.**

- `queue`: a telemetry message of size 1 and two sync batches of size 2 in a budget
  of 3: an insert without an eviction, one that evicts a batch and must spare the
  message, and one that evicts both all occur. Two attempts separate the first
  failure from the last; an audit table of one row makes every second event be
  folded; three row ids let a message id be inserted again after it was removed;
  one operator decision is audited. What one row may do to another goes through
  topic, blocker, budget and audit log, and messages of the same and of different
  topics show each. The two batches are interchangeable, and the run, which checks
  no liveness, uses that.
- `delivery_failures`: one record travels both as its own message and in a sync
  batch, so the two paths race for the same row, and there is a second batch id for the
  race of the check with the operator. A crash or a stop anywhere, one decision of
  the operator, and either one fault of any kind or a device that is approved
  later (`FaultOrLateApproval`); two attempts, so that a failure can be
  followed by a retry and by the last deadline, and a Busy can take the last one
  when the client has crashed in the first; the message of the record may outlive MaxAge.
  Two live batches do occur in this instance. One more fault exceeds what a run can
  explore; the theorems cover any number.
- `delivery_restarts`: two records are needed for a batch whose records are
  committed together, and two batch ids for a second batch after a restart.
  Records and batch ids are interchangeable and the run uses that symmetry; it
  checks no liveness.
- `delivery_liveness`: one fault and one restart against three attempts.
- `fusion_outbox`: two adapters over two events, one of which Open Data Fusion
  refuses; two leases that end under their worker (each worker can lose its own
  to the other), a crash and two lost answers (as many as attempts, so that an
  accepted event can also die).
- `shared_events`: two overlapping transactions of one workspace, two workers, and
  any three troubles with two attempts: an event can be sent by a worker
  that has lost its lease while another one fails and buries it. Several
  workspaces, and several events per batch of different workspaces, add nothing
  to the order of one; an instance of three events in two workspaces with two
  troubles was checked for the safety properties too (0.97 million states), and
  the theorems cover any number.
- `ingest`: a source with two batches, the first refused by the API for ever, so that it
  could starve the second; another client posts another payload of the second batch's run; two
  requests at a time are enough for a timed-out one and its repetition, or two
  payloads, to race; any three of: lost calls and answers, failing updates,
  crashes of agent and API, a stop, the other client. Three are needed to time a
  request out, lose a second answer and crash in between.
- `live_events`: three events are enough for one that is committed after a
  removal, one before it and one read between them, any of them of another
  workspace; XREAD returns two at most and the reader remembers two ids, so that replies are
  split, and the first event is forgotten when two others have come: its repetition (one
  repeated XADD, at any time) is then written again, and the run has that case.
  One client: clients share only the stream and the reader, and no
  response can affect another. One trouble: a disconnection, a failure of Redis
  or a restart.
- `IntMax` stands for `int.MaxValue`, at which the retry counter saturates; the
  theorems hold for every value of it.

All runs check for deadlock: whatever happens, a poll, a thread, a reader, time
or the operator can take a step.

**Fairness.** Weak fairness of each producer, the pump, the handler and the
backend's handling of each message: they are threads and loops that do not wait
for each other beyond the publish lock. Weak fairness of `Connect`: the transport's
loop retries with a bounded backoff. Of `Elapse`: deadlines pass. Of `Restart`:
a client that is off is started again by its user, and a stopping client
finishes. `AttendedSpec` adds that the user restarts a stopped connection,
which the first finding shows to be necessary. No fairness is put on faults
ending: they are bounded, and liveness is claimed for fewer failures than
attempts, an approved device and no fewer batch ids than records. It does not hold for
a device that is approved late: its messages are quarantined and wait for the
operator, as the code intends. A permanent answer to an approved device
is one of the faults: the record it stops on one of its two paths goes on the other.
In the outbox modules: weak fairness of each
worker's cycle (polling loops), and of the end of a backoff and of a lease
(time). If requests always outlast the lease, two adapters take an event from
each other for ever, because a lost lease counts no attempt and nothing in the
configuration relates the two durations: `EveryEventSettles` needs
`MaxOverruns` to be finite. A committed shared event is published unless it or
an older event of its workspace is a dead letter, which is what the operator's
requeue is for. In `EdgeAgent`: weak fairness of the two loops, of each request at the
API, of delays and leases (time) and of the restart of an agent that is down
(its service manager); strong fairness of the end of a drain, which is possible
again and again while a refused batch is due: `shutdown` looks at its deadline
after `maxDrainBatch` batches at most. In `LiveEvents`: weak fairness of the
reader's loop and of each promise chain; nothing makes clients connect or workers
publish. `EveryEventIsHeard` starts when a first message has replaced the
cursor "$" and ends with the response or with a failure of Redis, after which the replica
reports itself degraded and delivers nothing until it is restarted.

**Mutants.** For every property of a passing run `PROJECT.json` names a plausible
bug (a definition such as `EvictedOneTooMany` beside the one it replaces) under
which the run finds that property violated: the properties depend on the code.

## 4 The proofs

`tlapm <module>.tla` proves every obligation of the eight proof modules, for all
values of the constants that satisfy the module's named assumption
(`QueueAssumption`, `DeliveryAssumption`, …: finite sets, positive limits, ids
apart from the markers for "none"). TLC evaluates the assumptions in every run.
Every invariant and every action property of the runs that pass is the
statement of a theorem.

**Sums.** The bytes in the queue and the events in the audit summary are sums
over sets, which `MapThenSumSet` folds recursively over arbitrarily chosen
elements. `TotalIsCount` shows that the fold is the cardinality of a set (`Units`:
`f[x]` elements for every `x`), by a minimal counterexample to the unfolding of
the fold, as the subsets of a finite set are well founded. What a sum does under
unions, subsets, one more element and termwise addition then follows from facts
about cardinalities. `SubsetInduction` is the same argument for a property that
is given as a set of subsets, which is as much of induction as can be stated
without an operator as parameter.

**OfflineQueueProofs.** `Invariance` is about `IInv`: types of rows, unique row
ids below `nextId`, attempts left in rows awaiting replay, types of the tables,
blocking events with an unresolved blocker. The last is not inductive without
the others: a removal writes the blocker and the audit events in one step, and
that these concern the same messages needs the shape of `RemovalEvents` and of the
folded log (`RetentionFacts`: a truncated log is a subset of the log). From it
follow `TypeCorrect`, `RowIdsUnique`, `ReplayBounded`, `AuditAgreesWithBlockers`,
and the action properties `BlockersAreTheOperators` and
`TopicsAreReleasedByDecision`; the latter rests on `StillBlocking`: a message
that blocks its topic blocks it after every other action.

`BudgetHolds` rests on `EvictedFacts`: the rows older than the oldest row that
stays are evicted, so together they free what is needed, and without the youngest
evicted row they would not (`EvictionIsMinimal`). `AuditIsConserved` needs that
a removal writes one event per removed row and that the events cut off the log are
counted once each in the summary (`RetentionConserves`, by `TotalOfCounts`: the
counts per reason and status add up to the number of events). `RowsCanBeListed`
says that rows can always be put in the order of their ids; without it an
insert or an expiry that has to write its audit events in that order could be
disabled, and the other theorems would speak of fewer steps than the code takes.

**TelemetryDeliveryProofs.** That a synced record is committed is not inductive:
the client marks what an acknowledgement says. `IInv` adds that a committed
acknowledgement under way is true (`TrueReplies`), and, as a batch's contents
must not change after its acknowledgement, that whatever is queued, held by a
thread, on the wire or being answered is a stored record or a batch with fixed
contents (`Durable`). Most of the forty-odd sub-actions only touch queue and control, and go
through two lemmas (`QueueMoves`, `QuietStep`). `DeliveryImplementsContract`
maps every step to Record, Commit, Confirm or a stutter.

**DeliveryQueueProofs.** The delivery has the queue as an `INSTANCE`; here it is
shown to use it and no more. `Held` is the inductive invariant that the pump in a
step that handles a message has one, and that the message the handler is about to
complete is one whose records are marked and committed. With it `DeliveryUsesQueue`
maps every step of the delivery to one operation of the queue or a stutter
(`QueueSteps` says which steps insert and complete). The module instantiates
`OfflineQueueProofs` with the delivery's own topics, sizes and budget, proves the
queue's assumptions for them (`QueueConstants`), and so has every theorem of the
queue for the delivery: `QueuePromisesKept`, and the queue's part of
`DeliveryTypeCorrect`. `MessagesLeaveDelivered` goes through the operations that
can make a row absent: completion, whose message `Held` knows to be delivered;
expiry; ResolveDead; and eviction, which never happens, as the budget of this
instance has room for every message (`NothingEvicted`, a sum of ones).
`OneBatchBarringRace`: between the two queries of `CanCreateSyncBatch` a RetryDead
turns the only batch from dead to live, neither query sees it, and a second batch
is created beside it; nothing else makes two live batches. `BatchOrder` says what
must hold for the two queries and the insert to be as good as one but for that:
of two queued batches the older one has raced; after the first query every queued
batch is dead or blocked, or has raced; after the second every one has raced; and
a dead batch stays dead or blocked, since one that a late Busy answer can
reschedule died of a rejection and has a blocker.
`OneBatchUnlessRetried` draws the conclusion for behaviours in which the operator
retries no dead batch: one batch is live at most.

**FusionOutboxProofs.** Needed besides the properties: the attempts a worker has
read are those of the row for as long as it holds the lease (`ReadStillTrue`, or
a late retry would set the count back), and an answer being marked was given
(`Truthful`). From the lemma `OutcomesAreTrue` follow `NothingDeliveredFalsely`,
`AttemptsCountedOnce` and `NothingDiesEarly`; `SettledRowsStay` is the action
property.

**SharedEventOutboxProofs.** The order follows from `HeadsOnly`: whatever a worker
holds, has sent or has published is the head of its workspace: all that was committed before
its transaction began is marked published, and so on the stream. It survives lost leases because a mark is
never undone, and new transactions because they are younger. The lemma `StreamIsOrdered`
adds the saves through `HistoryOK`: a committed save saw the saves it follows.
The theorems are `NothingOvertakes`, `SavesStayInOrder`, `NothingPublishedEarly`,
`NothingDiesEarly` and `OutcomesStay`.

**EdgeAgentProofs.** None of the invariants is inductive alone: what a request
does next rests on what it has found or done before, and others overtake it between
any two of its steps. `RequestsAreTrue` says it step by step (the object is stored before `land`,
the landing is this payload's from `ingest` on, the run has succeeded from
`accept` on); it is stable because a landing is never replaced and a run that
has succeeded never fails again. `LoopsAreTrue` says the same of the agent:
an answer it holds is true of the run when the row is marked. The proof goes by
roles: a server step keeps what the agent knows and the agent is only a client
of the tables (`AgentIsClient`, `ServerKeepsBundles`). From `IInv` follow the six
invariants and `AgentImplementsContract`, in which `Ingest` of the contract is
the one step that makes a run succeed (`RunMoves`).

**LiveEventsProofs.** Who is a member now was one at the last commit
(`MembersAreCurrent`), so a membership that is read after an event was handed out
covers the event, and goes on covering it when the member is removed before the
write (`WritesAreCovered`): `RevokedClientsHearNothingNew`. `TypeCorrect` shows the
module's `TypeOK`. `FramesInStreamOrder` needs what the reader remembers: what a
response was handed has places on the stream, in its order (`Line`), and each of its
events is either remembered, with everything remembered after it behind its place, or
at least `SeenEventLimit` others have come since (`Held`). When an event goes from a
full memory, the ones that stay and the new one are those others (a pigeonhole argument
in `ConsumeNew`); and an event that is handed out again was not remembered. No
bound on repetitions or on the events of other workspaces is used. The lemmas (`Grow`,
`ConsumeNew`, `HandedOutStarts`) speak of any stream, memory and frames; the
invariant `OInv` applies them to the state.

Only model-checked: the liveness properties `EveryRecordIsConfirmed`,
`NoEndlessRetry`, `EveryEventSettles`, `EveryEventIsPublished`,
`EveryBatchIsDelivered` and `EveryEventIsHeard`, as fairness and ENABLED are out of
the prover's reach. The findings are counterexamples and have no theorem. No
module uses a RECURSIVE operator.

## 5 Findings

1. **A producer can stop the transport for good** (`Reconnects`,
   `MqttClientService.cs:622`). A record is stored; before its producer prepares
   the message, the pump publishes it and the acknowledgement completes it; the
   preparation then throws, and the catch stops the transport, which nothing but
   the user starts again. No fault of the network is needed.
2. **One attempt too many** (`AttemptsBounded`, `SqliteOfflineQueueRepository.cs:80`).
   The clock is read twice by `GetDueMessages`; a last deadline between the two
   readings is replayed instead of moved to DEAD.
3. **Quarantine undone by a late answer** (`QuarantineNeedsOperator`,
   `SqliteOfflineQueueRepository.cs:271`). `ScheduleRetry` does not look at the
   status: a Busy for a second copy puts a rejected message back in the queue.
4. **Stream order of overlapping transactions** (`StreamFollowsCommits`,
   `outbox.ts:53`). Events are published by the start of their transaction, so of
   two overlapping membership changes the later one may come first, whereas the
   comment says that they never overtake one another. Saves are not affected
   (`SavesInVersionOrder`), nor transactions that do not overlap (`NoOvertaking`).

Seen, and in contradiction to no document: `CanCreateSyncBatch` asks for live
messages first and for dead ones second, so an operator's retry between the two queries
lets the client make a second batch of the same records. The delivery stays
correct; `OneBatchUnlessRaced` says that this is the only way to two live batches.
And the reader's memory of ids is one for all workspaces: an event that a worker repeats
late, after as many events of any workspaces as the memory holds, is sent to clients again
(`FramesFollowStream` says when at the earliest).

Two more of that kind in Open Data Fusion: until a first message has come, a
reader whose blocking read has timed out asks with "$" again and misses what
came in between, for clients that are connected (ADR 0004 counts on events
missed during a disconnect); `EveryEventIsHeard` therefore begins at the first
message. And the landing of a run that has succeeded can say `failed`, when
`complete('accepted')` loses its acknowledgement or a slow earlier request of the
run fails last; the next retry sets it right.

## 6 Limits of the models

- Payloads carry no content: encryption, JSON, validation and the choice of what
  a telemetry record says are outside. A malformed or conflicting message is not
  sent by this client.
- Disk failures at the client, and a Postgres that loses committed data, are outside.
- Locks and threads inside one process are modelled where a step is interrupted
  by an await or a transaction; `_lifecycleLock` and the transport's loop task
  are not (see the hazards at `MqttClientService.cs:465` and `MqttTransport.cs:85`).
- The replay of a landing, the SQLite stores of the development profile, the rows
  within the ingest transaction and the authorization before it are outside. A
  source returns the same batch for the same checkpoint.
- `LiveEvents` follows the clients of one workspace, one of them in its run; presence
  frames, which are written to members only as well, are outside.
- READ COMMITTED with FOR UPDATE SKIP LOCKED is taken as one atomic claim.
- The read limit of 500 unsynced records and the limit of 100 due messages are
  not reached.
- Not modelled: every component that `PROJECT.json` lists as `not_modelled`, with
  its reason there. User interfaces, controllers, schema set-up and documents
  keep no state that interacts with the data path; the Odysseus assistant is a
  separate program.

## 7 Plan

Written, in the order of their importance to the data: `OfflineQueue` →
`TelemetryContract`, `TelemetryDelivery` (which instantiates both) →
`FusionOutbox` → `SharedEventOutbox` → `IngestContract`, `RawIngest`,
`EdgeAgent` (which extends it) → `LiveEvents`.

Next, most important first:

1. `TelemetryIngress`: the bounded channel, byte reservation and waiting
   submitters of `TelemetryIngestionService`, with shutdown. Properties: bounds,
   every reservation given back, every submitter answered or cancelled. Theorem:
   the reservation equals the bytes of the items in work. Instance: three
   submitters, a channel of one or two, a byte budget of two items.
2. `SecondaryDelivery`: leased deliveries of `DatabaseService` and the projections
   guarded by sequence. Abstract specification: a register that only moves to
   a newer sequence, refined by receipts, projections and replays.
3. `PipelineRuns` and `Writebacks` of Open Data Fusion: claims without a lease,
   approval, execution and completion.
4. `ClientLifecycle`: service and transport with their two locks, loop task and
   client object; deadlock freedom, one connection at a time.
5. `AlarmEdge` and `EventRuleEngine`: edges, resolver and cooldowns, as
   functions compared with a reference definition over bounded traces.
6. Composition of `SharedEventOutbox` and `LiveEvents` over one stream, and the
   reader's start before its first message.
7. Further proofs: type correctness and the main invariant of each new module,
   that a listing is unique, a statement of the order of `SharedEventOutbox` as an abstract log that it refines.
