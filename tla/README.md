# Verification of the document processing service

This directory holds TLA+ specifications of the service in `src/app`, the TLC
configurations that check them on small instances, and TLAPS proofs of the
results that matter most for every instance. Each specification is translated
from the code; `PROJECT.json` maps every definition to the lines it stands for
and lists the runs, mutants, findings, hazards and theorems.

## 1. The system

Documents arrive in the Kafka topic `documents.incoming`. A consumer stores them
in PostgreSQL as *pending*. Operators claim a document over HTTP and then accept
or reject it. The decision and an *outbox* event are written in one transaction;
a relay sends the event to `documents.processed`. Everything runs in one
application, started as four uvicorn processes (`Dockerfile`), so there are four
consumers in one group, four relays over one table and any number of concurrent
requests. The processes share nothing but PostgreSQL and Kafka.

| component | state | operations | talks to |
|---|---|---|---|
| document requests (`endpoints/documents.py`, `document_service.py`, `document_repository.py`, `db/session.py`) | rows of `documents`; per request a session and its row locks | claim, decision | outbox table (same transaction), client |
| document consumer (`workers/kafka_consumer.py`) | position and batch in memory; offsets in Kafka; rows | start, poll, persist, commit, stop | Kafka group, `documents` |
| outbox table (`outbox_repository.py`, `models/outbox.py`) | rows with status and retry count | create, fetch, mark published, mark failed | requests write, relays read and mark |
| outbox relay (`outbox_service.py`, `outbox_worker.py`, `kafka_producer.py`) | one transaction, its batch, the message in the producer | process a batch, be cancelled, stop | outbox table, Kafka |
| application lifespan (`main.py`) | producer, tasks, Redis client | start, stop in order | all of the above |
| statistics (`get_statistics`) | none | three queries | `documents`, `users` |
| accounts (`auth_service.py`, `dependencies/auth.py`, `security.py`) | rows of `users`, tokens with an expiry | login, register, check of user and role | every endpoint |
| connection pool (`db/session.py`) | up to 30 connections per process | check out, return, time out | requests, relay, consumer, health |
| health check, Redis client | one lazily created client | check | database, Redis, producer |
| schema, configuration, logging, scripts | constants, migrations, test data | – | – |

What is hard, and what makes each part correct:

* **Requests.** Row locks, `SKIP LOCKED` over a snapshot, a commit that follows
  the response. Correct: one operator per document, one decision, no lost update,
  oldest document first, an event for every decision and for nothing else, no
  request that waits for ever, and a success that stays true.
* **Consumer.** Two stores without a common transaction, rebalances at any
  `await`, errors that the loop swallows. Correct: what the group has acknowledged
  is in the table, redeliveries change nothing, offsets never go back.
* **Relay.** Messages leave before the database knows. Correct: nothing is marked
  that was not delivered, relays do not share events, duplicates have a cause, one
  bad event does not block the others, an outage does not lose events.
* **Lifespan.** Three tasks in one event loop, a retry loop, errors that surface only
  when a task is awaited. Correct: a shutdown ends, in an order in which nobody uses
  what is stopped, and leaves nothing open.
* **Statistics.** Three statements with a snapshot each, while documents move on.
  Correct: the figures of one response disagree in one direction only, and a later
  response for the same period never shows less.
* **Accounts.** Registrations and seeds that race for unique names, tokens that
  outlive the rights of their user. Correct: one account per name and email, a 201 that
  is true, a seed that is there as a whole or not at all, no work done for a user who
  has lost the right since before the request was sent.
* **Pool.** Requests hold a connection while they wait for a row lock of another
  process. Correct: nobody has to time out, nothing is open on a connection that
  was given back.
* **All together.** Three transactions, one after the other, by actors that crash
  separately. Correct: what Kafka was told is stored can be claimed, what is published
  was decided, and nothing gets stuck on the way.

`PROJECT.json` lists under `hazards` where each of these bites in the code.

## 2. Modules

```
DocumentModel ─┬─ DocumentQueue ───── DocumentQueueProofs ──┐
               │    ▲ refines  ▲ Queue!                     │ Promise!
               │    │          └── Statistics ── StatisticsProofs
               └─ DocumentRequests                          │
                             ▲ └── PooledRequests ── DocumentRequestsProofs
                             │                              │
                             └──── DocumentPipeline ── DocumentPipelineProofs
                                        │ Consumer!, Relay!    │ Group!, Outbox!
OutboxModel ───── OutboxDelivery        │                      │
     │              ▲ refines           │                      │
     └─────────── OutboxRelay ──────────┤── OutboxRelayProofs ─┤
DocumentConsumer ───────────────────────┴── DocumentConsumerProofs
AppLifespan ─────────────────────────────── AppLifespanProofs
Accounts ────────────────────────────────── AccountsProofs
MCDocumentRequests, MCPooledRequests, MCDocumentPipeline, MCStatistics, MCOutboxRelay,
MCDocumentConsumer, MCAppLifespan, MCAccounts: the instances for TLC
```

**DocumentModel** – rows, decisions and messages as records, and the pure parts of
the handlers: what the insert, claim and decision assign, what a valid decision
request is, what the message says. A rejection reason is reduced to whether it is
there; `assigned_at` and `decision_at` go with the status.

**DocumentQueue** – the promise: insert, claim and decide as single atomic steps on
committed rows.

**DocumentRequests** – the same as the code does it. `documents` and `outbox` are
what is committed; `locked_by` is PostgreSQL's row lock; a request is a program
counter, the snapshot and scan of its `SELECT`, and the session (`target`,
`dirty`, `added`).

| action | code |
|---|---|
| `ClaimDocument`, `SkipLockedRow`, `SkipClaimedRow`, `TakeRow`, `EmptyQueue` | `claim_next` with the `SELECT ... FOR UPDATE SKIP LOCKED LIMIT 1` of `find_next_pending`, row by row, and its 404 |
| `MakeDecision`, `LockDecidable`, `LockDecided` | body check, `find_in_progress_for_operator` (snapshot, wait for the lock, look again), assignments and `create_event`; its 422 |
| `Respond`, `Commit`, `Abort` | the response; the code after `yield` in `get_db_session`; its `except`, a crash, a failing statement |
| `BulkInsertPending` | the consumer's insert, possibly of documents that exist |

FastAPI 0.138.1 runs the code after `yield` when the response has been sent, hence
`Respond` before `Commit`. A request whose transaction was rolled back for an
outside reason ends as `failed`; its retry is another request.

**PooledRequests** – the requests again, each on a connection of its process.

| action | code |
|---|---|
| `Arrive`, `CheckOut`, `CheckOutTimesOut` | a dependency runs the first statement of the session: `pool_size` + `max_overflow` connections, `pool_timeout` |
| `Begin` | the handler goes on in the same session: FastAPI resolves `get_db_session` once per request, for `get_current_user` and for the controller |
| `LeaveAtOnce` | a 401 or 403, or the `SELECT 1` of the health check |
| `CheckIn` | the session is closed after `COMMIT` or `ROLLBACK` |
| `OtherTakes`, `OtherReturns` | the relay and the consumer of the process |

**Statistics** – `get_statistics` between the steps of `DocumentQueue`:
`GetStatistics`, `AverageProcessing` and `RankOperators` are its three statements. A
figure is the set of rows that it counts or averages. Which of several operators with
equal totals the `LIMIT` keeps is left open.

**Accounts** – the table `users`.

| action | code |
|---|---|
| `Login`, `Expire` | `AuthService.login`; the `exp` of a token |
| `Send`, `Unauthenticated`, `Forbidden`, `Serve` | `get_current_user`, `require_roles`, any handler |
| `Register`, `Place`, `Duplicate`, `Respond`, `Commit` | `register` with the `flush()` of `UserRepository.create`, one index entry at a time; `IntegrityError`; the commit after the response |
| `Seed` | `scripts/seed_users.py`: look, insert, commit |
| `ChangeUser` | SQL by hand: the service has no endpoint that changes a user |

**OutboxModel, OutboxDelivery** – the event's row, and the promise of the relay:
store, deliver (any number of times), settle.

**OutboxRelay** – `process_batch` in each process: the scan of `fetch_pending`,
then send, outcome, mark for each event, and one commit. The outcomes live in
`draft` until then. `in_flight` is the message in the process's producer; it
survives the cancellation of the task (`Cancelled`, then `Flushed` or `Dropped`)
but not a crash. The producer is aiokafka: a message arrives and is acknowledged,
arrives and raises all the same, or raises because it is refused or Kafka is
unreachable (no metadata within the request timeout, a partition without a
leader). The code treats every exception alike; during an outage the model lets a
send raise or keep waiting.

**DocumentConsumer** – `run` in each process. `position` and `batch` are memory,
`committed` and `log` are Kafka's, `rows` is the table, seen as the messages whose
insert it did not ignore. `Reassign` is the group coordinator: it may move any
partition to any member at any time, who resumes from the committed offset; the
former owner stores its batch all the same, and its `commit()` covers what it
still owns. `GiveUp` is the `except Exception` at the end of the loop. `dropped`
is a history variable.

**DocumentPipeline** – `DocumentRequests`, `DocumentConsumer` and `OutboxRelay` side by
side. `StoreBatch` is the consumer's `PersistBatch` together with the requests'
`BulkInsertPending`; `ShowEvent` is the relay's `Store`, at the commit of the request
that added the event. Every other step belongs to one part. The parts share tables
and no memory, so the death of a process is the death of its parts one by one, in any
order.

**AppLifespan** – the start and the end of one process. `main` is where `lifespan`
awaits; the actions before and after `serving` are its lines in order. `consumer_task`
is `run_consumer` with its attempts, `relay` is `run_outbox_worker` with
`get_kafka_producer` and one send of `process_batch`, `buffered` is the message
that the producer holds and has to flush in `stop()`. `cancelled` holds the tasks
whose `cancel()` was called: all they can do is end. `connection` is the latest
`AIOKafkaConsumer`: an earlier one failed to connect. While Kafka is away the
producer may give a message up, but need not (aiokafka's idempotent producer does not
expire batches in general). What an inner loop does with rows and offsets is the
matter of the other modules.

## 3. Runs

| run | question | bounds |
|---|---|---|
| `requests` | safety of claims and decisions under every interleaving, abort and redelivery; refinement of `DocumentQueue`; order of the queue, honest 404 and one success per document as long as nothing has failed | 2 documents, 2 operators, 3 requests, 2 timestamps |
| `requests_durable` | *violated*: is a 200 durable? | 1 document, 1 operator, 2 requests |
| `pool` | does every request get a connection, and end, without a timeout? | 3 requests in 2 processes, 1 relay, pools of 2, 1 document |
| `statistics` | which relations between the figures survive concurrent claims and decisions? | 2 documents, 2 operators, 2 reports, `LIMIT 1`, 2 instants and 2 timestamps around them |
| `accounts` | unique names, true 201s, whole seeds, rights, and does every writer end? | 2 requests, 2 seeds of 2 accounts, 1 account by hand, 1 change by hand |
| `pipeline` | what holds from topic to topic, and does everything get to its end? | 1 document in 2 messages, 1 consumer, 2 requests, 1 relay, 1 crash, 1 rollback, 1 of 2 events oversized |
| `relay` | safety of the relays, refinement of `OutboxDelivery`, and is every event settled? | 2 events (one oversized), 2 relays, batches of 2, 2 attempts, 1 rollback, 1 lost acknowledgement, 1 outage |
| `relay_outage` | *violated*: is every event published once Kafka is back? | 1 event, 1 relay, the code's 5 attempts |
| `consumer` | safety of offsets and rows with database failures and malformed messages | 2 partitions of 2 messages, 2 consumers, 1 crash, 1 rebalance |
| `consumer_outage` | *violated*: is everything acknowledged stored, although an insert fails? | 1 partition, 1 consumer |
| `lifespan` | does every shutdown end, with everything closed in order? | 1 process, 3 attempts; restarts and outages without bound |
| `lifespan_consumer_died` | *violated*: is every shutdown graceful? | the same |

Why these sizes: every conflict in `DocumentRequests` is about one row and at most
three parties (a holder, one that waits or skips, one that arrives later), and the
order of the queue needs two rows with equal or different timestamps. A pool of two
connections is full while a request of the same process waits, and the third request
can hold the row lock in another process. Two reports are an earlier and a later
one; two operators under `LIMIT 1` are one listed and one cut off. Two seeds and two
registrations make every pair of racing writers; one of the registered accounts shares
its name with one seeded account and its email with another, so that two transactions
could wait for each other. A relay race needs two relays and two events, one of which
fails. A rebalance needs two consumers; two messages in a partition make batches of
different lengths, a redelivery, and a failed batch that the next commit covers.
`MaxRetries = 2` keeps one attempt that does not give up and one that does;
`relay_outage` uses the real 5. A full batch that hides later events is not reached
with two events and batches of two; it cannot hide them for ever, since each attempt of
a whole batch raises all its retry counts and `MAX_RETRIES` bounds them. `pipeline`
keeps one actor of each kind, because the races between actors of a kind are
the matter of the other runs; outages and rebalances are left to those as well (their
bounds are 0 there). Its two requests are enough for a claim and its decision, with
either of them aborted. `AppLifespan` is finite apart from the attempts, of which
three distinguish a first, a middle and a last. `accounts` alone does not check for
deadlock: when the table is empty and every seed has failed, nobody can log in and
nothing more can happen. Also in `pipeline` all clients may be served and all messages
consumed. Symmetry is used in the runs without liveness only. `NoId` occurs in no
run; the proofs cover it in every combination.

`OldestFirst`, `EmptyQueueIsEmpty` and `OneSuccessEach` say "as long as no
transaction has failed" (`NoneFailed`): a claim that passes over a locked row whose
holder then aborts does leave an older document behind, in the code as well.

**Fairness.** Each request, relay, consumer, seed and process has weak fairness of the
steps that its event loop and PostgreSQL take by themselves once it has started; the
coordinator assigns partitions, dead processes are restarted
(`restart: unless-stopped`), an outage ends. Nothing obliges a client to send, an abort,
a crash, a rebalance or a change by hand to happen, or a particular branch to be taken.
In `PooledRequests` nobody is obliged to time out or to be refused, and relay and
consumer need not give their connections back, since they may be waiting for Kafka.
Restarting assumes that the broker is reachable within `run_consumer`'s ten attempts; in
`AppLifespan` that assumption is not made. There `Delivered` is strongly fair: outages
may come again and again, and the producer uses the times between them. A claim's scan
cannot starve: its snapshot is finite.

**Mutants.** For every property of a passing run there is a mutated definition
beside the original (`... Unlocked`, `... WithoutRecheck`, `... AutoCommit`), a
plausible slip in that code, under which TLC finds the property violated.

## 4. What disagrees with the documentation

1. *A success is not durable* (`SuccessIsDurable`): the commit follows the response
   and may fail. For the same reason the decision that an operator sends right after the
   answer to a claim may be refused with a 422, because it does not see the claim yet;
   `scripts/locustfile.py` counts a 422 as success.
2. *An outage can lose events* (`EventuallyPublished`): after five attempts an event
   is `failed` and nothing looks at it again.
3. *A failed insert loses its batch* (`CommittedIsKept`): the position has moved on, and
   the next `commit()` covers it. A malformed message takes its batch along in the same
   way: its exception reaches the same handler.
4. *An error of the consumer's task spoils the shutdown* (`GracefulShutdown`): it is
   raised again by `await consumer_task`, and the relay, the producer with what it
   holds, and Redis are not stopped.

Messages without an id get their offset as `external_id`, which is unique in its
partition only: two of them can collide. No document says otherwise, and
`produce_documents.py` gives every message an id; the proofs assume it where it matters.

The passing runs say what remains true nonetheless: `OnlyGivenUpIsLost` that 3 is
the only way to lose an acknowledged message other than a colliding id,
`DuplicatesExplained` that duplicates in the output topic have one of two causes,
`ShutdownIsOrderly` that 4 is the only way to leave anything but a consumer open,
`AcknowledgedIsQueued` and `EveryMessageDealtWith` that there is no other way from the
input topic to nowhere, `EveryDecisionLeaves` the same of the way out.

## 5. What is proved

For any number of documents, operators, requests, relays, events, partitions,
consumers, messages and accounts, from the named assumptions of the modules: null values
lie outside their sets, timestamps and bounds are naturals, the accounts of
`seed_users.py` differ from each other in both unique columns, as do those inserted by
hand (`AccountsAssumption`), and in the pipeline every message that can be stored has an
id (`DocumentPipelineAssumption`; a message without one would get a number, and numbers
are no documents there). TLC evaluates each assumption on the instances above.

| theorem | says |
|---|---|
| `DocumentRequestsProofs!MutualExclusion`, `UpdatesAreKept`, `TypeCorrect` | `NoDoubleClaim`, `NoLostUpdate`, `TypeOK` |
| `DocumentQueueProofs!TypeCorrect`, `OutboxCorrect`, `LifeCycle` | the promise keeps its own properties |
| `DocumentRequestsProofs!Refinement` | `DocumentRequests` implements `DocumentQueue` |
| `DocumentRequestsProofs!OutboxCorrect`, `LifeCycle` | so its committed tables have those properties too |
| `DocumentRequestsProofs!OldestIsClaimed`, `EmptyMeansEmpty`, `SucceedsOnce` | `OldestFirst`, `EmptyQueueIsEmpty`, `OneSuccessEach` |
| `DocumentRequestsProofs!PooledRefinement` | `PooledRequests` implements `DocumentRequests`, so it has all of the above |
| `DocumentRequestsProofs!PooledTypeCorrect`, `LocksOnConnections` | `PooledTypeOK` (no pool over its limit), `LocksAreConnected` |
| `StatisticsProofs!TypeCorrect`, `FiguresAgree`, `FiguresGrow` | `TypeOK`, `StatementsAgree`, `ReportsGrow`, for any number of documents, operators and reports and any limit |
| `OutboxRelayProofs!MutualExclusion`, `NoFalsePublication`, `Finality`, `TypeCorrect`, `Refinement` | `OneRelayEach`, `PublishedIsDelivered`, `SettledIsFinal`, `TypeOK`, `OutboxRelay` implements `OutboxDelivery` |
| `OutboxRelayProofs!DuplicatesHaveCauses` | `DuplicatesExplained` |
| `DocumentConsumerProofs!NothingElseIsLost`, `Idempotence`, `OffsetsAdvance`, `TypeCorrect` | `OnlyGivenUpIsLost`, `OneRowPerDocument`, `CommittedGrows`, `TypeOK` |
| `DocumentConsumerProofs!NothingIsLost` | `CommittedIsKept`, if every message has an id and the database does not fail |
| `AppLifespanProofs!RelayIsServed`, `OrderlyShutdown`, `TypeCorrect` | `RelayHasProducer`, `ShutdownIsOrderly`, `TypeOK`, for any number of attempts |
| `AccountsProofs!UniqueAccounts`, `RegistrationsAreKept`, `SeedsExclude`, `RightsAreChecked`, `TypeCorrect` | `OneAccountEach`, `RegisteredIsKept`, `SeededOnce`, `ServedWithRights`, `TypeOK`, for any number of requests, seeds, accounts and changes by hand |
| `DocumentPipelineProofs!PipelineRefinement` | the requests in `DocumentPipeline` are `DocumentRequests`, so all its theorems hold there |
| `DocumentPipelineProofs!AcknowledgedMeansQueued`, `PublishedMeansDecided` | `AcknowledgedIsQueued`, `PublishedIsDecided` |

*Requests.* `NoLostUpdate` is not inductive. What keeps the row under a session
unchanged is its lock, so `IInv` says of each request what it asked for, what its
session holds and that it has the lock of its target (`RequestOK`); that whoever
holds a lock is alive (`HoldersAlive`); and that an event belongs to a request that
is over (`EventsAreOfTheDone`), so that its id is new. A step of the requests is a
step of the promise exactly when it is `Commit` or `BulkInsertPending`; all others
stutter.

*Order of the queue.* `OldestFirst` speaks of what a `SELECT` passed over some time ago,
so it needs to be known that a document that was passed over never comes back to the
queue (`PassedOver`). It was passed over because it was no longer pending, which
`DocumentsMoveForward` makes final, or because it was locked; and a lock on a pending row is
always the lock of a claim that is going to commit, as long as nothing fails
(`PendingLocks`). `Seen` adds that the scan follows `created_at`. For `OneSuccessEach`,
`Told` says that a success, once committed, has moved the row to where no request of the
same kind starts from; before the commit its request has the row's lock.

*Pool.* Each step of `PooledRequests` is one of the requests or leaves them alone. A
transaction runs only on a connection (`ActiveAreConnected`), because it begins on one,
and because whoever gives a connection back is idle or over. The limit is
preserved since one step adds at most one holder, and only where there is room.

*Statistics.* The invariant relates each figure to the table as it is now: what was
counted as decided still is, what is under the mean is still decided, by the same
operator, and the list was cut where the rule allows. Those relations survive every step of
the queue, because documents only move forward (`Moves` in `DocumentQueueProofs`); so the
later statement of a report, and the later report, find all that the earlier one found.

*Relay.* The invariant relates each draft to the row in the table: equal for the
events still in the queue, equal to the row with its outcome for those dealt with
(`Noted`), and the relay has the lock of all of them. `Commit` then is `Settle`, an
arriving message is `Deliver`.

*Duplicates.* `DuplicatesExplained` is not inductive, because a message can leave long
after its transaction is gone: a cancelled relay leaves it in the producer, and the next
relay sends the event again. `CopiesInv` counts the copies on the topic together with
those in the producers' buffers (`Sent`) and charges each to a rollback, to a lost
acknowledgement, or to the single attempt that is under way or has been noted as a
success (`Used`). A rollback moves one attempt from the last account to the first, and
`OneRelayEach` is why there is never more than one.

*Consumer.* `commit()` writes positions, so the invariant says below positions what
`OnlyGivenUpIsLost` says below committed offsets, except for the batch that the
owner has in hand (`PolledIsSettled`). A consumer that commits has none left to
store, and a new owner starts from the committed offset, where the property itself
applies.

*Lifespan.* Each await of the shutdown relies on what the one before left behind:
the invariant says that the producer is started as long as the relay may run, that
the relay is over when the producer closes, and that `run_consumer` connects only
with an attempt left.

*Accounts.* That a `COMMIT` meets no row with its names follows from the index entries:
an open transaction shares its entries with no other (`PlacedApart`) and with no
committed row (`PlacedFresh`), and has or will make all that its accounts need
(`Complete`). That only one seed succeeds has the same reason: every seed inserts the same
accounts, so a second one meets the entries of the first. An account that was inserted by
hand may have other names; that none is in the table beside an open seed follows from
what the seed has looked at (`SeedAlone`). Rights are a second invariant on top: a right
that a request has now was witnessed since it was sent (`Witnessed`), because a change by
hand, which could give one, is recorded, and an `INSERT` gives none, as a token names a
row that is already there (`TokenNamesRow`).

*Pipeline.* Each step of the pipeline is a step of every part or leaves it alone, so the
parts' invariants hold in it (`GroupRuns`, `OutboxRuns`, `PipelineRefinement`). For
`StoreBatch` that is not immediate: that a batch consists of documents, which is what
`BulkInsertPending` inserts, is known from the consumers' own invariant. Two coupling
invariants tie the parts together: a row of the consumers is a document of the requests
(`RowsArrived`), and an event that the relays see belongs to a committed one
(`EventsAreCommitted`). The two properties follow from these, from `OnlyGivenUpIsLost`,
and from `OutboxMatchesDocuments`, which comes from the promise `DocumentQueue` through
two refinements.

## 6. Model-checked only

Every invariant and every action property of a passing run is the subject of a theorem.
What remains with TLC:

* Liveness (`EveryArrivalLeaves`, `EverySettled`, `EveryMessageDealtWith`,
  `EveryDecisionLeaves`, `EveryWriterEnds`, `ShutdownEnds`), which rests on fairness and
  `ENABLED` and is beyond the prover.
* The four violated properties: each counterexample is an execution that TLC finds.

## 7. What is not modelled, and the plan

Not modelled for good: the wording of logs and responses, metrics, configuration (its
values give the constants their meaning), migrations as such, and the load test in
`locustfile.py`, a client that reaches the state through the endpoints only. Bytes that
are no JSON raise in aiokafka's deserializer, whose effect on the position is the
library's. Documents are identified with their `external_id` in `DocumentRequests`; the
source topic is always the same one. Password hashing and token signatures are assumed
to work. `_check_database` and `_check_redis` report statuses that nothing depends on.

A claim whose answer is lost leaves its document `in_progress` with an operator who does
not know it; the service has no operation that lists or returns claimed documents, so
there is no property to state.

Planned: rollbacks and lost acknowledgements counted for each event rather than for all
together would make `DuplicatesExplained` sharper; and progress measures, the
non-temporal half of the liveness properties (a step of a relay or of a shutdown, other
than an outage or a restart, brings it closer to its end), can be stated as action
properties and proved.
