# Verification of the event-sourced order service

TLA+ specifications, TLC configurations and TLAPS proofs for the order service
in `src/`: a write side that appends domain events to MongoDB and publishes
them to Kafka (Redpanda), a read side that projects them into PostgreSQL, with
a dead letter queue and a Lambda that retries failed events, a query side that
caches in Redis, an archiver that copies the topic to S3, and TTL pruning of
the event store.

Run a model with `tlc -config <X>.cfg <MCModule>`, a proof with
`tlapm <Module>.tla`. `PROJECT.json` lists every run, mutant, theorem, hazard,
and the source lines every definition stands for.

## 1. Inventory

| Component | State | Operations | Interacts with |
|---|---|---|---|
| Domain events, aggregate (`api/models/events.py`, `api/services/aggregate.py`) | none of its own: version, status, items are rebuilt from events for each command | event factories, `rebuild_from_events`, `assert_can_*` | called by every command |
| Command side (`api/routers/command_router.py`) | one coroutine per request; Redis `idem:create:{key}` | create, add item, confirm, pay, ship, cancel | event store, gateway, publisher, Redis |
| Event store (`api/services/event_store.py`) | MongoDB collection, unique on (aggregate_id, aggregate_version), TTL index on `expires_at` | `append`, `get_events`, `set_expiry_for_aggregate` | commands, consumer |
| Publisher (`api/services/publisher.py`) | Kafka topic, Redis `published:{event_id}` | `publish`: check, send, mark; 3 attempts | commands; the topic |
| Payment gateway (`api/services/payment_gateway.py`) | the payments taken | `charge` | `process_payment` |
| Projection consumer (`consumers/main.py`) | committed offset; Redis `processed:{event_id}` | dedup, project, invalidate, mark, expire, commit, DLQ | Kafka, PostgreSQL, Redis, MongoDB, SQS |
| Read model (`infra/postgres_init.sql`, `project_to_postgres`) | `orders`, `order_items` | insert, upsert, update | consumer writes, queries read |
| Retry Lambda (`lambda_handlers/retry_handler.py`) | SQS queue, S3 `dead-letters/` | re-publish, dead-letter, delete | SQS, Kafka (pandaproxy), S3 |
| Query side (`api/routers/query_router.py`) | Redis `order:{id}` (TTL) | `get_order` (cache-aside), read-only lists | Redis, PostgreSQL, MongoDB |
| Archiver (`consumers/archiver.py`) | batch in memory, committed offset, S3 objects | append to batch, upload, commit | Kafka, S3 |
| Start-up, configuration, provisioning, scripts | - | wiring, indexes, topics, schedules | - |

What is hard here:

- *Interleaving.* A handler loads its aggregate, then awaits (the gateway, the
  insert, three calls of `publish`), and any other request can run at each
  await. The rules are asserted on a state that may be old when the event is
  written. Only the unique index arbitrates.
- *Double writes.* MongoDB, Kafka and Redis are written one after the other
  without a transaction; each call can fail after its effect, and the process
  can die between any two.
- *Retries of what was done.* `publish` and `project_to_postgres` are repeated
  as a whole; the consumer gets records again after a crash, from a repeated
  publish, and from the DLQ, possibly after newer events of the same order.
- *Failures put aside.* The consumer commits the offset of a failed event and
  goes on; the event comes back later, through SQS and the Lambda.
- *Caches beside the truth.* `get_order` reads PostgreSQL and writes Redis in
  two awaits, while the consumer updates PostgreSQL and deletes from Redis in
  two others.
- *Batches in memory.* The archiver commits positions in all partitions for a
  batch it has uploaded under a name that does not hold the partition.
- *History that disappears.* MongoDB deletes the events of a closed order one
  by one, and with them their entries in the unique index that arbitrates
  between commands.

What makes each component correct: versions of an order are 1..n and the
history obeys the business rules (event store, commands), also while old events
are being deleted (pruning); a command answered with success is stored and
published (publisher); an idempotency key names one complete order
(create_order); a paid order was charged (payment); the replay loop computes
the state the rules are about (aggregate); the rows are the fold of a prefix of
the log (consumer); no consumed event is lost, and each is in the end projected
or given up after its retries (consumer, DLQ, Lambda); the cached view is the
row, but for windows that close by themselves (query side); whatever the
archiver commits is in S3 (archiver). The hazards behind these, each at its
line, are in `PROJECT.json`.

## 2. Modules

    OrderAggregate --+-- AggregateReplay --- MCAggregateReplay
    (events, rules)  |        `-- AggregateReplayProofs
                     +-- AggregateLemmas
                     +-- EventFeed (contract of the topic)
                     |     `---------------------.
                     +-- ReadModel --- Projection +-- MCProjection
                     |                     |-- QuerySide --- MCQuerySide
                     |                     `-- ProjectionProofs
                     |                            `-- QuerySideProofs (of QuerySide)
                     `-- WriteSide --- MCWriteSide
                           |   |-- Pruning --- MCPruning
                           |   `-- WriteSideProofs --+-- RefinementProofs
                           |                         `-- PruningProofs (of Pruning)
                           `-- (INSTANCE) OrderLifecycle, EventFeed
    Archiver --- MCArchiver
        `-- ArchiverProofs

**OrderAggregate** - events, the closed form `Rebuild` of the replay, and the
five business rules (`CanAddItem` ... `CanCancel` are `assert_can_*`). An event
is its order, version, type and one opaque payload. `event_id` is not a field:
it is a fresh UUID, only stored events are published, and the unique index
makes (order, version) identify a stored event. `total_amount`, prices,
customer data and timestamps take part in no rule and are left out.

**AggregateReplay** - `rebuild_from_events` as a loop, one event per step. The
events it may be given are any set with distinct versions, gaps included.

**WriteSide** - any number of requests (`Handlers`). `pc[h]` is the await a
request is at; every step from one await to the next is one action, and every
call has a failing action in which its effect may or may not have taken place.

| Action | Code |
|---|---|
| `CreateOrder`, `CreateOrderAgain` | `create_order` up to `append`; a known key |
| `AddItem`, `ConfirmOrder`, `ProcessPayment`, `ShipOrder`, `CancelOrder` | `_load_aggregate`, the assertion and the event factory; the version is fixed here |
| `Charge`, `ChargeDeclined` | `gateway.charge`, accepted or 402 |
| `AppendEvent`, `VersionConflict`, `AppendFails` | `insert_one`: stored, duplicate key, another error |
| `CheckPublished`, `SkipPublished`, `CheckFails`, `Send`, `SendFails`, `MarkPublished`, `MarkFails` | the three awaits of `publish`; `RetryPublish` is tenacity's retry |
| `RememberKey`, `RememberFails`, `Answer` | storing `idem:create:`, answering |
| `Crash` | the API process ends; what is in the services stays |

A refused request (404 or a failed rule) changes nothing and is not a step.
`replies` is a history variable: which order ids were answered to which key.

**OrderLifecycle** - the abstract specification of the write side: per order a
version, a status and whether it has items, changed by one accepted command at
a time. It knows nothing of requests, stores or Kafka. The refinement mapping
(`AbsVersion`, `AbsStatus`, `AbsHasItems`) is what `Rebuild` gives for the
stored events.

**EventFeed** - the contract between the two sides: events are recorded along
legal histories, one version after the other; only recorded events are in the
topic; but one may come late, twice, after later ones, or never. It joins the
two halves of the project: WriteSide *implements* it (`ImplementsFeed`, with
`stored` the collection and `published` the set of events in the topic), and
Projection *extends* it, so the read side is checked against every topic the
write side can produce without carrying its requests along.

**ReadModel** - the row of an order and `project_to_postgres` as a function of
a row and an event, including the foreign key, `ON CONFLICT DO NOTHING`, the
upsert that overwrites `quantity` and `line_total` only, and UPDATEs that find
no row. `RowOf` is the reference: the row a set of events should give.

**Projection** - the consumer at the granularity of its awaits
(`poll, dedup, project, invalidate, setex, expire, commit, dlq, commitdlq`),
the queue as a bag, and the Lambda (`RetryMessage`, `DeadLetter`,
`DeleteMessage`, `NotDeleted`). An exception inside the `try` leads to
`send_to_dlq` and a commit; one outside it (the dedup lookup, a commit of a
skipped or dead-lettered record) ends the process (`down`), and `Restart`
resumes after the committed offset. `Accept` and `Publish` are the two steps of
EventFeed. `Faults` chooses which services may fail, and whether requests
overtake each other between `append` and `publish` (`"overtake"`). `diverted`
and `dropped` are history variables: the events that left the log for
`send_to_dlq` unprocessed, and those of them that SQS refused or let expire
(`MessageExpires`, the queue's retention of 24 h).

**QuerySide** - `get_order` as any number of readers on top of Projection:
`CacheMiss`, `SelectRow` or `NotFound`, `Fill` or `FillFails`, and the TTL of the
cached view (`CacheExpires`). `ReadSideStep` is a step of Projection. The other
endpoints of `query_router.py` only read. `raced` (history) are the orders whose
cached view was already outdated when it was written.

**Archiver** - `archive()`: `Fetch`, `Upload`, `Commit` and their failures, `Stop`
(the `finally` block after a cancellation or an exception), `Crash`, `Restart`.
A record is its place in the topic. Object names are modelled by what they
tell apart, the last record's offset and the second of the upload; `Put` replaces
the object of the same name, as S3 does. `clashed` (history) holds the records
of objects that met under one name although their batches ended in different
partitions.

**Pruning** - WriteSide composed with `set_expiry_for_aggregate` and MongoDB's
TTL monitor. A call gives its events the next *date*; `RetentionPasses` lets the
oldest date come, once every request received before its call is over (the
retention is 30 days); `DeleteExpired` deletes one document, in the order of
`idx_event_expiry`. `update_many` may fail half way (`SetExpiryFails`). The
consumer is reduced to its one call per terminal record, at any time.

## 3. What the runs check

Each property has a mutant (a plausible bug, defined next to the definition it
replaces) that violates it under the same configuration.

| Run | Instance | What it shows |
|---|---|---|
| `replay` | all histories of up to 4 events of any of the 7 types, with gaps | the loop computes `Rebuild` (`LoopInvariant`, `ReplayComputesRebuild`) |
| `write_side` | 1 order, 2 requests, an accepted and a declined payment, 1 publish attempt, 5 events | `VersionsAreContiguous`, `LegalHistory`, `PaidOnlyIfCharged`, the inductive part `RequestsOK`, and the refinement `ImplementsLifecycle` |
| `publish` | 1 order, 2 requests, 1 key, 3 attempts, 2 events, fair | `AnsweredIsDurable`, `OnlyStoredIsPublished`, `KeyNamesPublishedOrder`, `RequestsFinish`, and the refinement `ImplementsFeed` |
| `projection` | all nine kinds of fault at once; 2 events, 2 projection attempts, 1 retry, 4 records, a queue of 2 | `NothingLost`: a consumed event has its `processed:` key, is queued, ahead in the log or dead-lettered, unless SQS refused it or let it expire; `DeadOnlyAfterRetries` |
| `query_side` | 3 events, 4 records, a reader; crashes, failing PostgreSQL, Redis and Kafka, duplicated records | `CacheFollowsRows`: Redis serves something else than the row only while the row's event is unprocessed, or after the SELECT/setex race; `FollowsTheLog`: rows are the fold of the log up to the committed offset, or one record further |
| `read_side_settles` | 2 events, a reader, 2 retries; PostgreSQL and MongoDB fail at will, fair | `EventuallySettled`, `EventuallyConsistent`: after the last command the answer of `get_order` ends up, for good, as the fold of the published events |
| `archiver` | 2 partitions of 2 records, batches of 2, 2 seconds; every upload and commit can fail before or after its effect | `CommittedIsArchived`: a committed record is in S3, but for the name clash |
| `pruning` | 1 order, 3 events, 2 requests; expiry calls that fail half way | `StateSurvivesPruning`: what is left rebuilds the version and status of the whole history; `HistorySurvivesPruning`: no version is given out again, no event breaks a rule |

`replay`, `publish`, `projection` and `archiver` check their module's `TypeOK` too.

Four runs end in a violation: the repository says something the code does not
do. Each is a finding in `PROJECT.json`, with the line quoted.

| Run | Statement | What happens |
|---|---|---|
| `same_key` | `command_router.py:62` "Same key from client = same order_id returned, no duplicate" | the key is read first and stored last; two overlapping requests create two orders |
| `payment_recorded` | `aggregate.py:11-13` "The one that goes second will get a version conflict and must retry. No distributed locks needed." | the payment is taken, `append` loses the version race to a concurrent cancel, and the retry is refused (`assert_can_pay`): a payment without an event or a refund. The run is about overlapping requests alone (`OverlapSpec`: no crash, no failing call) |
| `exactly_once` | `consumers/main.py:13-14` "the net effect is exactly-once" | an event comes back from the DLQ after newer ones and overwrites status and version; or its row was missing while newer UPDATEs ran on nothing |
| `expiry` | `scripts/test_pruning.py:59` asserts `expires_at` on a processed cancelled order | `processed:` is set before the expiry: a crash in between makes the redelivered record a duplicate, and the order never expires |

More disagreements are visible in the models and have no run of their own; the
properties name each as an exception where it matters:

- `publisher.py:5-6`: "All events for order-X land on the same partition, in
  sequence". `publish` follows `append` without a lock, so request 2 can send
  version 2 while request 1 still has version 1 to send. EventFeed promises no
  sequence, `projection` includes the overtaking, and `FollowsTheLog` and
  `EventuallyConsistent` are about orders with `InSequence`. `NothingLost` does
  not see it: an UPDATE that found no row gets its `processed:` key.
  `NetEffectExactlyOnce` does, whenever `"overtake"` is among the faults.
- `api/main.py:96`: "All state changes published as immutable events to Kafka".
  A crash, or three failed attempts, between `append` and the end of `publish`
  leaves a stored event nobody publishes. For the same reason the read model is
  eventually consistent with the topic and not, as `query_router.py:13` says,
  "with the event store".
- `publisher.py:9` says the idempotency key is "stored in Redis before publish".
  It is stored after (`MarkPublished`), so a send that failed after its effect,
  or a failed `setex`, publishes twice; the mutant `MarkBeforeSend` shows that
  the order the comment describes would break `AnsweredIsDurable`.
- `consumers/main.py:19-20` says failed events go to the DLQ "so it's not lost".
  `send_to_dlq` swallows its own exception (`main.py:72`) and the offset is
  committed: with SQS down as well the event is lost. So is one whose message
  outlives the 24 h of the queue (`scripts/setup_localstack.py:65`) because the
  Lambda could not deal with it. Both are `dropped`.
- `archiver.py:64`: the object name does not hold the partition. Two batches
  that end at the same offset of two partitions in the same second share one
  name, and the second replaces the first (`clashed`).
- `query_router.py:98`: "every event that ever happened to this order". After
  the retention the event store holds a suffix of the history, or nothing.
- An order cancelled twice (`assert_can_cancel` admits it) is given a
  date twice. If the second `update_many` fails half way, its first events live
  longer than its cancellations, and between the two dates the order is open
  again (`torn`).
- A product added twice is two items and two line totals in the aggregate, but
  one line in PostgreSQL, whose total sums that line only
  (`README.md:61` calls PostgreSQL a projection that can be rebuilt by replay).

### Bounds and why they are enough

- *Two requests.* The write side's conflicts are between a request and one
  that overtakes it; the theorems below cover any number.
- *`MaxVersion`* caps events per order: 5 is create, item, confirm, pay, ship,
  the whole life cycle; 2 suffices where only publishing matters.
- *`MaxAttempts`* is 3, the code's value, where retries matter, and 1 in
  `write_side`, where the crash and failure actions already give every way an
  event can fail to be published.
- *`MaxTries`, `MaxRetries`* are the code's 3 or smaller: `projection` uses 2
  and 1 so that a message can be at, below and one above each limit.
- *`MaxLog`, `MaxQueue`* cap records per partition and queued messages.
  They disable an append, as if the record came later; in `read_side_settles`
  (6 and 4) they never block a step: each of the 2 events has at most 3
  records (the first and two retries) and at most two queued messages (one
  of them about to be deleted), so the liveness results do not rest on them.
- *One reader.* Two readers write the same key independently, and the race is
  between one of them and the consumer.
- *Archiver.* Two records per partition and batches of two give batches within
  one partition, across both, repeated after a crash with one record more, and
  names that coincide. The theorem covers every size.
- *Pruning.* Three events are create, cancel, cancel (or create, item, cancel):
  a terminal order with a gap, and a second expiry call. Payments and shipping
  are left out (`PaymentIds`, `TrackingIds` are empty): they add no terminal
  event, since no endpoint delivers an order.
- Deadlock is not checked: the bounds end every behaviour, and clients may stop
  sending.
- Requests are interchangeable, so `write_side` and `pruning` use symmetry over
  `Handlers`, `archiver` over `Partitions`; runs with a temporal property of
  their own use none.

### Fairness

`RequestsFinish` assumes weak fairness of each request's next step: the event
loop resumes every coroutine whose await is over, and every await of the
handlers ends, with a result or with an error (one of the failing actions). The
second half is an assumption about the services and the network: the API
configures no socket timeout for Redis or MongoDB and the clients have none by
default, so a connection that hangs for ever would hang its request.
`read_side_settles` assumes weak fairness of the consumer, which loops on the
topic, under the same assumption; of the Lambda, which EventBridge starts at
`rate(1 minute)` (`scripts/setup_localstack.py:159-179`); of each `get_order`
under way; and of the expiry of a cached view, which Redis guarantees (`setex`,
and a hit does not renew it).

The calls of the requests and of the consumer may fail every time: a failure is
a step of theirs, so fairness gives them no success. The Lambda is different. A
call of it that fails before its effect is a stutter, so its fairness does assume
that its calls (SQS, pandaproxy, S3) succeed in the end, and within the queue's
retention; the run has no fault of these services. No fairness is assumed of
clients, of crashes or of `Restart`: `docker-compose.yml` has no restart policy,
so the run is about a consumer that stays up. `EventuallyConsistent` needs the
TTL: the mutant `CacheStays` (a cached view without one) violates it through the
SELECT/setex race.

## 4. What is proved

Every safety property that a passing run checks is also a theorem, for every set
of orders, requests, keys, payloads, partitions and readers, every set of faults
and every bound. The assumptions are `NoneAssumption`, `NoneIsNoRow`,
`NoneIsNoRecord` (the null value is none of the values it is told apart from),
and the types of the parameters: `WriteSideAssumption`, `HistoriesAssumption`,
`ProjectionAssumption`, `ArchiverAssumption`.

- `LoopInvariantHolds`, `ReplayTypeCorrect`, `ReplayIsRebuild`: the replay loop
  computes `Rebuild` for every history of any length. The invariant is
  `LoopInvariant` (the events applied so far are the oldest, and the aggregate
  is the one they rebuild); its step is the lemma `ApplyIsRebuild`: applying an
  event newer than all of a set gives the aggregate of the larger set.
- `TypeCorrect`, `NoLostUpdate`, `HistoriesAreLegal`, `RequestsRelyOnTrueFacts`,
  `PaymentsAreCharged`, `AnswersAreDurable`, `PublishedIsStored`,
  `KeysNameOrders`: the safety properties of `write_side` and `publish`.
- `WriteSideImplementsLifecycle`, `WriteSideImplementsFeed`: the write side
  implements `OrderLifecycle` and the contract `EventFeed`.
- `ArchiveIsComplete` (with `TypeCorrect` of ArchiverProofs): the archive is
  complete for any number of partitions and any batch size.
- `NoEventIsLost`, `GivenUpAfterRetries` (with `TypeCorrect` of
  ProjectionProofs): the read side loses no event it has committed, and gives
  up only what was retried.
- `RowsFollowTheLog`, `CacheIsInvalidated`: what `get_order` can answer.
- `StateSurvives`, `HistorySurvives`: pruning changes nothing a command can see.

*Write side.* None of its properties is inductive alone: an event is checked
when it is built and stored some awaits later. The inductive invariant `Inv`
(WriteSideProofs) adds `RequestsOK`, what each request in flight relies on:
until it is appended its event is the legal successor of the events *before it*
(`Appendable`), from `append` on it is stored, from `mark` on, and whenever its
`published:` key is set, it is in the topic. The central lemma is
`BeforeIsStable`: once version v - 1 of an order is stored, no step changes the
events before v, because versions are contiguous and the index lets nobody
insert below. So a rule that held when the aggregate was loaded still holds at
the insert, if the insert succeeds at all. That is why optimistic concurrency
needs no lock, and contiguity and legality can only be proved together. The step
lemmas go through what a step does to each service (`Effects`), so that each
property is proved against four effects and not against twenty actions.

*Refinements.* `InsertedIsNext` shows that a successful insert has version
latest + 1, and `InsertedState` what it does to the rebuilt status and items.
For `OrderLifecycle` every other step stutters. For `EventFeed` an insert is
`RecordEvent`, a send is `PublishEvent`, and no step does both
(`OneStoreAtATime`).

*Archiver.* `CommittedIsArchived` is not inductive, since an upload may replace an
object that holds committed records. A restarted archiver reads records again,
and if it ends a batch at the same offset in the same second it writes the same
name. The invariant says that a committed record lies in an object whose name is
below the committed offset of its partition (`CommittedKept`), that everything
read since the last commit is in the batch (`Collected`), and that an upload
under such a name can only replace a part of the batch (`Repeats`).

*Projection.* `NothingLost` is not inductive: the Lambda deletes a message some
steps after it has dealt with it, and the consumer commits a diverted record
some steps after it was sent to the queue. Both rest on `PassedOn`: what is let
go of is settled (processed, dead-lettered, refused by SQS or expired), or was published
again with a *higher* retry count. `Dealt` says so of the message about to be
deleted, `HandOK` of the record in hand, with the position of that record
relative to the committed offset. `Ladder` says that a record in the log
has all lower retry counts in the log before it, so a message given up with the
last count was delivered with every count, which is `DeadOnlyAfterRetries`.
`QueueOK` says that a queued event was processed or diverted, so one that
expires unprocessed is among the diverted. `AccountedStays` then shows that a record behind the offset keeps its account
whatever step is taken, and `AccountedAtCommit` that the one that gets behind
the offset has one. As on the write side, the properties are proved against
what a step does to each service (`StepEffects`), not against its actions.

*Query side.* Two lemmas about the read model come first: `ProjectNext`, an event
newer than all of a set takes the row `RowOf` gives for the set to the row it
gives with the event, and `ProjectTwice`, projecting it again changes nothing.
`UpsertIsLinesOf` is their core: the upsert leaves the price of the first event
of a product and the quantity of the last, as `LinesOf` says. `FollowsTheLog`
also needs that the next record is the newest event of its order, or one that
has its `processed:` key: `RowsOK` says which events have the key
(`MarkedOK`), that whatever comes a second time, through the queue or another
partition, has it (`AgainOK`), and when the row is one record ahead of the
offset (`RowOK`). For the cache, `SetexOK` closes the gap between invalidation
and `setex`: the consumer does not touch the row there, so an outdated view can
only come from a reader that overtook it.

*Pruning.* The invariant of WriteSideProofs is about stored events and fails at the
first deletion. `PInv` restates it for all recorded events, stored or pruned, of
an order that is not torn, and adds what makes deletions harmless.
`OldestFirst`: documents are dated and deleted from the oldest on, so the
latest document is the latest event. `OnlyTerminal`: only a cancelled order is
dated; after a cancellation only cancellations are legal (`TerminalStays`), so
the latest document alone decides the status (`Survives`). `WaitingOf`: an event
that took the version a request holds is stored and is not deleted before the
request is over, because its date is later than the request's arrival
(`DatesOK`); so the unique index refuses the request, and what is inserted is
newer than everything ever recorded (`NewestInserted`). Without the retention
of 30 days this would fail: a slow request could take a version whose document
is already gone. `PInv` was checked with TLC on the instance of `pruning`, and
with one event more, before it was proved.

Only model-checked: the liveness properties `RequestsFinish`,
`EventuallySettled` and `EventuallyConsistent` (temporal reasoning under
fairness is outside the prover's reach). The four violations are
counterexamples and have no theorem.

## 5. Abstractions

- The Redis keys `idem:`, `published:` and `processed:` (24 h) do not expire:
  they outlive any request, and the DLQ keeps messages for 24 h as well
  (`scripts/setup_localstack.py:65`, `MessageExpires`). The cached view does
  expire.
- `get_events` is one atomic read; the code fetches all events of one order
  through one cursor.
- The gateway's mock refuses by payment id (`DeclinedPayments`).
- One consumer process, as in `docker-compose.yml`: no rebalancing. The
  consumer commits after every record, so committed offsets are positions.
- Invocations of the Lambda do not overlap, and a call of it that fails before
  its effect is a stutter (the message stays in the queue). A re-published
  record may land in any partition: pandaproxy sends the key as JSON.
- The payload of create_order and of the read model's customer columns is
  left out. A cached view is the row it was read from.
- One read of `get_order` is one snapshot: the row and its items come from one
  statement.
- The archiver's `put_object` is synchronous and blocks the event loop, so a
  cancellation is delivered at the awaits for a record and for the commit.
- In Pruning an order id never comes back (UUIDs), and the consumer's call of
  `set_expiry_for_aggregate` is not tied to the order of the topic.

## 6. Not modelled

Request validation (`schemas.py`), start-up and dependency injection
(`api/main.py`, `dependencies.py`, `config.py`), provisioning and compose files,
`smoke_test.py`, `benchmark.py`: no state machine of their own.
`list_orders`, `get_stats` and `get_order_events` only read.
`get_latest_version` is called once, by `create_order` with a known key
(`command_router.py:70`), to fill in the version of the answer; it changes
nothing and is part of `CreateOrderAgain`. `get_events_by_type` is never called.
`ORDER_DELIVERED` is an event type no endpoint produces; replay and projection
handle it and `replay` covers it. Memory is not bounded in the archiver's model,
as in its code: the batch grows while S3 fails.

## 7. Plan

Every component with a state of its own is modelled, and every safety property
of the runs is proved. What is left:

1. The liveness results stay with TLC. Their safety halves can be proved: for
   `RequestsFinish`, that every step of a request lowers a measure made of its
   await and the attempts left; for `EventuallySettled`, that every delivery of
   an event raises its retry count or settles it.
2. The exceptions the properties name (`raced`, `clashed`, `dropped`, `torn`) are
   history variables. Proofs that each is empty under the condition the code
   would need (no reader overlaps the consumer, one partition, SQS never fails
   and the Lambda is never late, no second `update_many` fails) would say that
   they are the only exceptions.
