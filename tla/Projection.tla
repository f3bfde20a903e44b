----------------------------- MODULE Projection -----------------------------
(***************************************************************************)
(* The read side: the projection consumer (consumers/main.py) and the      *)
(* retry loop through the SQS dead letter queue and the Lambda             *)
(* (lambda_handlers/retry_handler.py).                                     *)
(*                                                                         *)
(* One consumer process takes one Kafka record at a time.  pc is the await *)
(* it is at:                                                               *)
(*   poll -> dedup -> project -> invalidate -> setex [-> expire] -> commit *)
(*   dedup -> skip              (already processed: commit and continue)   *)
(*   any failure from project on -> dlq -> commitdlq                       *)
(*   a failure anywhere else     -> down (the process ends)                *)
(* The consumer commits before it takes the next record, so the committed  *)
(* offset of every other partition is its position.                        *)
(*                                                                         *)
(* Faults says which calls may fail.  A call that changes state may fail   *)
(* after its effect.  The publisher is the contract EventFeed, which       *)
(* WriteSide implements; without "overtake" it publishes in sequence.      *)
(***************************************************************************)
EXTENDS ReadModel, EventFeed, Sequences, Bags

CONSTANTS Partitions,
          PartitionOf,   \* the partition a key hashes to
          MaxTries,      \* attempts of project_to_postgres (3 in the code)
          MaxRetries,    \* MAX_RETRIES of the Lambda (3 in the code)
          Faults,
          MaxVersion,    \* bound: events per order
          MaxLog,        \* bound: records per partition
          MaxQueue       \* bound: messages in the dead letter queue

ASSUME ProjectionAssumption ==
  /\ PartitionOf \in [Orders -> Partitions]
  /\ MaxTries \in Nat \ {0} /\ MaxRetries \in Nat
  /\ Faults \subseteq {"crash", "postgres", "redis", "mongo", "kafka", "sqs",
                      "lambda", "retention", "overtake"}
  /\ MaxVersion \in Nat /\ MaxLog \in Nat /\ MaxQueue \in Nat

\* A record of the topic and a message of the queue: an event and the
\* retry_count the Lambda wrote into it (absent, hence 0, at first).
Record == [event : Event, retry : 0..MaxRetries]

Place == [part : Partitions, offset : Nat \ {0}]

ASSUME NoneIsNoRecord == None \notin Record \cup Place

VARIABLES
  log,         \* Kafka: the records of each partition
  committed,   \* Kafka: offset committed by the consumer group
  pc,          \* where the consumer is
  hand,        \* the place of the record it works on, or None
  tries,       \* attempts of project_to_postgres for it
  rows,        \* PostgreSQL
  processed,   \* Redis: events with a processed: key
  cache,       \* Redis: the cached view order:{id} of each order, or None
  expiring,    \* MongoDB: orders whose events have an expires_at
  dlq,         \* SQS: bag of messages
  dead,        \* S3: events under dead-letters/
  deleting,    \* Lambda: the message it has dealt with and not deleted, or None
  diverted,    \* history: events that left the log for send_to_dlq unprocessed
  dropped      \* history: those of them that SQS refused or let expire

consumer == <<pc, hand, tries>>
stores   == <<rows, processed, cache, expiring>>
retrying == <<dlq, dead, deleting>>
history  == <<diverted, dropped>>
vars     == <<feed, log, committed, consumer, stores, retrying, history>>

PC == {"poll", "dedup", "skip", "project", "invalidate", "setex", "expire",
       "commit", "dlq", "commitdlq", "down"}

Init == /\ FeedInit
        /\ log = [q \in Partitions |-> <<>>]
        /\ committed = [q \in Partitions |-> 0]
        /\ pc = "poll" /\ hand = None /\ tries = 0
        /\ rows = [o \in Orders |-> None]
        /\ processed = {}
        /\ cache = [o \in Orders |-> None]
        /\ expiring = {}
        /\ dlq = EmptyBag /\ dead = {} /\ deleting = None
        /\ diverted = {} /\ dropped = {}

-----------------------------------------------------------------------------
(* The topic.                                                              *)

\* The records of partition q up to offset n, and all that were ever produced.
RecordsUpTo(q, n) == {log[q][i] : i \in 1..n}
Produced          == UNION {RecordsUpTo(q, Len(log[q])) : q \in Partitions}
EventsIn(recs, o) == {r.event : r \in {s \in recs : s.event.order = o}}

Produce(q, r) == /\ Len(log[q]) < MaxLog
                 /\ log' = [log EXCEPT ![q] = Append(@, r)]

\* A command is accepted.  Without "overtake" its request has the order to
\* itself: what was recorded before is published.
Accept(o, t, p) ==
  /\ NextVersion(StoredOf(o)) <= MaxVersion
  /\ "overtake" \in Faults \/ StoredOf(o) \subseteq published
  /\ RecordEvent(o, t, p)
  /\ UNCHANGED <<log, committed, consumer, stores, retrying, history>>

\* A request sends its event, or sends it again (the published: key is set
\* after the send).
Publish(e) ==
  /\ e \in published => "kafka" \in Faults
  /\ "overtake" \in Faults \/ e = Latest(StoredOf(e.order))
  /\ PublishEvent(e)
  /\ Produce(PartitionOf[e.order], [event |-> e, retry |-> 0])
  /\ UNCHANGED <<committed, consumer, stores, retrying, history>>

-----------------------------------------------------------------------------
(* consume().                                                              *)

Current == log[hand.part][hand.offset]
E       == Current.event

Goto(l) == pc' = l /\ UNCHANGED <<hand, tries>>
Die     == pc' = "down" /\ hand' = None /\ tries' = 0

\* Mutant: enable_auto_commit=True, the offset is committed at the poll.
PollAutoCommit(q) ==
  /\ pc = "poll" /\ committed[q] < Len(log[q])
  /\ pc' = "dedup" /\ hand' = [part |-> q, offset |-> committed[q] + 1] /\ tries' = 0
  /\ committed' = [committed EXCEPT ![q] = @ + 1]
  /\ UNCHANGED <<feed, log, stores, retrying, history>>

\* async for msg in consumer
Poll(q) ==
  /\ pc = "poll" /\ committed[q] < Len(log[q])
  /\ pc' = "dedup" /\ hand' = [part |-> q, offset |-> committed[q] + 1] /\ tries' = 0
  /\ UNCHANGED <<feed, log, committed, stores, retrying, history>>

\* Mutant: no deduplication on the consumer's side.
NoDedup ==
  /\ pc = "dedup"
  /\ pc' = "project" /\ tries' = 1 /\ UNCHANGED hand
  /\ UNCHANGED <<feed, log, committed, stores, retrying, history>>

\* redis.exists(processed_key)
Dedup ==
  /\ pc = "dedup"
  /\ \/ E \in processed /\ Goto("skip")
     \/ E \notin processed /\ pc' = "project" /\ tries' = 1 /\ UNCHANGED hand
  /\ UNCHANGED <<feed, log, committed, stores, retrying, history>>

DedupFails ==   \* outside the try: the consumer ends
  /\ pc = "dedup" /\ "redis" \in Faults
  /\ Die
  /\ UNCHANGED <<feed, log, committed, stores, retrying, history>>

\* One attempt of project_to_postgres.
ProjectRow == rows' = [rows EXCEPT ![E.order] = Project(@, E)]

ProjectEvent ==
  /\ pc = "project" /\ CanProject(rows[E.order], E)
  /\ ProjectRow
  /\ Goto("invalidate")
  /\ UNCHANGED <<feed, log, committed, processed, cache, expiring, retrying, history>>

\* @retry(stop=stop_after_attempt(3)): a foreign key error or a lost
\* connection, which may come after the COMMIT.
ProjectFails ==
  /\ pc = "project"
  /\ \/ ~CanProject(rows[E.order], E) /\ UNCHANGED rows
     \/ "postgres" \in Faults /\ UNCHANGED rows
     \/ "postgres" \in Faults /\ CanProject(rows[E.order], E) /\ ProjectRow
  /\ \/ tries < MaxTries /\ tries' = tries + 1 /\ UNCHANGED <<pc, hand>>
     \/ tries = MaxTries /\ Goto("dlq")
  /\ UNCHANGED <<feed, log, committed, processed, cache, expiring, retrying, history>>

\* Mutant: the key that is deleted is not the one get_order fills.
InvalidateNothing ==
  /\ pc = "invalidate"
  /\ Goto("setex")
  /\ UNCHANGED <<feed, log, committed, stores, retrying, history>>

Invalidate ==
  /\ pc = "invalidate"
  /\ cache' = [cache EXCEPT ![E.order] = None]
  /\ Goto("setex")
  /\ UNCHANGED <<feed, log, committed, rows, processed, expiring, retrying, history>>

InvalidateFails ==
  /\ pc = "invalidate" /\ "redis" \in Faults
  /\ UNCHANGED cache \/ cache' = [cache EXCEPT ![E.order] = None]
  /\ Goto("dlq")
  /\ UNCHANGED <<feed, log, committed, rows, processed, expiring, retrying, history>>

\* redis.setex(processed_key, 86400, "1")
MarkProcessed ==
  /\ pc = "setex"
  /\ processed' = processed \cup {E}
  /\ Goto(IF IsTerminal(E) THEN "expire" ELSE "commit")
  /\ UNCHANGED <<feed, log, committed, rows, cache, expiring, retrying, history>>

MarkProcessedFails ==
  /\ pc = "setex" /\ "redis" \in Faults
  /\ UNCHANGED processed \/ processed' = processed \cup {E}
  /\ Goto("dlq")
  /\ UNCHANGED <<feed, log, committed, rows, cache, expiring, retrying, history>>

\* event_store.set_expiry_for_aggregate(order_id)
SetExpiry ==
  /\ pc = "expire"
  /\ expiring' = expiring \cup {E.order}
  /\ Goto("commit")
  /\ UNCHANGED <<feed, log, committed, rows, processed, cache, retrying, history>>

SetExpiryFails ==
  /\ pc = "expire" /\ "mongo" \in Faults
  /\ UNCHANGED expiring \/ expiring' = expiring \cup {E.order}
  /\ Goto("dlq")
  /\ UNCHANGED <<feed, log, committed, rows, processed, cache, retrying, history>>

\* consumer.commit(), from its three places.
CommitOffset == committed' = [committed EXCEPT ![hand.part] = hand.offset]

Commit ==
  /\ pc \in {"skip", "commit", "commitdlq"}
  /\ CommitOffset
  /\ pc' = "poll" /\ hand' = None /\ tries' = 0
  /\ UNCHANGED <<feed, log, stores, retrying, history>>

CommitFails ==   \* inside the try it leads to the dlq, elsewhere it ends the process
  /\ pc \in {"skip", "commit", "commitdlq"} /\ "kafka" \in Faults
  /\ UNCHANGED committed \/ CommitOffset
  /\ IF pc = "commit" THEN Goto("dlq") ELSE Die
  /\ UNCHANGED <<feed, log, stores, retrying, history>>

\* send_to_dlq
Enqueue == /\ BagCardinality(dlq) < MaxQueue
           /\ dlq' = dlq (+) SetToBag({Current})

\* History: the event in hand leaves the log although it is not processed.
Divert(d) == IF E \in processed THEN UNCHANGED history
             ELSE diverted' = diverted \cup {E} /\ dropped' = dropped \cup d

SendToDlq ==
  /\ pc = "dlq"
  /\ Enqueue /\ Divert({})
  /\ Goto("commitdlq")
  /\ UNCHANGED <<feed, log, committed, stores, dead, deleting>>

SendToDlqFails ==   \* logged and swallowed
  /\ pc = "dlq" /\ "sqs" \in Faults
  /\ \/ UNCHANGED dlq /\ Divert({E})
     \/ Enqueue /\ Divert({})
  /\ Goto("commitdlq")
  /\ UNCHANGED <<feed, log, committed, stores, dead, deleting>>

Crash ==
  /\ pc # "down" /\ "crash" \in Faults
  /\ Die
  /\ UNCHANGED <<feed, log, committed, stores, retrying, history>>

\* The container is started again (by hand: docker-compose has no restart
\* policy) and resumes after the committed offsets.
Restart ==
  /\ pc = "down"
  /\ pc' = "poll" /\ UNCHANGED <<hand, tries>>
  /\ UNCHANGED <<feed, log, committed, stores, retrying, history>>

-----------------------------------------------------------------------------
(* The Lambda's loop over the messages it received.  A message it does not *)
(* delete becomes visible again.  A call that fails before its effect      *)
(* leaves the message where it is and is not a step.  A message nobody     *)
(* deletes for a day expires.                                              *)

\* Mutant: <= where the code has <.
RetryOnceMore(m, q) ==
  /\ deleting = None /\ BagIn(m, dlq) /\ m.retry <= MaxRetries
  /\ Produce(q, [m EXCEPT !.retry = @ + 1])
  /\ deleting' = m
  /\ UNCHANGED <<feed, committed, consumer, stores, dlq, dead, history>>

\* Re-publish.  Pandaproxy writes the key as JSON, so it need not hash to the
\* partition of the order.
RetryMessage(m, q) ==
  /\ deleting = None /\ BagIn(m, dlq) /\ m.retry < MaxRetries
  /\ Produce(q, [m EXCEPT !.retry = @ + 1])
  /\ deleting' = m
  /\ UNCHANGED <<feed, committed, consumer, stores, dlq, dead, history>>

\* Mutant: an event is given up one retry too early.
DeadLetterEarly(m) ==
  /\ deleting = None /\ BagIn(m, dlq) /\ m.retry + 1 >= MaxRetries
  /\ dead' = dead \cup {m.event}
  /\ deleting' = m
  /\ UNCHANGED <<feed, log, committed, consumer, stores, dlq, history>>

\* Mutant: > where the code has >=.
DeadLetterNever(m) ==
  /\ deleting = None /\ BagIn(m, dlq) /\ m.retry > MaxRetries
  /\ dead' = dead \cup {m.event}
  /\ deleting' = m
  /\ UNCHANGED <<feed, log, committed, consumer, stores, dlq, history>>

DeadLetter(m) ==
  /\ deleting = None /\ BagIn(m, dlq) /\ m.retry >= MaxRetries
  /\ dead' = dead \cup {m.event}
  /\ deleting' = m
  /\ UNCHANGED <<feed, log, committed, consumer, stores, dlq, history>>

DeleteMessage ==
  /\ deleting # None
  /\ dlq' = dlq (-) SetToBag({deleting})
  /\ deleting' = None
  /\ UNCHANGED <<feed, log, committed, consumer, stores, dead, history>>

\* The proxy answered too late, delete_message failed or the Lambda timed out.
NotDeleted ==
  /\ deleting # None /\ "lambda" \in Faults
  /\ deleting' = None
  /\ UNCHANGED <<feed, log, committed, consumer, stores, dlq, dead, history>>

\* MessageRetentionPeriod = 86400: SQS drops a message it has kept for a day.
\* (One that the Lambda has dealt with is as good as deleted.)
MessageExpires(m) ==
  /\ "retention" \in Faults
  /\ BagIn(m, dlq) /\ deleting # m
  /\ dlq' = dlq (-) SetToBag({m})
  /\ dropped' = IF m.event \in processed THEN dropped ELSE dropped \cup {m.event}
  /\ UNCHANGED <<feed, log, committed, consumer, stores, dead, deleting, diverted>>

-----------------------------------------------------------------------------
Publisher == \/ \E o \in Orders, t \in EventType, p \in Payloads \cup {None} : Accept(o, t, p)
             \/ \E e \in stored : Publish(e)

Consumer == \/ \E q \in Partitions : Poll(q)
            \/ Dedup \/ DedupFails
            \/ ProjectEvent \/ ProjectFails
            \/ Invalidate \/ InvalidateFails
            \/ MarkProcessed \/ MarkProcessedFails
            \/ SetExpiry \/ SetExpiryFails
            \/ SendToDlq \/ SendToDlqFails
            \/ Commit \/ CommitFails

Lambda == \/ \E m \in BagToSet(dlq) : DeadLetter(m) \/ \E q \in Partitions : RetryMessage(m, q)
          \/ DeleteMessage

Next == \/ Publisher \/ Consumer \/ Crash \/ Restart
        \/ Lambda \/ NotDeleted
        \/ \E m \in BagToSet(dlq) : MessageExpires(m)

Spec == Init /\ [][Next]_vars

\* The consumer goes on with its record and with the log; EventBridge starts
\* the Lambda every minute.  The consumer's calls may fail for ever, the
\* Lambda's may not: one that fails is no step of Lambda, so WF_vars(Lambda)
\* assumes that they succeed in the end.
FairSpec == Spec /\ WF_vars(Consumer) /\ WF_vars(Lambda)
-----------------------------------------------------------------------------
(* Properties.                                                             *)

\* Every variable keeps its type; the record in hand is in the log, at most one
\* past the committed offset.
TypeOK == /\ stored \in SUBSET Event /\ published \in SUBSET stored
          /\ log \in [Partitions -> Seq(Record)]
          /\ committed \in [Partitions -> Nat]
          /\ \A q \in Partitions : committed[q] <= Len(log[q])
          /\ pc \in PC
          /\ hand \in Place \cup {None}
          /\ hand = None <=> pc \in {"poll", "down"}
          /\ hand # None => /\ hand.offset \in {committed[hand.part], committed[hand.part] + 1}
                            /\ hand.offset <= Len(log[hand.part])
          /\ tries \in 0..MaxTries
          /\ rows \in [Orders -> Row \cup {None}]
          /\ processed \in SUBSET Event
          /\ cache \in [Orders -> Row \cup {None}]
          /\ expiring \in SUBSET Orders
          /\ BagToSet(dlq) \in SUBSET Record
          /\ dead \in SUBSET Event
          /\ deleting \in Record \cup {None}
          /\ diverted \in SUBSET published /\ dropped \in SUBSET diverted

\* The records of order o are in its partition one version after the other.
InSequence(o) ==
  LET es == log[PartitionOf[o]]
  IN \A i \in 1..Len(es) : es[i].event.order = o /\ es[i].event.version > 1 =>
       \E j \in 1..(i - 1) : es[j].event.order = o /\ es[j].event.version = es[i].event.version - 1

\* "EXACTLY-ONCE via enable_auto_commit=False + manual commit after projection"
\* (consumers/main.py), as far as it goes: the row of an order whose events were
\* published in sequence and never left the log for the dead letter queue is
\* what the events up to the committed offset define, or one record further;
\* never behind, never a mix, whatever is delivered or published twice.
FollowsTheLog ==
  \A o \in Orders : InSequence(o) /\ (\A e \in diverted : e.order # o) =>
    LET q == PartitionOf[o]
    IN \E n \in {committed[q], committed[q] + 1} :
         /\ n <= Len(log[q])
         /\ rows[o] = RowOf(EventsIn(RecordsUpTo(q, n), o))

\* A record is accounted for: its event has its processed: key (which an UPDATE
\* that found no row gets, too), is dead-lettered or dropped by SQS, is queued
\* for a retry at least as far on, or is ahead of the consumer.
Pending(r) == \E q \in Partitions : \E i \in (committed[q] + 1)..Len(log[q]) :
                 log[q][i].event = r.event /\ log[q][i].retry >= r.retry
Queued(r)  == \E m \in BagToSet(dlq) : m.event = r.event /\ m.retry >= r.retry
Settled    == processed \cup dead \cup dropped
Accounted(r) == r.event \in Settled \/ Queued(r) \/ Pending(r)

\* "DEAD LETTER QUEUE -- if projection fails after retries, send to SQS DLQ so
\* it's not lost" (consumers/main.py): although offsets are committed past
\* failed records, no consumed record is lost, through crashes between any two
\* steps of the consumer and of the Lambda, except one that SQS did not take or
\* let expire after a day.
NothingLost ==
  \A q \in Partitions : \A r \in RecordsUpTo(q, committed[q]) : Accounted(r)

\* retry_handler.py: an event is given up (moved to S3) only after it was
\* delivered once and then retried MAX_RETRIES times.
DeadOnlyAfterRetries ==
  \A e \in dead : \A n \in 0..MaxRetries : [event |-> e, retry |-> n] \in Produced

\* Every published event is in the end projected or given up, also when
\* PostgreSQL fails again and again.
EventuallySettled ==
  \A o \in Orders, v \in 1..MaxVersion :
    (\E e \in PublishedOf(o) : e.version = v)
      ~> (\E e \in Settled : e.order = o /\ e.version = v)

-----------------------------------------------------------------------------
(* What the repository says of the read side and the code does not do.     *)

\* Nothing is left to do: every record is consumed and no message is queued.
CaughtUp == /\ pc = "poll" /\ dlq = EmptyBag /\ deleting = None
            /\ \A q \in Partitions : committed[q] = Len(log[q])

\* consumers/main.py: "Combined with idempotent upserts (ON CONFLICT DO UPDATE),
\* the net effect is exactly-once": once everything is processed and nothing
\* was given up, the rows are those of the published events.
NetEffectExactlyOnce ==
  CaughtUp /\ dead = {} => \A o \in Orders : rows[o] = RowOf(PublishedOf(o))

\* scripts/test_pruning.py asserts that after a cancelled order has gone through
\* the consumer its events have an expires_at.
TerminalOrdersExpire ==
  CaughtUp /\ dead = {} =>
    \A o \in Orders : (\E e \in PublishedOf(o) : IsTerminal(e)) => o \in expiring
=============================================================================
