----------------------------- MODULE WriteSide -----------------------------
(***************************************************************************)
(* The command side: the handlers of api/routers/command_router.py with    *)
(* the services they await (event store, payment gateway, publisher).      *)
(*                                                                         *)
(* FastAPI runs any number of requests concurrently; a handler can be      *)
(* interleaved with others at every await.  pc says which await a request  *)
(* is at:                                                                  *)
(*   idle -> [charge ->] append -> check -> send -> mark [-> remember]     *)
(*                                                    -> answered -> idle  *)
(* check, send and mark are the three awaits of KafkaEventPublisher.publish*)
(* and one failure among them repeats publish, at most MaxAttempts times.  *)
(* A request that is refused (404, a failed business rule) changes nothing *)
(* and is not a step.                                                      *)
(*                                                                         *)
(* MongoDB, Kafka, Redis and the gateway keep their state across a crash   *)
(* of the API; a call to one of them that fails may or may not have had    *)
(* its effect.  The 24 hour TTL of the Redis keys is not modelled: it is   *)
(* longer than any request and is the documented scope of idempotency.     *)
(***************************************************************************)
EXTENDS OrderAggregate, Sequences

CONSTANTS Handlers,           \* concurrent requests
          Keys,               \* client idempotency keys
          Products,           \* the payloads of add_item
          PaymentIds,         \* the payloads of process_payment
          TrackingIds,        \* the payloads of ship_order
          DeclinedPayments,   \* payment ids the gateway refuses ("fail_...")
          MaxAttempts,        \* publish attempts (3 in the code)
          MaxVersion          \* bound: events per order

ASSUME WriteSideAssumption ==
  /\ None \notin Keys
  /\ Products \subseteq Payloads /\ PaymentIds \subseteq Payloads
  /\ TrackingIds \subseteq Payloads
  /\ DeclinedPayments \subseteq PaymentIds
  /\ MaxAttempts \in Nat \ {0}
  /\ MaxVersion \in Nat

VARIABLES
  store,      \* MongoDB collection of events
  topic,      \* Kafka: the records of each order, in partition order
  idem,       \* Redis idem:create:{key} -> order_id
  charged,    \* gateway: payments that went through
  pc,         \* where each request is
  event,      \* the event it built, or None
  key,        \* the idempotency key of a create_order, or None
  attempt,    \* the publish attempt under way, 0 outside publish
  marked,     \* whether Redis has published:{event_id} for its event
  replies     \* history: the order ids create_order answered to each key

services == <<store, topic, idem, charged>>
requests == <<pc, event, key, attempt, marked>>
vars     == <<services, requests, replies>>

PC == {"idle", "charge", "append", "check", "send", "mark", "remember",
       "answered"}

Init == /\ store = {}
        /\ topic = [o \in Orders |-> <<>>]
        /\ idem = [k \in Keys |-> None]
        /\ charged = {}
        /\ pc = [h \in Handlers |-> "idle"]
        /\ event = [h \in Handlers |-> None]
        /\ key = [h \in Handlers |-> None]
        /\ attempt = [h \in Handlers |-> 0]
        /\ marked = [h \in Handlers |-> FALSE]
        /\ replies = {}

-----------------------------------------------------------------------------
\* get_events: the stored events of an order.
EventsOf(o) == {e \in store : e.order = o}

InTopic(e) == \E i \in 1..Len(topic[e.order]) : topic[e.order][i] = e

\* The request is over, with an answer or with an error.  Its published: key
\* stays in Redis until its TTL, but event ids are never reused: nobody reads
\* it again.
Finish(h) == /\ pc' = [pc EXCEPT ![h] = "idle"]
             /\ event' = [event EXCEPT ![h] = None]
             /\ key' = [key EXCEPT ![h] = None]
             /\ attempt' = [attempt EXCEPT ![h] = 0]
             /\ marked' = [marked EXCEPT ![h] = FALSE]

Goto(h, l) == pc' = [pc EXCEPT ![h] = l]

\* str(uuid4()): an order id nobody has used.
Fresh(o) == /\ EventsOf(o) = {}
            /\ \A h \in Handlers : event[h] # None => event[h].order # o

-----------------------------------------------------------------------------
(* The endpoints, up to their first await that changes state.              *)

\* Mutant: the key is stored before the order exists.
CreateOrderKeyFirst(h, k, o) ==
  /\ pc[h] = "idle" /\ idem[k] = None /\ Fresh(o) /\ MaxVersion >= 1
  /\ event' = [event EXCEPT ![h] = MakeEvent(o, 1, "ORDER_CREATED", None)]
  /\ key' = [key EXCEPT ![h] = k]
  /\ idem' = [idem EXCEPT ![k] = o]
  /\ Goto(h, "append")
  /\ UNCHANGED <<store, topic, charged, attempt, marked, replies>>

\* create_order with a key that Redis does not know: a new order.
CreateOrder(h, k, o) ==
  /\ pc[h] = "idle" /\ idem[k] = None /\ Fresh(o) /\ MaxVersion >= 1
  /\ event' = [event EXCEPT ![h] = MakeEvent(o, 1, "ORDER_CREATED", None)]
  /\ key' = [key EXCEPT ![h] = k]
  /\ Goto(h, "append")
  /\ UNCHANGED <<services, attempt, marked, replies>>

\* create_order with a known key: the same order id is answered again, after
\* get_latest_version read the version that goes into the answer.  Both calls
\* only read; when one fails there is no answer and nothing has changed.
CreateOrderAgain(k) ==
  /\ idem[k] # None
  /\ replies' = replies \cup {[key |-> k, order |-> idem[k]]}
  /\ UNCHANGED <<services, requests>>

\* _load_aggregate, the business rule and the event factory; the request goes
\* on at l.  The version is fixed here, from the events loaded here.
Command(h, o, t, p, l) ==
  LET agg == Rebuild(EventsOf(o)) IN
  /\ pc[h] = "idle" /\ EventsOf(o) # {}
  /\ Allowed(agg, t)
  /\ agg.version < MaxVersion
  /\ event' = [event EXCEPT ![h] = MakeEvent(o, agg.version + 1, t, p)]
  /\ Goto(h, l)
  /\ UNCHANGED <<services, key, attempt, marked, replies>>

AddItem(h, o, p)        == Command(h, o, "ORDER_ITEM_ADDED", p, "append")
ConfirmOrder(h, o)      == Command(h, o, "ORDER_CONFIRMED", None, "append")
ProcessPayment(h, o, p) == Command(h, o, "ORDER_PAYMENT_PROCESSED", p, "charge")
ShipOrder(h, o, p)      == Command(h, o, "ORDER_SHIPPED", p, "append")
CancelOrder(h, o)       == Command(h, o, "ORDER_CANCELLED", None, "append")

-----------------------------------------------------------------------------
(* PaymentGateway.charge, awaited before anything is recorded.             *)

Charge(h) ==
  /\ pc[h] = "charge"
  /\ event[h].payload \notin DeclinedPayments
  /\ charged' = charged \cup {[order |-> event[h].order, payment |-> event[h].payload]}
  /\ Goto(h, "append")
  /\ UNCHANGED <<store, topic, idem, event, key, attempt, marked, replies>>

\* Mutant: a declined payment goes on to be recorded.
ChargeIgnored(h) ==
  /\ pc[h] = "charge"
  /\ event[h].payload \in DeclinedPayments
  /\ Goto(h, "append")
  /\ UNCHANGED <<services, event, key, attempt, marked, replies>>

ChargeDeclined(h) ==   \* 402, no event
  /\ pc[h] = "charge"
  /\ event[h].payload \in DeclinedPayments
  /\ Finish(h)
  /\ UNCHANGED <<services, replies>>

-----------------------------------------------------------------------------
(* EventStore.append: insert_one under the unique index on                 *)
(* (aggregate_id, aggregate_version).                                      *)

\* Mutant: the index is not unique.
VersionAlwaysFree(e) == e.version > 0

VersionFree(e) == \A f \in store : f.order = e.order => f.version # e.version

\* Mutant: the store assigns the next version at the insert instead of taking
\* the one that was fixed when the aggregate was loaded.
AppendAtLatest(h) ==
  LET n == Latest(EventsOf(event[h].order)).version + 1
      e == IF EventsOf(event[h].order) = {} THEN event[h]
                                            ELSE [event[h] EXCEPT !.version = n]
  IN /\ pc[h] = "append" /\ e.version <= MaxVersion
     /\ store' = store \cup {e}
     /\ event' = [event EXCEPT ![h] = e]
     /\ attempt' = [attempt EXCEPT ![h] = 1]
     /\ Goto(h, "check")
     /\ UNCHANGED <<topic, idem, charged, key, marked, replies>>

AppendEvent(h) ==
  /\ pc[h] = "append" /\ VersionFree(event[h])
  /\ store' = store \cup {event[h]}
  /\ attempt' = [attempt EXCEPT ![h] = 1]
  /\ Goto(h, "check")
  /\ UNCHANGED <<topic, idem, charged, event, key, marked, replies>>

\* Mutant: the duplicate key error is logged and swallowed.
ConflictSwallowed(h) ==
  /\ pc[h] = "append" /\ ~VersionFree(event[h])
  /\ attempt' = [attempt EXCEPT ![h] = 1]
  /\ Goto(h, "check")
  /\ UNCHANGED <<services, event, key, marked, replies>>

VersionConflict(h) ==   \* duplicate key -> ValueError
  /\ pc[h] = "append" /\ ~VersionFree(event[h])
  /\ Finish(h)
  /\ UNCHANGED <<services, replies>>

AppendFails(h) ==   \* any other error is re-raised; the insert may have happened
  /\ pc[h] = "append"
  /\ \/ UNCHANGED store
     \/ VersionFree(event[h]) /\ store' = store \cup {event[h]}
  /\ Finish(h)
  /\ UNCHANGED <<topic, idem, charged, replies>>

-----------------------------------------------------------------------------
(* KafkaEventPublisher.publish.                                            *)

\* Mutant: the attempt under way is not counted.
RetryOnceTooOften(h, m) ==
  \/ /\ attempt[h] <= MaxAttempts
     /\ attempt' = [attempt EXCEPT ![h] = @ + 1]
     /\ marked' = [marked EXCEPT ![h] = m]
     /\ Goto(h, "check")
     /\ UNCHANGED <<event, key>>
  \/ /\ attempt[h] > MaxAttempts
     /\ Finish(h)

\* Mutant: @retry without a stop condition.
RetryForever(h, m) ==
  /\ marked' = [marked EXCEPT ![h] = m]
  /\ Goto(h, "check")
  /\ UNCHANGED <<event, key, attempt>>

\* @retry(stop=stop_after_attempt(3)): any exception starts publish again;
\* the last one becomes a RetryError and the request fails.
RetryPublish(h, m) ==
  \/ /\ attempt[h] < MaxAttempts
     /\ attempt' = [attempt EXCEPT ![h] = @ + 1]
     /\ marked' = [marked EXCEPT ![h] = m]
     /\ Goto(h, "check")
     /\ UNCHANGED <<event, key>>
  \/ /\ attempt[h] = MaxAttempts
     /\ Finish(h)

\* publish returned: create_order goes on to store its idempotency key, the
\* other commands answer.
PublishReturns(h) == /\ Goto(h, IF key[h] # None THEN "remember" ELSE "answered")
                     /\ UNCHANGED <<event, key, attempt>>

\* Mutant: published: is set before the send, as the header of the file says.
MarkBeforeSend(h) ==
  /\ pc[h] = "check" /\ ~marked[h]
  /\ marked' = [marked EXCEPT ![h] = TRUE]
  /\ Goto(h, "send")
  /\ UNCHANGED <<services, event, key, attempt, replies>>

CheckPublished(h) ==
  /\ pc[h] = "check" /\ ~marked[h]
  /\ Goto(h, "send")
  /\ UNCHANGED <<services, event, key, attempt, marked, replies>>

SkipPublished(h) ==
  /\ pc[h] = "check" /\ marked[h]
  /\ PublishReturns(h)
  /\ UNCHANGED <<services, marked, replies>>

CheckFails(h) ==
  /\ pc[h] = "check"
  /\ RetryPublish(h, marked[h])
  /\ UNCHANGED <<services, replies>>

Produce(e) == topic' = [topic EXCEPT ![e.order] = Append(@, e)]

Send(h) ==
  /\ pc[h] = "send"
  /\ Produce(event[h])
  /\ Goto(h, "mark")
  /\ UNCHANGED <<store, idem, charged, event, key, attempt, marked, replies>>

SendFails(h) ==   \* KafkaError; the record may be in the log all the same
  /\ pc[h] = "send"
  /\ UNCHANGED topic \/ Produce(event[h])
  /\ RetryPublish(h, marked[h])
  /\ UNCHANGED <<store, idem, charged, replies>>

MarkPublished(h) ==
  /\ pc[h] = "mark"
  /\ marked' = [marked EXCEPT ![h] = TRUE]
  /\ PublishReturns(h)
  /\ UNCHANGED <<services, replies>>

MarkFails(h) ==   \* the key may be set all the same
  /\ pc[h] = "mark"
  /\ \E m \in BOOLEAN : RetryPublish(h, m)
  /\ UNCHANGED <<services, replies>>

-----------------------------------------------------------------------------
(* The last await of create_order.                                         *)

SetKey(h) == idem' = [idem EXCEPT ![key[h]] = event[h].order]

RememberKey(h) ==
  /\ pc[h] = "remember"
  /\ SetKey(h)
  /\ replies' = replies \cup {[key |-> key[h], order |-> event[h].order]}
  /\ Goto(h, "answered")
  /\ UNCHANGED <<store, topic, charged, event, key, attempt, marked>>

RememberFails(h) ==
  /\ pc[h] = "remember"
  /\ UNCHANGED idem \/ SetKey(h)
  /\ Finish(h)
  /\ UNCHANGED <<store, topic, charged, replies>>

\* return CommandResponse(...)
Answer(h) ==
  /\ pc[h] = "answered"
  /\ Finish(h)
  /\ UNCHANGED <<services, replies>>

-----------------------------------------------------------------------------
\* The API process dies and restarts: every request under way is gone.
Crash ==
  /\ \E h \in Handlers : pc[h] # "idle"
  /\ pc' = [h \in Handlers |-> "idle"]
  /\ event' = [h \in Handlers |-> None]
  /\ key' = [h \in Handlers |-> None]
  /\ attempt' = [h \in Handlers |-> 0]
  /\ marked' = [h \in Handlers |-> FALSE]
  /\ UNCHANGED <<services, replies>>

\* A new request; clients send what and when they like.
Arrive(h) ==
  \/ \E k \in Keys, o \in Orders : CreateOrder(h, k, o)
  \/ \E o \in Orders : ConfirmOrder(h, o) \/ CancelOrder(h, o)
  \/ \E o \in Orders : \/ \E p \in Products : AddItem(h, o, p)
                       \/ \E p \in PaymentIds : ProcessPayment(h, o, p)
                       \/ \E p \in TrackingIds : ShipOrder(h, o, p)

\* A request under way goes on.
Continue(h) ==
  \/ Charge(h) \/ ChargeDeclined(h)
  \/ AppendEvent(h) \/ VersionConflict(h) \/ AppendFails(h)
  \/ CheckPublished(h) \/ SkipPublished(h) \/ CheckFails(h)
  \/ Send(h) \/ SendFails(h)
  \/ MarkPublished(h) \/ MarkFails(h)
  \/ RememberKey(h) \/ RememberFails(h)
  \/ Answer(h)

Next == \/ \E h \in Handlers : Arrive(h) \/ Continue(h)
        \/ \E k \in Keys : CreateOrderAgain(k)
        \/ Crash

Spec == Init /\ [][Next]_vars

\* The event loop resumes every request whose await is over.  That every await
\* ends, with a result or an error, is assumed of the services and the network:
\* the Redis and MongoDB clients are used without a socket timeout.
FairSpec == Spec /\ \A h \in Handlers : WF_vars(Continue(h))
-----------------------------------------------------------------------------
(* Properties.                                                             *)

\* Every variable keeps its type; no publish goes past its last attempt.
TypeOK == /\ store \in SUBSET Event
          /\ topic \in [Orders -> Seq(Event)]
          /\ idem \in [Keys -> Orders \cup {None}]
          /\ charged \in SUBSET [order : Orders, payment : Payloads]
          /\ pc \in [Handlers -> PC]
          /\ event \in [Handlers -> Event \cup {None}]
          /\ key \in [Handlers -> Keys \cup {None}]
          /\ attempt \in [Handlers -> 0..MaxAttempts]
          /\ marked \in [Handlers -> BOOLEAN]
          /\ replies \in SUBSET [key : Keys, order : Orders]

\* Optimistic concurrency (event_store.py append, aggregate.py header): however
\* the commands of an order overlap, fail or crash, its stored events have the
\* versions 1, 2, ..., n, each exactly once.  No update is lost or overwritten
\* and none is recorded past a hole.
VersionsAreContiguous ==
  \A e \in store :
    /\ \A f \in store : f.order = e.order /\ f.version = e.version => f = e
    /\ \A v \in 1..e.version : \E f \in store : f.order = e.order /\ f.version = v

\* The events of e's order that come before e.
Before(e) == {f \in store : f.order = e.order /\ f.version < e.version}

\* The business rules hold on the recorded history, not only on the aggregate
\* a handler happened to load: each stored event was allowed in the state its
\* predecessors rebuild (nothing after shipping, no payment of a cancelled
\* order, no item after confirmation), although the rule was checked some
\* awaits before the event was appended.
LegalHistory ==
  \A e \in store : IF Before(e) = {} THEN e.type = "ORDER_CREATED"
                                     ELSE Allowed(Rebuild(Before(e)), e.type)

\* A command answered with success is durable on both sides of the double
\* write: its event is in MongoDB and in Kafka, whatever combination of
\* failed attempts, the published: key and retries led to the answer.
AnsweredIsDurable ==
  \A h \in Handlers : pc[h] = "answered" => event[h] \in store /\ InTopic(event[h])

\* No consumer ever sees an event that lost the version race or was never
\* recorded: a record in Kafka is a stored event.
OnlyStoredIsPublished ==
  \A o \in Orders : \A i \in 1..Len(topic[o]) : topic[o][i] \in store

\* process_payment: an order is recorded as paid only with a payment the
\* gateway has taken ("nothing until we hear back").
PaidOnlyIfCharged ==
  \A e \in store : e.type = "ORDER_PAYMENT_PROCESSED" =>
                     [order |-> e.order, payment |-> e.payload] \in charged

\* create_order: an order id that an idempotency key can be answered with is a
\* complete order, recorded and published, even after crashes and overlaps.
KeyNamesPublishedOrder ==
  \A k \in Keys : idem[k] # None =>
     \E e \in store : e.order = idem[k] /\ e.type = "ORDER_CREATED" /\ InTopic(e)

\* What makes the properties above inductive: what each request in flight
\* relies on.  Until it is appended, an event is the legal successor of the
\* events before it, although other requests go on appending (Appendable);
\* after that it is stored; from mark on, and whenever Redis has its
\* published: key, it is in the topic.
Appendable(e) ==
  IF e.version = 1
    THEN e.type = "ORDER_CREATED"
    ELSE /\ \E f \in store : f.order = e.order /\ f.version = e.version - 1
         /\ Allowed(Rebuild(Before(e)), e.type)

RequestOK(h) ==
  /\ pc[h] = "idle" <=> event[h] = None
  /\ pc[h] = "idle" => key[h] = None /\ ~marked[h]
  /\ pc[h] # "idle" => /\ event[h].version <= MaxVersion
                       /\ event[h].payload \in PayloadOf(event[h].type)
  /\ pc[h] = "charge" => event[h].type = "ORDER_PAYMENT_PROCESSED"
  /\ pc[h] = "append" /\ event[h].type = "ORDER_PAYMENT_PROCESSED" =>
       [order |-> event[h].order, payment |-> event[h].payload] \in charged
  /\ pc[h] \in {"charge", "append"} => Appendable(event[h]) /\ ~marked[h]
  /\ pc[h] \in {"check", "send", "mark", "remember", "answered"} => event[h] \in store
  /\ pc[h] \in {"mark", "remember", "answered"} \/ marked[h] => InTopic(event[h])
  /\ key[h] # None => event[h].type = "ORDER_CREATED"
  /\ pc[h] = "remember" => key[h] # None

RequestsOK ==
  /\ \A e \in store : e.version <= MaxVersion
  /\ \A h \in Handlers : RequestOK(h)

\* Every request is eventually over: the publish retries are bounded and no
\* handler waits for another.
RequestsFinish == \A h \in Handlers : pc[h] # "idle" ~> pc[h] = "idle"

\* The write side implements the sequential life cycle: every step that
\* changes the state rebuilt from the store is one accepted command.
AbsVersion  == [o \in Orders |-> IF EventsOf(o) = {} THEN 0 ELSE Rebuild(EventsOf(o)).version]
AbsStatus   == [o \in Orders |-> IF EventsOf(o) = {} THEN "NONE" ELSE Rebuild(EventsOf(o)).status]
AbsHasItems == [o \in Orders |-> Items(EventsOf(o)) # {}]

Lifecycle == INSTANCE OrderLifecycle
               WITH version <- AbsVersion, status <- AbsStatus, hasItems <- AbsHasItems

ImplementsLifecycle == Lifecycle!Spec

\* The write side keeps the contract its consumers rely on: every step that
\* changes MongoDB or the topic records the next legal event of one order, or
\* publishes an event that is recorded.
Topic == UNION {{topic[o][i] : i \in 1..Len(topic[o])} : o \in Orders}
Feed  == INSTANCE EventFeed WITH stored <- store, published <- Topic

ImplementsFeed == Feed!FeedSpec

-----------------------------------------------------------------------------
(* What the repository says of the write side and the code does not do.    *)

\* command_router.py, create_order: "Same key from client = same order_id
\* returned, no duplicate."
SameKeySameOrder == \A r, s \in replies : r.key = s.key => r.order = s.order

\* Event e records the payment c.
Pays(e, c) == /\ e.type = "ORDER_PAYMENT_PROCESSED"
              /\ e.order = c.order /\ e.payload = c.payment

\* aggregate.py: "The one that goes second will get a version conflict and must
\* retry.  No distributed locks needed.": a payment that was taken is recorded,
\* is about to be, or process_payment can be retried for it.
ChargeCanBeRecorded ==
  \A c \in charged :
    \/ \E e \in store : Pays(e, c)
    \/ \E h \in Handlers : pc[h] = "append" /\ Pays(event[h], c)
    \/ CanPay(Rebuild(EventsOf(c.order)))
=============================================================================
