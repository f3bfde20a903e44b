----------------------------- MODULE QuerySide -----------------------------
(***************************************************************************)
(* The query side, api/routers/query_router.py, on top of Projection.      *)
(*                                                                         *)
(* get_order is cache-aside: Redis, then PostgreSQL, then the result is    *)
(* written to Redis.  The API and the consumer share nothing but the two   *)
(* stores, so the consumer may project and invalidate between any two      *)
(* awaits of a reader.  A reader is idle, between its cache miss and its   *)
(* SELECT (one statement, hence one snapshot), or between the SELECT and   *)
(* the setex.  list_orders, get_stats and get_order_events only read.      *)
(***************************************************************************)
EXTENDS Projection

CONSTANT Readers   \* concurrent get_order requests

VARIABLES
  reader,   \* what each request holds, or None
  raced     \* history: orders whose cached view was outdated when it was written

Missed == [order : Orders, row : {None}]
Loaded == [order : Orders, row : Row]

qvars == <<vars, reader, raced>>

QInit == Init /\ reader = [r \in Readers |-> None] /\ raced = {}

\* redis.get(cache_key) finds nothing.  A hit is answered and changes nothing.
CacheMiss(r, o) ==
  /\ reader[r] = None /\ cache[o] = None
  /\ reader' = [reader EXCEPT ![r] = [order |-> o, row |-> None]]
  /\ UNCHANGED <<vars, raced>>

\* pg.fetchrow finds the order.
SelectRow(r) ==
  /\ reader[r] \in Missed /\ rows[reader[r].order] # None
  /\ reader' = [reader EXCEPT ![r].row = rows[reader[r].order]]
  /\ UNCHANGED <<vars, raced>>

\* No such row: 404.  A failed SELECT ends the request in the same way.
NotFound(r) ==
  /\ reader[r] \in Missed
  /\ rows[reader[r].order] = None \/ "postgres" \in Faults
  /\ reader' = [reader EXCEPT ![r] = None]
  /\ UNCHANGED <<vars, raced>>

\* redis.setex(cache_key, ttl, result)
FillCache(r) ==
  LET o == reader[r].order IN
  /\ cache' = [cache EXCEPT ![o] = reader[r].row]
  /\ raced' = IF reader[r].row = rows[o] THEN raced \ {o} ELSE raced \cup {o}
  /\ UNCHANGED <<feed, log, committed, consumer, rows, processed, expiring, retrying, history>>

Fill(r) ==
  /\ reader[r] \in Loaded
  /\ FillCache(r)
  /\ reader' = [reader EXCEPT ![r] = None]

FillFails(r) ==   \* the error ends the request; the key may be set all the same
  /\ reader[r] \in Loaded /\ "redis" \in Faults
  /\ FillCache(r) \/ UNCHANGED <<vars, raced>>
  /\ reader' = [reader EXCEPT ![r] = None]

\* Mutant: the view is cached without a TTL.
CacheStays(o) ==
  /\ cache[o] # None /\ cache[o] = rows[o]
  /\ UNCHANGED <<qvars>>

\* redis_cache_ttl seconds after the setex.
CacheExpires(o) ==
  /\ cache[o] # None
  /\ cache' = [cache EXCEPT ![o] = None] /\ raced' = raced \ {o}
  /\ UNCHANGED <<feed, log, committed, consumer, rows, processed, expiring, retrying, history, reader>>

\* The read side goes on; a view it invalidates is gone.
ReadSideStep == /\ Next
                /\ raced' = {o \in raced : cache'[o] # None}
                /\ UNCHANGED reader

GetOrder(r) == SelectRow(r) \/ NotFound(r) \/ Fill(r) \/ FillFails(r)

QNext == \/ ReadSideStep
         \/ \E r \in Readers : GetOrder(r) \/ \E o \in Orders : CacheMiss(r, o)
         \/ \E o \in Orders : CacheExpires(o)

QSpec == QInit /\ [][QNext]_qvars

\* In addition to the fairness of the read side: requests under way end, and
\* Redis keeps to the TTL.
QFairSpec == /\ QSpec
             /\ WF_qvars(Consumer /\ ReadSideStep) /\ WF_qvars(Lambda /\ ReadSideStep)
             /\ \A r \in Readers : WF_qvars(GetOrder(r))
             /\ \A o \in Orders : WF_qvars(CacheExpires(o))
-----------------------------------------------------------------------------
(* Properties.                                                             *)

\* When Redis may serve something else than PostgreSQL has ("invalidate on every
\* event", consumers/main.py): only while the event that the row shows is
\* not processed (the consumer is about to invalidate, or failed and the event
\* comes again), or because a reader overtook an invalidation between its
\* SELECT and its setex.  No crash, retry, duplicate or reordering leaves any
\* other outdated view behind.
OutdatedOnlyWhen(o) ==
  \/ o \in raced
  \/ \E e \in PublishedOf(o) \ processed : e.version = rows[o].version

CacheFollowsRows ==
  \A o \in Orders : cache[o] \notin {None, rows[o]} => OutdatedOnlyWhen(o)

\* "The read model is eventually consistent" (query_router.py): once clients
\* stop sending commands, what get_order answers ends up, for good, as what the
\* published events define, unless an event was diverted to the dead letter
\* queue or published out of sequence; the cache and the table agree even then.
ViewIsCurrent(o) ==
  /\ cache[o] \in {None, rows[o]}
  /\ InSequence(o) /\ (\A e \in diverted : e.order # o) => rows[o] = RowOf(PublishedOf(o))

EventuallyConsistent == \A o \in Orders : <>[]ViewIsCurrent(o)
=============================================================================
