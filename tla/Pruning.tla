------------------------------ MODULE Pruning ------------------------------
(***************************************************************************)
(* TTL pruning of the event store, together with the commands that go on   *)
(* loading and appending events meanwhile: WriteSide composed with         *)
(* EventStore.set_expiry_for_aggregate, which the consumer calls for every *)
(* terminal record, and with MongoDB's TTL monitor on idx_event_expiry.    *)
(*                                                                         *)
(* A call of set_expiry gives its events a date, later than the dates of   *)
(* the calls before it; now is the last date that has passed.  A date is   *)
(* 30 days after its call, so a request under way at the call is over.     *)
(* The consumer may call late (a retry through the dead letter queue) or   *)
(* never (it died after the processed: key), but once per record: calling  *)
(* is not tied to the order of the topic.                                  *)
(***************************************************************************)
EXTENDS WriteSide

VARIABLES
  expiry,      \* MongoDB: the date (expires_at) of the events that have one
  calls,       \* how often set_expiry_for_aggregate was called: the last date
  now,         \* the last date that has passed
  since,       \* the last date when each request under way was received
  scheduled,   \* the terminal events for which set_expiry was called
  pruned,      \* history: the events the TTL monitor deleted
  torn         \* history: orders given a second date by an update_many that failed half way

pruning == <<expiry, calls, now, scheduled, pruned, torn>>
pvars   == <<vars, pruning, since>>

PInit == /\ Init
         /\ expiry = <<>> /\ calls = 0 /\ now = 0
         /\ since = [h \in Handlers |-> 0]
         /\ scheduled = {} /\ pruned = {} /\ torn = {}

Recorded       == store \cup pruned
RecordedOf(o)  == {e \in Recorded : e.order = o}

\* A step of the API.  Order ids are UUIDs: that of a pruned order does not come
\* back.
ApiStep ==
  /\ Next
  /\ \A h \in Handlers, e \in pruned :
        pc[h] = "idle" /\ pc'[h] # "idle" /\ event'[h].type = "ORDER_CREATED" =>
          event'[h].order # e.order
  /\ since' = [h \in Handlers |-> IF pc'[h] = "idle" THEN 0
                                  ELSE IF pc[h] = "idle" THEN calls ELSE since[h]]
  /\ UNCHANGED pruning

-----------------------------------------------------------------------------
\* The events evs get the next date.
Date(evs) == /\ calls' = calls + 1
             /\ expiry' = [e \in DOMAIN expiry \cup evs |->
                             IF e \in evs THEN calls + 1 ELSE expiry[e]]

\* Mutant: update_one on the terminal event in place of update_many.
SetExpiryOfOne(e) ==
  /\ Date(EventsOf(e.order) \cap {e})
  /\ UNCHANGED torn

\* update_many({"aggregate_id": ...}, {"$set": {"expires_at": ...}})
SetExpiryForAggregate(e) ==
  /\ Date(EventsOf(e.order))
  /\ UNCHANGED torn

\* update_many fails: it changes the documents one by one, in the order of
\* idx_aggregate_version, and what it has changed stays.
SetExpiryFails(e) ==
  \E v \in 1..MaxVersion :
    LET evs == {f \in EventsOf(e.order) : f.version <= v} IN
    /\ evs # {} /\ evs # EventsOf(e.order)
    /\ Date(evs)
    /\ torn' = IF evs \cap DOMAIN expiry = {} THEN torn ELSE torn \cup {e.order}

\* The consumer processes a terminal record (its processed: key is set first).
ScheduleExpiry(e) ==
  /\ IsTerminal(e) /\ e \notin scheduled
  /\ scheduled' = scheduled \cup {e}
  /\ SetExpiryForAggregate(e) \/ SetExpiryFails(e)
  /\ UNCHANGED <<vars, since, now, pruned>>

\* The next date comes.
RetentionPasses ==
  /\ now < calls
  /\ \A h \in Handlers : pc[h] # "idle" => since[h] > now
  /\ now' = now + 1
  /\ UNCHANGED <<vars, since, expiry, calls, scheduled, pruned, torn>>

\* The TTL monitor deletes an expired document.  It scans the index: earlier
\* dates first, equal dates in the order of insertion.
Expired == {e \in DOMAIN expiry : expiry[e] <= now}

DeleteExpired(e) ==
  /\ e \in Expired
  /\ \A f \in Expired : f.order = e.order =>
       expiry[e] < expiry[f] \/ (expiry[e] = expiry[f] /\ e.version <= f.version)
  /\ store' = store \ {e} /\ pruned' = pruned \cup {e}
  /\ expiry' = [f \in DOMAIN expiry \ {e} |-> expiry[f]]
  /\ UNCHANGED <<topic, idem, charged, requests, replies, since, calls, now, scheduled, torn>>

PNext == \/ ApiStep
         \/ \E e \in Topic : ScheduleExpiry(e)
         \/ RetentionPasses
         \/ \E e \in DOMAIN expiry : DeleteExpired(e)

PSpec == PInit /\ [][PNext]_pvars
-----------------------------------------------------------------------------
(* Properties.  A second update_many that fails half way (torn) gives the  *)
(* first events of an order a later date than its last ones, and the order *)
(* is open again for the time between the two dates.                       *)

\* Pruning an order event by event, while requests load it, never changes what
\* they see of it: the aggregate rebuilt from the documents that are left has
\* the version and the status of the whole recorded history.
StateSurvivesPruning ==
  \A o \in Orders \ torn : EventsOf(o) # {} =>
    /\ Rebuild(EventsOf(o)).version = Rebuild(RecordedOf(o)).version
    /\ Rebuild(EventsOf(o)).status = Rebuild(RecordedOf(o)).status

\* The optimistic lock and the business rules also hold across deletions: no
\* version is given out again although its document is gone from the unique
\* index, and every event was allowed by all events ever recorded before it.
HistorySurvivesPruning ==
  \A o \in Orders \ torn : \A e \in RecordedOf(o) :
    LET before == {f \in RecordedOf(o) : f.version < e.version} IN
    /\ ~(e \in store /\ e \in pruned)
    /\ \A f \in RecordedOf(o) : f.version = e.version => f = e
    /\ IF e.version = 1 THEN e.type = "ORDER_CREATED"
                        ELSE before # {} /\ Allowed(Rebuild(before), e.type)
=============================================================================
