-------------------------- MODULE ProjectionProofs --------------------------
(***************************************************************************)
(* The read side loses nothing, for any number of orders, partitions,      *)
(* attempts and retries and any set of faults.                             *)
(*                                                                         *)
(* NothingLost is not inductive: the Lambda deletes a message some steps   *)
(* after it dealt with it, and the consumer commits an offset some steps   *)
(* after it sent the record to the queue.  Both rest on one fact,          *)
(* PassedOn: what they let go of is settled, or was published again with a *)
(* higher retry count.  That a message has such a count to go up to is     *)
(* Ladder.                                                                 *)
(***************************************************************************)
EXTENDS Projection, AggregateLemmas

\* What the write side records, and what the types of Projection need of it.
FeedOK == /\ \A e \in stored : /\ e.version <= MaxVersion
                               /\ e.payload \in PayloadOf(e.type)
                               /\ e.version = 1 <=> e.type = "ORDER_CREATED"
          /\ \A e, f \in stored : e.order = f.order /\ e.version = f.version => e = f

\* Only published events are in the log, each with all lower retry counts.
Ladder == \A r \in Produced :
            /\ r.event \in published
            /\ \A n \in 0..r.retry : [event |-> r.event, retry |-> n] \in Produced

\* Messages are records of the log, sent after their event was projected or
\* instead of that.
QueueOK == /\ IsABag(dlq)
           /\ BagToSet(dlq) \subseteq Produced
           /\ \A m \in BagToSet(dlq) : m.event \in processed \cup diverted
           /\ deleting # None => deleting \in Produced

\* Record r need not be kept: its event is settled, or further on.
PassedOn(r) == \/ r.event \in Settled
               \/ \E p \in Produced : p.event = r.event /\ p.retry > r.retry

Dealt == deleting # None => PassedOn(deleting)

\* What the consumer knows of the record in hand at each await.
HandOK == /\ pc \in {"project", "invalidate", "setex"} => E \notin processed
          /\ pc \in {"skip", "expire", "commit"} => E \in processed
          /\ pc = "commitdlq" => /\ PassedOn(Current) \/ Queued(Current)
                                 /\ E \in processed \cup diverted
          /\ hand # None /\ (pc \notin {"dlq", "commitdlq"} \/ E \notin processed \cup diverted) =>
               hand.offset = committed[hand.part] + 1

Inv == /\ TypeOK /\ FeedOK /\ Ladder /\ QueueOK /\ Dealt /\ HandOK
       /\ DeadOnlyAfterRetries /\ NothingLost

-----------------------------------------------------------------------------
(* Bags and the log.                                                       *)

\* send_message adds a copy, whatever is in the queue.
LEMMA BagAdd ==
  ASSUME NEW B, IsABag(B), NEW x
  PROVE  /\ IsABag(B (+) SetToBag({x}))
         /\ BagToSet(B (+) SetToBag({x})) = BagToSet(B) \cup {x}
<1> DEFINE C == B (+) SetToBag({x})
<1>1. C = [e \in BagToSet(B) \cup {x} |->
             (IF e \in BagToSet(B) THEN B[e] ELSE 0) + (IF e = x THEN 1 ELSE 0)]
  BY DEF (+), SetToBag, BagToSet
<1>2. \A e \in BagToSet(B) : B[e] \in Nat /\ B[e] > 0
  BY DEF IsABag, BagToSet
<1> QED  BY <1>1, <1>2 DEF IsABag, BagToSet

\* delete_message, like the retention period, takes at most one message away.
LEMMA BagRemove ==
  ASSUME NEW B, IsABag(B), NEW x
  PROVE  /\ IsABag(B (-) SetToBag({x}))
         /\ BagToSet(B (-) SetToBag({x})) \subseteq BagToSet(B)
         /\ BagToSet(B) \ {x} \subseteq BagToSet(B (-) SetToBag({x}))
<1> DEFINE n(e) == IF e = x THEN B[e] - 1 ELSE B[e]
           D == {d \in BagToSet(B) : n(d) > 0}
<1>1. B (-) SetToBag({x}) = [e \in D |-> n(e)]
  BY DEF (-), SetToBag, BagToSet
<1>2. \A e \in BagToSet(B) : B[e] \in Nat /\ B[e] > 0
  BY DEF IsABag, BagToSet
<1>3. \A e \in D : n(e) \in Nat /\ n(e) > 0
  BY <1>2
<1>4. D \subseteq BagToSet(B) /\ BagToSet(B) \ {x} \subseteq D
  BY <1>2
<1> HIDE DEF D, n
<1> QED  BY <1>1, <1>3, <1>4 DEF IsABag, BagToSet

\* A record is in the log iff it is at some place of it.
LEMMA ProducedAt ==
  ASSUME NEW r
  PROVE  r \in Produced <=> \E q \in Partitions : \E i \in 1..Len(log[q]) : log[q][i] = r
BY DEF Produced, RecordsUpTo

\* A send appends one record to one partition.
LEMMA ProduceAppends ==
  ASSUME log \in [Partitions -> Seq(Record)], NEW q \in Partitions, NEW r \in Record,
         Produce(q, r)
  PROVE  /\ log' \in [Partitions -> Seq(Record)]
         /\ Len(log'[q]) = Len(log[q]) + 1 /\ log'[q][Len(log[q]) + 1] = r
         /\ \A p \in Partitions : /\ Len(log'[p]) >= Len(log[p])
                                  /\ p # q => log'[p] = log[p]
                                  /\ \A i \in 1..Len(log[p]) : log'[p][i] = log[p][i]
         /\ Produced' = Produced \cup {r}
<1>1. log' = [log EXCEPT ![q] = Append(@, r)]
  BY DEF Produce
<1>2. log[q] \in Seq(Record) /\ Len(log[q]) \in Nat
  OBVIOUS
<1>3. log'[q] = Append(log[q], r) /\ \A p \in Partitions : p # q => log'[p] = log[p]
  BY <1>1
<1>4. /\ Append(log[q], r) \in Seq(Record) /\ Len(Append(log[q], r)) = Len(log[q]) + 1
      /\ Append(log[q], r)[Len(log[q]) + 1] = r
      /\ \A i \in 1..Len(log[q]) : Append(log[q], r)[i] = log[q][i]
  BY <1>2
<1>5. log' \in [Partitions -> Seq(Record)]
  BY <1>1, <1>4
<1>6. \A p \in Partitions : Len(log[p]) \in Nat
  OBVIOUS
<1>7. \A p \in Partitions : /\ Len(log'[p]) >= Len(log[p])
                            /\ \A i \in 1..Len(log[p]) : log'[p][i] = log[p][i]
  <2> SUFFICES ASSUME NEW p \in Partitions
               PROVE  /\ Len(log'[p]) >= Len(log[p])
                      /\ \A i \in 1..Len(log[p]) : log'[p][i] = log[p][i]
    OBVIOUS
  <2>1. CASE p = q   BY <2>1, <1>2, <1>3, <1>4
  <2>2. CASE p # q   BY <2>2, <1>3, <1>6
  <2> QED  BY <2>1, <2>2
<1>8. Produced' = Produced \cup {r}
  <2>1. ASSUME NEW x \in Produced' PROVE x \in Produced \cup {r}
    <3>1. PICK p \in Partitions, i \in Nat : i \in 1..Len(log'[p]) /\ log'[p][i] = x
      BY <2>1 DEF Produced, RecordsUpTo
    <3>2. CASE p = q /\ i = Len(log[q]) + 1
      BY <3>1, <3>2, <1>3, <1>4
    <3>3. CASE ~(p = q /\ i = Len(log[q]) + 1)
      <4>1. i \in 1..Len(log[p])
        BY <3>1, <3>3, <1>2, <1>3, <1>4, <1>6
      <4> QED  BY <3>1, <4>1, <1>7, ProducedAt
    <3> QED  BY <3>2, <3>3
  <2>2. ASSUME NEW x \in Produced PROVE x \in Produced'
    <3>1. PICK p \in Partitions, i \in Nat : i \in 1..Len(log[p]) /\ log[p][i] = x
      BY ProducedAt, <2>2
    <3>2. i \in 1..Len(log'[p]) /\ log'[p][i] = x
      BY <3>1, <1>7, <1>6, <1>5
    <3> QED  BY <3>2 DEF Produced, RecordsUpTo
  <2>3. r \in Produced'
    <3>1. Len(log[q]) + 1 \in 1..Len(log'[q]) /\ log'[q][Len(log[q]) + 1] = r
      BY <1>2, <1>3, <1>4
    <3> QED  BY <3>1 DEF Produced, RecordsUpTo
  <2> QED  BY <2>1, <2>2, <2>3
<1> QED  BY <1>3, <1>4, <1>5, <1>7, <1>8

-----------------------------------------------------------------------------
(* What a step can do to each variable, whichever action it is.            *)

NextTry(m) == [m EXCEPT !.retry = @ + 1]

Records(e)   == /\ \E o \in Orders, t \in EventType, p \in Payloads \cup {None} :
                     /\ NextVersion(StoredOf(o)) <= MaxVersion
                     /\ MayFollow(StoredOf(o), t) /\ p \in PayloadOf(t)
                     /\ e = MakeEvent(o, NextVersion(StoredOf(o)), t, p)
                /\ stored' = stored \cup {e} /\ published' = published
Publishes(e) == e \in stored /\ PublishEvent(e)
                /\ Produce(PartitionOf[e.order], [event |-> e, retry |-> 0])
Retries(m, q) == /\ m \in BagToSet(dlq) /\ m.retry < MaxRetries
                 /\ Produce(q, NextTry(m)) /\ deleting' = m /\ UNCHANGED feed
GivesUp(m)   == /\ m \in BagToSet(dlq) /\ m.retry >= MaxRetries
                /\ dead' = dead \cup {m.event} /\ deleting' = m
Expires(m)   == /\ dlq' = dlq (-) SetToBag({m}) /\ UNCHANGED <<processed, diverted, deleting>>
                /\ dropped' = IF m.event \in processed THEN dropped ELSE dropped \cup {m.event}

FeedEffect  == \/ UNCHANGED feed
               \/ \E e : Records(e)
               \/ \E e \in stored : Publishes(e)
LogEffect   == \/ UNCHANGED log
               \/ \E e \in stored : Publishes(e)
               \/ \E m \in BagToSet(dlq), q \in Partitions : Retries(m, q)
OffsetEffect == \/ UNCHANGED committed
                \/ /\ pc \in {"skip", "commit", "commitdlq"} /\ CommitOffset
                   /\ UNCHANGED <<feed, log, stores, retrying, history>>
StoreEffect == /\ \/ UNCHANGED rows
                  \/ pc = "project" /\ CanProject(rows[E.order], E) /\ ProjectRow
               /\ \/ UNCHANGED processed
                  \/ pc = "setex" /\ processed' = processed \cup {E}
               /\ \/ UNCHANGED cache
                  \/ pc = "invalidate" /\ cache' = [cache EXCEPT ![E.order] = None]
               /\ \/ UNCHANGED expiring
                  \/ pc = "expire" /\ expiring' = expiring \cup {E.order}
QueueEffect == \/ UNCHANGED dlq
               \/ pc = "dlq" /\ Enqueue /\ UNCHANGED deleting /\ E \in processed \cup diverted'
               \/ deleting # None /\ dlq' = dlq (-) SetToBag({deleting}) /\ deleting' = None
               \/ \E m \in BagToSet(dlq) : Expires(m)
LambdaEffect == \/ UNCHANGED <<dead, deleting>>
                \/ UNCHANGED dead /\ deleting' = None
                \/ UNCHANGED dead /\ \E m \in BagToSet(dlq), q \in Partitions : Retries(m, q)
                \/ \E m \in BagToSet(dlq) : GivesUp(m)
HistoryEffect == \/ UNCHANGED history
                 \/ /\ pc = "dlq" /\ E \notin processed
                    /\ diverted' = diverted \cup {E} /\ dropped' \in {dropped, dropped \cup {E}}
                 \/ \E m \in BagToSet(dlq) : Expires(m)

Effects == /\ FeedEffect /\ LogEffect /\ OffsetEffect /\ StoreEffect /\ QueueEffect
           /\ LambdaEffect /\ HistoryEffect

\* Every step has these effects and no others.
LEMMA StepEffects == [Next]_vars => Effects
<1> SUFFICES ASSUME [Next]_vars PROVE Effects
  OBVIOUS
<1> USE DEF feed, consumer, stores, retrying, history, Effects, FeedEffect, LogEffect,
            OffsetEffect, StoreEffect, QueueEffect, LambdaEffect, HistoryEffect
<1>1. CASE UNCHANGED vars
  BY <1>1 DEF vars
<1>2. CASE Publisher
  <2>1. ASSUME NEW o \in Orders, NEW t \in EventType, NEW p \in Payloads \cup {None},
               Accept(o, t, p)
        PROVE  Effects
    <3>1. Records(MakeEvent(o, NextVersion(StoredOf(o)), t, p))
      BY <2>1 DEF Accept, RecordEvent, Records
    <3> QED  BY <2>1, <3>1 DEF Accept
  <2>2. ASSUME NEW e \in stored, Publish(e) PROVE Effects
    BY <2>2 DEF Publish, Publishes
  <2> QED  BY <1>2, <2>1, <2>2 DEF Publisher
<1>3. CASE Consumer
  <2>1. ASSUME NEW q \in Partitions, Poll(q) PROVE Effects
    BY <2>1 DEF Poll
  <2>2. CASE Dedup \/ DedupFails
    BY <2>2 DEF Dedup, DedupFails
  <2>3. CASE ProjectEvent \/ ProjectFails
    BY <2>3 DEF ProjectEvent, ProjectFails
  <2>4. CASE Invalidate \/ InvalidateFails
    BY <2>4 DEF Invalidate, InvalidateFails
  <2>5. CASE MarkProcessed \/ MarkProcessedFails
    BY <2>5 DEF MarkProcessed, MarkProcessedFails
  <2>6. CASE SetExpiry \/ SetExpiryFails
    BY <2>6 DEF SetExpiry, SetExpiryFails
  <2>7. CASE SendToDlq \/ SendToDlqFails
    BY <2>7 DEF SendToDlq, SendToDlqFails, Divert
  <2>8. CASE Commit \/ CommitFails
    BY <2>8 DEF Commit, CommitFails
  <2> QED  BY <1>3, <2>1, <2>2, <2>3, <2>4, <2>5, <2>6, <2>7, <2>8 DEF Consumer
<1>4. CASE Crash \/ Restart
  BY <1>4 DEF Crash, Restart
<1>5. CASE Lambda
  <2>1. ASSUME NEW m \in BagToSet(dlq), DeadLetter(m) PROVE Effects
    BY <2>1 DEF DeadLetter, GivesUp
  <2>2. ASSUME NEW m \in BagToSet(dlq), NEW q \in Partitions, RetryMessage(m, q)
        PROVE  Effects
    <3>1. Retries(m, q)
      BY <2>2 DEF RetryMessage, Retries, NextTry
    <3> QED  BY <2>2, <3>1 DEF RetryMessage
  <2>3. CASE DeleteMessage
    BY <2>3 DEF DeleteMessage
  <2> QED  BY <1>5, <2>1, <2>2, <2>3 DEF Lambda
<1>6. CASE NotDeleted
  BY <1>6 DEF NotDeleted
<1>7. ASSUME NEW m \in BagToSet(dlq), MessageExpires(m) PROVE Effects
  <2>1. Expires(m)
    BY <1>7 DEF MessageExpires, Expires
  <2> QED  BY <1>7, <2>1 DEF MessageExpires
<1> QED  BY <1>1, <1>2, <1>3, <1>4, <1>5, <1>6, <1>7 DEF Next

-----------------------------------------------------------------------------
(* The feed and the log.                                                   *)

\* The next event of an order is newer than all it has.
LEMMA NextVersionIsNew ==
  ASSUME TypeOK, FeedOK, NEW o \in Orders
  PROVE  /\ NextVersion(StoredOf(o)) \in Nat \ {0}
         /\ \A f \in StoredOf(o) : f.version < NextVersion(StoredOf(o))
         /\ NextVersion(StoredOf(o)) = 1 <=> StoredOf(o) = {}
<1>1. StoredOf(o) \subseteq Event /\ \A f \in StoredOf(o) : f.version <= MaxVersion
  BY DEF StoredOf, TypeOK, FeedOK
<1>2. CASE StoredOf(o) = {}
  BY <1>2 DEF NextVersion
<1>3. CASE StoredOf(o) # {}
  <2>1. /\ Latest(StoredOf(o)) \in StoredOf(o)
        /\ \A f \in StoredOf(o) : f.version <= Latest(StoredOf(o)).version
    BY <1>1, <1>3, LatestIsMax, ProjectionAssumption
  <2>2. Latest(StoredOf(o)).version \in Nat \ {0} /\ \A f \in StoredOf(o) : f.version \in Nat
    BY <1>1, <2>1 DEF Event
  <2>3. NextVersion(StoredOf(o)) = Latest(StoredOf(o)).version + 1
    BY <1>3 DEF NextVersion
  <2> QED  BY <1>3, <2>1, <2>2, <2>3
<1> QED  BY <1>2, <1>3

\* The write side goes on recording and publishing.
LEMMA FeedStep ==
  ASSUME TypeOK, FeedOK, FeedEffect
  PROVE  /\ stored' \in SUBSET Event /\ published' \in SUBSET stored'
         /\ published \subseteq published' /\ FeedOK'
<1>1. CASE UNCHANGED feed
  BY <1>1 DEF feed, TypeOK, FeedOK
<1>2. ASSUME NEW e \in stored, Publishes(e) PROVE stored' = stored /\ published' = published \cup {e}
  BY <1>2 DEF Publishes, PublishEvent
<1>3. CASE \E e \in stored : Publishes(e)
  BY <1>2, <1>3 DEF TypeOK, FeedOK
<1>4. ASSUME NEW e, Records(e)
      PROVE  /\ stored' \in SUBSET Event /\ published' \in SUBSET stored'
             /\ published \subseteq published' /\ FeedOK'
  <2>1. PICK o \in Orders, t \in EventType, p \in Payloads \cup {None} :
             /\ NextVersion(StoredOf(o)) <= MaxVersion
             /\ MayFollow(StoredOf(o), t) /\ p \in PayloadOf(t)
             /\ e = MakeEvent(o, NextVersion(StoredOf(o)), t, p)
    BY <1>4 DEF Records
  <2>2. /\ e.order = o /\ e.version = NextVersion(StoredOf(o))
        /\ e.type = t /\ e.payload = p /\ e \in Event
    BY <2>1, NextVersionIsNew DEF MakeEvent, Event
  <2>3. stored' = stored \cup {e} /\ published' = published
    BY <1>4 DEF Records
  <2>4. e.version = 1 <=> e.type = "ORDER_CREATED"
    <3>1. CASE StoredOf(o) = {}
      BY <2>1, <2>2, <3>1, NextVersionIsNew DEF MayFollow
    <3>2. CASE StoredOf(o) # {}
      <4>1. t # "ORDER_CREATED"
        BY <2>1, <3>2 DEF MayFollow, Allowed
      <4> QED  BY <2>2, <3>2, <4>1, NextVersionIsNew
    <3> QED  BY <3>1, <3>2
  <2>5. \A f \in stored : f.order = e.order => f.version # e.version
    <3> SUFFICES ASSUME NEW f \in stored, f.order = e.order PROVE f.version # e.version
      OBVIOUS
    <3>1. f \in StoredOf(o) /\ f.version \in Nat
      BY <2>2 DEF StoredOf, TypeOK, Event
    <3> QED  BY <2>2, <3>1, NextVersionIsNew
  <2>6. e.version <= MaxVersion /\ e.payload \in PayloadOf(e.type)
    BY <2>1, <2>2
  <2>7. FeedOK'
    BY <2>3, <2>4, <2>5, <2>6 DEF FeedOK
  <2> QED  BY <2>2, <2>3, <2>7 DEF TypeOK
<1> QED  BY <1>1, <1>3, <1>4 DEF FeedEffect

\* A message below the limit can be retried.
LEMMA NextTryType ==
  ASSUME TypeOK, NEW m \in Record, m.retry < MaxRetries
  PROVE  /\ NextTry(m) \in Record
         /\ NextTry(m).event = m.event /\ NextTry(m).retry = m.retry + 1
BY ProjectionAssumption DEF NextTry, Record

\* The log only grows, by records the Ladder allows.
LEMMA LogStep ==
  ASSUME TypeOK, LogEffect
  PROVE  /\ log' \in [Partitions -> Seq(Record)]
         /\ \A p \in Partitions : /\ Len(log[p]) \in Nat /\ Len(log'[p]) \in Nat
                                  /\ Len(log'[p]) >= Len(log[p])
                                  /\ \A i \in 1..Len(log[p]) : log'[p][i] = log[p][i]
         /\ \/ Produced' = Produced
            \/ \E e \in stored : /\ PublishEvent(e)
                                 /\ Produced' = Produced \cup {[event |-> e, retry |-> 0]}
            \/ \E m \in BagToSet(dlq) : /\ m.retry < MaxRetries /\ UNCHANGED feed
                                        /\ Produced' = Produced \cup {NextTry(m)}
<1>0. log \in [Partitions -> Seq(Record)] /\ \A p \in Partitions : Len(log[p]) \in Nat
  BY DEF TypeOK
<1>1. CASE UNCHANGED log
  BY <1>0, <1>1 DEF Produced, RecordsUpTo
<1>2. ASSUME NEW e \in stored, Publishes(e)
      PROVE  /\ [event |-> e, retry |-> 0] \in Record /\ PartitionOf[e.order] \in Partitions
             /\ Produce(PartitionOf[e.order], [event |-> e, retry |-> 0])
  BY <1>2, ProjectionAssumption DEF Publishes, TypeOK, Record, Event
<1>3. ASSUME NEW m \in BagToSet(dlq), NEW q \in Partitions, Retries(m, q)
      PROVE  NextTry(m) \in Record /\ Produce(q, NextTry(m))
  <2>1. m \in Record  BY DEF TypeOK
  <2> QED  BY <1>3, <2>1, NextTryType DEF Retries
<1>4. CASE \E e \in stored : Publishes(e)
  <2>1. PICK e \in stored : Publishes(e)  BY <1>4
  <2> DEFINE q == PartitionOf[e.order]
             r == [event |-> e, retry |-> 0]
  <2>2. q \in Partitions /\ r \in Record /\ Produce(q, r)
    BY <1>2, <2>1
  <2> HIDE DEF q, r
  <2>3. /\ log' \in [Partitions -> Seq(Record)] /\ Produced' = Produced \cup {r}
        /\ \A p \in Partitions : /\ Len(log'[p]) >= Len(log[p])
                                 /\ \A i \in 1..Len(log[p]) : log'[p][i] = log[p][i]
    BY <1>0, <2>2, ProduceAppends
  <2>4. PublishEvent(e)
    BY <2>1 DEF Publishes
  <2> QED  BY <1>0, <2>3, <2>4 DEF r
<1>5. CASE \E m \in BagToSet(dlq), q \in Partitions : Retries(m, q)
  <2>1. PICK m \in BagToSet(dlq), q \in Partitions : Retries(m, q)  BY <1>5
  <2> DEFINE r == NextTry(m)
  <2>2. r \in Record /\ Produce(q, r)
    BY <1>3, <2>1
  <2> HIDE DEF r
  <2>3. /\ log' \in [Partitions -> Seq(Record)] /\ Produced' = Produced \cup {r}
        /\ \A p \in Partitions : /\ Len(log'[p]) >= Len(log[p])
                                 /\ \A i \in 1..Len(log[p]) : log'[p][i] = log[p][i]
    BY <1>0, <2>2, ProduceAppends
  <2>4. m.retry < MaxRetries /\ UNCHANGED feed
    BY <2>1 DEF Retries
  <2> QED  BY <1>0, <2>3, <2>4 DEF r
<1> QED  BY <1>1, <1>4, <1>5 DEF LogEffect

\* No retry count is ever skipped.
LEMMA LadderStep ==
  ASSUME TypeOK, FeedOK, Ladder, QueueOK, FeedEffect, LogEffect
  PROVE  Ladder'
<1>0. published \subseteq published'
  BY FeedStep
<1>1. CASE Produced' = Produced
  BY <1>0, <1>1 DEF Ladder
<1>2. ASSUME NEW e \in stored, PublishEvent(e),
             Produced' = Produced \cup {[event |-> e, retry |-> 0]}
      PROVE  Ladder'
  <2>1. e \in published'
    BY <1>2 DEF PublishEvent
  <2> QED  BY <1>0, <1>2, <2>1 DEF Ladder
<1>3. ASSUME NEW m \in BagToSet(dlq), m.retry < MaxRetries, Produced' = Produced \cup {NextTry(m)}
      PROVE  Ladder'
  <2>1. m \in Record /\ m \in Produced
    BY DEF TypeOK, QueueOK
  <2>2. /\ NextTry(m).event = m.event /\ NextTry(m).retry = m.retry + 1
        /\ NextTry(m) = [event |-> m.event, retry |-> m.retry + 1] /\ m.retry \in Nat
    BY <1>3, <2>1, NextTryType, ProjectionAssumption DEF Record, NextTry
  <2>3. ASSUME NEW n \in 0..(m.retry + 1)
        PROVE  [event |-> m.event, retry |-> n] \in Produced'
    <3>1. CASE n \in 0..m.retry
      BY <1>3, <2>1, <3>1 DEF Ladder
    <3>2. CASE n = m.retry + 1
      BY <1>3, <2>2, <3>2
    <3> QED  BY <2>2, <3>1, <3>2
  <2> QED  BY <1>0, <1>3, <2>1, <2>2, <2>3 DEF Ladder
<1> QED  BY <1>1, <1>2, <1>3, LogStep

-----------------------------------------------------------------------------
(* Types.                                                                  *)

\* The record in hand is one of the log.
LEMMA InHand ==
  ASSUME TypeOK, Ladder, hand # None
  PROVE  /\ hand.part \in Partitions /\ hand.offset \in 1..Len(log[hand.part])
         /\ Current \in Record /\ Current \in Produced
         /\ E \in Event /\ E \in published /\ E \in stored /\ E.order \in Orders
<1>1. hand \in Place /\ hand.part \in Partitions /\ hand.offset \in Nat \ {0}
  BY DEF TypeOK, Place
<1>2. log[hand.part] \in Seq(Record) /\ hand.offset \in 1..Len(log[hand.part])
  BY <1>1 DEF TypeOK
<1>3. Current \in Record
  BY <1>2 DEF Current
<1>4. Current \in Produced
  BY <1>1, <1>2, ProducedAt DEF Current
<1>5. E \in published /\ E \in stored
  BY <1>4 DEF Ladder, E, TypeOK
<1>6. E \in Event /\ E.order \in Orders
  BY <1>5 DEF TypeOK, Event
<1> QED  BY <1>1, <1>2, <1>3, <1>4, <1>5, <1>6

\* The consumer has a record in hand wherever it is past the poll.
LEMMA Working ==
  ASSUME TypeOK, pc \notin {"poll", "down"}
  PROVE  hand # None
BY DEF TypeOK

\* A projected row is a row.
LEMMA ProjectType ==
  ASSUME NEW row \in Row \cup {None}, NEW e \in Event, e.payload \in PayloadOf(e.type)
  PROVE  Project(row, e) \in Row \cup {None}
<1>0. e.version \in Nat /\ e.type \in EventType /\ e.payload \in Payloads \cup {None}
  BY DEF Event
<1>1. CASE e.type = "ORDER_CREATED"
  BY <1>0, <1>1 DEF Project, NewRow, Row, OrderStatus
<1>2. CASE e.type # "ORDER_CREATED" /\ row = None
  BY <1>2 DEF Project
<1>3. CASE e.type = "ORDER_ITEM_ADDED" /\ row # None
  <2>1. row \in Row /\ row.lines \in SUBSET Line
    BY <1>3 DEF Row
  <2>2. e.payload \in Payloads
    BY <1>3 DEF PayloadOf
  <2>3. Upsert(row.lines, e) \in SUBSET Line
    <3> DEFINE old == {l \in row.lines : l.product = e.payload}
               pr  == IF old = {} THEN e.version ELSE (CHOOSE l \in old : TRUE).priced
    <3>1. pr \in Nat
      <4>1. CASE old = {}
        BY <1>0, <4>1
      <4>2. CASE old # {}
        <5>1. (CHOOSE l \in old : TRUE) \in old
          <6> HIDE DEF old
          <6> QED  BY <4>2
        <5>2. (CHOOSE l \in old : TRUE) \in Line
          BY <2>1, <5>1
        <5> QED  BY <4>2, <5>2 DEF Line
      <4> QED  BY <4>1, <4>2
    <3>2. [product |-> e.payload, counted |-> e.version, priced |-> pr] \in Line
      BY <1>0, <2>2, <3>1 DEF Line
    <3>3. Upsert(row.lines, e) = (row.lines \ old) \cup
             {[product |-> e.payload, counted |-> e.version, priced |-> pr]}
      BY DEF Upsert
    <3> HIDE DEF pr, old
    <3> QED  BY <2>1, <3>2, <3>3
  <2>4. Project(row, e) = [row EXCEPT !.lines = Upsert(row.lines, e), !.version = e.version]
    BY <1>3 DEF Project
  <2> QED  BY <1>0, <2>1, <2>3, <2>4 DEF Row
<1>4. CASE e.type \notin {"ORDER_CREATED", "ORDER_ITEM_ADDED"} /\ row # None
  <2>1. row \in Row /\ StatusSetBy[e.type] \in OrderStatus
    BY <1>0, <1>4, StatusSetByType
  <2>2. Project(row, e) =
          [row EXCEPT !.status   = StatusSetBy[e.type],
                      !.version  = e.version,
                      !.payment  = IF e.type = "ORDER_PAYMENT_PROCESSED" THEN e.payload ELSE @,
                      !.tracking = IF e.type = "ORDER_SHIPPED" THEN e.payload ELSE @]
    BY <1>4 DEF Project
  <2> QED  BY <1>0, <2>1, <2>2 DEF Row
<1> QED  BY <1>1, <1>2, <1>3, <1>4

\* PostgreSQL, Redis and MongoDB.
LEMMA StoreType ==
  ASSUME TypeOK, FeedOK, Ladder, StoreEffect
  PROVE  /\ rows' \in [Orders -> Row \cup {None}] /\ processed' \in SUBSET Event
         /\ cache' \in [Orders -> Row \cup {None}] /\ expiring' \in SUBSET Orders
<1>1. rows' \in [Orders -> Row \cup {None}]
  <2>1. CASE UNCHANGED rows
    BY <2>1 DEF TypeOK
  <2>2. CASE pc = "project" /\ ProjectRow
    <3>1. E \in Event /\ E \in stored /\ E.order \in Orders
      BY <2>2, Working, InHand
    <3>2. Project(rows[E.order], E) \in Row \cup {None}
      <4>1. rows[E.order] \in Row \cup {None} /\ E.payload \in PayloadOf(E.type)
        BY <3>1 DEF TypeOK, FeedOK
      <4> QED  BY <3>1, <4>1, ProjectType
    <3>3. rows' = [rows EXCEPT ![E.order] = Project(rows[E.order], E)]
      BY <2>2 DEF ProjectRow
    <3> QED  BY <3>1, <3>2, <3>3 DEF TypeOK
  <2> QED  BY <2>1, <2>2 DEF StoreEffect
<1>2. processed' \in SUBSET Event
  BY Working, InHand DEF StoreEffect, TypeOK
<1>3. cache' \in [Orders -> Row \cup {None}]
  BY DEF StoreEffect, TypeOK
<1>4. expiring' \in SUBSET Orders
  BY Working, InHand DEF StoreEffect, TypeOK
<1> QED  BY <1>1, <1>2, <1>3, <1>4

\* The queue holds records of the log, and so does the Lambda.
LEMMA QueueStep ==
  ASSUME TypeOK, Ladder, QueueOK, Effects
  PROVE  /\ QueueOK' /\ BagToSet(dlq') \in SUBSET Record
         /\ dead' \in SUBSET Event /\ deleting' \in Record \cup {None}
<1>1. /\ Produced \subseteq Produced'
      /\ processed \subseteq processed' /\ diverted \subseteq diverted'
  BY LogStep DEF Effects, StoreEffect, HistoryEffect, Expires, history
<1>2. Produced \subseteq Record
  <2>1. \A r \in Produced : r \in Record
    BY ProducedAt DEF TypeOK
  <2> QED  BY <2>1
<1>3. /\ IsABag(dlq') /\ BagToSet(dlq') \subseteq Produced
      /\ \A m \in BagToSet(dlq') : m.event \in processed' \cup diverted'
  <2>1. CASE UNCHANGED dlq
    BY <1>1, <2>1 DEF QueueOK
  <2>2. CASE pc = "dlq" /\ Enqueue /\ E \in processed \cup diverted'
    <3>1. Current \in Produced
      BY <2>2, Working, InHand
    <3>2. dlq' = dlq (+) SetToBag({Current})
      BY <2>2 DEF Enqueue
    <3>3. IsABag(dlq (+) SetToBag({Current})) /\
          BagToSet(dlq (+) SetToBag({Current})) = BagToSet(dlq) \cup {Current}
      BY BagAdd DEF QueueOK
    <3> QED  BY <1>1, <2>2, <3>1, <3>2, <3>3 DEF QueueOK, E
  <2>3. ASSUME NEW x, dlq' = dlq (-) SetToBag({x})
        PROVE  /\ IsABag(dlq') /\ BagToSet(dlq') \subseteq Produced
               /\ \A m \in BagToSet(dlq') : m.event \in processed' \cup diverted'
    <3>1. IsABag(dlq') /\ BagToSet(dlq') \subseteq BagToSet(dlq)
      BY <2>3, BagRemove DEF QueueOK
    <3> QED  BY <1>1, <3>1 DEF QueueOK
  <2> QED  BY <2>1, <2>2, <2>3 DEF Effects, QueueEffect, Expires
<1>4. deleting' = None \/ deleting' \in Produced
  BY DEF Effects, LambdaEffect, Retries, GivesUp, QueueOK
<1>5. dead' \in SUBSET Event
  <2>1. \A m \in BagToSet(dlq) : m.event \in Event
    BY DEF TypeOK, Record
  <2>2. dead' = dead \/ \E m \in BagToSet(dlq) : dead' = dead \cup {m.event}
    BY DEF Effects, LambdaEffect, GivesUp
  <2>3. dead \in SUBSET Event
    BY DEF TypeOK
  <2> QED  BY <2>1, <2>2, <2>3
<1> QED  BY <1>1, <1>2, <1>3, <1>4, <1>5 DEF QueueOK

\* The consumer's offsets stay within the log.
LEMMA OffsetStep ==
  ASSUME TypeOK, LogEffect, OffsetEffect
  PROVE  /\ committed' \in [Partitions -> Nat]
         /\ \A q \in Partitions : /\ committed[q] \in Nat /\ committed'[q] \in Nat
                                  /\ committed[q] <= committed'[q]
                                  /\ committed'[q] <= Len(log[q])
                                  /\ committed'[q] <= Len(log'[q])
                                  /\ hand = None \/ hand.part # q => committed'[q] = committed[q]
<1>0. \A q \in Partitions : /\ committed[q] \in Nat /\ Len(log[q]) \in Nat /\ Len(log'[q]) \in Nat
                            /\ Len(log[q]) <= Len(log'[q]) /\ committed[q] <= Len(log[q])
  BY LogStep DEF TypeOK
<1>1. CASE UNCHANGED committed
  BY <1>0, <1>1 DEF TypeOK
<1>2. CASE pc \in {"skip", "commit", "commitdlq"} /\ CommitOffset
  <2>1. /\ hand.part \in Partitions /\ hand.offset \in Nat /\ hand.offset <= Len(log[hand.part])
        /\ hand.offset \in {committed[hand.part], committed[hand.part] + 1} /\ hand # None
    BY <1>2, Working DEF TypeOK, Place
  <2>2. committed' = [committed EXCEPT ![hand.part] = hand.offset]
    BY <1>2 DEF CommitOffset
  <2> QED  BY <1>0, <2>1, <2>2 DEF TypeOK
<1> QED  BY <1>1, <1>2 DEF OffsetEffect

HandType == /\ pc \in PC
            /\ hand \in Place \cup {None}
            /\ hand = None <=> pc \in {"poll", "down"}
            /\ hand # None => /\ hand.offset \in {committed[hand.part], committed[hand.part] + 1}
                              /\ hand.offset <= Len(log[hand.part])
            /\ tries \in 0..MaxTries

\* The consumer at its awaits.
LEMMA HandTypeStep ==
  ASSUME TypeOK, [Next]_vars
  PROVE  HandType'
<1>0. Effects
  BY StepEffects
<1>1. \A q \in Partitions : /\ Len(log[q]) \in Nat /\ Len(log'[q]) \in Nat
                            /\ Len(log[q]) <= Len(log'[q]) /\ committed[q] \in Nat
  BY <1>0, LogStep DEF Effects, TypeOK
<1>2. HandType /\ (hand # None => hand.part \in Partitions /\ hand.offset \in Nat)
  BY DEF TypeOK, HandType, Place
<1>3. MaxTries \in Nat \ {0}
  BY ProjectionAssumption
<1>4. ASSUME UNCHANGED <<hand, committed>>, pc' \in PC, pc' \in {"poll", "down"} <=> pc \in {"poll", "down"},
             tries' \in 0..MaxTries
      PROVE  HandType'
  BY <1>1, <1>2, <1>4 DEF HandType
<1>5. ASSUME hand' = None, tries' = 0, pc' \in {"poll", "down"} PROVE HandType'
  BY <1>3, <1>5 DEF HandType, PC
<1>6. CASE UNCHANGED <<consumer, committed>>
  BY <1>2, <1>4, <1>6 DEF consumer, HandType
<1>7. CASE Consumer
  <2>1. ASSUME NEW q \in Partitions, Poll(q) PROVE HandType'
    <3>1. /\ hand' = [part |-> q, offset |-> committed[q] + 1] /\ committed' = committed
          /\ pc' = "dedup" /\ tries' = 0 /\ committed[q] < Len(log[q]) /\ log' = log
      BY <2>1 DEF Poll
    <3>2. hand' \in Place /\ hand' # None
      BY <1>1, <3>1, NoneIsNoRecord DEF Place
    <3> QED  BY <1>1, <1>3, <3>1, <3>2 DEF HandType, PC
  <2>2. CASE Dedup
    BY <1>2, <1>3, <1>4, <2>2 DEF Dedup, Goto, HandType, PC
  <2>3. CASE DedupFails
    BY <1>5, <2>3 DEF DedupFails, Die
  <2>4. CASE ProjectEvent \/ ProjectFails
    BY <1>2, <1>3, <1>4, <2>4 DEF ProjectEvent, ProjectFails, Goto, HandType, PC
  <2>5. CASE Invalidate \/ InvalidateFails \/ MarkProcessed \/ MarkProcessedFails
    BY <1>2, <1>4, <2>5 DEF Invalidate, InvalidateFails, MarkProcessed, MarkProcessedFails,
                            Goto, HandType, PC
  <2>6. CASE SetExpiry \/ SetExpiryFails \/ SendToDlq \/ SendToDlqFails
    BY <1>2, <1>4, <2>6 DEF SetExpiry, SetExpiryFails, SendToDlq, SendToDlqFails,
                            Goto, HandType, PC
  <2>7. CASE Commit
    BY <1>5, <2>7 DEF Commit
  <2>8. CASE CommitFails
    <3>1. CASE pc # "commit"
      BY <1>5, <2>8, <3>1 DEF CommitFails, Die
    <3>2. CASE pc = "commit" /\ UNCHANGED committed
      BY <1>2, <1>4, <2>8, <3>2 DEF CommitFails, Goto, HandType, PC
    <3>3. CASE pc = "commit" /\ CommitOffset
      <4>1. hand' = hand /\ tries' = tries /\ pc' = "dlq" /\ log' = log
        BY <2>8, <3>3 DEF CommitFails, Goto
      <4>2. hand # None /\ committed'[hand.part] = hand.offset
        BY <1>2, <3>3 DEF CommitOffset, HandType, TypeOK
      <4> QED  BY <1>1, <1>2, <4>1, <4>2 DEF HandType, PC
    <3> QED  BY <2>8, <3>1, <3>2, <3>3 DEF CommitFails
  <2> QED  BY <1>7, <2>1, <2>2, <2>3, <2>4, <2>5, <2>6, <2>7, <2>8 DEF Consumer
<1>8. CASE Crash
  BY <1>5, <1>8 DEF Crash, Die
<1>9. CASE Restart
  BY <1>2, <1>4, <1>9 DEF Restart, HandType, PC
<1>10. CASE Publisher \/ Lambda \/ NotDeleted \/ UNCHANGED vars
  BY <1>6, <1>10 DEF Publisher, Accept, Publish, Lambda, DeadLetter, RetryMessage,
                     DeleteMessage, NotDeleted, vars
<1>11. CASE \E m \in BagToSet(dlq) : MessageExpires(m)
  BY <1>6, <1>11 DEF MessageExpires
<1> QED  BY <1>7, <1>8, <1>9, <1>10, <1>11 DEF Next

\* Every step keeps the types.
LEMMA TypeStep ==
  ASSUME TypeOK, FeedOK, Ladder, QueueOK, [Next]_vars
  PROVE  TypeOK'
<1>0. Effects
  BY StepEffects
<1>1. stored' \in SUBSET Event /\ published' \in SUBSET stored' /\ published \subseteq published'
  BY <1>0, FeedStep DEF Effects
<1>2. log' \in [Partitions -> Seq(Record)]
  BY <1>0, LogStep DEF Effects
<1>3. committed' \in [Partitions -> Nat] /\ \A q \in Partitions : committed'[q] <= Len(log'[q])
  BY <1>0, OffsetStep DEF Effects
<1>4. /\ rows' \in [Orders -> Row \cup {None}] /\ processed' \in SUBSET Event
      /\ cache' \in [Orders -> Row \cup {None}] /\ expiring' \in SUBSET Orders
  BY <1>0, StoreType DEF Effects
<1>5. /\ BagToSet(dlq') \in SUBSET Record
      /\ dead' \in SUBSET Event /\ deleting' \in Record \cup {None}
  BY <1>0, QueueStep DEF Effects
<1>6. diverted' \in SUBSET published' /\ dropped' \in SUBSET diverted'
  <2>1. pc = "dlq" => E \in published
    BY Working, InHand
  <2>2. ASSUME NEW m \in BagToSet(dlq), Expires(m)
        PROVE  diverted' = diverted /\ dropped' \in SUBSET diverted
    BY <2>2 DEF Expires, QueueOK, TypeOK
  <2> QED  BY <1>0, <1>1, <2>1, <2>2 DEF Effects, HistoryEffect, history, TypeOK
<1>7. HandType'
  BY HandTypeStep
<1> QED  BY <1>1, <1>2, <1>3, <1>4, <1>5, <1>6, <1>7 DEF TypeOK, HandType

-----------------------------------------------------------------------------
(* Nothing is lost.                                                        *)

\* What is settled stays settled, and what was produced stays in the log.
LEMMA Monotone ==
  ASSUME TypeOK, Effects
  PROVE  /\ Settled \subseteq Settled' /\ Produced \subseteq Produced'
         /\ processed \subseteq processed' /\ diverted \subseteq diverted'
<1>1. Produced \subseteq Produced'
  BY LogStep DEF Effects
<1>2. processed \subseteq processed'
  BY DEF Effects, StoreEffect
<1>3. dead \subseteq dead'
  BY DEF Effects, LambdaEffect, GivesUp
<1>4. dropped \subseteq dropped' /\ diverted \subseteq diverted'
  BY DEF Effects, HistoryEffect, Expires, history
<1> QED  BY <1>1, <1>2, <1>3, <1>4 DEF Settled

\* The Lambda lets go only of what is settled or published again.
LEMMA DealtStep ==
  ASSUME TypeOK, QueueOK, Dealt, Effects
  PROVE  Dealt'
<1>1. CASE deleting' = None
  BY <1>1 DEF Dealt
<1>2. CASE deleting' = deleting
  BY <1>2, Monotone DEF Dealt, PassedOn
<1>3. ASSUME NEW m \in BagToSet(dlq), NEW q \in Partitions, Retries(m, q) PROVE Dealt'
  <2>1. m \in Record
    BY DEF TypeOK
  <2>2. /\ NextTry(m) \in Record /\ NextTry(m).event = m.event
        /\ NextTry(m).retry = m.retry + 1 /\ m.retry \in Nat
    BY <1>3, <2>1, NextTryType DEF Retries, Record
  <2>3. NextTry(m) \in Produced'
    BY <1>3, <2>2, ProduceAppends DEF Retries, TypeOK
  <2>4. deleting' = m
    BY <1>3 DEF Retries
  <2> QED  BY <2>2, <2>3, <2>4 DEF Dealt, PassedOn
<1>4. ASSUME NEW m \in BagToSet(dlq), GivesUp(m) PROVE Dealt'
  BY <1>4 DEF GivesUp, Dealt, PassedOn, Settled
<1> QED  BY <1>1, <1>2, <1>3, <1>4 DEF Effects, LambdaEffect

\* A message that leaves the queue by expiring is settled.
LEMMA ExpiredIsSettled ==
  ASSUME QueueOK, NEW x \in BagToSet(dlq), Expires(x)
  PROVE  /\ BagToSet(dlq) \ {x} \subseteq BagToSet(dlq')
         /\ x.event \in Settled'
BY BagRemove DEF QueueOK, Expires, Settled

\* A queued record stays queued until it is passed on.
LEMMA QueuedStays ==
  ASSUME TypeOK, QueueOK, Dealt, Effects, NEW r \in Record, PassedOn(r) \/ Queued(r)
  PROVE  \/ r.event \in Settled'
         \/ \E p \in Produced' : p.event = r.event /\ p.retry > r.retry
         \/ \E m \in BagToSet(dlq') : m.event = r.event /\ m.retry >= r.retry
<1>1. CASE PassedOn(r)
  BY <1>1, Monotone DEF PassedOn
<1>2. CASE Queued(r)
  <2>1. PICK m \in BagToSet(dlq) : m.event = r.event /\ m.retry >= r.retry
    BY <1>2 DEF Queued
  <2>2. CASE m \in BagToSet(dlq')
    BY <2>1, <2>2
  <2>3. CASE m \notin BagToSet(dlq')
    <3>1. CASE pc = "dlq" /\ Enqueue
      <4>1. BagToSet(dlq (+) SetToBag({Current})) = BagToSet(dlq) \cup {Current}
        BY BagAdd DEF QueueOK
      <4> QED  BY <2>3, <3>1, <4>1 DEF Enqueue
    <3>2. CASE deleting # None /\ dlq' = dlq (-) SetToBag({deleting})
      <4>1. BagToSet(dlq) \ {deleting} \subseteq BagToSet(dlq (-) SetToBag({deleting}))
        BY BagRemove DEF QueueOK
      <4>2. m = deleting
        BY <2>3, <3>2, <4>1
      <4>3. PassedOn(deleting)
        BY <3>2 DEF Dealt
      <4>4. m.event \in Settled \/ \E p \in Produced : p.event = m.event /\ p.retry > m.retry
        BY <4>2, <4>3 DEF PassedOn
      <4>5. \A p \in Produced : p \in Record
        BY ProducedAt DEF TypeOK
      <4>6. \A p \in Produced : p.retry > m.retry => p.retry > r.retry
        <5>1. m \in Record
          BY DEF TypeOK
        <5> QED  BY <2>1, <4>5, <5>1, ProjectionAssumption DEF Record
      <4> QED  BY <2>1, <4>4, <4>6, Monotone
    <3>3. ASSUME NEW x \in BagToSet(dlq), Expires(x) PROVE r.event \in Settled'
      BY <2>1, <2>3, <3>3, ExpiredIsSettled
    <3> QED  BY <2>3, <3>1, <3>2, <3>3 DEF Effects, QueueEffect
  <2> QED  BY <2>2, <2>3
<1> QED  BY <1>1, <1>2

\* The record in hand does not change under the consumer's hand.
LEMMA CurrentStays ==
  ASSUME TypeOK, Ladder, Effects, hand # None, hand' = hand
  PROVE  Current' = Current /\ E' = E
BY InHand, LogStep DEF Effects, Current, E

\* What the consumer knows of its record stays true.
LEMMA HandStep ==
  ASSUME TypeOK, FeedOK, Ladder, QueueOK, Dealt, HandOK, [Next]_vars
  PROVE  HandOK'
<1>0. Effects
  BY StepEffects
<1>1. ASSUME hand' = None PROVE HandOK'
  <2>1. pc' \in {"poll", "down"}
    BY <1>1, HandTypeStep DEF HandType
  <2> QED  BY <1>1, <2>1 DEF HandOK
<1>2. ASSUME UNCHANGED <<pc, hand, processed, committed, diverted>> PROVE HandOK'
  <2>1. CASE hand = None
    BY <1>1, <1>2, <2>1
  <2>2. CASE hand # None
    <3>1. Current' = Current /\ E' = E /\ Current \in Record /\ E = Current.event
      BY <1>0, <1>2, <2>2, CurrentStays, InHand DEF E
    <3>2. ASSUME pc = "commitdlq" PROVE PassedOn(Current)' \/ Queued(Current)'
      <4>1. PassedOn(Current) \/ Queued(Current)
        BY <3>2 DEF HandOK
      <4>2. \/ Current.event \in Settled'
            \/ \E p \in Produced' : p.event = Current.event /\ p.retry > Current.retry
            \/ \E m \in BagToSet(dlq') : m.event = Current.event /\ m.retry >= Current.retry
        BY <1>0, <3>1, <4>1, QueuedStays
      <4> QED  BY <3>1, <4>2 DEF PassedOn, Queued
    <3> QED  BY <1>2, <3>1, <3>2 DEF HandOK
  <2> QED  BY <2>1, <2>2
<1>3. ASSUME NEW q \in Partitions, Poll(q) PROVE HandOK'
  <2>1. pc' = "dedup" /\ hand'.offset = committed'[hand'.part] + 1
    BY <1>3 DEF Poll
  <2> QED  BY <2>1 DEF HandOK
<1>4. ASSUME hand # None, hand' = hand
      PROVE  /\ Current' = Current /\ E' = E /\ E = Current.event
             /\ hand' # None
  BY <1>0, <1>4, CurrentStays DEF E
<1>5. ASSUME pc = "dlq", hand' = hand, pc' = "commitdlq", UNCHANGED <<processed, committed>>,
             Divert({}) \/ Divert({E}), Enqueue \/ Divert({E})
      PROVE  HandOK'
  <2>1. hand # None
    BY <1>5, Working
  <2>2. Current' = Current /\ E' = E /\ E = Current.event
    BY <1>4, <1>5, <2>1
  <2>3. E \in processed' \cup diverted'
    BY <1>5 DEF Divert
  <2>4. Current.event \in Settled' \/ Current \in BagToSet(dlq')
    <3>1. CASE Enqueue
      <4>1. BagToSet(dlq (+) SetToBag({Current})) = BagToSet(dlq) \cup {Current}
        BY BagAdd DEF QueueOK
      <4> QED  BY <3>1, <4>1 DEF Enqueue
    <3>2. CASE Divert({E})
      BY <1>5, <2>2, <3>2 DEF Divert, Settled
    <3> QED  BY <1>5, <3>1, <3>2
  <2>5. Current \in Record /\ Current.retry \in Nat
    BY <2>1, InHand, ProjectionAssumption DEF Record
  <2>6. PassedOn(Current)' \/ Queued(Current)'
    BY <2>2, <2>4, <2>5 DEF PassedOn, Queued
  <2> QED  BY <1>5, <2>2, <2>3, <2>6 DEF HandOK
<1>6. CASE Consumer
  <2>1. CASE Dedup
    <3>1. hand # None /\ hand' = hand
      BY <2>1, Working DEF Dedup, Goto
    <3> QED  BY <1>4, <2>1, <3>1 DEF Dedup, Goto, HandOK, stores
  <2>2. CASE DedupFails \/ Commit
    BY <1>1, <2>2 DEF DedupFails, Die, Commit
  <2>3. CASE ProjectEvent \/ ProjectFails
    <3>1. hand # None /\ hand' = hand
      BY <2>3, Working DEF ProjectEvent, ProjectFails, Goto
    <3> QED  BY <1>4, <2>3, <3>1 DEF ProjectEvent, ProjectFails, Goto, HandOK
  <2>4. CASE Invalidate \/ InvalidateFails
    <3>1. hand # None /\ hand' = hand
      BY <2>4, Working DEF Invalidate, InvalidateFails, Goto
    <3> QED  BY <1>4, <2>4, <3>1 DEF Invalidate, InvalidateFails, Goto, HandOK
  <2>5. CASE MarkProcessed \/ MarkProcessedFails
    <3>1. hand # None /\ hand' = hand
      BY <2>5, Working DEF MarkProcessed, MarkProcessedFails, Goto
    <3> QED  BY <1>4, <2>5, <3>1 DEF MarkProcessed, MarkProcessedFails, Goto, HandOK
  <2>6. CASE SetExpiry \/ SetExpiryFails
    <3>1. hand # None /\ hand' = hand
      BY <2>6, Working DEF SetExpiry, SetExpiryFails, Goto
    <3> QED  BY <1>4, <2>6, <3>1 DEF SetExpiry, SetExpiryFails, Goto, HandOK
  <2>7. CASE SendToDlq \/ SendToDlqFails
    BY <1>5, <2>7 DEF SendToDlq, SendToDlqFails, Goto, stores
  <2>8. CASE CommitFails
    <3>1. CASE pc # "commit"
      BY <1>1, <2>8, <3>1 DEF CommitFails, Die
    <3>2. CASE pc = "commit"
      <4>1. hand # None /\ hand' = hand /\ pc' = "dlq" /\ processed' = processed
        BY <2>8, <3>2, Working DEF CommitFails, Goto, stores
      <4>2. E' \in processed'
        BY <1>4, <3>2, <4>1 DEF HandOK
      <4> QED  BY <4>1, <4>2 DEF HandOK
    <3> QED  BY <3>1, <3>2
  <2> QED  BY <1>3, <1>6, <2>1, <2>2, <2>3, <2>4, <2>5, <2>6, <2>7, <2>8 DEF Consumer
<1>7. CASE Crash
  BY <1>1, <1>7 DEF Crash, Die
<1>8. CASE Restart
  <2>1. hand' = None
    BY <1>8 DEF Restart, TypeOK
  <2> QED  BY <1>1, <2>1
<1>9. CASE Publisher \/ Lambda \/ NotDeleted \/ UNCHANGED vars
  BY <1>2, <1>9 DEF Publisher, Accept, Publish, Lambda, DeadLetter, RetryMessage,
                    DeleteMessage, NotDeleted, vars, consumer, stores, history
<1>10. CASE \E m \in BagToSet(dlq) : MessageExpires(m)
  BY <1>2, <1>10 DEF MessageExpires, consumer, stores
<1> QED  BY <1>6, <1>7, <1>8, <1>9, <1>10 DEF Next

\* Only a message at the limit is given up, and it came all the way.
LEMMA DeadStep ==
  ASSUME TypeOK, Ladder, QueueOK, DeadOnlyAfterRetries, Effects
  PROVE  DeadOnlyAfterRetries'
<1>0. Produced \subseteq Produced'
  BY Monotone
<1>1. CASE dead' = dead
  BY <1>0, <1>1 DEF DeadOnlyAfterRetries
<1>2. ASSUME NEW m \in BagToSet(dlq), GivesUp(m) PROVE DeadOnlyAfterRetries'
  <2>1. m \in Produced /\ m.retry = MaxRetries
    BY <1>2, ProjectionAssumption DEF GivesUp, QueueOK, TypeOK, Record
  <2>2. \A n \in 0..MaxRetries : [event |-> m.event, retry |-> n] \in Produced
    BY <2>1 DEF Ladder
  <2> QED  BY <1>0, <1>2, <2>2 DEF GivesUp, DeadOnlyAfterRetries
<1> QED  BY <1>1, <1>2 DEF Effects, LambdaEffect

\* Without a commit, what is accounted for stays so.
LEMMA AccountedStays ==
  ASSUME TypeOK, QueueOK, Dealt, NothingLost, Effects, UNCHANGED committed,
         NEW r \in Record, Accounted(r)
  PROVE  Accounted(r)'
<1>0. \A p \in Partitions : /\ Len(log[p]) \in Nat /\ Len(log'[p]) \in Nat /\ committed[p] \in Nat
                            /\ Len(log'[p]) >= Len(log[p])
                            /\ \A i \in 1..Len(log[p]) : log'[p][i] = log[p][i]
  BY LogStep DEF Effects, TypeOK
<1>1. ASSUME NEW p \in Record, p.event = r.event, p.retry >= r.retry, Pending(p)
      PROVE  Accounted(r)'
  <2>1. PICK q \in Partitions, i \in Nat : /\ i \in (committed[q] + 1)..Len(log[q])
                                           /\ log[q][i].event = p.event /\ log[q][i].retry >= p.retry
    BY <1>0, <1>1 DEF Pending
  <2>2. i \in (committed'[q] + 1)..Len(log'[q]) /\ log'[q][i] = log[q][i]
    BY <1>0, <2>1
  <2>3. log[q][i].retry \in Nat
    <3>1. i \in 1..Len(log[q]) /\ log[q] \in Seq(Record)
      BY <1>0, <2>1 DEF TypeOK
    <3>2. log[q][i] \in Record
      BY <3>1
    <3> QED  BY <3>2, ProjectionAssumption DEF Record
  <2>4. log[q][i].retry >= r.retry
    BY <1>1, <2>1, <2>3, ProjectionAssumption DEF Record
  <2> QED  BY <1>1, <2>1, <2>2, <2>4 DEF Accounted, Pending
<1>2. ASSUME r.event \in Settled PROVE Accounted(r)'
  BY <1>2, Monotone DEF Accounted
<1>3. CASE Queued(r)
  <2>1. CASE \E m \in BagToSet(dlq') : m.event = r.event /\ m.retry >= r.retry
    BY <2>1 DEF Accounted, Queued
  <2>2. ASSUME NEW x \in BagToSet(dlq), Expires(x),
               ~ \E m \in BagToSet(dlq') : m.event = r.event /\ m.retry >= r.retry
        PROVE  Accounted(r)'
    <3>1. PICK m \in BagToSet(dlq) : m.event = r.event /\ m.retry >= r.retry
      BY <1>3 DEF Queued
    <3>2. m = x /\ r.event \in Settled'
      BY <2>2, <3>1, ExpiredIsSettled
    <3> QED  BY <3>2 DEF Accounted
  <2>3. CASE /\ ~ \E m \in BagToSet(dlq') : m.event = r.event /\ m.retry >= r.retry
             /\ ~ \E x \in BagToSet(dlq) : Expires(x)
    <3>1. PICK m \in BagToSet(dlq) : m.event = r.event /\ m.retry >= r.retry
      BY <1>3 DEF Queued
    <3>2. /\ deleting # None /\ BagToSet(dlq) \ {deleting} \subseteq BagToSet(dlq')
      <4>1. CASE pc = "dlq" /\ Enqueue
        <5>1. BagToSet(dlq (+) SetToBag({Current})) = BagToSet(dlq) \cup {Current}
          BY BagAdd DEF QueueOK
        <5> QED  BY <2>3, <3>1, <4>1, <5>1 DEF Enqueue
      <4>2. CASE deleting # None /\ dlq' = dlq (-) SetToBag({deleting})
        BY <4>2, BagRemove DEF QueueOK
      <4> QED  BY <2>3, <3>1, <4>1, <4>2 DEF Effects, QueueEffect
    <3>3. m = deleting
      BY <2>3, <3>1, <3>2
    <3>4. CASE m.event \in Settled
      BY <1>2, <3>1, <3>4
    <3>5. ASSUME NEW p \in Produced, p.event = m.event, p.retry > m.retry PROVE Accounted(r)'
      <4>1. p \in Record /\ m \in Record
        BY ProducedAt DEF TypeOK
      <4>2. p.event = r.event /\ p.retry > m.retry /\ p.retry >= r.retry
        BY <3>1, <3>5, <4>1, ProjectionAssumption DEF Record
      <4>3. PICK q \in Partitions, i \in Nat : i \in 1..Len(log[q]) /\ log[q][i] = p
        BY <1>0, ProducedAt
      <4>4. CASE i > committed[q]
        <5>1. Pending(p)
          BY <1>0, <4>1, <4>3, <4>4, ProjectionAssumption DEF Pending, Record
        <5> QED  BY <1>1, <4>1, <4>2, <5>1
      <4>5. CASE i <= committed[q]
        <5>1. Accounted(p)
          BY <1>0, <4>3, <4>5 DEF NothingLost, RecordsUpTo
        <5>2. CASE p.event \in Settled
          BY <1>2, <4>2, <5>2
        <5>3. CASE Queued(p)
          <6>1. PICK k \in BagToSet(dlq) : k.event = p.event /\ k.retry >= p.retry
            BY <5>3 DEF Queued
          <6>2. k \in Record
            BY DEF TypeOK
          <6>3. k # deleting /\ k.retry >= r.retry
            BY <3>3, <4>1, <4>2, <6>1, <6>2, ProjectionAssumption DEF Record
          <6>4. k \in BagToSet(dlq')
            BY <3>2, <6>3
          <6> QED  BY <2>3, <4>2, <6>1, <6>3, <6>4
        <5>4. CASE Pending(p)
          BY <1>1, <4>1, <4>2, <5>4
        <5> QED  BY <5>1, <5>2, <5>3, <5>4 DEF Accounted
      <4> QED  BY <1>0, <4>3, <4>4, <4>5
    <3> QED  BY <3>2, <3>3, <3>4, <3>5 DEF Dealt, PassedOn
  <2> QED  BY <2>1, <2>2, <2>3
<1>4. CASE Pending(r)
  BY <1>1, <1>4, ProjectionAssumption DEF Record
<1> QED  BY <1>2, <1>3, <1>4 DEF Accounted

\* A commit moves past one record, which is passed on or queued.
LEMMA AccountedAtCommit ==
  ASSUME TypeOK, Ladder, QueueOK, HandOK, NothingLost,
         pc \in {"skip", "commit", "commitdlq"}, CommitOffset,
         UNCHANGED <<feed, log, stores, retrying, history>>,
         NEW r \in Record, Accounted(r) \/ (E = r.event /\ Current.retry >= r.retry)
  PROVE  Accounted(r)'
<1> DEFINE c == hand.part
<1>0. /\ hand # None /\ c \in Partitions /\ hand.offset \in 1..Len(log[c]) /\ Current \in Record
      /\ hand.offset \in {committed[c], committed[c] + 1}
      /\ \A q \in Partitions : committed[q] \in Nat /\ Len(log[q]) \in Nat
  BY Working, InHand DEF TypeOK
<1>1. \A q \in Partitions : committed'[q] = IF q = c THEN hand.offset ELSE committed[q]
  BY <1>0 DEF CommitOffset, TypeOK
<1>2. Settled' = Settled /\ log' = log /\ dlq' = dlq
  BY DEF Settled, stores, retrying, history
<1>3. ASSUME NEW q \in Partitions, NEW i \in 1..Len(log[q]), i > committed[q],
             ~(q = c /\ i = hand.offset)
      PROVE  i > committed'[q]
  BY <1>0, <1>1, <1>3
<1>4. ASSUME r.event \in Settled \/ Queued(r) PROVE Accounted(r)'
  BY <1>2, <1>4 DEF Accounted, Queued
<1>5. ASSUME NEW q \in Partitions, NEW i \in 1..Len(log[q]), i > committed[q],
             log[q][i].event = r.event, log[q][i].retry >= r.retry, ~(q = c /\ i = hand.offset)
      PROVE  Accounted(r)'
  <2>1. i \in (committed'[q] + 1)..Len(log'[q])
    BY <1>0, <1>1, <1>2, <1>3, <1>5
  <2> QED  BY <1>2, <1>5, <2>1 DEF Accounted, Pending
<1>6. ASSUME E = r.event, Current.retry >= r.retry PROVE Accounted(r)'
  <2>1. CASE pc # "commitdlq"
    BY <1>4, <1>6, <2>1 DEF HandOK, Settled
  <2>2. CASE r.event \in Settled
    BY <1>4, <2>2
  <2>3. CASE Queued(Current)
    <3>1. PICK m \in BagToSet(dlq) : m.event = E /\ m.retry >= Current.retry
      BY <2>3 DEF Queued, E
    <3>2. m.retry >= r.retry
      BY <1>0, <1>6, <3>1, ProjectionAssumption DEF TypeOK, Record
    <3> QED  BY <1>4, <1>6, <3>1, <3>2 DEF Queued
  <2>4. ASSUME NEW p \in Produced, p.event = E, p.retry > Current.retry PROVE Accounted(r)'
    <3>1. p \in Record
      BY ProducedAt DEF TypeOK
    <3>2. /\ p.retry \in Nat /\ r.retry \in Nat /\ Current.retry \in Nat
          /\ p.retry >= r.retry /\ p.event = r.event
      BY <1>0, <1>6, <2>4, <3>1, ProjectionAssumption DEF Record
    <3>3. PICK q \in Partitions, i \in Nat : i \in 1..Len(log[q]) /\ log[q][i] = p
      BY <1>0, ProducedAt
    <3>4. ~(q = c /\ i = hand.offset)
      BY <2>4, <3>2, <3>3 DEF Current
    <3>5. CASE i > committed[q]
      BY <1>5, <3>2, <3>3, <3>4, <3>5
    <3>6. CASE i <= committed[q]
      <4>1. Accounted(p)
        BY <1>0, <3>3, <3>6 DEF NothingLost, RecordsUpTo
      <4>2. CASE p.event \in Settled
        BY <1>4, <3>2, <4>2
      <4>3. CASE Queued(p)
        <5>1. PICK m \in BagToSet(dlq) : m.event = p.event /\ m.retry >= p.retry
          BY <4>3 DEF Queued
        <5>2. m.retry >= r.retry
          BY <3>1, <3>2, <5>1, ProjectionAssumption DEF TypeOK, Record
        <5> QED  BY <1>4, <3>2, <5>1, <5>2 DEF Queued
      <4>4. CASE Pending(p)
        <5>1. PICK s \in Partitions, k \in Nat : /\ k \in (committed[s] + 1)..Len(log[s])
                                                 /\ log[s][k].event = p.event
                                                 /\ log[s][k].retry >= p.retry
          BY <1>0, <4>4 DEF Pending
        <5>2. k \in 1..Len(log[s]) /\ k > committed[s]
          BY <1>0, <5>1
        <5>3. log[s][k].retry \in Nat
          <6>1. log[s][k] \in Record
            BY <5>2 DEF TypeOK
          <6> QED  BY <6>1, ProjectionAssumption DEF Record
        <5>4. log[s][k].retry >= r.retry /\ log[s][k].retry > Current.retry
          BY <2>4, <3>2, <5>1, <5>3
        <5>5. ~(s = c /\ k = hand.offset)
          BY <3>2, <5>3, <5>4 DEF Current
        <5> QED  BY <1>5, <3>2, <5>1, <5>2, <5>4, <5>5
      <4> QED  BY <4>1, <4>2, <4>3, <4>4 DEF Accounted
    <3> QED  BY <1>0, <3>3, <3>5, <3>6
  <2> QED  BY <1>6, <2>1, <2>2, <2>3, <2>4 DEF HandOK, PassedOn, E
<1>7. CASE Pending(r)
  <2>1. PICK q \in Partitions, i \in Nat : /\ i \in (committed[q] + 1)..Len(log[q])
                                           /\ log[q][i].event = r.event
                                           /\ log[q][i].retry >= r.retry
    BY <1>0, <1>7 DEF Pending
  <2>2. i \in 1..Len(log[q]) /\ i > committed[q]
    BY <1>0, <2>1
  <2>3. CASE q = c /\ i = hand.offset
    BY <1>6, <2>1, <2>3 DEF E, Current
  <2> QED  BY <1>5, <2>1, <2>2, <2>3
<1> QED  BY <1>4, <1>6, <1>7 DEF Accounted

\* No step of the consumer, the Lambda or the write side loses a record.
LEMMA NothingLostStep ==
  ASSUME TypeOK, Ladder, QueueOK, Dealt, HandOK, NothingLost, Effects
  PROVE  NothingLost'
<1> SUFFICES ASSUME NEW q \in Partitions, NEW i \in 1..committed'[q], NEW s, s = log'[q][i]
             PROVE  \/ s.event \in Settled'
                    \/ \E m \in BagToSet(dlq') : m.event = s.event /\ m.retry >= s.retry
                    \/ \E p \in Partitions : \E k \in (committed'[p] + 1)..Len(log'[p]) :
                         log'[p][k].event = s.event /\ log'[p][k].retry >= s.retry
  BY DEF NothingLost, RecordsUpTo, Accounted, Queued, Pending
<1>0. /\ committed[q] \in Nat /\ committed'[q] \in Nat /\ committed'[q] <= Len(log[q])
      /\ Len(log[q]) \in Nat /\ log[q] \in Seq(Record)
  BY OffsetStep, LogStep DEF Effects, TypeOK
<1>1. i \in 1..Len(log[q]) /\ log[q][i] \in Record
  BY <1>0
<1>2. log'[q][i] = log[q][i]
  BY <1>1, LogStep DEF Effects
<1>3. PICK r \in Record : r = log[q][i]
  BY <1>1
<1>4. i <= committed[q] => Accounted(r)
  BY <1>0, <1>1, <1>3 DEF NothingLost, RecordsUpTo
<1>5. Accounted(r)'
  <2>1. CASE UNCHANGED committed
    <3>1. Accounted(r)
      BY <1>0, <1>1, <1>4, <2>1
    <3> QED  BY <2>1, <3>1, AccountedStays
  <2>2. CASE /\ pc \in {"skip", "commit", "commitdlq"} /\ CommitOffset
             /\ UNCHANGED <<feed, log, stores, retrying, history>>
    <3>1. Accounted(r) \/ (E = r.event /\ Current.retry >= r.retry)
      <4>1. CASE i > committed[q]
        <5>1. hand # None /\ hand.offset \in {committed[hand.part], committed[hand.part] + 1}
          BY <2>2, Working DEF TypeOK
        <5>2. q = hand.part /\ i = hand.offset
          BY <1>0, <1>1, <2>2, <4>1, <5>1 DEF CommitOffset, TypeOK
        <5> QED  BY <1>3, <5>2, ProjectionAssumption DEF E, Current, Record
      <4> QED  BY <1>0, <1>1, <1>4, <4>1
    <3> QED  BY <2>2, <3>1, AccountedAtCommit
  <2> QED  BY <2>1, <2>2 DEF Effects, OffsetEffect
<1> QED  BY <1>2, <1>3, <1>5 DEF Accounted, Queued, Pending
-----------------------------------------------------------------------------
(* Theorems.                                                               *)

\* At the start the log, the queue and the stores are empty.
LEMMA InitInv == Init => Inv
<1> SUFFICES ASSUME Init PROVE Inv
  OBVIOUS
<1>1. \A q \in Partitions : log[q] = <<>> /\ Len(log[q]) = 0 /\ committed[q] = 0
  BY DEF Init
<1>2. Produced = {}
  BY <1>1 DEF Produced, RecordsUpTo
<1>3. IsABag(EmptyBag) /\ BagToSet(EmptyBag) = {}
  BY DEF EmptyBag, SetToBag, IsABag, BagToSet
<1>4. TypeOK
  <2>1. log \in [Partitions -> Seq(Record)] /\ committed \in [Partitions -> Nat]
    BY DEF Init
  <2>2. rows \in [Orders -> Row \cup {None}] /\ cache \in [Orders -> Row \cup {None}]
    BY DEF Init
  <2>3. tries \in 0..MaxTries
    BY ProjectionAssumption DEF Init
  <2>4. BagToSet(dlq) = {} /\ stored = {} /\ published = {}
    BY <1>3 DEF Init, FeedInit
  <2> QED  BY <1>1, <2>1, <2>2, <2>3, <2>4 DEF Init, TypeOK, PC
<1>5. FeedOK /\ Ladder /\ QueueOK /\ Dealt /\ DeadOnlyAfterRetries
  BY <1>2, <1>3 DEF Init, FeedInit, FeedOK, Ladder, QueueOK, Dealt, DeadOnlyAfterRetries
<1>6. HandOK
  BY DEF Init, HandOK
<1>7. NothingLost
  BY <1>1 DEF NothingLost, RecordsUpTo
<1> QED  BY <1>4, <1>5, <1>6, <1>7 DEF Inv

\* Every step keeps the invariant.
LEMMA InvStep == Inv /\ [Next]_vars => Inv'
<1> SUFFICES ASSUME Inv, [Next]_vars PROVE Inv'
  OBVIOUS
<1>0. Effects /\ TypeOK /\ FeedOK /\ Ladder /\ QueueOK /\ Dealt /\ HandOK
      /\ DeadOnlyAfterRetries /\ NothingLost
  BY StepEffects DEF Inv
<1>1. TypeOK'
  BY <1>0, TypeStep
<1>2. FeedOK' /\ Ladder' /\ QueueOK'
  BY <1>0, FeedStep, LadderStep, QueueStep DEF Effects
<1>3. Dealt' /\ HandOK'
  BY <1>0, DealtStep, HandStep
<1>4. DeadOnlyAfterRetries' /\ NothingLost'
  BY <1>0, DeadStep, NothingLostStep
<1> QED  BY <1>1, <1>2, <1>3, <1>4 DEF Inv

\* The inductive invariant of the read side.
THEOREM Invariance == Spec => []Inv
BY InitInv, InvStep, PTL DEF Spec

\* The read side keeps its types: offsets stay within the log, and what is
\* diverted was published.
THEOREM TypeCorrect == Spec => []TypeOK
<1>1. Inv => TypeOK
  BY DEF Inv
<1> QED  BY <1>1, Invariance, PTL

\* consumers/main.py, "DEAD LETTER QUEUE ... so it's not lost": whatever fails,
\* every record behind the committed offset has its processed: key, is queued,
\* ahead in the log or dead-lettered, or was refused by SQS or expired there.
THEOREM NoEventIsLost == Spec => []NothingLost
<1>1. Inv => NothingLost
  BY DEF Inv
<1> QED  BY <1>1, Invariance, PTL

\* retry_handler.py: no event is moved to S3 before its retries are used up.
THEOREM GivenUpAfterRetries == Spec => []DeadOnlyAfterRetries
<1>1. Inv => DeadOnlyAfterRetries
  BY DEF Inv
<1> QED  BY <1>1, Invariance, PTL
=============================================================================
