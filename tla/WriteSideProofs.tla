-------------------------- MODULE WriteSideProofs --------------------------
(***************************************************************************)
(* The safety of the write side, for any number of orders, requests, keys, *)
(* publish attempts and events.                                            *)
(*                                                                         *)
(* The business rules are checked on an aggregate loaded some awaits       *)
(* before the append, so LegalHistory is not inductive by itself.  The     *)
(* inductive invariant Inv adds what every request in flight relies on     *)
(* (RequestsOK): its event stays the legal successor of the events before  *)
(* it.  That is stable because versions are contiguous: an event can only  *)
(* be inserted at a free version, and no version below the one a request   *)
(* holds is free.                                                          *)
(***************************************************************************)
EXTENDS WriteSide, AggregateLemmas

Inv == /\ TypeOK
       /\ RequestsOK
       /\ VersionsAreContiguous
       /\ LegalHistory
       /\ PaidOnlyIfCharged
       /\ OnlyStoredIsPublished
       /\ KeyNamesPublishedOrder

\* The initial states of the write side satisfy the inductive invariant.
LEMMA InitInv == Init => Inv
<1> SUFFICES ASSUME Init PROVE Inv
  OBVIOUS
<1>1. TypeOK
  BY WriteSideAssumption DEF Init, TypeOK, PC
<1>2. RequestsOK
  BY DEF Init, RequestsOK, RequestOK
<1>3. VersionsAreContiguous /\ LegalHistory /\ PaidOnlyIfCharged
  BY DEF Init, VersionsAreContiguous, LegalHistory, PaidOnlyIfCharged
<1>4. OnlyStoredIsPublished
  BY DEF Init, OnlyStoredIsPublished
<1>5. KeyNamesPublishedOrder
  BY DEF Init, KeyNamesPublishedOrder
<1> QED  BY <1>1, <1>2, <1>3, <1>4, <1>5 DEF Inv

\* The event of a request under way is an event.
LEMMA ActiveEvent ==
  ASSUME TypeOK, RequestsOK, NEW h \in Handlers, pc[h] # "idle"
  PROVE  event[h] \in Event
BY DEF TypeOK, RequestsOK, RequestOK

\* Latest of the stored events of an order.
LEMMA LatestStored ==
  ASSUME TypeOK, RequestsOK, NEW o \in Orders, EventsOf(o) # {}
  PROVE  /\ Latest(EventsOf(o)) \in EventsOf(o)
         /\ Latest(EventsOf(o)) \in Event
         /\ \A f \in EventsOf(o) : f.version <= Latest(EventsOf(o)).version
<1>1. EventsOf(o) \subseteq Event /\ \A e \in EventsOf(o) : e.version <= MaxVersion
  BY DEF EventsOf, TypeOK, RequestsOK
<1> QED  BY <1>1, LatestIsMax, WriteSideAssumption

-----------------------------------------------------------------------------
(* Type correctness.                                                       *)

\* Finish keeps the types of the variables of the requests.
LEMMA FinishType ==
  ASSUME TypeOK, NEW h \in Handlers, Finish(h)
  PROVE  /\ pc' \in [Handlers -> PC] /\ event' \in [Handlers -> Event \cup {None}]
         /\ key' \in [Handlers -> Keys \cup {None}]
         /\ attempt' \in [Handlers -> 0..MaxAttempts]
         /\ marked' \in [Handlers -> BOOLEAN]
BY WriteSideAssumption DEF TypeOK, Finish, PC

\* So does a failed publish attempt; the attempts stay within MaxAttempts.
LEMMA RetryType ==
  ASSUME TypeOK, NEW h \in Handlers, NEW m \in BOOLEAN, RetryPublish(h, m)
  PROVE  /\ pc' \in [Handlers -> PC] /\ event' \in [Handlers -> Event \cup {None}]
         /\ key' \in [Handlers -> Keys \cup {None}]
         /\ attempt' \in [Handlers -> 0..MaxAttempts]
         /\ marked' \in [Handlers -> BOOLEAN]
<1>1. CASE attempt[h] < MaxAttempts /\ attempt' = [attempt EXCEPT ![h] = @ + 1]
           /\ marked' = [marked EXCEPT ![h] = m] /\ Goto(h, "check") /\ UNCHANGED <<event, key>>
  BY <1>1, WriteSideAssumption DEF TypeOK, Goto, PC
<1>2. CASE Finish(h)
  BY <1>2, FinishType
<1> QED  BY <1>1, <1>2 DEF RetryPublish

\* The event of a command is an event: its version is one more than that of a
\* stored one.
LEMMA CommandType ==
  ASSUME TypeOK, RequestsOK, NEW h \in Handlers, NEW o \in Orders,
         NEW t \in EventType, NEW p \in Payloads \cup {None}, NEW l \in PC,
         Command(h, o, t, p, l)
  PROVE  /\ pc' \in [Handlers -> PC] /\ event' \in [Handlers -> Event \cup {None}]
         /\ UNCHANGED <<services, key, attempt, marked, replies>>
<1>1. Latest(EventsOf(o)) \in Event
  BY LatestStored DEF Command
<1>2. MakeEvent(o, Rebuild(EventsOf(o)).version + 1, t, p) \in Event
  BY <1>1 DEF Rebuild, MakeEvent, Event
<1> QED  BY <1>2 DEF Command, Goto, TypeOK

\* A record is appended to the log of its order.
LEMMA ProduceType ==
  ASSUME TypeOK, NEW e \in Event, Produce(e)
  PROVE  topic' \in [Orders -> Seq(Event)]
<1>1. e.order \in Orders
  BY DEF Event
<1>2. topic \in [Orders -> Seq(Event)]
  BY DEF TypeOK
<1>3. Append(topic[e.order], e) \in Seq(Event)
  BY <1>1, <1>2
<1> QED  BY <1>1, <1>2, <1>3 DEF Produce

\* Every action of the write side keeps the types.
LEMMA TypeStep == TypeOK /\ RequestsOK /\ [Next]_vars => TypeOK'
<1> SUFFICES ASSUME TypeOK, RequestsOK, [Next]_vars PROVE TypeOK'
  OBVIOUS
<1> USE DEF services, requests
<1>1. CASE UNCHANGED vars
  BY <1>1 DEF vars, TypeOK
<1>2. CASE Crash
  BY <1>2, WriteSideAssumption DEF Crash, TypeOK, PC
<1>3. ASSUME NEW k \in Keys, CreateOrderAgain(k) PROVE TypeOK'
  BY <1>3 DEF CreateOrderAgain, TypeOK
<1>4. ASSUME NEW h \in Handlers, Arrive(h) PROVE TypeOK'
  <2>1. ASSUME NEW k \in Keys, NEW o \in Orders, CreateOrder(h, k, o) PROVE TypeOK'
    <3>1. MakeEvent(o, 1, "ORDER_CREATED", None) \in Event
      BY DEF MakeEvent, Event, EventType
    <3> QED  BY <2>1, <3>1 DEF CreateOrder, Goto, TypeOK, PC
  <2>2. ASSUME NEW o \in Orders, NEW t \in EventType, NEW p \in Payloads \cup {None},
               NEW l \in PC, Command(h, o, t, p, l)
        PROVE  TypeOK'
    BY <2>2, CommandType DEF TypeOK
  <2>3. ASSUME NEW o \in Orders, ConfirmOrder(h, o) \/ CancelOrder(h, o)
        PROVE  TypeOK'
    BY <2>2, <2>3 DEF ConfirmOrder, CancelOrder, EventType, PC
  <2>4. ASSUME NEW o \in Orders, NEW p \in Payloads,
               AddItem(h, o, p) \/ ProcessPayment(h, o, p) \/ ShipOrder(h, o, p)
        PROVE  TypeOK'
    BY <2>2, <2>4 DEF AddItem, ProcessPayment, ShipOrder, EventType, PC
  <2> QED  BY <1>4, <2>1, <2>3, <2>4, WriteSideAssumption DEF Arrive
<1>5. ASSUME NEW h \in Handlers, Continue(h) PROVE TypeOK'
  <2>1. CASE Charge(h)
    <3>1. [order |-> event[h].order, payment |-> event[h].payload] \in [order : Orders, payment : Payloads]
      BY <2>1, ActiveEvent DEF Charge, RequestsOK, RequestOK, PayloadOf, Event
    <3> QED  BY <2>1, <3>1 DEF Charge, Goto, TypeOK, PC
  <2>2. CASE ChargeDeclined(h)
    BY <2>2, FinishType DEF ChargeDeclined, TypeOK
  <2>3. CASE AppendEvent(h)
    BY <2>3, ActiveEvent, WriteSideAssumption DEF AppendEvent, Goto, TypeOK, PC
  <2>4. CASE VersionConflict(h)
    BY <2>4, FinishType DEF VersionConflict, TypeOK
  <2>5. CASE AppendFails(h)
    BY <2>5, FinishType, ActiveEvent DEF AppendFails, TypeOK
  <2>6. CASE CheckPublished(h)
    BY <2>6 DEF CheckPublished, Goto, TypeOK, PC
  <2>7. CASE SkipPublished(h)
    BY <2>7 DEF SkipPublished, PublishReturns, Goto, TypeOK, PC
  <2>8. CASE CheckFails(h)
    <3>1. marked[h] \in BOOLEAN  BY DEF TypeOK
    <3> QED  BY <2>8, <3>1, RetryType DEF CheckFails, TypeOK
  <2>9. CASE Send(h) \/ SendFails(h)
    <3>1. topic' \in [Orders -> Seq(Event)]
      <4>1. event[h] \in Event  BY <2>9, ActiveEvent DEF Send, SendFails
      <4>2. Produce(event[h]) => topic' \in [Orders -> Seq(Event)]
        BY <4>1, ProduceType
      <4> QED  BY <2>9, <4>2 DEF Send, SendFails, TypeOK
    <3>2. CASE Send(h)
      BY <3>1, <3>2 DEF Send, Goto, TypeOK, PC
    <3>3. CASE SendFails(h)
      <4>1. marked[h] \in BOOLEAN  BY DEF TypeOK
      <4> QED  BY <3>1, <3>3, <4>1, RetryType DEF SendFails, TypeOK
    <3> QED  BY <2>9, <3>2, <3>3
  <2>10. CASE MarkPublished(h)
    BY <2>10 DEF MarkPublished, PublishReturns, Goto, TypeOK, PC
  <2>11. CASE MarkFails(h)
    BY <2>11, RetryType DEF MarkFails, TypeOK
  <2>12. CASE RememberKey(h) \/ RememberFails(h)
    <3>1. event[h].order \in Orders /\ key[h] \in Keys
      BY <2>12, ActiveEvent DEF RememberKey, RememberFails, RequestsOK, RequestOK, TypeOK, Event
    <3>2. CASE RememberKey(h)
      BY <3>1, <3>2 DEF RememberKey, SetKey, Goto, TypeOK, PC
    <3>3. CASE RememberFails(h)
      BY <3>1, <3>3, FinishType DEF RememberFails, SetKey, TypeOK
    <3> QED  BY <2>12, <3>2, <3>3
  <2>13. CASE Answer(h)
    BY <2>13, FinishType DEF Answer, TypeOK
  <2> QED  BY <1>5, <2>1, <2>2, <2>3, <2>4, <2>5, <2>6, <2>7, <2>8, <2>9, <2>10,
              <2>11, <2>12, <2>13 DEF Continue
<1> QED  BY <1>1, <1>2, <1>3, <1>4, <1>5 DEF Next
-----------------------------------------------------------------------------
(* What a step can do to the services, whichever action it is.             *)

\* e is inserted by the append of request h.
Inserts(h) == /\ pc[h] = "append" /\ VersionFree(event[h])
              /\ store' = store \cup {event[h]}

StoreEffect  == store' = store \/ \E h \in Handlers : Inserts(h)
TopicEffect  == topic' = topic \/ \E h \in Handlers : pc[h] = "send" /\ Produce(event[h])
ChargeEffect == charged \subseteq charged'
IdemEffect   == idem' = idem \/ \E h \in Handlers : pc[h] = "remember" /\ SetKey(h)

\* Only an append changes the store, only a send the topic, only the last await
\* of create_order the idempotency keys, and no charge is ever undone.
LEMMA Effects == [Next]_vars => StoreEffect /\ TopicEffect /\ ChargeEffect /\ IdemEffect
<1> SUFFICES ASSUME [Next]_vars PROVE StoreEffect /\ TopicEffect /\ ChargeEffect /\ IdemEffect
  OBVIOUS
<1> USE DEF services, requests, StoreEffect, TopicEffect, ChargeEffect, IdemEffect
<1>1. CASE UNCHANGED vars
  BY <1>1 DEF vars
<1>2. CASE Crash
  BY <1>2 DEF Crash
<1>3. ASSUME NEW k \in Keys, CreateOrderAgain(k) PROVE UNCHANGED services
  BY <1>3 DEF CreateOrderAgain
<1>4. ASSUME NEW h \in Handlers, Arrive(h) PROVE UNCHANGED services
  BY <1>4 DEF Arrive, CreateOrder, ConfirmOrder, ShipOrder, CancelOrder, AddItem,
              ProcessPayment, Command
<1>5. ASSUME NEW h \in Handlers, Continue(h)
      PROVE  StoreEffect /\ TopicEffect /\ ChargeEffect /\ IdemEffect
  <2>1. CASE Charge(h) \/ ChargeDeclined(h)
    BY <2>1 DEF Charge, ChargeDeclined
  <2>2. CASE AppendEvent(h) \/ VersionConflict(h) \/ AppendFails(h)
    BY <2>2 DEF AppendEvent, VersionConflict, AppendFails, Inserts
  <2>3. CASE CheckPublished(h) \/ SkipPublished(h) \/ CheckFails(h)
    BY <2>3 DEF CheckPublished, SkipPublished, CheckFails
  <2>4. CASE Send(h) \/ SendFails(h)
    BY <2>4 DEF Send, SendFails
  <2>5. CASE MarkPublished(h) \/ MarkFails(h)
    BY <2>5 DEF MarkPublished, MarkFails
  <2>6. CASE RememberKey(h) \/ RememberFails(h) \/ Answer(h)
    BY <2>6 DEF RememberKey, RememberFails, Answer
  <2> QED  BY <1>5, <2>1, <2>2, <2>3, <2>4, <2>5, <2>6 DEF Continue
<1> QED  BY <1>1, <1>2, <1>3, <1>4, <1>5 DEF Next

-----------------------------------------------------------------------------
(* The store.                                                              *)

\* The heart of the argument: an insertion never changes what comes before an
\* event that is stored, or whose predecessor is.
LEMMA BeforeIsStable ==
  ASSUME TypeOK, RequestsOK, VersionsAreContiguous, StoreEffect, NEW e \in Event,
         \/ e \in store
         \/ e.version = 1
         \/ \E f \in store : f.order = e.order /\ f.version = e.version - 1
  PROVE  Before(e)' = Before(e)
<1>1. CASE store' = store
  BY <1>1 DEF Before
<1>2. CASE \E h \in Handlers : Inserts(h)
  <2>1. PICK h \in Handlers : Inserts(h)
    BY <1>2
  <2>2. event[h] \in Event
    BY <2>1, ActiveEvent DEF Inserts
  <2>3. ASSUME event[h].order = e.order, event[h].version < e.version PROVE FALSE
    <3> DEFINE v == event[h].version
    <3>1. v \in Nat \ {0} /\ e.version \in Nat \ {0} /\ v < e.version
      BY <2>2, <2>3 DEF Event
    <3>2. PICK f \in store : f.order = e.order /\ v <= f.version
      <4>1. CASE e \in store
        BY <3>1, <4>1
      <4>2. CASE e.version = 1
        BY <3>1, <4>2
      <4>3. CASE \E f \in store : f.order = e.order /\ f.version = e.version - 1
        <5>1. PICK f \in store : f.order = e.order /\ f.version = e.version - 1
          BY <4>3
        <5>2. v <= f.version
          BY <3>1, <5>1
        <5> QED  BY <5>1, <5>2
      <4> QED  BY <4>1, <4>2, <4>3
    <3>3. f.version \in Nat
      BY DEF TypeOK, Event
    <3>4. v \in 1..f.version
      BY <3>1, <3>2, <3>3
    <3>5. PICK g \in store : g.order = f.order /\ g.version = v
      BY <3>4 DEF VersionsAreContiguous
    <3> QED  BY <2>1, <2>3, <3>2, <3>5 DEF Inserts, VersionFree
  <2> QED  BY <2>1, <2>3 DEF Inserts, Before
<1> QED  BY <1>1, <1>2 DEF StoreEffect

\* An event that may be appended stays so while others are appended.
LEMMA AppendableIsStable ==
  ASSUME TypeOK, RequestsOK, VersionsAreContiguous, StoreEffect,
         NEW e \in Event, Appendable(e)
  PROVE  Appendable(e)'
<1>1. Before(e)' = Before(e)
  BY BeforeIsStable DEF Appendable
<1>2. store \subseteq store'
  BY DEF StoreEffect, Inserts
<1> QED  BY <1>1, <1>2 DEF Appendable

\* Optimistic concurrency keeps the versions of an order contiguous.
LEMMA ContiguousStep ==
  ASSUME TypeOK, RequestsOK, VersionsAreContiguous, StoreEffect
  PROVE  VersionsAreContiguous'
<1>1. CASE store' = store
  BY <1>1 DEF VersionsAreContiguous
<1>2. ASSUME NEW h \in Handlers, Inserts(h) PROVE VersionsAreContiguous'
  <2> DEFINE e == event[h]
  <2>1. e \in Event /\ Appendable(e) /\ VersionFree(e) /\ store' = store \cup {e}
    BY <1>2, ActiveEvent DEF Inserts, RequestsOK, RequestOK
  <2> HIDE DEF e
  <2>2. ASSUME NEW v \in 1..e.version
        PROVE  \E f \in store' : f.order = e.order /\ f.version = v
    <3>0. e.version \in Nat /\ v \in Nat /\ 1 <= v /\ v <= e.version
      BY <2>1, <2>2 DEF Event
    <3>1. CASE v = e.version
      BY <2>1, <3>1
    <3>2. CASE v # e.version
      <4>1. PICK f \in store : f.order = e.order /\ f.version = e.version - 1
        BY <2>1, <3>0, <3>2 DEF Appendable
      <4>2. v \in 1..f.version
        BY <3>0, <3>2, <4>1
      <4> QED  BY <2>1, <4>1, <4>2 DEF VersionsAreContiguous
    <3> QED  BY <3>1, <3>2
  <2>3. ASSUME NEW f \in store', NEW g \in store', g.order = f.order, g.version = f.version
        PROVE  g = f
    BY <2>1, <2>3 DEF VersionsAreContiguous, VersionFree
  <2>4. ASSUME NEW f \in store, NEW v \in 1..f.version
        PROVE  \E g \in store' : g.order = f.order /\ g.version = v
    BY <2>1 DEF VersionsAreContiguous
  <2> QED  BY <2>1, <2>2, <2>3, <2>4 DEF VersionsAreContiguous
<1> QED  BY <1>1, <1>2 DEF StoreEffect

\* The recorded history stays legal.
LEMMA LegalStep ==
  ASSUME TypeOK, RequestsOK, VersionsAreContiguous, LegalHistory, StoreEffect
  PROVE  LegalHistory'
<1> DEFINE Legal(e, b) == IF b = {} THEN e.type = "ORDER_CREATED"
                                    ELSE Allowed(Rebuild(b), e.type)
<1>1. ASSUME NEW e \in store PROVE Legal(e, Before(e)')
  <2>1. Before(e)' = Before(e)
    BY BeforeIsStable DEF TypeOK
  <2> QED  BY <2>1 DEF LegalHistory
<1>2. ASSUME NEW h \in Handlers, Inserts(h), NEW e, e = event[h]
      PROVE  Legal(e, Before(e)')
  <2>1. e \in Event /\ Appendable(e)
    BY <1>2, ActiveEvent DEF Inserts, RequestsOK, RequestOK
  <2>2. Before(e)' = Before(e)
    BY <2>1, BeforeIsStable DEF Appendable
  <2>3. CASE e.version = 1
    <3>1. Before(e) = {}
      BY <2>3 DEF Before, TypeOK, Event
    <3> QED  BY <2>1, <2>2, <2>3, <3>1 DEF Appendable
  <2>4. CASE e.version # 1
    <3>1. Before(e) # {} /\ Allowed(Rebuild(Before(e)), e.type)
      BY <2>1, <2>4 DEF Appendable, Before, TypeOK, Event
    <3> QED  BY <2>2, <3>1
  <2> QED  BY <2>3, <2>4
<1>3. ASSUME NEW e \in store' PROVE Legal(e, Before(e)')
  <2>1. e \in store \/ \E h \in Handlers : Inserts(h) /\ e = event[h]
    BY DEF StoreEffect, Inserts
  <2> HIDE DEF Legal
  <2> QED  BY <1>1, <1>2, <2>1
<1> QED  BY <1>3 DEF LegalHistory, Before

\* An order is recorded as paid only after its charge.
LEMMA PaidStep ==
  ASSUME TypeOK, RequestsOK, PaidOnlyIfCharged, StoreEffect, ChargeEffect
  PROVE  PaidOnlyIfCharged'
<1>1. ASSUME NEW e \in store', e.type = "ORDER_PAYMENT_PROCESSED"
      PROVE  [order |-> e.order, payment |-> e.payload] \in charged
  <2>1. CASE e \in store
    BY <1>1, <2>1 DEF PaidOnlyIfCharged
  <2>2. ASSUME NEW h \in Handlers, Inserts(h), e = event[h]
        PROVE  [order |-> e.order, payment |-> e.payload] \in charged
    BY <1>1, <2>2 DEF Inserts, RequestsOK, RequestOK
  <2> QED  BY <2>1, <2>2 DEF StoreEffect, Inserts
<1> QED  BY <1>1 DEF PaidOnlyIfCharged, ChargeEffect

-----------------------------------------------------------------------------
(* The topic.                                                              *)

\* A produced record is in the topic, and so is all that was there before.
LEMMA ProduceInTopic ==
  ASSUME TypeOK, NEW e \in Event, Produce(e)
  PROVE  /\ InTopic(e)'
         /\ \A f \in Event : InTopic(f) => InTopic(f)'
         /\ \A o \in Orders : \A i \in 1..Len(topic'[o]) :
              \/ i \in 1..Len(topic[o]) /\ topic'[o][i] = topic[o][i]
              \/ topic'[o][i] = e
<1> DEFINE o == e.order
<1>1. o \in Orders /\ topic \in [Orders -> Seq(Event)] /\ topic[o] \in Seq(Event)
  BY DEF TypeOK, Event
<1>2. topic'[o] = Append(topic[o], e)
  BY <1>1 DEF Produce
<1>3. /\ Len(topic'[o]) = Len(topic[o]) + 1 /\ Len(topic[o]) \in Nat
      /\ \A i \in 1..Len(topic[o]) : topic'[o][i] = topic[o][i]
      /\ topic'[o][Len(topic[o]) + 1] = e
  BY <1>1, <1>2
<1>4. \A p \in Orders : p # o => topic'[p] = topic[p]
  BY <1>1 DEF Produce
<1>5. InTopic(e)'
  BY <1>3 DEF InTopic
<1>6. ASSUME NEW f \in Event, InTopic(f) PROVE InTopic(f)'
  <2>1. PICK i \in 1..Len(topic[f.order]) : topic[f.order][i] = f
    BY <1>6 DEF InTopic
  <2>2. i \in 1..Len(topic'[f.order]) /\ topic'[f.order][i] = f
    BY <1>3, <1>4, <2>1 DEF Event
  <2> QED  BY <2>2 DEF InTopic
<1>7. ASSUME NEW p \in Orders, NEW i \in 1..Len(topic'[p])
      PROVE  \/ i \in 1..Len(topic[p]) /\ topic'[p][i] = topic[p][i]
             \/ topic'[p][i] = e
  BY <1>3, <1>4
<1> QED  BY <1>5, <1>6, <1>7

\* What is in the topic stays there.
LEMMA InTopicIsStable ==
  ASSUME TypeOK, RequestsOK, TopicEffect, NEW e \in Event, InTopic(e)
  PROVE  InTopic(e)'
<1>1. CASE topic' = topic
  BY <1>1 DEF InTopic
<1>2. ASSUME NEW h \in Handlers, pc[h] = "send", Produce(event[h]) PROVE InTopic(e)'
  <2>1. event[h] \in Event  BY <1>2, ActiveEvent
  <2> QED  BY <1>2, <2>1, ProduceInTopic
<1> QED  BY <1>1, <1>2 DEF TopicEffect

\* Only stored events are sent.
LEMMA OnlyStoredStep ==
  ASSUME TypeOK, RequestsOK, OnlyStoredIsPublished, StoreEffect, TopicEffect
  PROVE  OnlyStoredIsPublished'
<1>1. store \subseteq store'
  BY DEF StoreEffect, Inserts
<1>2. CASE topic' = topic
  BY <1>1, <1>2 DEF OnlyStoredIsPublished
<1>3. ASSUME NEW h \in Handlers, pc[h] = "send", Produce(event[h])
      PROVE  OnlyStoredIsPublished'
  <2>1. event[h] \in Event /\ event[h] \in store
    BY <1>3, ActiveEvent DEF RequestsOK, RequestOK
  <2>2. \A o \in Orders : \A i \in 1..Len(topic'[o]) :
              \/ i \in 1..Len(topic[o]) /\ topic'[o][i] = topic[o][i]
              \/ topic'[o][i] = event[h]
    BY <1>3, <2>1, ProduceInTopic
  <2> QED  BY <1>1, <2>1, <2>2 DEF OnlyStoredIsPublished
<1> QED  BY <1>2, <1>3 DEF TopicEffect

\* An idempotency key is stored last, when its order is recorded and published.
LEMMA KeyStep ==
  ASSUME TypeOK, RequestsOK, KeyNamesPublishedOrder, StoreEffect, TopicEffect, IdemEffect
  PROVE  KeyNamesPublishedOrder'
<1> DEFINE Named(o) == \E e \in store : e.order = o /\ e.type = "ORDER_CREATED" /\ InTopic(e)
<1>1. ASSUME NEW k \in Keys, idem'[k] # None PROVE Named(idem'[k])
  <2>1. CASE idem'[k] = idem[k]
    BY <1>1, <2>1 DEF KeyNamesPublishedOrder
  <2>2. CASE idem'[k] # idem[k]
    <3>1. PICK h \in Handlers : pc[h] = "remember" /\ SetKey(h)
      BY <2>2 DEF IdemEffect
    <3>2. idem'[k] = event[h].order
      BY <2>2, <3>1 DEF SetKey, TypeOK
    <3>3. event[h] \in store /\ event[h].type = "ORDER_CREATED" /\ InTopic(event[h])
      BY <3>1 DEF RequestsOK, RequestOK
    <3> QED  BY <3>2, <3>3
  <2> QED  BY <2>1, <2>2
<1>2. ASSUME NEW e \in store, InTopic(e) PROVE e \in store' /\ InTopic(e)'
  BY <1>2, InTopicIsStable DEF StoreEffect, Inserts, TypeOK
<1>3. ASSUME NEW k \in Keys, idem'[k] # None
      PROVE  \E e \in store' : e.order = idem'[k] /\ e.type = "ORDER_CREATED" /\ InTopic(e)'
  <2>1. PICK e \in store : e.order = idem'[k] /\ e.type = "ORDER_CREATED" /\ InTopic(e)
    BY <1>1, <1>3
  <2> QED  BY <2>1, <1>2
<1> QED  BY <1>3 DEF KeyNamesPublishedOrder, InTopic

-----------------------------------------------------------------------------
(* The requests.                                                           *)

Untouched(g) == /\ pc'[g] = pc[g] /\ event'[g] = event[g]
                /\ key'[g] = key[g] /\ marked'[g] = marked[g]

\* A step of another request disturbs nothing that request g relies on.
LEMMA UntouchedOK ==
  ASSUME TypeOK, RequestsOK, VersionsAreContiguous,
         StoreEffect, TopicEffect, ChargeEffect,
         NEW g \in Handlers, Untouched(g)
  PROVE  RequestOK(g)'
<1>1. RequestOK(g)
  BY DEF RequestsOK
<1>2. CASE pc[g] = "idle"
  BY <1>1, <1>2 DEF RequestOK, Untouched
<1>3. CASE pc[g] # "idle"
  <2>1. PICK f \in Event : f = event[g]
    BY <1>3, ActiveEvent
  <2>2. Appendable(f) => Appendable(f)'
    BY AppendableIsStable
  <2>3. InTopic(f) => InTopic(f)'
    BY InTopicIsStable
  <2>4. f = event'[g]
    BY <2>1 DEF Untouched
  <2>5. Appendable(f)' => Appendable(event[g])'
    BY <2>4 DEF Appendable, Before
  <2>6. InTopic(f)' => InTopic(event[g])'
    BY <2>4 DEF InTopic
  <2>7. store \subseteq store' /\ charged \subseteq charged'
    BY DEF StoreEffect, Inserts, ChargeEffect
  <2>8. (Appendable(event[g]) => Appendable(event[g])') /\ (InTopic(event[g]) => InTopic(event[g])')
    BY <2>1, <2>2, <2>3, <2>5, <2>6
  <2> QED  BY <1>1, <1>3, <2>7, <2>8 DEF RequestOK, Untouched
<1> QED  BY <1>2, <1>3

\* A request that is over relies on nothing.
LEMMA FinishOK ==
  ASSUME TypeOK, NEW h \in Handlers, Finish(h)
  PROVE  RequestOK(h)' /\ \A g \in Handlers \ {h} : Untouched(g)
BY DEF TypeOK, Finish, RequestOK, Untouched

\* The event of a command may be appended: the order's stored events are
\* exactly those before it.
LEMMA CommandOK ==
  ASSUME TypeOK, RequestsOK, VersionsAreContiguous,
         NEW h \in Handlers, NEW o \in Orders, NEW t \in EventType,
         NEW p \in Payloads \cup {None}, NEW l \in {"append", "charge"},
         t = "ORDER_PAYMENT_PROCESSED" <=> l = "charge", p \in PayloadOf(t),
         Command(h, o, t, p, l)
  PROVE  RequestOK(h)' /\ \A g \in Handlers \ {h} : Untouched(g)
<1> DEFINE last == Latest(EventsOf(o))
           e == MakeEvent(o, last.version + 1, t, p)
<1>1. /\ last \in EventsOf(o) /\ last \in Event
      /\ \A f \in EventsOf(o) : f.version <= last.version
  BY LatestStored DEF Command
<1>2. /\ pc[h] = "idle" /\ Allowed(Rebuild(EventsOf(o)), t)
      /\ last.version < MaxVersion /\ event' = [event EXCEPT ![h] = e]
      /\ pc' = [pc EXCEPT ![h] = l]
      /\ UNCHANGED <<store, topic, charged, key, marked>>
  BY DEF Command, Rebuild, Goto, services
<1> HIDE DEF last
<1>3. e.order = o /\ e.version = last.version + 1 /\ e.type = t /\ e.payload = p
  BY DEF MakeEvent
<1>4. e \in Event
  BY <1>1 DEF MakeEvent, Event
<1> HIDE DEF e
<1>5. Before(e) = EventsOf(o)
  BY <1>1, <1>3 DEF Before, EventsOf, TypeOK, Event
<1>6. Appendable(e)
  BY <1>1, <1>2, <1>3, <1>5 DEF Appendable, EventsOf, Event
<1>7. event'[h] = e /\ pc'[h] = l
  BY <1>2 DEF TypeOK
<1>8. Appendable(event[h])'
  BY <1>2, <1>6, <1>7 DEF Appendable, Before
<1>9. e.version <= MaxVersion
  BY <1>1, <1>2, <1>3, WriteSideAssumption DEF Event
<1>10. key'[h] = None /\ ~marked'[h] /\ e # None
  BY <1>2, <1>4, NoneAssumption DEF RequestsOK, RequestOK
<1>11. RequestOK(h)'
  BY <1>3, <1>7, <1>8, <1>9, <1>10 DEF RequestOK
<1> QED  BY <1>2, <1>11 DEF Untouched, TypeOK

\* A failed publish attempt: the same event is checked again, or the request
\* is over.
LEMMA RetryOK ==
  ASSUME TypeOK, RequestsOK, TopicEffect, NEW h \in Handlers, NEW m \in BOOLEAN,
         pc[h] \in {"check", "send", "mark"},
         m => InTopic(event[h]), store' = store, charged' = charged,
         RetryPublish(h, m)
  PROVE  RequestOK(h)' /\ \A g \in Handlers \ {h} : Untouched(g)
<1>1. CASE Finish(h)
  BY <1>1, FinishOK
<1>2. CASE /\ marked' = [marked EXCEPT ![h] = m] /\ Goto(h, "check") /\ UNCHANGED <<event, key>>
  <2>1. PICK e \in Event : e = event[h]
    BY ActiveEvent
  <2>2. InTopic(e) => InTopic(e)'
    BY InTopicIsStable
  <2>3. m => InTopic(event[h])'
    BY <1>2, <2>1, <2>2 DEF InTopic
  <2>4. pc'[h] = "check" /\ marked'[h] = m /\ event' = event /\ key' = key
    BY <1>2 DEF Goto, TypeOK
  <2>5. event[h] \in store /\ event[h].version <= MaxVersion /\ event[h] # None
        /\ event[h].payload \in PayloadOf(event[h].type)
        /\ (key[h] # None => event[h].type = "ORDER_CREATED")
    BY DEF RequestsOK, RequestOK
  <2>6. RequestOK(h)'
    BY <2>3, <2>4, <2>5 DEF RequestOK
  <2> QED  BY <1>2, <2>6 DEF Untouched, Goto, TypeOK
<1> QED  BY <1>1, <1>2 DEF RetryPublish

\* The facts about the request that takes a step, and the others it leaves alone.
Moves(h) == RequestOK(h)' /\ \A g \in Handlers \ {h} : Untouched(g)

\* A new request starts with what it relies on.
LEMMA ArriveOK ==
  ASSUME TypeOK, RequestsOK, VersionsAreContiguous, NEW h \in Handlers, Arrive(h)
  PROVE  Moves(h)
<1> USE DEF Moves
<1>1. ASSUME NEW k \in Keys, NEW o \in Orders, CreateOrder(h, k, o) PROVE Moves(h)
  <2> DEFINE e == MakeEvent(o, 1, "ORDER_CREATED", None)
  <2>1. e.version = 1 /\ e.type = "ORDER_CREATED" /\ e \in Event /\ e.payload \in PayloadOf(e.type)
    BY DEF MakeEvent, Event, EventType, PayloadOf
  <2> HIDE DEF e
  <2>2. /\ event' = [event EXCEPT ![h] = e] /\ key' = [key EXCEPT ![h] = k]
        /\ pc' = [pc EXCEPT ![h] = "append"] /\ marked' = marked /\ pc[h] = "idle"
        /\ 1 <= MaxVersion
    BY <1>1, WriteSideAssumption DEF CreateOrder, Goto, e
  <2>3. event'[h] = e /\ key'[h] = k /\ pc'[h] = "append" /\ e # None /\ k # None /\ ~marked'[h]
    BY <2>1, <2>2, NoneAssumption, WriteSideAssumption DEF TypeOK, RequestsOK, RequestOK
  <2>4. Appendable(event[h])'
    BY <2>1, <2>3 DEF Appendable
  <2>5. RequestOK(h)'
    BY <2>1, <2>2, <2>3, <2>4 DEF RequestOK
  <2> QED  BY <2>2, <2>5 DEF Untouched, TypeOK
<1>2. ASSUME NEW o \in Orders, ConfirmOrder(h, o) \/ CancelOrder(h, o)
      PROVE  Moves(h)
  BY <1>2, CommandOK DEF ConfirmOrder, CancelOrder, EventType, PayloadOf
<1>3. ASSUME NEW o \in Orders, NEW p \in Payloads,
             AddItem(h, o, p) \/ ProcessPayment(h, o, p) \/ ShipOrder(h, o, p)
      PROVE  Moves(h)
  BY <1>3, CommandOK DEF AddItem, ProcessPayment, ShipOrder, EventType, PayloadOf
<1> QED  BY <1>1, <1>2, <1>3, Arrive(h), WriteSideAssumption DEF Arrive

\* Each further step of a request keeps what it relies on.
LEMMA ContinueOK ==
  ASSUME TypeOK, RequestsOK, VersionsAreContiguous,
         StoreEffect, TopicEffect, ChargeEffect, NEW h \in Handlers, Continue(h)
  PROVE  Moves(h)
<1> USE DEF Moves, services, requests
<1>0. RequestOK(h) /\ marked[h] \in BOOLEAN
  BY DEF RequestsOK, TypeOK
<1>1. CASE Charge(h)
  <2>1. pc'[h] = "append" /\ event' = event /\ key' = key /\ marked' = marked /\ store' = store
        /\ pc[h] = "charge"
        /\ [order |-> event[h].order, payment |-> event[h].payload] \in charged'
    BY <1>1 DEF Charge, Goto, TypeOK
  <2>2. Appendable(event[h])'
    BY <1>0, <2>1 DEF RequestOK, Appendable, Before
  <2>3. RequestOK(h)'
    BY <1>0, <2>1, <2>2 DEF RequestOK
  <2> QED  BY <1>1, <2>3 DEF Charge, Goto, Untouched, TypeOK
<1>2. CASE ChargeDeclined(h) \/ VersionConflict(h) \/ AppendFails(h) \/ RememberFails(h) \/ Answer(h)
  BY <1>2, FinishOK DEF ChargeDeclined, VersionConflict, AppendFails, RememberFails, Answer
<1>3. CASE AppendEvent(h)
  <2>1. pc'[h] = "check" /\ event' = event /\ key' = key /\ marked' = marked
        /\ event[h] \in store' /\ pc[h] = "append"
    BY <1>3 DEF AppendEvent, Goto, TypeOK
  <2>2. RequestOK(h)'
    BY <1>0, <2>1 DEF RequestOK
  <2> QED  BY <1>3, <2>2 DEF AppendEvent, Goto, Untouched, TypeOK
<1>4. CASE CheckPublished(h)
  <2>1. pc'[h] = "send" /\ event' = event /\ key' = key /\ marked' = marked
        /\ store' = store /\ pc[h] = "check" /\ ~marked[h]
    BY <1>4 DEF CheckPublished, Goto, TypeOK
  <2>2. RequestOK(h)'
    BY <1>0, <2>1 DEF RequestOK
  <2> QED  BY <1>4, <2>2 DEF CheckPublished, Goto, Untouched, TypeOK
<1>5. CASE SkipPublished(h) \/ MarkPublished(h)
  <2>1. /\ pc'[h] = (IF key[h] # None THEN "remember" ELSE "answered")
        /\ event' = event /\ key' = key /\ store' = store /\ topic' = topic
        /\ pc[h] \in {"check", "mark"} /\ (pc[h] = "check" => marked[h])
    BY <1>5 DEF SkipPublished, MarkPublished, PublishReturns, Goto, TypeOK
  <2>2. InTopic(event[h])'
    BY <1>0, <2>1 DEF RequestOK, InTopic
  <2>3. RequestOK(h)'
    BY <1>0, <2>1, <2>2 DEF RequestOK
  <2> QED  BY <1>5, <2>3 DEF SkipPublished, MarkPublished, PublishReturns, Goto, Untouched, TypeOK
<1>6. CASE CheckFails(h)
  BY <1>0, <1>6, RetryOK DEF CheckFails, RequestOK
<1>7. CASE Send(h)
  <2>1. PICK e \in Event : e = event[h]
    BY <1>7, ActiveEvent DEF Send
  <2>2. InTopic(e)'
    BY <1>7, <2>1, ProduceInTopic DEF Send
  <2>3. /\ pc'[h] = "mark" /\ event' = event /\ key' = key /\ marked' = marked
        /\ store' = store /\ pc[h] = "send"
    BY <1>7 DEF Send, Goto, TypeOK
  <2>4. InTopic(event[h])'
    BY <2>1, <2>2, <2>3 DEF InTopic
  <2>5. RequestOK(h)'
    BY <1>0, <2>3, <2>4 DEF RequestOK
  <2> QED  BY <1>7, <2>5 DEF Send, Goto, Untouched, TypeOK
<1>8. CASE SendFails(h)
  BY <1>0, <1>8, RetryOK DEF SendFails, RequestOK
<1>9. CASE MarkFails(h)
  <2>1. PICK m \in BOOLEAN : RetryPublish(h, m)
    BY <1>9 DEF MarkFails
  <2>2. pc[h] = "mark" /\ InTopic(event[h]) /\ store' = store /\ charged' = charged
    BY <1>0, <1>9 DEF MarkFails, RequestOK
  <2> QED  BY <2>1, <2>2, RetryOK
<1>10. CASE RememberKey(h)
  <2>1. /\ pc'[h] = "answered" /\ event' = event /\ key' = key /\ marked' = marked
        /\ store' = store /\ topic' = topic /\ pc[h] = "remember"
    BY <1>10 DEF RememberKey, Goto, TypeOK
  <2>2. InTopic(event[h])'
    BY <1>0, <2>1 DEF RequestOK, InTopic
  <2>3. RequestOK(h)'
    BY <1>0, <2>1, <2>2 DEF RequestOK
  <2> QED  BY <1>10, <2>3 DEF RememberKey, Goto, Untouched, TypeOK
<1> QED  BY <1>1, <1>2, <1>3, <1>4, <1>5, <1>6, <1>7, <1>8, <1>9, <1>10, Continue(h) DEF Continue

\* Every step keeps what the requests rely on.
LEMMA RequestsStep ==
  ASSUME TypeOK, RequestsOK, VersionsAreContiguous,
         StoreEffect, TopicEffect, ChargeEffect, [Next]_vars
  PROVE  RequestsOK'
<1>1. \A e \in store' : e.version <= MaxVersion
  BY DEF StoreEffect, Inserts, RequestsOK, RequestOK
<1>2. ASSUME NEW h \in Handlers, Moves(h), NEW g \in Handlers PROVE RequestOK(g)'
  BY <1>2, UntouchedOK DEF Moves
<1>3. ASSUME NEW g \in Handlers PROVE RequestOK(g)'
  <2>1. CASE UNCHANGED vars
    <3>1. Untouched(g)  BY <2>1 DEF vars, requests, Untouched
    <3> QED  BY <3>1, UntouchedOK
  <2>2. CASE Crash
    BY <2>2 DEF Crash, RequestOK
  <2>3. ASSUME NEW k \in Keys, CreateOrderAgain(k) PROVE RequestOK(g)'
    <3>1. Untouched(g)  BY <2>3 DEF CreateOrderAgain, requests, Untouched
    <3> QED  BY <3>1, UntouchedOK
  <2>4. ASSUME NEW h \in Handlers, Arrive(h) PROVE RequestOK(g)'
    BY <1>2, <2>4, ArriveOK
  <2>5. ASSUME NEW h \in Handlers, Continue(h) PROVE RequestOK(g)'
    BY <1>2, <2>5, ContinueOK
  <2> QED  BY <2>1, <2>2, <2>3, <2>4, <2>5 DEF Next
<1> QED  BY <1>1, <1>3 DEF RequestsOK
-----------------------------------------------------------------------------
(* The theorems.                                                           *)

\* Inv is inductive.
LEMMA InvStep == Inv /\ [Next]_vars => Inv'
<1> SUFFICES ASSUME Inv, [Next]_vars PROVE Inv'
  OBVIOUS
<1>1. TypeOK /\ RequestsOK /\ VersionsAreContiguous /\ LegalHistory
      /\ PaidOnlyIfCharged /\ OnlyStoredIsPublished /\ KeyNamesPublishedOrder
  BY DEF Inv
<1>2. StoreEffect /\ TopicEffect /\ ChargeEffect /\ IdemEffect
  BY Effects
<1>3. TypeOK'                  BY <1>1, TypeStep
<1>4. RequestsOK'              BY <1>1, <1>2, RequestsStep
<1>5. VersionsAreContiguous'   BY <1>1, <1>2, ContiguousStep
<1>6. LegalHistory'            BY <1>1, <1>2, LegalStep
<1>7. PaidOnlyIfCharged'       BY <1>1, <1>2, PaidStep
<1>8. OnlyStoredIsPublished'   BY <1>1, <1>2, OnlyStoredStep
<1>9. KeyNamesPublishedOrder'  BY <1>1, <1>2, KeyStep
<1> QED  BY <1>3, <1>4, <1>5, <1>6, <1>7, <1>8, <1>9 DEF Inv

\* The inductive invariant holds of every behaviour of the write side.
THEOREM Invariance == Spec => []Inv
BY InitInv, InvStep, PTL DEF Spec

\* Type correctness of the write side; in particular publish never goes past
\* its last attempt.
THEOREM TypeCorrect == Spec => []TypeOK
<1>1. Inv => TypeOK  BY DEF Inv
<1> QED  BY <1>1, Invariance, PTL

\* Optimistic concurrency control (event_store.py append): the versions of
\* every order are 1, ..., n without a gap or a duplicate.
THEOREM NoLostUpdate == Spec => []VersionsAreContiguous
<1>1. Inv => VersionsAreContiguous  BY DEF Inv
<1> QED  BY <1>1, Invariance, PTL

\* The business rules of aggregate.py hold on every recorded history, however
\* the requests of an order overlap.
THEOREM HistoriesAreLegal == Spec => []LegalHistory
<1>1. Inv => LegalHistory  BY DEF Inv
<1> QED  BY <1>1, Invariance, PTL

\* What every request in flight relies on stays true while the others go on.
THEOREM RequestsRelyOnTrueFacts == Spec => []RequestsOK
<1>1. Inv => RequestsOK  BY DEF Inv
<1> QED  BY <1>1, Invariance, PTL

\* process_payment records only payments the gateway has taken.
THEOREM PaymentsAreCharged == Spec => []PaidOnlyIfCharged
<1>1. Inv => PaidOnlyIfCharged  BY DEF Inv
<1> QED  BY <1>1, Invariance, PTL

\* A command answered with success is in MongoDB and in Kafka.
THEOREM AnswersAreDurable == Spec => []AnsweredIsDurable
<1>1. Inv => AnsweredIsDurable
  BY DEF Inv, RequestsOK, RequestOK, AnsweredIsDurable
<1> QED  BY <1>1, Invariance, PTL

\* Kafka holds stored events only.
THEOREM PublishedIsStored == Spec => []OnlyStoredIsPublished
<1>1. Inv => OnlyStoredIsPublished  BY DEF Inv
<1> QED  BY <1>1, Invariance, PTL

\* An idempotency key names an order that is recorded and published.
THEOREM KeysNameOrders == Spec => []KeyNamesPublishedOrder
<1>1. Inv => KeyNamesPublishedOrder  BY DEF Inv
<1> QED  BY <1>1, Invariance, PTL
=============================================================================
