-------------------------- MODULE RefinementProofs --------------------------
(***************************************************************************)
(* WriteSide implements OrderLifecycle and the contract EventFeed.  Only   *)
(* an insertion into the store changes the mapped life cycle; by the       *)
(* invariant the inserted event comes right after all stored events of its *)
(* order and is allowed by them, so one more pass of the replay loop       *)
(* (ApplyIsRebuild) is one accepted command.  What is sent to the topic is *)
(* stored, so a send is a publication of the contract.                     *)
(***************************************************************************)
EXTENDS WriteSideProofs

\* Before anything is stored no order exists.
LEMMA LifecycleInit == Init => Lifecycle!Init
BY DEF Init, Lifecycle!Init, AbsVersion, AbsStatus, AbsHasItems, EventsOf, Items

\* An inserted event comes right after all stored events of its order.
LEMMA InsertedIsNext ==
  ASSUME Inv, NEW h \in Handlers, Inserts(h), NEW e, e = event[h]
  PROVE  /\ e \in Event
         /\ \A f \in EventsOf(e.order) : f.version < e.version
         /\ EventsOf(e.order) = {} => e.type = "ORDER_CREATED" /\ e.version = 1
         /\ EventsOf(e.order) # {} =>
              /\ Allowed(Rebuild(EventsOf(e.order)), e.type)
              /\ Rebuild(EventsOf(e.order)).version = e.version - 1
<1> DEFINE o == e.order
<1>1. e \in Event /\ Appendable(e) /\ VersionFree(e)
      /\ TypeOK /\ RequestsOK /\ VersionsAreContiguous
  BY ActiveEvent DEF Inv, Inserts, RequestsOK, RequestOK
<1>2. e.version \in Nat \ {0} /\ e.order \in Orders
  BY <1>1 DEF Event
<1>3. ASSUME NEW f \in EventsOf(o) PROVE f.version < e.version
  <2>1. f \in store /\ f.order = e.order /\ f.version \in Nat
    BY <1>1 DEF EventsOf, TypeOK, Event
  <2>2. ASSUME e.version <= f.version PROVE FALSE
    <3>1. e.version \in 1..f.version
      BY <1>2, <2>1, <2>2
    <3>2. PICK g \in store : g.order = f.order /\ g.version = e.version
      BY <1>1, <2>1, <3>1 DEF VersionsAreContiguous
    <3> QED  BY <1>1, <2>1, <3>2 DEF VersionFree
  <2> QED  BY <1>2, <2>1, <2>2
<1>4. Before(e) = EventsOf(o)
  BY <1>3 DEF Before, EventsOf
<1>5. ASSUME EventsOf(o) = {} PROVE e.type = "ORDER_CREATED" /\ e.version = 1
  BY <1>1, <1>5 DEF Appendable, EventsOf
<1>6. ASSUME EventsOf(o) # {}
      PROVE  /\ Allowed(Rebuild(EventsOf(o)), e.type)
             /\ Rebuild(EventsOf(o)).version = e.version - 1
  <2>1. e.version # 1
    BY <1>2, <1>3, <1>6, <1>1 DEF EventsOf, TypeOK, Event
  <2>2. PICK f \in store : f.order = e.order /\ f.version = e.version - 1
    BY <1>1, <2>1 DEF Appendable
  <2>3. f \in EventsOf(o)
    BY <2>2 DEF EventsOf
  <2>4. /\ Latest(EventsOf(o)) \in EventsOf(o) /\ Latest(EventsOf(o)) \in Event
        /\ \A g \in EventsOf(o) : g.version <= Latest(EventsOf(o)).version
    BY <1>1, <1>2, <1>6, LatestStored
  <2>5. Latest(EventsOf(o)).version = e.version - 1
    BY <1>2, <1>3, <2>2, <2>3, <2>4 DEF Event
  <2> QED  BY <1>1, <1>4, <2>1, <2>5 DEF Appendable, Rebuild
<1> QED  BY <1>1, <1>3, <1>5, <1>6

\* What an insertion does to the mapped state.
LEMMA InsertedState ==
  ASSUME Inv, NEW h \in Handlers, Inserts(h), NEW e, e = event[h],
         NEW evs, evs = EventsOf(e.order)
  PROVE  /\ AbsVersion' = [AbsVersion EXCEPT ![e.order] = @ + 1]
         /\ AbsStatus' = [AbsStatus EXCEPT ![e.order] =
                            IF e.type # "ORDER_ITEM_ADDED" THEN StatusSetBy[e.type]
                            ELSE IF evs = {} THEN "PENDING" ELSE @]
         /\ AbsHasItems' = [AbsHasItems EXCEPT ![e.order] =
                              IF e.type = "ORDER_ITEM_ADDED" THEN TRUE ELSE @]
<1> DEFINE o == e.order
           agg == IF evs = {} THEN NewAggregate ELSE Rebuild(evs)
<1>1. /\ e \in Event /\ o \in Orders /\ e.version \in Nat \ {0}
      /\ \A f \in evs : f.version < e.version
      /\ evs = {} => e.version = 1
      /\ evs # {} => Rebuild(evs).version = e.version - 1
  BY InsertedIsNext DEF Event
<1>2. evs \subseteq Event
  BY DEF EventsOf, Inv, TypeOK
<1>3. EventsOf(o)' = evs \cup {e} /\ \A p \in Orders : p # o => EventsOf(p)' = EventsOf(p)
  BY DEF Inserts, EventsOf
<1>4. Rebuild(evs \cup {e}) = Apply(agg, e)
  BY <1>1, <1>2, ApplyIsRebuild
<1>5. /\ Rebuild(evs \cup {e}).version = e.version
      /\ Rebuild(evs \cup {e}).status =
           IF e.type = "ORDER_ITEM_ADDED" THEN agg.status ELSE StatusSetBy[e.type]
  BY <1>4 DEF Apply
<1>6. agg.status = IF evs = {} THEN "PENDING" ELSE Rebuild(evs).status
  BY DEF NewAggregate
<1>7. Items(evs \cup {e}) # {} <=> e.type = "ORDER_ITEM_ADDED" \/ Items(evs) # {}
  BY DEF Items
<1> HIDE DEF agg, o
<1>8. \A p \in Orders : AbsVersion'[p] = IF EventsOf(p)' = {} THEN 0 ELSE Rebuild(EventsOf(p)').version
  BY DEF AbsVersion, EventsOf
<1>9. \A p \in Orders : AbsStatus'[p] = IF EventsOf(p)' = {} THEN "NONE" ELSE Rebuild(EventsOf(p)').status
  BY DEF AbsStatus, EventsOf
<1>10. \A p \in Orders : AbsHasItems'[p] = (Items(EventsOf(p)') # {})
  BY DEF AbsHasItems, EventsOf
<1>11. AbsVersion' = [AbsVersion EXCEPT ![o] = @ + 1]
  <2>1. AbsVersion'[o] = AbsVersion[o] + 1
    <3>1. o \in Orders /\ evs = EventsOf(o)
      BY <1>1 DEF o
    <3>2. AbsVersion'[o] = e.version
      BY <1>3, <1>5, <1>8, <3>1
    <3>3. AbsVersion[o] = IF evs = {} THEN 0 ELSE Rebuild(evs).version
      BY <3>1 DEF AbsVersion
    <3> QED  BY <1>1, <3>2, <3>3
  <2>2. \A p \in Orders : p # o => AbsVersion'[p] = AbsVersion[p]
    BY <1>3, <1>8 DEF AbsVersion
  <2> QED  BY <2>1, <2>2 DEF AbsVersion
<1>12. AbsStatus' = [AbsStatus EXCEPT ![o] =
                       IF e.type # "ORDER_ITEM_ADDED" THEN StatusSetBy[e.type]
                       ELSE IF evs = {} THEN "PENDING" ELSE @]
  <2>1. AbsStatus'[o] = IF e.type # "ORDER_ITEM_ADDED" THEN StatusSetBy[e.type]
                        ELSE IF evs = {} THEN "PENDING" ELSE AbsStatus[o]
    BY <1>1, <1>3, <1>5, <1>6, <1>9 DEF AbsStatus, o
  <2>2. \A p \in Orders : p # o => AbsStatus'[p] = AbsStatus[p]
    BY <1>3, <1>9 DEF AbsStatus
  <2> QED  BY <2>1, <2>2 DEF AbsStatus
<1>13. AbsHasItems' = [AbsHasItems EXCEPT ![o] = IF e.type = "ORDER_ITEM_ADDED" THEN TRUE ELSE @]
  <2>1. AbsHasItems'[o] = IF e.type = "ORDER_ITEM_ADDED" THEN TRUE ELSE AbsHasItems[o]
    BY <1>1, <1>3, <1>7, <1>10 DEF AbsHasItems, o
  <2>2. \A p \in Orders : p # o => AbsHasItems'[p] = AbsHasItems[p]
    BY <1>3, <1>10 DEF AbsHasItems
  <2> QED  BY <2>1, <2>2 DEF AbsHasItems
<1> QED  BY <1>11, <1>12, <1>13 DEF o

\* A rebuilt aggregate has one of the statuses of OrderStatus.
LEMMA RebuiltStatus ==
  ASSUME TypeOK, RequestsOK, NEW o \in Orders
  PROVE  StatusOf(EventsOf(o)) \in OrderStatus
<1> DEFINE S == StatusEvents(EventsOf(o))
<1>1. CASE S = {}
  BY <1>1 DEF StatusOf, NewAggregate, OrderStatus
<1>2. CASE S # {}
  <2>1. S \subseteq Event /\ \A e \in S : e.version <= MaxVersion /\ e.type # "ORDER_ITEM_ADDED"
    BY DEF StatusEvents, EventsOf, TypeOK, RequestsOK
  <2> HIDE DEF S
  <2>2. Latest(S) \in S
    BY <1>2, <2>1, LatestIsMax, WriteSideAssumption
  <2>3. Latest(S).type \in EventType \ {"ORDER_ITEM_ADDED"}
    BY <2>1, <2>2 DEF Event
  <2> QED  BY <1>2, <2>3, StatusSetByType DEF StatusOf, S
<1> QED  BY <1>1, <1>2

\* Every step of the write side is a step of the life cycle or leaves it alone.
LEMMA LifecycleStep == Inv /\ [Next]_vars => [Lifecycle!Next]_Lifecycle!vars
<1> SUFFICES ASSUME Inv, [Next]_vars PROVE Lifecycle!Next \/ UNCHANGED Lifecycle!vars
  OBVIOUS
<1>1. CASE store' = store
  BY <1>1 DEF Lifecycle!vars, AbsVersion, AbsStatus, AbsHasItems, EventsOf
<1>2. ASSUME NEW h \in Handlers, Inserts(h) PROVE Lifecycle!Next
  <2>1. PICK e : e = event[h]
    OBVIOUS
  <2>2. PICK evs : evs = EventsOf(e.order)
    OBVIOUS
  <2> DEFINE o == e.order
  <2>3. /\ e \in Event /\ o \in Orders /\ e.type \in EventType
        /\ evs = {} => e.type = "ORDER_CREATED"
        /\ evs # {} => Allowed(Rebuild(evs), e.type)
    BY <1>2, <2>1, <2>2, InsertedIsNext DEF Event
  <2>4. /\ AbsVersion' = [AbsVersion EXCEPT ![o] = @ + 1]
        /\ AbsStatus' = [AbsStatus EXCEPT ![o] =
                            IF e.type # "ORDER_ITEM_ADDED" THEN StatusSetBy[e.type]
                            ELSE IF evs = {} THEN "PENDING" ELSE @]
        /\ AbsHasItems' = [AbsHasItems EXCEPT ![o] =
                              IF e.type = "ORDER_ITEM_ADDED" THEN TRUE ELSE @]
    BY <1>2, <2>1, <2>2, InsertedState
  <2>5. /\ AbsStatus[o] = IF evs = {} THEN "NONE" ELSE Rebuild(evs).status
        /\ AbsHasItems[o] = (Rebuild(evs).items # {})
    BY <2>2, <2>3 DEF AbsStatus, AbsHasItems, Rebuild
  <2>6. e.type # "ORDER_ITEM_ADDED" => AbsHasItems' = AbsHasItems
    BY <2>4 DEF AbsHasItems
  <2> HIDE DEF o
  <2>7. CASE evs = {}
    <3>1. AbsStatus' = [AbsStatus EXCEPT ![o] = "PENDING"]
      BY <2>3, <2>4, <2>7 DEF StatusSetBy, EventType
    <3>2. Lifecycle!Create(o)
      BY <2>3, <2>4, <2>5, <2>6, <2>7, <3>1 DEF Lifecycle!Create, Lifecycle!Accept
    <3> QED  BY <2>3, <3>2 DEF Lifecycle!Next
  <2>8. CASE evs # {} /\ e.type = "ORDER_ITEM_ADDED"
    <3>1. AbsStatus[o] = "PENDING"
      BY <2>3, <2>5, <2>8 DEF Allowed, CanAddItem
    <3>2. AbsStatus' = [AbsStatus EXCEPT ![o] = "PENDING"]
      BY <2>4, <2>8, <3>1
    <3>3. AbsHasItems' = [AbsHasItems EXCEPT ![o] = TRUE]
      BY <2>4, <2>8
    <3>4. Lifecycle!AddItem(o)
      BY <2>4, <3>1, <3>2, <3>3 DEF Lifecycle!AddItem, Lifecycle!Accept
    <3> QED  BY <2>3, <3>4 DEF Lifecycle!Next
  <2>9. CASE evs # {} /\ e.type # "ORDER_ITEM_ADDED"
    <3>1. AbsStatus' = [AbsStatus EXCEPT ![o] = StatusSetBy[e.type]] /\ UNCHANGED AbsHasItems
      BY <2>4, <2>6, <2>9
    <3>2. AbsStatus[o] = Rebuild(evs).status /\ Allowed(Rebuild(evs), e.type)
      BY <2>3, <2>5, <2>9
    <3> USE DEF Lifecycle!Accept, StatusSetBy, EventType, Allowed
    <3>3. CASE e.type = "ORDER_CONFIRMED"
      <4>1. Lifecycle!Confirm(o)
        BY <2>4, <2>5, <3>1, <3>2, <3>3 DEF Lifecycle!Confirm, CanConfirm
      <4> QED  BY <2>3, <4>1 DEF Lifecycle!Next
    <3>4. CASE e.type = "ORDER_PAYMENT_PROCESSED"
      <4>1. Lifecycle!Pay(o)
        BY <2>4, <3>1, <3>2, <3>4 DEF Lifecycle!Pay, CanPay
      <4> QED  BY <2>3, <4>1 DEF Lifecycle!Next
    <3>5. CASE e.type = "ORDER_SHIPPED"
      <4>1. Lifecycle!Ship(o)
        BY <2>4, <3>1, <3>2, <3>5 DEF Lifecycle!Ship, CanShip
      <4> QED  BY <2>3, <4>1 DEF Lifecycle!Next
    <3>6. CASE e.type = "ORDER_CANCELLED"
      <4>1. Rebuild(evs).status \in OrderStatus
        BY <2>2, <2>3, RebuiltStatus DEF Inv, Rebuild, o
      <4>2. AbsStatus[o] # "NONE"
        BY <3>2, <4>1 DEF OrderStatus
      <4>3. Lifecycle!Cancel(o)
        BY <2>4, <3>1, <3>2, <3>6, <4>2 DEF Lifecycle!Cancel, CanCancel
      <4> QED  BY <2>3, <4>3 DEF Lifecycle!Next
    <3>7. CASE e.type \in {"ORDER_CREATED", "ORDER_DELIVERED"}
      BY <3>2, <3>7
    <3> QED  BY <2>3, <2>9, <3>3, <3>4, <3>5, <3>6, <3>7
  <2> QED  BY <2>7, <2>8, <2>9
<1> QED  BY <1>1, <1>2, Effects DEF StoreEffect

\* The write side, with its overlapping requests, failures and crashes,
\* implements the sequential life cycle of an order.
THEOREM WriteSideImplementsLifecycle == Spec => ImplementsLifecycle
<1>1. Init => Lifecycle!Init  BY LifecycleInit
<1>2. Inv /\ [Next]_vars => [Lifecycle!Next]_Lifecycle!vars  BY LifecycleStep
<1> QED  BY <1>1, <1>2, Invariance, PTL DEF Spec, ImplementsLifecycle, Lifecycle!Spec

-----------------------------------------------------------------------------
(* The contract with the consumers.                                        *)

\* No step changes MongoDB and the topic at once: this is the gap of the
\* double write.
LEMMA OneStoreAtATime == [Next]_vars => store' = store \/ topic' = topic
<1> SUFFICES ASSUME [Next]_vars PROVE store' = store \/ topic' = topic
  OBVIOUS
<1> USE DEF services, requests
<1>1. CASE UNCHANGED vars
  BY <1>1 DEF vars
<1>2. CASE Crash
  BY <1>2 DEF Crash
<1>3. ASSUME NEW k \in Keys, CreateOrderAgain(k) PROVE UNCHANGED services
  BY <1>3 DEF CreateOrderAgain
<1>4. ASSUME NEW h \in Handlers, Arrive(h) PROVE UNCHANGED services
  BY <1>4 DEF Arrive, CreateOrder, ConfirmOrder, ShipOrder, CancelOrder, AddItem,
              ProcessPayment, Command
<1>5. ASSUME NEW h \in Handlers, Continue(h) PROVE store' = store \/ topic' = topic
  BY <1>5 DEF Continue, Charge, ChargeDeclined, AppendEvent, VersionConflict, AppendFails,
              CheckPublished, SkipPublished, CheckFails, Send, SendFails, MarkPublished,
              MarkFails, RememberKey, RememberFails, Answer
<1> QED  BY <1>1, <1>2, <1>3, <1>4, <1>5 DEF Next

\* A record that is produced is all the topic gains.
LEMMA ProducedTopic ==
  ASSUME TypeOK, NEW e \in Event, Produce(e)
  PROVE  Topic' = Topic \cup {e}
<1>1. e.order \in Orders /\ topic \in [Orders -> Seq(Event)]
      /\ topic' = [topic EXCEPT ![e.order] = Append(@, e)]
  BY DEF Event, TypeOK, Produce
<1> DEFINE s == topic[e.order]
<1>2. /\ s \in Seq(Event) /\ topic'[e.order] = Append(s, e)
      /\ \A o \in Orders : o # e.order => topic'[o] = topic[o]
  BY <1>1
<1> HIDE DEF s
<1>3. /\ Len(s) \in Nat /\ Len(Append(s, e)) = Len(s) + 1
      /\ Append(s, e)[Len(s) + 1] = e /\ \A i \in 1..Len(s) : Append(s, e)[i] = s[i]
  BY <1>2
<1>4. ASSUME NEW x \in Topic' PROVE x \in Topic \cup {e}
  <2>1. PICK o \in Orders : \E i \in 1..Len(topic'[o]) : x = topic'[o][i]
    BY DEF Topic
  <2>2. PICK i \in 1..Len(topic'[o]) : x = topic'[o][i]
    BY <2>1
  <2>3. CASE o # e.order
    BY <1>2, <2>2, <2>3 DEF Topic
  <2>4. CASE o = e.order /\ i \in 1..Len(s)
    <3>1. x = s[i]
      BY <1>2, <1>3, <2>2, <2>4
    <3>2. x = topic[o][i] /\ i \in 1..Len(topic[o])
      BY <2>4, <3>1 DEF s
    <3> QED  BY <3>2 DEF Topic
  <2>5. CASE o = e.order /\ i = Len(s) + 1
    BY <1>2, <1>3, <2>2, <2>5
  <2>6. o = e.order => i \in 1..Len(s) \/ i = Len(s) + 1
    BY <1>2, <1>3
  <2> QED  BY <2>3, <2>4, <2>5, <2>6
<1>5. ASSUME NEW x \in Topic PROVE x \in Topic'
  <2>1. PICK o \in Orders : \E i \in 1..Len(topic[o]) : x = topic[o][i]
    BY DEF Topic
  <2>2. PICK i \in 1..Len(topic[o]) : x = topic[o][i]
    BY <2>1
  <2>3. i \in 1..Len(topic'[o]) /\ x = topic'[o][i]
    <3>1. CASE o # e.order
      BY <1>2, <2>2, <3>1
    <3>2. CASE o = e.order
      BY <1>2, <1>3, <2>2, <3>2 DEF s
    <3> QED  BY <3>1, <3>2
  <2> QED  BY <2>3 DEF Topic
<1>6. e \in Topic'
  <2>1. Len(s) + 1 \in 1..Len(topic'[e.order]) /\ e = topic'[e.order][Len(s) + 1]
    BY <1>2, <1>3
  <2> QED  BY <1>1, <2>1 DEF Topic
<1> QED  BY <1>4, <1>5, <1>6

\* The contract reads an order's events as the handlers do.
LEMMA FeedReads ==
  ASSUME NEW evs, NEW t
  PROVE  /\ Feed!MayFollow(evs, t) = IF evs = {} THEN t = "ORDER_CREATED" ELSE Allowed(Rebuild(evs), t)
         /\ Feed!NextVersion(evs) = IF evs = {} THEN 1 ELSE Rebuild(evs).version + 1
         /\ Feed!PayloadOf(t) = PayloadOf(t)
<1>1. Feed!Latest(evs) = Latest(evs)
  BY DEF Feed!Latest, Latest
<1>2. Feed!StatusOf(evs) = StatusOf(evs)
  BY DEF Feed!StatusOf, StatusOf, Feed!StatusEvents, StatusEvents, Feed!NewAggregate, NewAggregate,
         Feed!StatusSetBy, StatusSetBy, Feed!EventType, EventType, Feed!Latest, Latest
<1>3. Feed!Rebuild(evs) = Rebuild(evs)
  BY <1>1, <1>2 DEF Feed!Rebuild, Rebuild, Feed!Items, Items
<1>4. ASSUME NEW agg PROVE Feed!Allowed(agg, t) = Allowed(agg, t)
  BY DEF Feed!Allowed, Allowed, Feed!CanAddItem, CanAddItem, Feed!CanConfirm, CanConfirm,
         Feed!CanPay, CanPay, Feed!CanShip, CanShip, Feed!CanCancel, CanCancel
<1>5. Feed!PayloadOf(t) = PayloadOf(t)
  BY DEF Feed!PayloadOf, PayloadOf
<1>6. Feed!MayFollow(evs, t) = IF evs = {} THEN t = "ORDER_CREATED" ELSE Allowed(Rebuild(evs), t)
  BY <1>3, <1>4 DEF Feed!MayFollow
<1>7. Feed!NextVersion(evs) = IF evs = {} THEN 1 ELSE Rebuild(evs).version + 1
  BY <1>1 DEF Feed!NextVersion, Rebuild
<1> QED  BY <1>5, <1>6, <1>7

\* Every step of the write side records an event, publishes a recorded one or
\* leaves the feed alone.
LEMMA FeedStep == Inv /\ [Next]_vars => [Feed!FeedNext]_Feed!feed
<1> SUFFICES ASSUME Inv, [Next]_vars PROVE Feed!FeedNext \/ UNCHANGED Feed!feed
  OBVIOUS
<1>1. StoreEffect /\ TopicEffect /\ (store' = store \/ topic' = topic)
  BY Effects, OneStoreAtATime
<1>2. TypeOK /\ RequestsOK
  BY DEF Inv
<1>3. CASE store' = store /\ topic' = topic
  BY <1>3 DEF Feed!feed, Topic
<1>4. ASSUME NEW h \in Handlers, Inserts(h), topic' = topic PROVE Feed!FeedNext
  <2>1. PICK e : e = event[h]
    OBVIOUS
  <2> DEFINE o == e.order
  <2>2. PICK evs : evs = EventsOf(o)
    OBVIOUS
  <2>3. /\ e \in Event /\ o \in Orders /\ e.type \in EventType /\ e.version \in Nat \ {0}
        /\ e.payload \in Payloads \cup {None}
        /\ evs = {} => e.type = "ORDER_CREATED" /\ e.version = 1
        /\ evs # {} => Allowed(Rebuild(evs), e.type) /\ Rebuild(evs).version = e.version - 1
    BY <1>4, <2>1, <2>2, InsertedIsNext DEF Event
  <2>4. e.payload \in PayloadOf(e.type)
    BY <1>2, <1>4, <2>1 DEF Inserts, RequestsOK, RequestOK
  <2>5. evs # {} => Rebuild(evs).version + 1 = e.version
    BY <2>3
  <2>6. Feed!StoredOf(o) = evs
    BY <2>2 DEF Feed!StoredOf, EventsOf
  <2>7. Feed!MayFollow(evs, e.type) /\ Feed!NextVersion(evs) = e.version
        /\ e.payload \in Feed!PayloadOf(e.type)
    BY <2>3, <2>4, <2>5, FeedReads
  <2>8. Feed!MakeEvent(o, e.version, e.type, e.payload) = e
    BY <2>3 DEF Feed!MakeEvent, Event
  <2>9. store' = store \cup {e} /\ Topic' = Topic
    BY <1>4, <2>1 DEF Inserts, Topic
  <2>10. Feed!RecordEvent(o, e.type, e.payload)
    BY <2>6, <2>7, <2>8, <2>9 DEF Feed!RecordEvent
  <2>11. e.type \in Feed!EventType
    BY <2>3 DEF Feed!EventType, EventType
  <2> QED  BY <2>3, <2>10, <2>11 DEF Feed!FeedNext
<1>5. ASSUME NEW h \in Handlers, pc[h] = "send", Produce(event[h]), store' = store
      PROVE  Feed!FeedNext
  <2>1. PICK e \in Event : e = event[h]
    BY <1>2, <1>5, ActiveEvent
  <2>2. e \in store
    BY <1>2, <1>5, <2>1 DEF RequestsOK, RequestOK
  <2>3. Topic' = Topic \cup {e}
    BY <1>2, <1>5, <2>1, ProducedTopic
  <2> QED  BY <1>5, <2>2, <2>3 DEF Feed!FeedNext, Feed!PublishEvent
<1> QED  BY <1>1, <1>3, <1>4, <1>5 DEF StoreEffect, TopicEffect

\* The write side keeps the contract its consumers rely on.
THEOREM WriteSideImplementsFeed == Spec => ImplementsFeed
<1>1. Init => Feed!FeedInit
  BY DEF Init, Feed!FeedInit, Topic
<1>2. Inv /\ [Next]_vars => [Feed!FeedNext]_Feed!feed  BY FeedStep
<1> QED  BY <1>1, <1>2, Invariance, PTL DEF Spec, ImplementsFeed, Feed!FeedSpec
=============================================================================
