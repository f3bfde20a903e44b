--------------------------- MODULE PruningProofs ---------------------------
(***************************************************************************)
(* Pruning changes nothing that a command can see, for any number of       *)
(* orders, requests and events.                                            *)
(*                                                                         *)
(* The invariants of WriteSideProofs are about the stored events and fall  *)
(* with the first deletion.  Here they are restated for the recorded       *)
(* events, stored or pruned, of every order that is not torn.  Three facts *)
(* carry them over: documents are dated and deleted from the oldest on     *)
(* (OldestFirst); only orders that were cancelled are (OnlyTerminal), so   *)
(* the newest document alone decides the status; and what took the version *)
(* a request holds outlives the request (WaitingOf), so the unique index   *)
(* still refuses it.                                                       *)
(***************************************************************************)
EXTENDS Pruning, WriteSideProofs

PTypeOK ==
  /\ store \in SUBSET Event /\ pruned \in SUBSET Event
  /\ \A e \in Recorded : e.version <= MaxVersion
  /\ topic \in [Orders -> Seq(Event)]
  /\ pc \in [Handlers -> PC] /\ event \in [Handlers -> Event \cup {None}]
  /\ \A h \in Handlers : pc[h] # "idle" => event[h] \in Event /\ event[h].version <= MaxVersion

\* A date is one of those given so far; while a request is under way no later
\* date passes than those given before it came.
DatesOK ==
  /\ calls \in Nat /\ now \in Nat /\ now <= calls
  /\ since \in [Handlers -> Nat]
  /\ DOMAIN expiry \subseteq store
  /\ \A e \in DOMAIN expiry : expiry[e] \in Nat /\ expiry[e] <= calls
  /\ \A h \in Handlers : pc[h] # "idle" => now <= since[h] /\ since[h] <= calls

\* What is in the topic, or on its way to it, is recorded.
SentOK ==
  /\ \A h \in Handlers : pc[h] \in {"check", "send", "mark"} => event[h] \in Recorded
  /\ \A o \in Orders : \A i \in 1..Len(topic[o]) : topic[o][i] \in Recorded

\* The recorded history of an order, whether its documents are still there.
RecordedBefore(e) == {f \in RecordedOf(e.order) : f.version < e.version}

ContiguousOf(o) ==
  \A e \in RecordedOf(o) :
    /\ \A f \in RecordedOf(o) : f.version = e.version => f = e
    /\ \A v \in 1..e.version : \E f \in RecordedOf(o) : f.version = v

LegalOf(o) ==
  \A e \in RecordedOf(o) :
    IF e.version = 1 THEN e.type = "ORDER_CREATED"
                     ELSE RecordedBefore(e) # {} /\ Allowed(Rebuild(RecordedBefore(e)), e.type)

\* Documents are dated, and go, from the oldest on; those of an order that are
\* dated have the same date.
OldestFirst(o) ==
  /\ \A e \in pruned, f \in EventsOf(o) : e.order = o => e.version < f.version
  /\ \A e, f \in EventsOf(o) : e.version <= f.version /\ f \in DOMAIN expiry =>
       e \in DOMAIN expiry /\ expiry[e] = expiry[f]

OnlyTerminal(o) ==
  (\E e \in pruned \cup DOMAIN expiry : e.order = o) => \E e \in RecordedOf(o) : IsTerminal(e)

\* Event e, of a request that came at date s, is the legal successor of the
\* recorded events before it.  Those that took its version, or a later one,
\* meanwhile are stored and outlive the request.
WaitOK(e, s) ==
  /\ IF e.version = 1
       THEN e.type = "ORDER_CREATED"
       ELSE /\ \E f \in RecordedOf(e.order) : f.version = e.version - 1
            /\ Allowed(Rebuild(RecordedBefore(e)), e.type)
  /\ \A f \in RecordedOf(e.order) : f.version >= e.version =>
       f \in store /\ (f \in DOMAIN expiry => expiry[f] > s)

\* A request holds the event it built and has not inserted it.
Waiting(h) == pc[h] \in {"charge", "append"}

WaitingOf(o) == \A h \in Handlers : Waiting(h) /\ event[h].order = o => WaitOK(event[h], since[h])

HistoryOK(o) == ContiguousOf(o) /\ LegalOf(o)
OrderOK(o)   == HistoryOK(o) /\ OldestFirst(o) /\ OnlyTerminal(o) /\ WaitingOf(o)

PInv == PTypeOK /\ DatesOK /\ SentOK /\ \A o \in Orders \ torn : OrderOK(o)

-----------------------------------------------------------------------------
(* What a step of the API can do to a request.                             *)

\* The request comes: its event is fixed from what it loads.
Arrives(h) ==
  /\ pc[h] = "idle" /\ pc'[h] \in {"charge", "append"} /\ store' = store
  /\ \E o \in Orders :
       \/ Fresh(o) /\ MaxVersion >= 1 /\ event'[h] = MakeEvent(o, 1, "ORDER_CREATED", None)
       \/ \E t \in EventType, p \in Payloads \cup {None} :
            /\ EventsOf(o) # {} /\ Allowed(Rebuild(EventsOf(o)), t)
            /\ Latest(EventsOf(o)).version < MaxVersion
            /\ event'[h] = MakeEvent(o, Latest(EventsOf(o)).version + 1, t, p)

Goes(h) ==
  \/ pc'[h] = pc[h] /\ event'[h] = event[h]
  \/ pc'[h] = "idle" /\ event'[h] = None
  \/ Arrives(h)
  \/ /\ pc[h] # "idle" /\ event'[h] = event[h]
     /\ pc'[h] \in {"charge", "append"} => pc[h] \in {"charge", "append"}
     /\ pc'[h] \in {"check", "send", "mark"} => pc[h] \in {"check", "send", "mark"} \/ Inserts(h)

\* The types of the requests, and how each goes on.
Typed == pc' \in [Handlers -> PC] /\ DOMAIN event' = Handlers /\ event' = [h \in Handlers |-> event'[h]]

\* A request that ends.
LEMMA EndsGoes ==
  ASSUME PTypeOK, NEW h \in Handlers, Finish(h)
  PROVE  Typed /\ \A g \in Handlers : Goes(g)
BY DEF PTypeOK, Finish, Typed, Goes, PC

\* A request that goes on to another await, with the same event.
LEMMA MovesOn ==
  ASSUME PTypeOK, NEW h \in Handlers, NEW l \in PC, pc' = [pc EXCEPT ![h] = l], event' = event,
         pc[h] # "idle", l \in {"charge", "append"} => pc[h] \in {"charge", "append"},
         l \in {"check", "send", "mark"} => pc[h] \in {"check", "send", "mark"} \/ Inserts(h)
  PROVE  Typed /\ \A g \in Handlers : Goes(g)
BY DEF PTypeOK, Typed, Goes

\* A failed publish attempt starts over or ends the request.
LEMMA RetryGoes ==
  ASSUME PTypeOK, NEW h \in Handlers, NEW m, pc[h] \in {"check", "send", "mark"}, RetryPublish(h, m)
  PROVE  Typed /\ \A g \in Handlers : Goes(g)
<1>1. CASE Finish(h)
  BY <1>1, EndsGoes
<1>2. CASE Goto(h, "check") /\ UNCHANGED <<event, key>>
  BY <1>2, MovesOn DEF Goto, PC
<1> QED  BY <1>1, <1>2 DEF RetryPublish

\* A command that is accepted.
LEMMA CommandGoes ==
  ASSUME PTypeOK, NEW h \in Handlers, NEW o \in Orders, NEW t \in EventType,
         NEW p \in Payloads \cup {None}, NEW l \in {"append", "charge"}, Command(h, o, t, p, l)
  PROVE  Typed /\ \A g \in Handlers : Goes(g)
<1> DEFINE e == MakeEvent(o, Latest(EventsOf(o)).version + 1, t, p)
<1>1. /\ pc[h] = "idle" /\ EventsOf(o) # {} /\ Allowed(Rebuild(EventsOf(o)), t)
      /\ Latest(EventsOf(o)).version < MaxVersion
      /\ event' = [event EXCEPT ![h] = e] /\ pc' = [pc EXCEPT ![h] = l] /\ store' = store
  BY DEF Command, Rebuild, Goto, services
<1>2. event'[h] = e /\ pc'[h] = l
  BY <1>1 DEF PTypeOK
<1>3. Arrives(h)
  BY <1>1, <1>2 DEF Arrives
<1> HIDE DEF e
<1>4. \A g \in Handlers \ {h} : pc'[g] = pc[g] /\ event'[g] = event[g]
  BY <1>1 DEF PTypeOK
<1>5. Typed
  BY <1>1 DEF PTypeOK, Typed, PC
<1> QED  BY <1>3, <1>4, <1>5 DEF Goes

\* Every step of the API leaves a request where it is, ends it, or moves it on.
LEMMA RequestStep ==
  ASSUME PTypeOK, [Next]_vars
  PROVE  Typed /\ \A g \in Handlers : Goes(g)
<1> DEFINE Goal == Typed /\ \A g \in Handlers : Goes(g)
<1>1. CASE UNCHANGED requests
  BY <1>1 DEF requests, PTypeOK, Typed, Goes
<1>2. CASE Crash
  BY <1>2 DEF Crash, Typed, Goes, PC
<1>3. ASSUME NEW h \in Handlers, Arrive(h) PROVE Goal
  <2>1. ASSUME NEW k \in Keys, NEW o \in Orders, CreateOrder(h, k, o) PROVE Goal
    <3> DEFINE e == MakeEvent(o, 1, "ORDER_CREATED", None)
    <3>1. /\ pc[h] = "idle" /\ Fresh(o) /\ MaxVersion >= 1 /\ store' = store
          /\ event' = [event EXCEPT ![h] = e] /\ pc' = [pc EXCEPT ![h] = "append"]
      BY <2>1 DEF CreateOrder, Goto, services
    <3>2. event'[h] = e /\ pc'[h] = "append"
      BY <3>1 DEF PTypeOK
    <3>3. Arrives(h)
      BY <3>1, <3>2 DEF Arrives
    <3> HIDE DEF e
    <3>4. Typed /\ \A g \in Handlers \ {h} : pc'[g] = pc[g] /\ event'[g] = event[g]
      BY <3>1 DEF PTypeOK, Typed, PC
    <3> QED  BY <3>3, <3>4 DEF Goes
  <2>2. ASSUME NEW o \in Orders, ConfirmOrder(h, o) \/ CancelOrder(h, o) PROVE Goal
    BY <2>2, CommandGoes DEF ConfirmOrder, CancelOrder, EventType
  <2>3. ASSUME NEW o \in Orders, NEW p \in Payloads,
               AddItem(h, o, p) \/ ProcessPayment(h, o, p) \/ ShipOrder(h, o, p)
        PROVE  Goal
    BY <2>3, CommandGoes DEF AddItem, ProcessPayment, ShipOrder, EventType
  <2> QED  BY <1>3, <2>1, <2>2, <2>3, WriteSideAssumption DEF Arrive
<1>4. ASSUME NEW h \in Handlers, Continue(h) PROVE Goal
  <2>1. CASE ChargeDeclined(h) \/ VersionConflict(h) \/ AppendFails(h) \/ RememberFails(h) \/ Answer(h)
    BY <2>1, EndsGoes DEF ChargeDeclined, VersionConflict, AppendFails, RememberFails, Answer
  <2>2. CASE Charge(h)
    BY <2>2, MovesOn DEF Charge, Goto, PC
  <2>3. CASE AppendEvent(h)
    BY <2>3, MovesOn DEF AppendEvent, Inserts, Goto, PC
  <2>4. CASE CheckPublished(h)
    BY <2>4, MovesOn DEF CheckPublished, Goto, PC
  <2>5. CASE SkipPublished(h) \/ MarkPublished(h)
    BY <2>5, MovesOn DEF SkipPublished, MarkPublished, PublishReturns, Goto, PC
  <2>6. CASE CheckFails(h) \/ SendFails(h) \/ MarkFails(h)
    BY <2>6, RetryGoes DEF CheckFails, SendFails, MarkFails
  <2>7. CASE Send(h)
    BY <2>7, MovesOn DEF Send, Goto, PC
  <2>8. CASE RememberKey(h)
    BY <2>8, MovesOn DEF RememberKey, Goto, PC
  <2> QED  BY <1>4, <2>1, <2>2, <2>3, <2>4, <2>5, <2>6, <2>7, <2>8 DEF Continue
<1>5. ASSUME NEW k \in Keys, CreateOrderAgain(k) PROVE Goal
  BY <1>1, <1>5 DEF CreateOrderAgain
<1>6. CASE UNCHANGED vars
  BY <1>1, <1>6 DEF vars
<1> QED  BY <1>2, <1>3, <1>4, <1>5, <1>6 DEF Next

-----------------------------------------------------------------------------
(* Cancelled orders.                                                       *)

\* If all from a cancellation on are cancellations, the order is cancelled.
LEMMA CancelledStatus ==
  ASSUME NEW evs, evs \subseteq Event, \A f \in evs : f.version <= MaxVersion,
         NEW t \in evs, t.type = "ORDER_CANCELLED",
         \A f \in evs : f.version >= t.version => f.type = "ORDER_CANCELLED"
  PROVE  StatusOf(evs) = "CANCELLED"
<1> DEFINE S == StatusEvents(evs)
<1>1. S \subseteq evs /\ S \subseteq Event /\ t \in S
  BY DEF StatusEvents
<1>2. Latest(S) \in S /\ \A f \in S : f.version <= Latest(S).version
  BY <1>1, LatestIsMax, WriteSideAssumption
<1>3. t.version <= Latest(S).version /\ t.version \in Nat /\ Latest(S).version \in Nat
  BY <1>1, <1>2 DEF Event
<1>4. Latest(S).type = "ORDER_CANCELLED"
  BY <1>1, <1>2, <1>3
<1>5. StatusSetBy["ORDER_CANCELLED"] = "CANCELLED"
  BY DEF StatusSetBy, EventType
<1> QED  BY <1>1, <1>4, <1>5 DEF StatusOf

\* Nothing but a cancellation follows a cancellation, and nothing is delivered.
LEMMA CancelledAllowsOnly ==
  ASSUME NEW agg, agg.status = "CANCELLED", NEW t, Allowed(agg, t)
  PROVE  t = "ORDER_CANCELLED"
BY DEF Allowed, CanAddItem, CanConfirm, CanPay, CanShip

\* The recorded events of an order are events of that order.
LEMMA RecordedType ==
  ASSUME PTypeOK, NEW o \in Orders
  PROVE  /\ RecordedOf(o) \subseteq Event /\ EventsOf(o) \subseteq RecordedOf(o)
         /\ \A e \in RecordedOf(o) : /\ e.order = o /\ e.version \in Nat \ {0}
                                     /\ e.version <= MaxVersion
BY DEF PTypeOK, RecordedOf, Recorded, EventsOf, Event

\* From the first terminal event of an order on all its events are
\* cancellations.
LEMMA TerminalStays ==
  ASSUME PTypeOK, NEW o \in Orders, HistoryOK(o), NEW t \in RecordedOf(o), IsTerminal(t),
         NEW f \in RecordedOf(o), f.version >= t.version
  PROVE  f.type = "ORDER_CANCELLED"
<1>0. /\ RecordedOf(o) \subseteq Event
      /\ \A e \in RecordedOf(o) : e.order = o /\ e.version \in Nat \ {0} /\ e.version <= MaxVersion
  BY RecordedType
<1>1. t.type = "ORDER_CANCELLED"
  <2>1. t.version # 1 /\ Allowed(Rebuild(RecordedBefore(t)), t.type)
    BY DEF HistoryOK, LegalOf, IsTerminal
  <2> QED  BY <2>1 DEF Allowed, IsTerminal
<1> SUFFICES ASSUME f.type # "ORDER_CANCELLED" PROVE FALSE
  OBVIOUS
<1> DEFINE Bad == {g \in RecordedOf(o) : g.version >= t.version /\ g.type # "ORDER_CANCELLED"}
           S == {g.version : g \in Bad}
<1>2. S \subseteq Nat /\ S # {}
  BY <1>0
<1>3. PICK x \in S : \A y \in S : x <= y
  <2> HIDE DEF S
  <2> QED  BY <1>2, LeastNat
<1>4. PICK g \in Bad : g.version = x
  OBVIOUS
<1>5. g.version > t.version /\ g.version # 1
  <2>1. g.version # t.version
    BY <1>1, <1>4 DEF HistoryOK, ContiguousOf
  <2> QED  BY <1>0, <1>4, <2>1
<1> DEFINE B == RecordedBefore(g)
<1>6. B \subseteq RecordedOf(o) /\ t \in B /\ \A b \in B : b.version < g.version
  BY <1>0, <1>4, <1>5 DEF RecordedBefore
<1>7. \A b \in B : b.version >= t.version => b.type = "ORDER_CANCELLED"
  <2> SUFFICES ASSUME NEW b \in B, b.version >= t.version, b.type # "ORDER_CANCELLED" PROVE FALSE
    OBVIOUS
  <2>1. b \in Bad /\ b.version \in S
    BY <1>6
  <2>2. g.version <= b.version
    BY <1>3, <1>4, <2>1
  <2>3. b.version < g.version /\ b.version \in Nat /\ g.version \in Nat
    BY <1>0, <1>4, <1>6
  <2> HIDE DEF B, S, Bad
  <2> QED  BY <2>2, <2>3
<1>8. StatusOf(B) = "CANCELLED"
  <2> HIDE DEF B
  <2> QED  BY <1>0, <1>1, <1>6, <1>7, CancelledStatus
<1>9. Allowed(Rebuild(B), g.type) /\ Rebuild(B).status = "CANCELLED"
  BY <1>4, <1>5, <1>8 DEF HistoryOK, LegalOf, Rebuild
<1>10. g.type = "ORDER_CANCELLED"
  <2> HIDE DEF B
  <2> QED  BY <1>9, CancelledAllowsOnly
<1> QED  BY <1>4, <1>10

\* The heart of the argument: the documents that are left say what all the
\* recorded events say.
LEMMA Survives ==
  ASSUME PTypeOK, NEW o \in Orders, HistoryOK(o), OldestFirst(o), OnlyTerminal(o), EventsOf(o) # {}
  PROVE  /\ Latest(EventsOf(o)) \in EventsOf(o)
         /\ \A f \in RecordedOf(o) : f.version <= Latest(EventsOf(o)).version
         /\ Latest(RecordedOf(o)) = Latest(EventsOf(o))
         /\ StatusOf(EventsOf(o)) = StatusOf(RecordedOf(o))
         /\ EventsOf(o) = RecordedOf(o) \/ StatusOf(RecordedOf(o)) = "CANCELLED"
<1> DEFINE last == Latest(EventsOf(o))
           rec  == Latest(RecordedOf(o))
<1>0. /\ RecordedOf(o) \subseteq Event /\ EventsOf(o) \subseteq RecordedOf(o)
      /\ \A e \in RecordedOf(o) : e.order = o /\ e.version \in Nat \ {0} /\ e.version <= MaxVersion
  BY RecordedType
<1>1. last \in EventsOf(o) /\ \A f \in EventsOf(o) : f.version <= last.version
  BY <1>0, LatestIsMax, WriteSideAssumption
<1>2. \A f \in RecordedOf(o) : f \in EventsOf(o) \/ f \in pruned
  BY <1>0 DEF RecordedOf, Recorded, EventsOf
<1>3. ASSUME NEW f \in RecordedOf(o) PROVE f.version <= last.version
  <2>1. CASE f \in EventsOf(o)
    BY <1>1, <2>1
  <2>2. CASE f \in pruned
    <3>1. f.version < last.version
      BY <1>0, <1>1, <2>2 DEF OldestFirst
    <3> QED  BY <1>0, <1>1, <3>1
  <2> QED  BY <1>2, <2>1, <2>2
<1>4. rec = last
  <2>1. rec \in RecordedOf(o) /\ \A f \in RecordedOf(o) : f.version <= rec.version
    BY <1>0, <1>1, LatestIsMax, WriteSideAssumption
  <2> HIDE DEF rec, last
  <2>2. rec.version = last.version
    BY <1>0, <1>1, <1>3, <2>1
  <2> QED  BY <1>0, <1>1, <2>1, <2>2 DEF HistoryOK, ContiguousOf
<1>5. CASE EventsOf(o) = RecordedOf(o)
  BY <1>1, <1>3, <1>4, <1>5
<1>6. CASE EventsOf(o) # RecordedOf(o)
  <2>1. PICK e \in RecordedOf(o) : e \notin EventsOf(o)
    BY <1>0, <1>6
  <2>2. e \in pruned /\ e.order = o
    BY <1>0, <1>2, <2>1
  <2>3. PICK t \in RecordedOf(o) : IsTerminal(t)
    BY <2>2 DEF OnlyTerminal
  <2>4. last.type = "ORDER_CANCELLED"
    <3>1. last \in RecordedOf(o) /\ last.version >= t.version
      BY <1>0, <1>1, <1>3
    <3> HIDE DEF last
    <3> QED  BY <2>3, <3>1, TerminalStays
  <2>5. \A f \in RecordedOf(o) : f.version >= last.version => f.type = "ORDER_CANCELLED"
    <3> SUFFICES ASSUME NEW f \in RecordedOf(o), f.version >= last.version
                 PROVE  f.type = "ORDER_CANCELLED"
      OBVIOUS
    <3> HIDE DEF last
    <3>1. f.version = last.version /\ last \in RecordedOf(o)
      BY <1>0, <1>1, <1>3
    <3>2. f = last
      BY <3>1 DEF HistoryOK, ContiguousOf
    <3> QED  BY <2>4, <3>2
  <2> HIDE DEF last
  <2>6. StatusOf(RecordedOf(o)) = "CANCELLED"
    BY <1>0, <1>1, <2>4, <2>5, CancelledStatus
  <2>7. EventsOf(o) \subseteq Event /\ \A f \in EventsOf(o) : f.version <= MaxVersion
    BY <1>0
  <2>8. StatusOf(EventsOf(o)) = "CANCELLED"
    BY <1>0, <1>1, <2>4, <2>5, <2>7, CancelledStatus
  <2> QED  BY <1>1, <1>3, <1>4, <2>6, <2>8 DEF last
<1> QED  BY <1>5, <1>6

-----------------------------------------------------------------------------
(* Types.                                                                  *)

\* The event of a request that comes is an event, within the bound on versions.
LEMMA ArrivesType ==
  ASSUME PTypeOK, NEW h \in Handlers, Arrives(h)
  PROVE  event'[h] \in Event /\ event'[h].version <= MaxVersion
<1>1. ASSUME NEW o \in Orders, MaxVersion >= 1, event'[h] = MakeEvent(o, 1, "ORDER_CREATED", None)
      PROVE  event'[h] \in Event /\ event'[h].version <= MaxVersion
  BY <1>1, WriteSideAssumption DEF MakeEvent, Event, EventType
<1>2. ASSUME NEW o \in Orders, NEW t \in EventType, NEW p \in Payloads \cup {None}, EventsOf(o) # {},
             Latest(EventsOf(o)).version < MaxVersion,
             event'[h] = MakeEvent(o, Latest(EventsOf(o)).version + 1, t, p)
      PROVE  event'[h] \in Event /\ event'[h].version <= MaxVersion
  <2>1. EventsOf(o) \subseteq Event /\ \A f \in EventsOf(o) : f.version <= MaxVersion
    BY RecordedType
  <2>2. Latest(EventsOf(o)) \in EventsOf(o)
    BY <1>2, <2>1, LatestIsMax, WriteSideAssumption
  <2>3. Latest(EventsOf(o)).version \in Nat
    BY <2>1, <2>2 DEF Event
  <2> QED  BY <1>2, <2>3, WriteSideAssumption DEF MakeEvent, Event
<1> QED  BY <1>1, <1>2 DEF Arrives

\* The API keeps the types.
LEMMA ApiTypes ==
  ASSUME PTypeOK, [Next]_vars, pruned' = pruned
  PROVE  PTypeOK'
<1>1. Typed /\ (\A g \in Handlers : Goes(g)) /\ StoreEffect /\ TopicEffect
  BY RequestStep, Effects
<1>2. \A h \in Handlers : pc[h] # "idle" => event[h] \in Event /\ event[h].version <= MaxVersion
  BY DEF PTypeOK
<1>3. store' \in SUBSET Event /\ \A e \in store' : e.version <= MaxVersion
  BY <1>1, <1>2 DEF StoreEffect, Inserts, PTypeOK, Recorded
<1>4. topic' \in [Orders -> Seq(Event)]
  <2>1. CASE topic' = topic
    BY <2>1 DEF PTypeOK
  <2>2. ASSUME NEW h \in Handlers, pc[h] = "send", Produce(event[h]) PROVE topic' \in [Orders -> Seq(Event)]
    <3>1. event[h] \in Event /\ event[h].order \in Orders
      BY <1>2, <2>2 DEF Event
    <3>2. Append(topic[event[h].order], event[h]) \in Seq(Event)
      BY <3>1 DEF PTypeOK
    <3> QED  BY <2>2, <3>1, <3>2 DEF Produce, PTypeOK
  <2> QED  BY <1>1, <2>1, <2>2 DEF TopicEffect
<1>5. ASSUME NEW h \in Handlers
      PROVE  /\ event'[h] \in Event \cup {None}
             /\ pc'[h] # "idle" => event'[h] \in Event /\ event'[h].version <= MaxVersion
  <2>1. CASE Arrives(h)
    BY <2>1, ArrivesType
  <2>2. CASE pc'[h] = "idle" /\ event'[h] = None
    BY <2>2
  <2>3. CASE event'[h] = event[h] /\ (pc[h] # "idle" \/ pc'[h] = pc[h])
    BY <1>2, <2>3 DEF PTypeOK
  <2> QED  BY <1>1, <2>1, <2>2, <2>3 DEF Goes
<1>6. event' \in [Handlers -> Event \cup {None}]
  BY <1>1, <1>5 DEF Typed
<1> QED  BY <1>1, <1>3, <1>4, <1>5, <1>6 DEF PTypeOK, Recorded, Typed

-----------------------------------------------------------------------------
(* A step of the API and an order that is not torn.                        *)

\* The version that an insertion takes is higher than every recorded one: the
\* unique index refuses it otherwise, although events may have been deleted.
LEMMA NewestInserted ==
  ASSUME PTypeOK, NEW h \in Handlers, Inserts(h), NEW e, e = event[h],
         NEW o \in Orders, o = e.order, HistoryOK(o), WaitingOf(o)
  PROVE  /\ e \in Event /\ e \notin store /\ WaitOK(e, since[h])
         /\ \A f \in RecordedOf(o) : f.version < e.version
<1>0. \A f \in RecordedOf(o) : f \in Event /\ f.order = o /\ f.version \in Nat \ {0}
  BY RecordedType
<1>1. e \in Event /\ e \notin store /\ WaitOK(e, since[h]) /\ VersionFree(e)
  BY DEF PTypeOK, Inserts, VersionFree, WaitingOf, Waiting
<1>2. e.version \in Nat \ {0}
  BY <1>1 DEF Event
<1>3. ASSUME NEW f \in RecordedOf(o), ~(f.version < e.version) PROVE FALSE
  <2>1. e.version \in 1..f.version
    BY <1>0, <1>2, <1>3
  <2>2. PICK g \in RecordedOf(o) : g.version = e.version
    BY <2>1 DEF HistoryOK, ContiguousOf
  <2>3. g.version >= e.version
    BY <1>2, <2>2
  <2>4. g \in store /\ g.order = e.order
    BY <1>0, <1>1, <2>3 DEF WaitOK
  <2> QED  BY <1>1, <2>2, <2>4 DEF VersionFree
<1> QED  BY <1>1, <1>3

\* The insertion of such an event keeps the order in shape.
LEMMA AppendKeepsOrder ==
  ASSUME PTypeOK, DatesOK, NEW o \in Orders, OrderOK(o), UNCHANGED <<pruned, expiry>>,
         NEW h \in Handlers, Inserts(h), event[h].order = o
  PROVE  HistoryOK(o)' /\ OldestFirst(o)' /\ OnlyTerminal(o)'
<1>1. PICK e : e = event[h]
  OBVIOUS
<1>2. /\ e \in Event /\ e \notin store /\ WaitOK(e, since[h]) /\ e.order = o
      /\ \A f \in RecordedOf(o) : f.version < e.version
  BY <1>1, NewestInserted DEF OrderOK
<1>3. /\ \A f \in RecordedOf(o) : f \in Event /\ f.order = o /\ f.version \in Nat \ {0}
      /\ e.version \in Nat \ {0} /\ EventsOf(o) \subseteq RecordedOf(o)
  BY <1>2, RecordedType DEF Event
<1>4. RecordedOf(o)' = RecordedOf(o) \cup {e} /\ EventsOf(o)' = EventsOf(o) \cup {e}
  BY <1>1, <1>2 DEF RecordedOf, Recorded, EventsOf, Inserts
<1>5. \A f \in RecordedOf(o) \cup {e} : RecordedBefore(f)' = RecordedBefore(f)
  <2> SUFFICES ASSUME NEW f \in RecordedOf(o) \cup {e} PROVE RecordedBefore(f)' = RecordedBefore(f)
    OBVIOUS
  <2>1. f.order = o /\ ~(e.version < f.version)
    BY <1>2, <1>3
  <2> QED  BY <1>4, <2>1 DEF RecordedBefore
<1>6. ContiguousOf(o)'
  <2>1. ASSUME NEW f \in RecordedOf(o)', NEW g \in RecordedOf(o)', g.version = f.version PROVE g = f
    BY <1>2, <1>3, <1>4, <2>1 DEF OrderOK, HistoryOK, ContiguousOf
  <2>2. ASSUME NEW f \in RecordedOf(o), NEW v \in 1..f.version PROVE \E g \in RecordedOf(o)' : g.version = v
    BY <1>4 DEF OrderOK, HistoryOK, ContiguousOf
  <2>3. ASSUME NEW v \in 1..e.version PROVE \E g \in RecordedOf(o)' : g.version = v
    <3>1. CASE v = e.version
      BY <1>4, <3>1
    <3>2. CASE v # e.version
      <4>1. e.version # 1
        BY <1>3, <3>2
      <4>2. PICK f \in RecordedOf(o) : f.version = e.version - 1
        BY <1>2, <4>1 DEF WaitOK
      <4>3. v \in 1..f.version
        BY <1>3, <3>2, <4>2
      <4> QED  BY <2>2, <4>3
    <3> QED  BY <3>1, <3>2
  <2> QED  BY <1>4, <2>1, <2>2, <2>3 DEF ContiguousOf
<1>7. LegalOf(o)'
  <2>1. ASSUME NEW f \in RecordedOf(o)'
        PROVE  IF f.version = 1 THEN f.type = "ORDER_CREATED"
                 ELSE RecordedBefore(f) # {} /\ Allowed(Rebuild(RecordedBefore(f)), f.type)
    <3>1. CASE f \in RecordedOf(o)
      BY <3>1 DEF OrderOK, HistoryOK, LegalOf
    <3>2. CASE f = e /\ e.version # 1
      <4>1. PICK g \in RecordedOf(o) : g.version = e.version - 1
        BY <1>2, <3>2 DEF WaitOK
      <4>2. g \in RecordedBefore(e)
        BY <1>2, <1>3, <4>1 DEF RecordedBefore
      <4> QED  BY <1>2, <3>2, <4>2 DEF WaitOK
    <3>3. CASE f = e /\ e.version = 1
      BY <1>2, <3>3 DEF WaitOK
    <3> QED  BY <1>4, <3>1, <3>2, <3>3
  <2> QED  BY <1>4, <1>5, <2>1 DEF LegalOf
<1>8. OldestFirst(o)'
  <2>1. e \notin DOMAIN expiry
    BY <1>2 DEF DatesOK
  <2>2. ASSUME NEW f \in pruned, NEW g \in EventsOf(o) \cup {e}, f.order = o PROVE f.version < g.version
    BY <1>2, <2>2 DEF OrderOK, OldestFirst, RecordedOf, Recorded
  <2>3. ASSUME NEW f \in EventsOf(o) \cup {e}, NEW g \in EventsOf(o) \cup {e},
               f.version <= g.version, g \in DOMAIN expiry
        PROVE  f \in DOMAIN expiry /\ expiry[f] = expiry[g]
    <3>1. g \in EventsOf(o)
      BY <2>1, <2>3
    <3>2. f # e
      BY <1>2, <1>3, <2>3, <3>1
    <3> QED  BY <2>3, <3>1, <3>2 DEF OrderOK, OldestFirst
  <2> QED  BY <1>4, <2>2, <2>3 DEF OldestFirst
<1>9. OnlyTerminal(o)'
  BY <1>4 DEF OrderOK, OnlyTerminal
<1> QED  BY <1>6, <1>7, <1>8, <1>9 DEF HistoryOK

\* What a request relies on stays true while others insert.
LEMMA WaitIsStable ==
  ASSUME PTypeOK, DatesOK, NEW o \in Orders, OrderOK(o), UNCHANGED <<pruned, expiry>>, StoreEffect,
         NEW e \in Event, e.order = o, NEW s, WaitOK(e, s)
  PROVE  WaitOK(e, s)'
<1>1. CASE RecordedOf(o)' = RecordedOf(o) /\ store \subseteq store'
  BY <1>1 DEF WaitOK, RecordedBefore
<1>2. ASSUME NEW h \in Handlers, Inserts(h), event[h].order # o PROVE WaitOK(e, s)'
  <2>1. RecordedOf(o)' = RecordedOf(o) /\ store \subseteq store'
    BY <1>2 DEF RecordedOf, Recorded, Inserts
  <2> QED  BY <1>1, <2>1
<1>3. ASSUME NEW h \in Handlers, Inserts(h), event[h].order = o PROVE WaitOK(e, s)'
  <2>1. PICK x : x = event[h]
    OBVIOUS
  <2>2. /\ x \in Event /\ x \notin store /\ x.order = o
        /\ \A f \in RecordedOf(o) : f.version < x.version
    BY <1>3, <2>1, NewestInserted DEF OrderOK
  <2>3. /\ RecordedOf(o)' = RecordedOf(o) \cup {x} /\ store' = store \cup {x}
        /\ x \notin DOMAIN expiry
    BY <1>3, <2>1, <2>2 DEF RecordedOf, Recorded, Inserts, DatesOK
  <2>4. ASSUME e.version # 1 PROVE RecordedBefore(e)' = RecordedBefore(e)
    <3>1. PICK f \in RecordedOf(o) : f.version = e.version - 1
      BY <2>4 DEF WaitOK
    <3>2. f.version < x.version /\ x.version \in Nat /\ e.version \in Nat
      BY <2>2 DEF Event
    <3>3. ~(x.version < e.version)
      BY <3>1, <3>2
    <3> QED  BY <2>3, <3>3 DEF RecordedBefore
  <2>5. \A f \in RecordedOf(o)' : f.version >= e.version =>
          f \in store' /\ (f \in DOMAIN expiry => expiry[f] > s)
    BY <2>3 DEF WaitOK
  <2>6. IF e.version = 1
          THEN e.type = "ORDER_CREATED"
          ELSE /\ \E f \in RecordedOf(o)' : f.version = e.version - 1
               /\ Allowed(Rebuild(RecordedBefore(e)'), e.type)
    BY <2>3, <2>4 DEF WaitOK
  <2> QED  BY <2>5, <2>6 DEF WaitOK
<1>4. CASE store' = store
  BY <1>1, <1>4 DEF RecordedOf, Recorded
<1> QED  BY <1>2, <1>3, <1>4 DEF StoreEffect

\* A request that comes loads what the documents left say: its event is the
\* legal successor of the whole recorded history.
LEMMA ArrivesWaits ==
  ASSUME PTypeOK, DatesOK, NEW o \in Orders, OrderOK(o), ApiStep,
         NEW h \in Handlers, Arrives(h), NEW e, e = event'[h], e.order = o, NEW s
  PROVE  WaitOK(e, s)'
<1>0. /\ RecordedOf(o) \subseteq Event /\ EventsOf(o) \subseteq RecordedOf(o)
      /\ \A f \in RecordedOf(o) : f.order = o /\ f.version \in Nat \ {0} /\ f.version <= MaxVersion
  BY RecordedType
<1>1. UNCHANGED <<store, pruned, expiry>>
  BY DEF Arrives, ApiStep, pruning
<1>2. WaitOK(e, s)
  <2>1. CASE Fresh(o) /\ e = MakeEvent(o, 1, "ORDER_CREATED", None)
    <3>1. e.version = 1 /\ e.type = "ORDER_CREATED" /\ EventsOf(o) = {}
      BY <2>1 DEF MakeEvent, Fresh
    <3>2. \A f \in pruned : f.order # o
      BY <3>1 DEF ApiStep, Arrives
    <3>3. RecordedOf(o) = {}
      BY <3>1, <3>2 DEF RecordedOf, Recorded, EventsOf
    <3> QED  BY <3>1, <3>3 DEF WaitOK
  <2>2. ASSUME NEW t \in EventType, NEW p \in Payloads \cup {None}, EventsOf(o) # {},
               Allowed(Rebuild(EventsOf(o)), t), e = MakeEvent(o, Latest(EventsOf(o)).version + 1, t, p)
        PROVE  WaitOK(e, s)
    <3> DEFINE last == Latest(EventsOf(o))
    <3>1. /\ last \in EventsOf(o) /\ \A f \in RecordedOf(o) : f.version <= last.version
          /\ StatusOf(EventsOf(o)) = StatusOf(RecordedOf(o))
          /\ EventsOf(o) = RecordedOf(o) \/ StatusOf(RecordedOf(o)) = "CANCELLED"
      BY <2>2, Survives DEF OrderOK
    <3>2. e.version = last.version + 1 /\ e.type = t /\ last.version \in Nat \ {0}
      BY <1>0, <2>2, <3>1 DEF MakeEvent
    <3> HIDE DEF last
    <3>3. e.version # 1 /\ last \in RecordedOf(o) /\ last.version = e.version - 1
      BY <1>0, <3>1, <3>2
    <3>4. ASSUME NEW f \in RecordedOf(o) PROVE f.version < e.version /\ ~(f.version >= e.version)
      BY <1>0, <3>1, <3>2
    <3>5. RecordedBefore(e) = RecordedOf(o)
      BY <3>4 DEF RecordedBefore
    <3>6. Allowed(Rebuild(RecordedOf(o)), t)
      <4>1. CASE EventsOf(o) = RecordedOf(o)
        BY <2>2, <4>1
      <4>2. CASE StatusOf(RecordedOf(o)) = "CANCELLED"
        <5>1. Rebuild(EventsOf(o)).status = "CANCELLED" /\ Rebuild(RecordedOf(o)).status = "CANCELLED"
          BY <3>1, <4>2 DEF Rebuild
        <5>2. t = "ORDER_CANCELLED"
          BY <2>2, <5>1, CancelledAllowsOnly
        <5> QED  BY <5>1, <5>2 DEF Allowed, CanCancel
      <4> QED  BY <3>1, <4>1, <4>2
    <3> QED  BY <3>2, <3>3, <3>4, <3>5, <3>6 DEF WaitOK
  <2>3. \A x, y, z, w : MakeEvent(x, y, z, w).order = x
    BY DEF MakeEvent
  <2> QED  BY <2>1, <2>2, <2>3 DEF Arrives
<1> QED  BY <1>1, <1>2 DEF WaitOK, RecordedBefore, RecordedOf, Recorded

\* A step of the API keeps an order that is not torn as OrderOK says.
LEMMA ApiKeepsOrder ==
  ASSUME PTypeOK, DatesOK, NEW o \in Orders, OrderOK(o), ApiStep
  PROVE  OrderOK(o)'
<1>1. /\ Typed /\ (\A g \in Handlers : Goes(g)) /\ StoreEffect
      /\ UNCHANGED <<pruned, expiry>>
  BY RequestStep, Effects DEF ApiStep, pruning
<1>2. HistoryOK(o)' /\ OldestFirst(o)' /\ OnlyTerminal(o)'
  <2>1. CASE RecordedOf(o)' = RecordedOf(o) /\ EventsOf(o)' = EventsOf(o)
    <3>1. \A e \in RecordedOf(o) : RecordedBefore(e)' = RecordedBefore(e)
      BY <2>1 DEF RecordedBefore, RecordedOf
    <3> QED  BY <1>1, <2>1, <3>1 DEF OrderOK, HistoryOK, ContiguousOf, LegalOf, OldestFirst, OnlyTerminal
  <2>2. ASSUME NEW h \in Handlers, Inserts(h), event[h].order # o
        PROVE  RecordedOf(o)' = RecordedOf(o) /\ EventsOf(o)' = EventsOf(o)
    BY <1>1, <2>2 DEF RecordedOf, Recorded, EventsOf, Inserts
  <2>3. CASE store' = store
    BY <1>1, <2>1, <2>3 DEF RecordedOf, Recorded, EventsOf
  <2>4. ASSUME NEW h \in Handlers, Inserts(h), event[h].order = o
        PROVE  HistoryOK(o)' /\ OldestFirst(o)' /\ OnlyTerminal(o)'
    BY <1>1, <2>4, AppendKeepsOrder
  <2> QED  BY <1>1, <2>1, <2>2, <2>3, <2>4 DEF StoreEffect
<1>3. ASSUME NEW h \in Handlers, Waiting(h)', (event[h].order)' = o
      PROVE  WaitOK(event[h], since[h])'
  <2>1. PICK e, s : e = event'[h] /\ s = since'[h]
    OBVIOUS
  <2>2. CASE Arrives(h)
    <3>1. WaitOK(e, s)'
      BY <1>3, <2>1, <2>2, ArrivesWaits
    <3> QED  BY <2>1, <3>1 DEF WaitOK, RecordedBefore
  <2>3. CASE Waiting(h) /\ event'[h] = event[h]
    <3>1. pc[h] # "idle" /\ pc'[h] # "idle"
      BY <1>3, <2>3 DEF Waiting
    <3>2. s = since[h] /\ e = event[h] /\ e \in Event /\ e.order = o
      BY <1>3, <2>1, <2>3, <3>1 DEF ApiStep, PTypeOK
    <3>3. WaitOK(e, s)
      BY <2>3, <3>2 DEF OrderOK, WaitingOf
    <3>4. WaitOK(e, s)'
      BY <1>1, <3>2, <3>3, WaitIsStable
    <3> QED  BY <2>1, <3>4 DEF WaitOK, RecordedBefore
  <2> QED  BY <1>1, <1>3, <2>2, <2>3 DEF Goes, Waiting
<1> QED  BY <1>2, <1>3 DEF OrderOK, WaitingOf

\* The API neither touches dates nor keeps a request that came before one of
\* those that have passed.
LEMMA ApiKeepsDates ==
  ASSUME PTypeOK, DatesOK, ApiStep
  PROVE  DatesOK'
<1>1. (\A h \in Handlers : Goes(h)) /\ StoreEffect /\ UNCHANGED <<expiry, calls, now>>
  BY RequestStep, Effects DEF ApiStep, pruning
<1>2. store \subseteq store'
  BY <1>1 DEF StoreEffect, Inserts
<1>3. since' = [h \in Handlers |-> IF pc'[h] = "idle" THEN 0
                                   ELSE IF pc[h] = "idle" THEN calls ELSE since[h]]
  BY DEF ApiStep
<1>4. since' \in [Handlers -> Nat]
  BY <1>3 DEF DatesOK
<1>5. ASSUME NEW h \in Handlers, pc'[h] # "idle" PROVE now <= since'[h] /\ since'[h] <= calls
  <2>1. CASE pc[h] = "idle"
    BY <1>3, <1>5, <2>1 DEF DatesOK
  <2>2. CASE pc[h] # "idle"
    BY <1>3, <1>5, <2>2 DEF DatesOK
  <2> QED  BY <2>1, <2>2
<1> QED  BY <1>1, <1>2, <1>4, <1>5 DEF DatesOK

\* The API publishes only what was recorded.
LEMMA ApiKeepsSent ==
  ASSUME PTypeOK, SentOK, ApiStep
  PROVE  SentOK'
<1>1. (\A h \in Handlers : Goes(h)) /\ StoreEffect /\ TopicEffect /\ UNCHANGED pruned
  BY RequestStep, Effects DEF ApiStep, pruning
<1>2. Recorded \subseteq Recorded'
  BY <1>1 DEF StoreEffect, Inserts, Recorded
<1>3. ASSUME NEW h \in Handlers, pc'[h] \in {"check", "send", "mark"} PROVE event'[h] \in Recorded'
  <2>1. CASE Inserts(h) /\ event'[h] = event[h]
    BY <2>1 DEF Inserts, Recorded
  <2>2. CASE pc[h] \in {"check", "send", "mark"} /\ event'[h] = event[h]
    BY <1>2, <2>2 DEF SentOK
  <2> QED  BY <1>1, <1>3, <2>1, <2>2 DEF Goes, Arrives
<1>4. ASSUME NEW o \in Orders, NEW i \in 1..Len(topic'[o]) PROVE topic'[o][i] \in Recorded'
  <2>1. CASE topic'[o] = topic[o]
    BY <1>2, <1>4, <2>1 DEF SentOK
  <2>2. ASSUME NEW h \in Handlers, pc[h] = "send", Produce(event[h]), topic'[o] # topic[o]
        PROVE  topic'[o][i] \in Recorded'
    <3>1. event[h] \in Recorded /\ event[h] \in Event
      BY <2>2 DEF SentOK, PTypeOK
    <3>2. topic'[o] = Append(topic[o], event[h]) /\ topic[o] \in Seq(Event)
      BY <2>2 DEF Produce, PTypeOK
    <3>3. CASE i = Len(topic[o]) + 1
      BY <1>2, <3>1, <3>2, <3>3
    <3>4. CASE i # Len(topic[o]) + 1
      <4>1. i \in 1..Len(topic[o]) /\ topic'[o][i] = topic[o][i]
        BY <3>2, <3>4
      <4> QED  BY <1>2, <4>1 DEF SentOK
    <3> QED  BY <3>3, <3>4
  <2> QED  BY <1>1, <2>1, <2>2 DEF TopicEffect
<1> QED  BY <1>3, <1>4 DEF SentOK

-----------------------------------------------------------------------------
(* A call of set_expiry_for_aggregate.                                     *)

\* The documents evs of order o that one call dates: all of them, or, if it
\* fails, those up to some version.  Only the first call may fail, if the order
\* is not to be torn.
Dates(o, evs) ==
  /\ evs \subseteq EventsOf(o) /\ Date(evs)
  /\ \A f \in EventsOf(o), g \in evs : f.version <= g.version => f \in evs
  /\ torn \subseteq torn'
  /\ o \in torn' \/ evs = EventsOf(o) \/ (evs # {} /\ evs \cap DOMAIN expiry = {})

\* Every call, failed or not, is described by Dates.
LEMMA CallDates ==
  ASSUME PTypeOK, NEW e \in Event, SetExpiryForAggregate(e) \/ SetExpiryFails(e)
  PROVE  \E evs : Dates(e.order, evs)
<1>1. CASE SetExpiryForAggregate(e)
  BY <1>1 DEF SetExpiryForAggregate, Dates
<1>2. CASE SetExpiryFails(e)
  <2>1. PICK v \in 1..MaxVersion :
          LET evs == {f \in EventsOf(e.order) : f.version <= v} IN
          /\ evs # {} /\ evs # EventsOf(e.order)
          /\ Date(evs)
          /\ torn' = IF evs \cap DOMAIN expiry = {} THEN torn ELSE torn \cup {e.order}
    BY <1>2 DEF SetExpiryFails
  <2> DEFINE evs == {f \in EventsOf(e.order) : f.version <= v}
  <2>2. v \in Nat /\ \A f \in EventsOf(e.order) : f.version \in Nat
    BY WriteSideAssumption DEF PTypeOK, EventsOf, Event
  <2>3. \A f \in EventsOf(e.order), g \in evs : f.version <= g.version => f \in evs
    BY <2>2
  <2>4. evs \subseteq EventsOf(e.order)
    OBVIOUS
  <2>5. /\ Date(evs) /\ torn \subseteq torn'
        /\ e.order \in torn' \/ (evs # {} /\ evs \cap DOMAIN expiry = {})
    BY <2>1
  <2> HIDE DEF evs
  <2> QED  BY <2>3, <2>4, <2>5 DEF Dates
<1> QED  BY <1>1, <1>2

\* A call keeps all orders it does not tear: its dates are later than the arrival of
\* every request under way, and come to a prefix of the documents.
LEMMA DateKeepsOrder ==
  ASSUME PTypeOK, DatesOK, NEW o \in Orders, OrderOK(o), o \notin torn',
         NEW e \in Recorded, IsTerminal(e), NEW evs, Dates(e.order, evs),
         UNCHANGED <<store, pc, event, since, pruned>>
  PROVE  OrderOK(o)'
<1>1. RecordedOf(o)' = RecordedOf(o) /\ EventsOf(o)' = EventsOf(o)
  BY DEF RecordedOf, Recorded, EventsOf
<1>2. \A f : RecordedBefore(f)' = RecordedBefore(f)
  BY DEF RecordedBefore, RecordedOf, Recorded
<1>3. /\ DOMAIN expiry' = DOMAIN expiry \cup evs
      /\ \A f \in DOMAIN expiry \cup evs : expiry'[f] = IF f \in evs THEN calls + 1 ELSE expiry[f]
      /\ \A f \in evs : f \in EventsOf(e.order) /\ f.order = e.order
  BY DEF Dates, Date, EventsOf
<1>4. HistoryOK(o)'
  BY <1>1, <1>2 DEF OrderOK, HistoryOK, ContiguousOf, LegalOf
<1>5. ASSUME NEW f \in EventsOf(o), NEW g \in EventsOf(o), f.version <= g.version, g \in DOMAIN expiry'
      PROVE  f \in DOMAIN expiry' /\ expiry'[f] = expiry'[g]
  <2>0. f.version \in Nat /\ g.version \in Nat /\ f.order = o /\ g.order = o
    BY DEF PTypeOK, EventsOf, Event
  <2>1. CASE e.order # o
    <3>1. f \notin evs /\ g \notin evs
      BY <1>3, <2>0, <2>1
    <3> QED  BY <1>3, <1>5, <3>1 DEF OrderOK, OldestFirst
  <2>2. CASE e.order = o /\ evs = EventsOf(o)
    BY <1>3, <1>5, <2>2
  <2>3. CASE e.order = o /\ evs # {} /\ evs \cap DOMAIN expiry = {}
    <3>1. g \notin DOMAIN expiry
      <4> SUFFICES ASSUME g \in DOMAIN expiry PROVE FALSE
        OBVIOUS
      <4>1. PICK x \in evs : x \in EventsOf(o) /\ x \notin DOMAIN expiry /\ x.version \in Nat
        BY <1>3, <2>3 DEF PTypeOK, EventsOf, Event
      <4>2. CASE x.version <= g.version
        BY <4>1, <4>2 DEF OrderOK, OldestFirst
      <4>3. CASE g.version <= x.version
        BY <2>3, <4>1, <4>3 DEF Dates
      <4> QED  BY <2>0, <4>1, <4>2, <4>3
    <3>2. g \in evs /\ f \in evs
      BY <1>3, <1>5, <2>3, <3>1 DEF Dates
    <3> QED  BY <1>3, <3>2
  <2> QED  BY <2>1, <2>2, <2>3 DEF Dates
<1>6. OldestFirst(o)'
  BY <1>1, <1>5 DEF OrderOK, OldestFirst
<1>7. OnlyTerminal(o)'
  <2>1. CASE e.order = o
    BY <1>1, <2>1 DEF OnlyTerminal, RecordedOf
  <2>2. CASE e.order # o
    BY <1>1, <1>3, <2>2 DEF OrderOK, OnlyTerminal
  <2> QED  BY <2>1, <2>2
<1>8. ASSUME NEW h \in Handlers, Waiting(h), event[h].order = o PROVE WaitOK(event[h], since[h])'
  <2>1. WaitOK(event[h], since[h]) /\ since[h] \in Nat /\ since[h] <= calls /\ calls \in Nat
    BY <1>8 DEF OrderOK, WaitingOf, DatesOK, Waiting
  <2>2. ASSUME NEW f \in RecordedOf(o), f.version >= event[h].version
        PROVE  f \in store /\ (f \in DOMAIN expiry' => expiry'[f] > since[h])
    BY <1>3, <1>8, <2>1, <2>2 DEF WaitOK
  <2> QED  BY <1>1, <1>2, <1>8, <2>1, <2>2 DEF WaitOK
<1>9. WaitingOf(o)'
  BY <1>8 DEF WaitingOf, Waiting
<1> QED  BY <1>4, <1>6, <1>7, <1>9 DEF OrderOK

\* set_expiry_for_aggregate keeps the invariant.
LEMMA ScheduleKeeps ==
  ASSUME PInv, NEW e \in Topic, ScheduleExpiry(e)
  PROVE  PInv'
<1>1. UNCHANGED <<store, topic, pc, event, since, now, pruned>> /\ IsTerminal(e)
  BY DEF ScheduleExpiry, vars, services, requests
<1>2. e \in Recorded /\ e \in Event /\ e.order \in Orders
  BY DEF Topic, PInv, SentOK, PTypeOK, Recorded, Event
<1>3. PICK evs : Dates(e.order, evs)
  BY <1>2, CallDates DEF PInv, ScheduleExpiry
<1>4. PTypeOK' /\ SentOK'
  BY <1>1 DEF PInv, PTypeOK, SentOK, Recorded
<1>5. DatesOK'
  <2>1. /\ calls' = calls + 1 /\ DOMAIN expiry' = DOMAIN expiry \cup evs
        /\ \A f \in DOMAIN expiry' : expiry'[f] = IF f \in evs THEN calls + 1 ELSE expiry[f]
        /\ evs \subseteq store
    BY <1>3 DEF Dates, Date, EventsOf
  <2>2. \A f \in DOMAIN expiry' : expiry'[f] \in Nat /\ expiry'[f] <= calls'
    BY <2>1 DEF PInv, DatesOK
  <2>3. \A h \in Handlers : pc[h] # "idle" => now <= since[h] /\ since[h] <= calls'
    BY <2>1 DEF PInv, DatesOK
  <2> QED  BY <1>1, <2>1, <2>2, <2>3 DEF PInv, DatesOK
<1>6. ASSUME NEW o \in Orders \ torn' PROVE OrderOK(o)'
  <2>1. o \notin torn
    BY <1>3 DEF Dates
  <2> QED  BY <1>1, <1>2, <1>3, <2>1, DateKeepsOrder DEF PInv
<1> QED  BY <1>4, <1>5, <1>6 DEF PInv

-----------------------------------------------------------------------------
(* Time and the TTL monitor.                                               *)

\* A date that comes keeps the invariant: no request is older than its call.
LEMMA RetentionKeeps ==
  ASSUME PInv, RetentionPasses
  PROVE  PInv'
<1>1. /\ UNCHANGED <<store, topic, pc, event, since, expiry, calls, pruned, torn>>
      /\ now < calls /\ now' = now + 1 /\ \A h \in Handlers : pc[h] # "idle" => since[h] > now
  BY DEF RetentionPasses, vars, services, requests
<1>2. PTypeOK' /\ SentOK'
  BY <1>1 DEF PInv, PTypeOK, SentOK, Recorded
<1>3. DatesOK'
  BY <1>1 DEF PInv, DatesOK
<1>4. ASSUME NEW o \in Orders \ torn PROVE OrderOK(o)'
  <2>1. OrderOK(o)
    BY DEF PInv
  <2>2. HistoryOK(o)' /\ OldestFirst(o)' /\ OnlyTerminal(o)'
    BY <1>1, <2>1 DEF OrderOK, HistoryOK, ContiguousOf, LegalOf, OldestFirst, OnlyTerminal,
                      RecordedBefore, RecordedOf, Recorded, EventsOf
  <2>3. WaitingOf(o)'
    BY <1>1, <2>1 DEF OrderOK, WaitingOf, Waiting, WaitOK, RecordedBefore, RecordedOf, Recorded
  <2> QED  BY <2>2, <2>3 DEF OrderOK
<1> QED  BY <1>1, <1>2, <1>3, <1>4 DEF PInv

\* What the TTL monitor deletes is the oldest document left of its order.
LEMMA OldestGoes ==
  ASSUME PTypeOK, DatesOK, NEW o \in Orders, OrderOK(o),
         NEW e \in EventsOf(o), DeleteExpired(e),
         NEW f \in EventsOf(o), f # e
  PROVE  e.version < f.version
<1>0. /\ f \in RecordedOf(o) /\ e \in RecordedOf(o) /\ e.order = o /\ f.order = o
      /\ e.version \in Nat /\ f.version \in Nat
  BY RecordedType
<1> SUFFICES ASSUME f.version <= e.version PROVE FALSE
  BY <1>0
<1>1. e \in DOMAIN expiry /\ expiry[e] <= now
  BY DEF DeleteExpired, Expired
<1>2. f \in DOMAIN expiry /\ expiry[f] = expiry[e] /\ expiry[e] \in Nat
  BY <1>1 DEF OrderOK, OldestFirst, DatesOK
<1>3. f \in Expired
  BY <1>1, <1>2 DEF Expired
<1>4. e.version <= f.version
  BY <1>0, <1>2, <1>3 DEF DeleteExpired
<1>5. e.version = f.version
  BY <1>0, <1>4
<1> QED  BY <1>0, <1>5 DEF OrderOK, HistoryOK, ContiguousOf

\* A deletion keeps every order that is not torn, and takes no document a request
\* under way relies on.
LEMMA DeleteKeepsOrder ==
  ASSUME PTypeOK, DatesOK, NEW o \in Orders, OrderOK(o), NEW e \in store, DeleteExpired(e)
  PROVE  OrderOK(o)'
<1>1. /\ store' = store \ {e} /\ pruned' = pruned \cup {e} /\ UNCHANGED <<pc, event, since>>
      /\ e \in DOMAIN expiry /\ expiry[e] <= now
      /\ DOMAIN expiry' = DOMAIN expiry \ {e}
      /\ \A f \in DOMAIN expiry' : expiry'[f] = expiry[f]
  BY DEF DeleteExpired, Expired, requests
<1>2. Recorded' = Recorded /\ RecordedOf(o)' = RecordedOf(o)
  BY <1>1 DEF Recorded, RecordedOf
<1>3. \A f : RecordedBefore(f)' = RecordedBefore(f)
  BY <1>2 DEF RecordedBefore, RecordedOf
<1>4. EventsOf(o)' = EventsOf(o) \ {e}
  BY <1>1 DEF EventsOf
<1>5. HistoryOK(o)' /\ OnlyTerminal(o)'
  BY <1>1, <1>2, <1>3 DEF OrderOK, HistoryOK, ContiguousOf, LegalOf, OnlyTerminal
<1>6. OldestFirst(o)'
  <2>1. ASSUME NEW x \in pruned', NEW f \in EventsOf(o) \ {e}, x.order = o PROVE x.version < f.version
    <3>1. CASE x \in pruned
      BY <2>1, <3>1 DEF OrderOK, OldestFirst
    <3>2. CASE x = e
      <4>1. e \in EventsOf(o)
        BY <2>1, <3>2 DEF EventsOf
      <4> QED  BY <2>1, <3>2, <4>1, OldestGoes
    <3> QED  BY <1>1, <2>1, <3>1, <3>2
  <2>2. ASSUME NEW x \in EventsOf(o) \ {e}, NEW f \in EventsOf(o) \ {e}, x.version <= f.version,
               f \in DOMAIN expiry'
        PROVE  x \in DOMAIN expiry' /\ expiry'[x] = expiry'[f]
    BY <1>1, <2>2 DEF OrderOK, OldestFirst
  <2> QED  BY <1>4, <2>1, <2>2 DEF OldestFirst
<1>7. ASSUME NEW h \in Handlers, Waiting(h), event[h].order = o PROVE WaitOK(event[h], since[h])'
  <2>1. /\ WaitOK(event[h], since[h]) /\ now <= since[h]
        /\ since[h] \in Nat /\ now \in Nat /\ expiry[e] \in Nat
    BY <1>1, <1>7 DEF OrderOK, WaitingOf, DatesOK, Waiting
  <2>2. ASSUME NEW f \in RecordedOf(o), f.version >= event[h].version
        PROVE  f \in store' /\ (f \in DOMAIN expiry' => expiry'[f] > since[h])
    <3>1. f \in store /\ (f \in DOMAIN expiry => expiry[f] > since[h])
      BY <1>7, <2>1, <2>2 DEF WaitOK
    <3>2. f # e
      BY <1>1, <2>1, <3>1
    <3> QED  BY <1>1, <3>1, <3>2
  <2> QED  BY <1>1, <1>2, <1>3, <1>7, <2>1, <2>2 DEF WaitOK
<1>8. WaitingOf(o)'
  BY <1>1, <1>7 DEF WaitingOf, Waiting
<1> QED  BY <1>5, <1>6, <1>8 DEF OrderOK

\* The TTL monitor keeps the invariant.
LEMMA DeleteKeeps ==
  ASSUME PInv, NEW e \in DOMAIN expiry, DeleteExpired(e)
  PROVE  PInv'
<1>1. /\ store' = store \ {e} /\ pruned' = pruned \cup {e}
      /\ UNCHANGED <<topic, pc, event, since, calls, now, torn>> /\ e \in store
      /\ DOMAIN expiry' = DOMAIN expiry \ {e} /\ \A f \in DOMAIN expiry' : expiry'[f] = expiry[f]
  BY DEF DeleteExpired, requests, PInv, DatesOK
<1>2. Recorded' = Recorded
  BY <1>1 DEF Recorded
<1>3. PTypeOK'
  BY <1>1, <1>2 DEF PInv, PTypeOK
<1>4. SentOK'
  BY <1>1, <1>2 DEF PInv, SentOK
<1>5. DatesOK'
  BY <1>1 DEF PInv, DatesOK
<1>6. ASSUME NEW o \in Orders \ torn PROVE OrderOK(o)'
  BY <1>1, DeleteKeepsOrder DEF PInv
<1> QED  BY <1>1, <1>3, <1>4, <1>5, <1>6 DEF PInv

-----------------------------------------------------------------------------
(* The theorems.                                                           *)

\* The initial states satisfy the invariant.
LEMMA PInitInv == PInit => PInv
<1> SUFFICES ASSUME PInit PROVE PInv
  OBVIOUS
<1>1. /\ store = {} /\ pruned = {} /\ Recorded = {} /\ expiry = <<>> /\ calls = 0 /\ now = 0
      /\ topic = [o \in Orders |-> <<>>] /\ pc = [h \in Handlers |-> "idle"]
      /\ event = [h \in Handlers |-> None] /\ since = [h \in Handlers |-> 0]
  BY DEF PInit, Init, Recorded
<1>2. DOMAIN expiry = {}
  BY <1>1
<1>3. PTypeOK
  BY <1>1 DEF PTypeOK, PC
<1>4. DatesOK
  BY <1>1, <1>2 DEF DatesOK
<1>5. SentOK
  BY <1>1 DEF SentOK
<1>6. ASSUME NEW o \in Orders PROVE OrderOK(o)
  <2>1. RecordedOf(o) = {} /\ EventsOf(o) = {}
    BY <1>1 DEF RecordedOf, EventsOf
  <2> QED  BY <1>1, <1>2, <2>1 DEF OrderOK, HistoryOK, ContiguousOf, LegalOf, OldestFirst,
                                   OnlyTerminal, WaitingOf, Waiting
<1> QED  BY <1>3, <1>4, <1>5, <1>6 DEF PInv

\* Every step of the API, the consumer, the clock or the TTL monitor keeps it.
LEMMA PInvStep == PInv /\ [PNext]_pvars => PInv'
<1> SUFFICES ASSUME PInv, [PNext]_pvars PROVE PInv'
  OBVIOUS
<1>1. CASE ApiStep
  <2>1. UNCHANGED <<pruned, torn>> /\ [Next]_vars
    BY <1>1 DEF ApiStep, pruning
  <2>2. PTypeOK' /\ DatesOK' /\ SentOK'
    BY <1>1, <2>1, ApiTypes, ApiKeepsDates, ApiKeepsSent DEF PInv
  <2>3. \A o \in Orders \ torn : OrderOK(o)'
    BY <1>1, ApiKeepsOrder DEF PInv
  <2> QED  BY <2>1, <2>2, <2>3 DEF PInv
<1>2. ASSUME NEW e \in Topic, ScheduleExpiry(e) PROVE PInv'
  BY <1>2, ScheduleKeeps
<1>3. CASE RetentionPasses
  BY <1>3, RetentionKeeps
<1>4. ASSUME NEW e \in DOMAIN expiry, DeleteExpired(e) PROVE PInv'
  BY <1>4, DeleteKeeps
<1>5. CASE UNCHANGED pvars
  <2>1. UNCHANGED <<store, topic, pc, event, since, expiry, calls, now, pruned, torn>>
    BY <1>5 DEF pvars, pruning, vars, services, requests
  <2>2. PTypeOK' /\ DatesOK' /\ SentOK'
    BY <2>1 DEF PInv, PTypeOK, DatesOK, SentOK, Recorded
  <2>3. ASSUME NEW o \in Orders \ torn PROVE OrderOK(o)'
    <3>1. OrderOK(o)
      BY DEF PInv
    <3>2. HistoryOK(o)' /\ OldestFirst(o)' /\ OnlyTerminal(o)'
      BY <2>1, <3>1 DEF OrderOK, HistoryOK, ContiguousOf, LegalOf, OldestFirst, OnlyTerminal,
                        RecordedBefore, RecordedOf, Recorded, EventsOf
    <3>3. WaitingOf(o)'
      BY <2>1, <3>1 DEF OrderOK, WaitingOf, Waiting, WaitOK, RecordedBefore, RecordedOf, Recorded
    <3> QED  BY <3>2, <3>3 DEF OrderOK
  <2> QED  BY <2>1, <2>2, <2>3 DEF PInv
<1> QED  BY <1>1, <1>2, <1>3, <1>4, <1>5 DEF PNext

\* The recorded history keeps its shape, the documents go from the oldest on,
\* and what took a request's version outlives it, however the API, the calls of
\* set_expiry_for_aggregate and the TTL monitor interleave.
THEOREM PInvariance == PSpec => []PInv
<1> QED  BY PInitInv, PInvStep, PTL DEF PSpec

\* set_expiry_for_aggregate and the TTL index never change what _load_aggregate
\* sees of an order, as long as no second update_many fails half way: the
\* documents left have the version and the status of all ever recorded.
THEOREM StateSurvives == PSpec => []StateSurvivesPruning
<1>1. PInv => StateSurvivesPruning
  <2> SUFFICES ASSUME PInv, NEW o \in Orders \ torn, EventsOf(o) # {}
               PROVE  /\ Rebuild(EventsOf(o)).version = Rebuild(RecordedOf(o)).version
                      /\ Rebuild(EventsOf(o)).status = Rebuild(RecordedOf(o)).status
    BY DEF StateSurvivesPruning
  <2>1. /\ Latest(RecordedOf(o)) = Latest(EventsOf(o))
        /\ StatusOf(EventsOf(o)) = StatusOf(RecordedOf(o))
    BY Survives DEF PInv, OrderOK
  <2> QED  BY <2>1 DEF Rebuild
<1> QED  BY <1>1, PInvariance, PTL

\* The optimistic lock of EventStore.append and the business rules of the
\* commands hold on the history ever recorded, deleted documents included.
THEOREM HistorySurvives == PSpec => []HistorySurvivesPruning
<1>1. PInv => HistorySurvivesPruning
  <2> SUFFICES ASSUME PInv, NEW o \in Orders \ torn, NEW e \in RecordedOf(o)
               PROVE  LET before == {f \in RecordedOf(o) : f.version < e.version} IN
                      /\ ~(e \in store /\ e \in pruned)
                      /\ \A f \in RecordedOf(o) : f.version = e.version => f = e
                      /\ IF e.version = 1 THEN e.type = "ORDER_CREATED"
                                          ELSE before # {} /\ Allowed(Rebuild(before), e.type)
    BY DEF HistorySurvivesPruning
  <2>1. e.order = o /\ e.version \in Nat
    BY RecordedType DEF PInv
  <2>2. ~(e \in store /\ e \in pruned)
    BY <2>1 DEF PInv, OrderOK, OldestFirst, EventsOf
  <2>3. RecordedBefore(e) = {f \in RecordedOf(o) : f.version < e.version}
    BY <2>1 DEF RecordedBefore
  <2>4. /\ \A f \in RecordedOf(o) : f.version = e.version => f = e
        /\ IF e.version = 1 THEN e.type = "ORDER_CREATED"
             ELSE RecordedBefore(e) # {} /\ Allowed(Rebuild(RecordedBefore(e)), e.type)
    BY DEF PInv, OrderOK, HistoryOK, ContiguousOf, LegalOf
  <2> QED  BY <2>2, <2>3, <2>4
<1> QED  BY <1>1, PInvariance, PTL
=============================================================================
