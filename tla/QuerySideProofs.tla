-------------------------- MODULE QuerySideProofs --------------------------
(***************************************************************************)
(* What get_order may answer, for any number of orders, partitions and     *)
(* readers: the rows follow the log, and the cache follows the rows.       *)
(*                                                                         *)
(* The rows.  project_to_postgres, run event by event, computes RowOf      *)
(* (ProjectNext) and may be run twice (ProjectTwice).  FollowsTheLog is    *)
(* not inductive: RowsOK adds which events have a processed: key, that     *)
(* what comes a second time has one, and when the row is one record ahead. *)
(*                                                                         *)
(* The cache.  CacheFollowsRows needs one more fact: between the           *)
(* invalidation and the setex of the processed: key the consumer leaves    *)
(* the row alone, so only a reader that raced it can have put an outdated  *)
(* view back (SetexOK).                                                    *)
(***************************************************************************)
EXTENDS QuerySide, ProjectionProofs

-----------------------------------------------------------------------------
(* The read model: project_to_postgres, event by event, computes RowOf.    *)

\* The item events that LinesOf looks at: the first of each product and the
\* newest of each.
FirstOf(evs, p) == CHOOSE f \in Items(evs) :
                     /\ f.payload = p
                     /\ \A g \in Items(evs) : g.payload = p => f.version <= g.version
NewestItems(evs) == {f \in Items(evs) :
                       \A g \in Items(evs) : g.payload = f.payload => g.version <= f.version}
LineOf(evs, e)   == [product |-> e.payload, counted |-> e.version,
                     priced  |-> FirstOf(evs, e.payload).version]

\* The first of a non-empty set of events has the lowest version.
LEMMA FirstIsMin ==
  ASSUME NEW evs, evs \subseteq Event, NEW h \in Items(evs)
  PROVE  /\ FirstOf(evs, h.payload) \in Items(evs)
         /\ FirstOf(evs, h.payload).payload = h.payload
         /\ \A g \in Items(evs) : g.payload = h.payload => FirstOf(evs, h.payload).version <= g.version
<1> DEFINE T == {f \in Items(evs) : f.payload = h.payload}
           S == {f.version : f \in T}
<1>1. S \subseteq Nat /\ S # {}
  BY DEF Items, Event
<1>2. PICK x \in S : \A y \in S : x <= y
  <2> HIDE DEF S
  <2> QED  BY <1>1, LeastNat
<1>3. PICK f \in T : f.version = x
  OBVIOUS
<1>4. \A g \in Items(evs) : g.payload = h.payload => f.version <= g.version
  BY <1>2, <1>3
<1> QED  BY <1>3, <1>4 DEF FirstOf

\* A later event does not change which event of a product was the first.
LEMMA FirstStays ==
  ASSUME NEW evs, evs \subseteq Event, NEW e \in Event, \A f \in evs : f.version < e.version,
         NEW h \in Items(evs)
  PROVE  FirstOf(evs \cup {e}, h.payload).version = FirstOf(evs, h.payload).version
<1> DEFINE all == evs \cup {e}
           a == FirstOf(evs, h.payload)
           b == FirstOf(all, h.payload)
<1>1. /\ a \in Items(evs) /\ a.payload = h.payload
      /\ \A g \in Items(evs) : g.payload = h.payload => a.version <= g.version
  BY FirstIsMin
<1>2. Items(evs) \subseteq Items(all) /\ Items(all) \subseteq Items(evs) \cup {e} /\ all \subseteq Event
  BY DEF Items
<1>3. /\ b \in Items(all) /\ b.payload = h.payload
      /\ \A g \in Items(all) : g.payload = h.payload => b.version <= g.version
  BY <1>2, FirstIsMin
<1>4. a \in evs /\ a.version \in Nat /\ b.version \in Nat /\ b.version <= a.version
  BY <1>1, <1>2, <1>3 DEF Items, Event
<1>5. b # e
  BY <1>4
<1>6. b \in Items(evs) /\ a.version <= b.version
  BY <1>1, <1>2, <1>3, <1>5
<1> HIDE DEF a, b
<1>7. a.version = b.version
  BY <1>4, <1>6
<1> QED  BY <1>7 DEF a, b

\* Among a non-empty set of events there is one with the highest version.
LEMMA NewestExists ==
  ASSUME NEW evs, evs \subseteq Event, NEW n \in Nat, \A f \in evs : f.version <= n,
         NEW h \in Items(evs)
  PROVE  \E g \in NewestItems(evs) : g.payload = h.payload
<1> DEFINE T == {f \in Items(evs) : f.payload = h.payload}
           S == {f.version : f \in T}
<1>1. S \subseteq Nat /\ S # {} /\ \A x \in S : x <= n
  BY DEF Items, Event
<1>2. PICK x \in S : \A y \in S : y <= x
  <2> HIDE DEF S
  <2> QED  BY <1>1, BoundedMax
<1>3. PICK g \in T : g.version = x
  OBVIOUS
<1>4. g \in NewestItems(evs)
  BY <1>2, <1>3 DEF NewestItems
<1> QED  BY <1>3, <1>4

\* The lines of a set of events, one per newest item.
LEMMA LinesAre ==
  ASSUME NEW evs PROVE LinesOf(evs) = {LineOf(evs, e) : e \in NewestItems(evs)}
BY DEF LinesOf, NewestItems, LineOf, FirstOf

\* The upsert of an added item gives the lines of all events.
LEMMA UpsertIsLinesOf ==
  ASSUME NEW evs, evs \subseteq Event, NEW n \in Nat, \A f \in evs : f.version <= n,
         NEW e \in Event, e.type = "ORDER_ITEM_ADDED", \A f \in evs : f.version < e.version
  PROVE  Upsert(LinesOf(evs), e) = LinesOf(evs \cup {e})
<1> DEFINE all == evs \cup {e}
           old == {l \in LinesOf(evs) : l.product = e.payload}
           pr  == IF old = {} THEN e.version ELSE (CHOOSE l \in old : TRUE).priced
           new == [product |-> e.payload, counted |-> e.version, priced |-> pr]
<1>0. Upsert(LinesOf(evs), e) = (LinesOf(evs) \ old) \cup {new}
  BY DEF Upsert
<1>1. Items(all) = Items(evs) \cup {e} /\ Items(evs) \subseteq evs /\ all \subseteq Event
  BY DEF Items
<1>2. \A f \in Items(evs) : f.version \in Nat /\ e.version \in Nat /\ f.version < e.version
  BY <1>1 DEF Event
<1>3. NewestItems(all) = {f \in NewestItems(evs) : f.payload # e.payload} \cup {e}
  <2>1. ASSUME NEW f \in NewestItems(all), f # e
        PROVE  f \in NewestItems(evs) /\ f.payload # e.payload
    <3>1. f \in Items(evs) /\ \A g \in Items(evs) \cup {e} : g.payload = f.payload => g.version <= f.version
      BY <1>1, <2>1 DEF NewestItems
    <3>2. f.payload # e.payload
      BY <1>2, <3>1
    <3> QED  BY <3>1, <3>2 DEF NewestItems
  <2>2. ASSUME NEW f \in NewestItems(evs), f.payload # e.payload PROVE f \in NewestItems(all)
    BY <1>1, <2>2 DEF NewestItems
  <2>3. e \in NewestItems(all)
    BY <1>1, <1>2 DEF NewestItems, Event
  <2> QED  BY <2>1, <2>2, <2>3
<1>4. \A f \in NewestItems(evs) : LineOf(all, f) = LineOf(evs, f)
  <2> SUFFICES ASSUME NEW f \in NewestItems(evs) PROVE LineOf(all, f) = LineOf(evs, f)
    OBVIOUS
  <2>1. f \in Items(evs)
    BY DEF NewestItems
  <2> QED  BY <2>1, FirstStays DEF LineOf
<1>5. LinesOf(evs) \ old = {LineOf(evs, f) : f \in {g \in NewestItems(evs) : g.payload # e.payload}}
  <2>1. \A f \in NewestItems(evs) : LineOf(evs, f).product = f.payload
    BY DEF LineOf
  <2>2. LinesOf(evs) = {LineOf(evs, f) : f \in NewestItems(evs)}
    BY LinesAre
  <2>3. ASSUME NEW l \in LinesOf(evs) \ old
        PROVE  l \in {LineOf(evs, f) : f \in {g \in NewestItems(evs) : g.payload # e.payload}}
    BY <2>1, <2>2, <2>3
  <2>4. ASSUME NEW f \in NewestItems(evs), f.payload # e.payload
        PROVE  LineOf(evs, f) \in LinesOf(evs) \ old
    BY <2>1, <2>2, <2>4
  <2> QED  BY <2>3, <2>4
<1>6. new = LineOf(all, e)
  <2>1. CASE \E h \in Items(evs) : h.payload = e.payload
    <3>1. PICK h \in Items(evs) : h.payload = e.payload
      BY <2>1
    <3>2. PICK g \in NewestItems(evs) : g.payload = e.payload
      BY <3>1, NewestExists
    <3>3. LineOf(evs, g) \in old
      BY <3>2, LinesAre DEF LineOf
    <3>4. \A l \in old : l.priced = FirstOf(evs, e.payload).version
      BY LinesAre DEF LineOf
    <3>5. (CHOOSE l \in old : TRUE) \in old /\ old # {}
      <4> HIDE DEF old
      <4> QED  BY <3>3
    <3>6. pr = FirstOf(evs, e.payload).version
      <4> HIDE DEF old
      <4> QED  BY <3>4, <3>5
    <3>7. FirstOf(all, e.payload).version = FirstOf(evs, e.payload).version
      <4>1. FirstOf(evs \cup {e}, h.payload).version = FirstOf(evs, h.payload).version
        BY FirstStays
      <4> QED  BY <3>1, <4>1
    <3> HIDE DEF pr, old, all
    <3> QED  BY <3>6, <3>7 DEF LineOf
  <2>2. CASE \A h \in Items(evs) : h.payload # e.payload
    <3>1. old = {}
      BY <2>2, LinesAre DEF LineOf, NewestItems
    <3>2. FirstOf(all, e.payload) \in Items(all) /\ FirstOf(all, e.payload).payload = e.payload
      BY <1>1, FirstIsMin
    <3>3. FirstOf(all, e.payload) = e
      BY <1>1, <2>2, <3>2
    <3> HIDE DEF old, all
    <3> QED  BY <3>1, <3>3 DEF LineOf
  <2> QED  BY <2>1, <2>2
<1>7. LinesOf(all) = {LineOf(all, f) : f \in NewestItems(all)}
  BY LinesAre
<1>8. LinesOf(all) = {LineOf(evs, f) : f \in {g \in NewestItems(evs) : g.payload # e.payload}}
                       \cup {LineOf(all, e)}
  <2> HIDE DEF all
  <2> QED  BY <1>3, <1>4, <1>7
<1> HIDE DEF old, new
<1> QED  BY <1>0, <1>5, <1>6, <1>8

\* The payload of the latest event of a type, after one more event.
LEMMA LastPayloadNext ==
  ASSUME NEW evs, evs \subseteq Event, NEW e \in Event, \A f \in evs : f.version < e.version, NEW t
  PROVE  LastPayload(evs \cup {e}, t) = IF e.type = t THEN e.payload ELSE LastPayload(evs, t)
<1> DEFINE ts == {f \in evs : f.type = t}
<1>1. CASE e.type = t
  <2>1. {f \in evs \cup {e} : f.type = t} = ts \cup {e}
    BY <1>1
  <2>2. Latest(ts \cup {e}) = e
    BY LatestOfExtended
  <2> HIDE DEF ts
  <2> QED  BY <1>1, <2>1, <2>2 DEF LastPayload
<1>2. CASE e.type # t
  <2>1. {f \in evs \cup {e} : f.type = t} = ts
    BY <1>2
  <2> QED  BY <1>2, <2>1 DEF LastPayload
<1> QED  BY <1>1, <1>2

\* RowOf is a row.
LEMMA RowOfType ==
  ASSUME NEW evs, evs \subseteq Event, evs # {}, NEW n \in Nat, \A f \in evs : f.version <= n,
         \A f \in evs : f.payload \in PayloadOf(f.type)
  PROVE  RowOf(evs) \in Row /\ RowOf(evs) # None
<1>1. StatusOf(evs) \in OrderStatus
  <2>1. CASE StatusEvents(evs) = {}
    BY <2>1 DEF StatusOf, NewAggregate, OrderStatus
  <2>2. CASE StatusEvents(evs) # {}
    <3>1. StatusEvents(evs) \subseteq evs /\ StatusEvents(evs) \subseteq Event
      BY DEF StatusEvents
    <3>2. Latest(StatusEvents(evs)) \in StatusEvents(evs)
      BY <2>2, <3>1, LatestIsMax
    <3>3. Latest(StatusEvents(evs)).type \in EventType \ {"ORDER_ITEM_ADDED"}
      BY <3>1, <3>2 DEF StatusEvents, Event
    <3> QED  BY <2>2, <3>3, StatusSetByType DEF StatusOf
  <2> QED  BY <2>1, <2>2
<1>2. Latest(evs).version \in Nat
  BY LatestIsMax DEF Event
<1>3. ASSUME NEW t PROVE LastPayload(evs, t) \in Payloads \cup {None}
  <2> DEFINE ts == {f \in evs : f.type = t}
  <2>1. CASE ts = {}
    BY <2>1 DEF LastPayload
  <2>2. CASE ts # {}
    <3>1. ts \subseteq Event /\ \A f \in ts : f.version <= n
      OBVIOUS
    <3>2. Latest(ts) \in ts
      <4> HIDE DEF ts
      <4> QED  BY <2>2, <3>1, LatestIsMax
    <3>3. Latest(ts).payload \in Payloads \cup {None}
      BY <3>1, <3>2 DEF Event
    <3> QED  BY <2>2, <3>3 DEF LastPayload
  <2> QED  BY <2>1, <2>2
<1>4. LinesOf(evs) \in SUBSET Line
  <2> SUFFICES ASSUME NEW e \in NewestItems(evs) PROVE LineOf(evs, e) \in Line
    BY LinesAre
  <2>1. e \in Items(evs) /\ e \in Event /\ e.payload \in Payloads /\ e.version \in Nat
    BY DEF NewestItems, Items, PayloadOf, Event
  <2>2. FirstOf(evs, e.payload) \in Items(evs)
    BY <2>1, FirstIsMin
  <2>3. FirstOf(evs, e.payload).version \in Nat
    BY <2>2 DEF Items, Event
  <2> QED  BY <2>1, <2>3 DEF LineOf, Line
<1>5. RowOf(evs) \in Row
  BY <1>1, <1>2, <1>3, <1>4 DEF RowOf, Row
<1> QED  BY <1>5, NoneIsNoRow

\* The next event: what the consumer makes of the row of the earlier events is
\* the row of all of them.
LEMMA ProjectNext ==
  ASSUME NEW evs, evs \subseteq Event, NEW n \in Nat, \A f \in evs : f.version <= n,
         \A f \in evs : f.payload \in PayloadOf(f.type),
         NEW e \in Event, e.payload \in PayloadOf(e.type),
         \A f \in evs : f.version < e.version, evs = {} <=> e.type = "ORDER_CREATED"
  PROVE  Project(RowOf(evs), e) = RowOf(evs \cup {e})
<1> DEFINE all == evs \cup {e}
<1>1. Latest(all) = e
  BY LatestOfExtended
<1>2. /\ LastPayload(all, "ORDER_PAYMENT_PROCESSED") =
           IF e.type = "ORDER_PAYMENT_PROCESSED" THEN e.payload
                                                 ELSE LastPayload(evs, "ORDER_PAYMENT_PROCESSED")
      /\ LastPayload(all, "ORDER_SHIPPED") =
           IF e.type = "ORDER_SHIPPED" THEN e.payload ELSE LastPayload(evs, "ORDER_SHIPPED")
  BY LastPayloadNext
<1>3. StatusOf(all) = IF e.type = "ORDER_ITEM_ADDED" THEN StatusOf(evs) ELSE StatusSetBy[e.type]
  <2>1. Apply(IF evs = {} THEN NewAggregate ELSE Rebuild(evs), e) = Rebuild(all)
    BY ApplyIsRebuild
  <2>2. (IF evs = {} THEN NewAggregate ELSE Rebuild(evs)).status = StatusOf(evs)
    BY DEF Rebuild, StatusOf, StatusEvents, NewAggregate
  <2> HIDE DEF all
  <2> QED  BY <2>1, <2>2 DEF Apply, Rebuild
<1>4. RowOf(all) = [status   |-> StatusOf(all), version |-> e.version,
                    payment  |-> LastPayload(all, "ORDER_PAYMENT_PROCESSED"),
                    tracking |-> LastPayload(all, "ORDER_SHIPPED"),
                    lines    |-> LinesOf(all)]
  BY <1>1 DEF RowOf
<1>5. e.type # "ORDER_ITEM_ADDED" => LinesOf(all) = LinesOf(evs)
  <2>1. e.type # "ORDER_ITEM_ADDED" => Items(all) = Items(evs)
    BY DEF Items
  <2> QED  BY <2>1 DEF LinesOf
<1>6. e.type = "ORDER_ITEM_ADDED" => LinesOf(all) = Upsert(LinesOf(evs), e)
  BY UpsertIsLinesOf
<1>7. CASE evs = {}
  <2>1. LinesOf(evs) = {} /\ \A t : LastPayload(evs, t) = None
    BY <1>7 DEF LinesOf, Items, LastPayload
  <2>2. RowOf(evs) = None /\ StatusSetBy[e.type] = "PENDING"
    BY <1>7 DEF RowOf, StatusSetBy, EventType
  <2>3. Project(None, e) = NewRow(e)
    BY <1>7 DEF Project
  <2> HIDE DEF all
  <2>4. /\ StatusOf(all) = "PENDING" /\ LinesOf(all) = {}
        /\ LastPayload(all, "ORDER_PAYMENT_PROCESSED") = None
        /\ LastPayload(all, "ORDER_SHIPPED") = None
    BY <1>2, <1>3, <1>5, <1>7, <2>1, <2>2
  <2>5. RowOf(all) = NewRow(e)
    BY <1>4, <2>4 DEF NewRow
  <2> QED  BY <2>2, <2>3, <2>5 DEF all
<1>8. CASE evs # {}
  <2>1. RowOf(evs) \in Row /\ RowOf(evs) # None /\ e.type # "ORDER_CREATED"
    BY <1>8, RowOfType
  <2>2. RowOf(evs) = [status   |-> StatusOf(evs), version |-> Latest(evs).version,
                      payment  |-> LastPayload(evs, "ORDER_PAYMENT_PROCESSED"),
                      tracking |-> LastPayload(evs, "ORDER_SHIPPED"),
                      lines    |-> LinesOf(evs)]
    BY <1>8 DEF RowOf
  <2>3. CASE e.type = "ORDER_ITEM_ADDED"
    <3>1. Project(RowOf(evs), e) =
            [status |-> RowOf(evs).status, version |-> e.version,
             payment |-> RowOf(evs).payment, tracking |-> RowOf(evs).tracking,
             lines |-> Upsert(RowOf(evs).lines, e)]
      BY <2>1, <2>3 DEF Project, Row
    <3>2. /\ StatusOf(all) = StatusOf(evs) /\ LinesOf(all) = Upsert(LinesOf(evs), e)
          /\ LastPayload(all, "ORDER_PAYMENT_PROCESSED") = LastPayload(evs, "ORDER_PAYMENT_PROCESSED")
          /\ LastPayload(all, "ORDER_SHIPPED") = LastPayload(evs, "ORDER_SHIPPED")
      BY <1>2, <1>3, <1>6, <2>3
    <3>3. /\ RowOf(evs).status = StatusOf(evs) /\ RowOf(evs).lines = LinesOf(evs)
          /\ RowOf(evs).payment = LastPayload(evs, "ORDER_PAYMENT_PROCESSED")
          /\ RowOf(evs).tracking = LastPayload(evs, "ORDER_SHIPPED")
      BY <2>2
    <3> HIDE DEF all
    <3>4. Project(RowOf(evs), e) = RowOf(all)
      BY <1>4, <3>1, <3>2, <3>3
    <3> QED  BY <3>4 DEF all
  <2>4. CASE e.type # "ORDER_ITEM_ADDED"
    <3>1. Project(RowOf(evs), e) =
            [status   |-> StatusSetBy[e.type], version |-> e.version,
             payment  |-> IF e.type = "ORDER_PAYMENT_PROCESSED" THEN e.payload
                                                                ELSE RowOf(evs).payment,
             tracking |-> IF e.type = "ORDER_SHIPPED" THEN e.payload ELSE RowOf(evs).tracking,
             lines    |-> RowOf(evs).lines]
      BY <2>1, <2>4 DEF Project, Row
    <3>2. StatusOf(all) = StatusSetBy[e.type] /\ LinesOf(all) = LinesOf(evs)
      BY <1>3, <1>5, <2>4
    <3>3. /\ RowOf(evs).lines = LinesOf(evs)
          /\ RowOf(evs).payment = LastPayload(evs, "ORDER_PAYMENT_PROCESSED")
          /\ RowOf(evs).tracking = LastPayload(evs, "ORDER_SHIPPED")
      BY <2>2
    <3> HIDE DEF all
    <3>4. Project(RowOf(evs), e) = RowOf(all)
      BY <1>2, <1>4, <3>1, <3>2, <3>3
    <3> QED  BY <3>4 DEF all
  <2> QED  BY <2>3, <2>4
<1> QED  BY <1>7, <1>8

\* "Idempotent upserts": projecting an event again changes nothing.
LEMMA ProjectTwice ==
  ASSUME NEW row \in Row \cup {None}, NEW e \in Event, e.payload \in PayloadOf(e.type)
  PROVE  Project(Project(row, e), e) = Project(row, e)
<1>0. Project(row, e) \in Row \cup {None}
  BY ProjectType
<1>1. CASE e.type = "ORDER_CREATED"
  <2>1. row = None => NewRow(e) # None
    BY <1>1, NoneIsNoRow DEF NewRow, Row, OrderStatus, Event
  <2> QED  BY <1>1, <2>1 DEF Project
<1>2. CASE e.type # "ORDER_CREATED" /\ row = None
  BY <1>2 DEF Project
<1>3. CASE e.type = "ORDER_ITEM_ADDED" /\ row # None
  <2> DEFINE old == {l \in row.lines : l.product = e.payload}
             pr  == IF old = {} THEN e.version ELSE (CHOOSE l \in old : TRUE).priced
             new == [product |-> e.payload, counted |-> e.version, priced |-> pr]
             now == Upsert(row.lines, e)
  <2>1. now = (row.lines \ old) \cup {new}
    BY DEF Upsert
  <2>2. {l \in now : l.product = e.payload} = {new}
    <3>1. new.product = e.payload
      OBVIOUS
    <3> HIDE DEF new, now
    <3> QED  BY <2>1, <3>1
  <2>3. Upsert(now, e) = (now \ {new}) \cup
           {[product |-> e.payload, counted |-> e.version, priced |-> (CHOOSE l \in {new} : TRUE).priced]}
    <3> HIDE DEF new, now
    <3> QED  BY <2>2 DEF Upsert
  <2>4. (CHOOSE l \in {new} : TRUE) = new
    <3> HIDE DEF new
    <3> QED  OBVIOUS
  <2>5. Upsert(now, e) = now
    <3>1. [product |-> e.payload, counted |-> e.version, priced |-> new.priced] = new
      <4> HIDE DEF pr
      <4> QED  OBVIOUS
    <3> HIDE DEF new, now
    <3> QED  BY <2>1, <2>3, <2>4, <3>1
  <2>6. Project(row, e) = [row EXCEPT !.lines = now, !.version = e.version]
    BY <1>3 DEF Project
  <2>7. CASE Project(row, e) = None
    BY <1>3, <2>7 DEF Project
  <2>8. CASE Project(row, e) # None
    <3>1. Project(Project(row, e), e) =
            [Project(row, e) EXCEPT !.lines = Upsert(Project(row, e).lines, e), !.version = e.version]
      BY <1>3, <2>8 DEF Project
    <3>2. Project(row, e) \in Row /\ row \in Row
      BY <1>0, <1>3, <2>8
    <3> HIDE DEF now
    <3>3. Project(row, e).lines = now /\ Project(row, e).version = e.version
      BY <2>6, <3>2 DEF Row
    <3> QED  BY <2>5, <3>1, <3>2, <3>3 DEF Row
  <2> QED  BY <2>7, <2>8
<1>4. CASE e.type \notin {"ORDER_CREATED", "ORDER_ITEM_ADDED"} /\ row # None
  BY <1>4 DEF Project, Row
<1> QED  BY <1>1, <1>2, <1>3, <1>4

-----------------------------------------------------------------------------
(* The rows follow the log.                                                *)

\* Published in sequence, and nothing left the log for the dead letter queue.
Eligible(o) == InSequence(o) /\ \A e \in diverted : e.order # o

\* The events of order o in its partition up to the committed offset, and the
\* one after it.
Past(o)  == EventsIn(RecordsUpTo(PartitionOf[o], committed[PartitionOf[o]]), o)
Ahead(o) == LET q == PartitionOf[o]
                n == committed[q] + 1
            IN {log[q][i].event : i \in {j \in 1..Len(log[q]) : j = n /\ log[q][j].event.order = o}}

\* The consumer holds an event of order o whose row it has written.
Projected(o) == pc \in {"invalidate", "setex"} /\ E.order = o

\* All that is behind the offset is processed, and nothing else but the next.
MarkedOK(o) == /\ Past(o) \subseteq processed
               /\ {e \in processed : e.order = o} \subseteq Past(o) \cup Ahead(o)

\* What comes a second time, by the queue or by another partition, is processed.
AgainOK(o) == /\ \A m \in BagToSet(dlq) : m.event.order = o => m.event \in processed
              /\ \A p \in Partitions \ {PartitionOf[o]} : \A i \in 1..Len(log[p]) :
                   log[p][i].event.order = o => log[p][i].event \in processed

RowOK(o) == /\ rows[o] \in {RowOf(Past(o)), RowOf(Past(o) \cup Ahead(o))}
            /\ Ahead(o) \subseteq processed \/ Projected(o) =>
                 rows[o] = RowOf(Past(o) \cup Ahead(o))

RowsOK == \A o \in Orders : Eligible(o) => MarkedOK(o) /\ AgainOK(o) /\ RowOK(o)

\* A step that appends to the log leaves the consumer and its stores alone.
LEMMA ProduceAlone ==
  ASSUME [Next]_vars, log' # log
  PROVE  UNCHANGED <<committed, pc, hand, rows, processed>>
<1> USE DEF consumer, stores
<1>1. CASE UNCHANGED vars
  BY <1>1 DEF vars
<1>2. CASE Publisher
  BY <1>2 DEF Publisher, Accept, Publish
<1>3. CASE Consumer
  BY <1>3 DEF Consumer, Poll, Dedup, DedupFails, ProjectEvent, ProjectFails, Invalidate,
              InvalidateFails, MarkProcessed, MarkProcessedFails, SetExpiry, SetExpiryFails,
              SendToDlq, SendToDlqFails, Commit, CommitFails
<1>4. CASE Crash \/ Restart
  BY <1>4 DEF Crash, Restart
<1>5. CASE Lambda \/ NotDeleted \/ \E m \in BagToSet(dlq) : MessageExpires(m)
  BY <1>5 DEF Lambda, DeadLetter, RetryMessage, DeleteMessage, NotDeleted, MessageExpires
<1> QED  BY <1>1, <1>2, <1>3, <1>4, <1>5 DEF Next

\* The consumer is past the projection only after it wrote the row.
LEMMA BeforeProjected ==
  ASSUME [Next]_vars, pc' \in {"invalidate", "setex"}
  PROVE  /\ hand' = hand
         /\ \/ pc \in {"invalidate", "setex"} /\ rows' = rows
            \/ pc = "project" /\ ProjectRow
<1> USE DEF consumer, stores
<1>1. CASE UNCHANGED vars
  BY <1>1 DEF vars
<1>2. CASE Publisher
  BY <1>2 DEF Publisher, Accept, Publish
<1>3. CASE Consumer
  BY <1>3 DEF Consumer, Poll, Dedup, DedupFails, Die, Goto, ProjectEvent, ProjectFails,
              Invalidate, InvalidateFails, MarkProcessed, MarkProcessedFails, SetExpiry,
              SetExpiryFails, SendToDlq, SendToDlqFails, Commit, CommitFails
<1>4. CASE Crash \/ Restart
  BY <1>4 DEF Crash, Restart, Die
<1>5. CASE Lambda \/ NotDeleted \/ \E m \in BagToSet(dlq) : MessageExpires(m)
  BY <1>5 DEF Lambda, DeadLetter, RetryMessage, DeleteMessage, NotDeleted, MessageExpires
<1> QED  BY <1>1, <1>2, <1>3, <1>4, <1>5 DEF Next

\* The events around the committed offset, place by place.
LEMMA Window ==
  ASSUME TypeOK, FeedOK, Ladder, NEW o \in Orders
  PROVE  LET q == PartitionOf[o] c == committed[q] IN
         /\ q \in Partitions /\ c \in Nat /\ Len(log[q]) \in Nat /\ c <= Len(log[q])
         /\ Past(o) = {log[q][i].event : i \in {j \in 1..c : log[q][j].event.order = o}}
         /\ \A e \in Past(o) \cup Ahead(o) : /\ e \in stored /\ e \in Event /\ e.order = o
                                             /\ e.version \in Nat \ {0} /\ e.version <= MaxVersion
                                             /\ e.payload \in PayloadOf(e.type)
<1> DEFINE q == PartitionOf[o]
           c == committed[q]
<1>1. q \in Partitions /\ c \in Nat /\ Len(log[q]) \in Nat /\ c <= Len(log[q])
  BY ProjectionAssumption DEF TypeOK
<1>2. Past(o) = {log[q][i].event : i \in {j \in 1..c : log[q][j].event.order = o}}
  BY DEF Past, EventsIn, RecordsUpTo
<1>3. ASSUME NEW e \in Past(o) \cup Ahead(o) PROVE e \in stored /\ e.order = o
  <2>1. PICK i \in 1..Len(log[q]) : e = log[q][i].event /\ e.order = o
    <3>1. CASE e \in Past(o)
      BY <1>1, <1>2, <3>1
    <3>2. CASE e \in Ahead(o)
      BY <3>2 DEF Ahead
    <3> QED  BY <1>3, <3>1, <3>2
  <2>2. log[q][i] \in Produced
    BY <1>1, <2>1, ProducedAt
  <2> QED  BY <2>1, <2>2 DEF Ladder, TypeOK
<1>4. \A e \in stored : /\ e \in Event /\ e.version \in Nat \ {0} /\ e.version <= MaxVersion
                        /\ e.payload \in PayloadOf(e.type)
  BY DEF TypeOK, FeedOK, Event
<1> QED  BY <1>1, <1>2, <1>3, <1>4

\* What is in sequence was in sequence before, and nothing returns from the queue.
LEMMA EligibleBefore ==
  ASSUME TypeOK, Effects, NEW o \in Orders, Eligible(o)'
  PROVE  Eligible(o)
<1> DEFINE q == PartitionOf[o]
<1>1. /\ q \in Partitions /\ Len(log[q]) \in Nat /\ Len(log'[q]) \in Nat
      /\ Len(log'[q]) >= Len(log[q])
      /\ \A i \in 1..Len(log[q]) : log'[q][i] = log[q][i]
  BY LogStep, ProjectionAssumption DEF Effects
<1>2. InSequence(o)
  <2> SUFFICES ASSUME NEW i \in 1..Len(log[q]), log[q][i].event.order = o, log[q][i].event.version > 1
               PROVE  \E j \in 1..(i - 1) : /\ log[q][j].event.order = o
                                            /\ log[q][j].event.version = log[q][i].event.version - 1
    BY DEF InSequence
  <2>1. i \in 1..Len(log'[q]) /\ log'[q][i] = log[q][i]
    BY <1>1
  <2>2. PICK j \in 1..(i - 1) : /\ log'[q][j].event.order = o
                                /\ log'[q][j].event.version = log'[q][i].event.version - 1
    BY <2>1 DEF Eligible, InSequence
  <2>3. log'[q][j] = log[q][j]
    BY <1>1
  <2> QED  BY <2>1, <2>2, <2>3
<1>3. \A e \in diverted : e.order # o
  BY Monotone DEF Eligible
<1> QED  BY <1>2, <1>3 DEF Eligible

\* In sequence, an event that is new to its partition is the newest of its
\* order there: the versions before the offset have no gap it could fill.
LEMMA NextIsNewest ==
  ASSUME TypeOK, FeedOK, Ladder, NEW o \in Orders, InSequence(o),
         NEW e \in Ahead(o), e \notin Past(o)
  PROVE  /\ \A f \in Past(o) : f.version < e.version
         /\ Past(o) = {} <=> e.type = "ORDER_CREATED"
<1> DEFINE q == PartitionOf[o]
           c == committed[q]
<1>1. /\ q \in Partitions /\ c \in Nat /\ Len(log[q]) \in Nat /\ c <= Len(log[q])
      /\ Past(o) = {log[q][i].event : i \in {j \in 1..c : log[q][j].event.order = o}}
      /\ \A f \in Past(o) \cup Ahead(o) : /\ f \in stored /\ f.order = o
                                          /\ f.version \in Nat \ {0}
  BY Window
<1>2. \A i \in 1..Len(log[q]) : log[q][i].event.order = o /\ log[q][i].event.version > 1 =>
         \E j \in 1..(i - 1) : /\ log[q][j].event.order = o
                               /\ log[q][j].event.version = log[q][i].event.version - 1
  BY DEF InSequence
<1>3. ASSUME NEW f \in Past(o), f.version > 1
      PROVE  \E g \in Past(o) : g.version = f.version - 1
  <2>1. PICK i \in 1..c : log[q][i].event = f /\ f.order = o
    BY <1>1
  <2>2. i \in 1..Len(log[q])
    BY <1>1
  <2>3. PICK j \in 1..(i - 1) : log[q][j].event.order = o /\ log[q][j].event.version = f.version - 1
    BY <1>2, <1>3, <2>1, <2>2
  <2>4. j \in 1..c /\ log[q][j].event \in Past(o)
    BY <1>1, <2>3
  <2> QED  BY <2>3, <2>4
<1>4. ASSUME NEW f \in Past(o) PROVE f.version < e.version
  <2> SUFFICES ASSUME f.version >= e.version PROVE FALSE
    BY <1>1
  <2> DEFINE S == {g.version : g \in {h \in Past(o) : h.version >= e.version}}
  <2>1. S \subseteq Nat /\ S # {}
    BY <1>1
  <2>2. PICK x \in S : \A y \in S : x <= y
    <3> HIDE DEF S
    <3> QED  BY <2>1, LeastNat
  <2>3. PICK g \in Past(o) : g.version = x /\ g.version >= e.version
    BY <2>2
  <2>4. g.version # e.version
    BY <1>1, <2>3 DEF FeedOK
  <2>5. g.version > e.version /\ g.version > 1 /\ g.version \in Nat /\ e.version \in Nat
    BY <1>1, <2>3, <2>4
  <2>6. PICK h \in Past(o) : h.version = g.version - 1
    BY <1>3, <2>5
  <2>7. h.version \in S /\ h.version < x
    BY <2>3, <2>5, <2>6
  <2>8. x <= h.version /\ h.version \in Nat /\ x \in Nat
    BY <1>1, <2>1, <2>2, <2>7
  <2> HIDE DEF S
  <2> QED  BY <2>7, <2>8
<1>5. e.version = 1 <=> e.type = "ORDER_CREATED"
  BY <1>1 DEF FeedOK
<1>6. Past(o) # {} => e.version # 1
  BY <1>1, <1>4
<1>7. e.version # 1 => Past(o) # {}
  <2> SUFFICES ASSUME e.version # 1 PROVE Past(o) # {}
    OBVIOUS
  <2>1. c + 1 \in 1..Len(log[q]) /\ log[q][c + 1].event = e
    BY DEF Ahead
  <2>2. e.order = o /\ e.version > 1
    BY <1>1
  <2>3. PICK j \in 1..c : log[q][j].event.order = o
    BY <1>1, <1>2, <2>1, <2>2
  <2> QED  BY <1>1, <2>3
<1> QED  BY <1>4, <1>5, <1>6, <1>7

\* The event the consumer projects is the one after the committed offset of
\* its own partition, whatever was published again elsewhere.
LEMMA InHandIsAhead ==
  ASSUME TypeOK, FeedOK, Ladder, HandOK, NEW o \in Orders, MarkedOK(o), AgainOK(o),
         pc \in {"project", "invalidate", "setex"}, E.order = o
  PROVE  Ahead(o) = {E} /\ E \notin Past(o)
<1> DEFINE q == PartitionOf[o]
<1>1. /\ hand # None /\ hand.part \in Partitions /\ hand.offset \in 1..Len(log[hand.part])
      /\ E \notin processed /\ hand.offset = committed[hand.part] + 1
      /\ E = log[hand.part][hand.offset].event
  BY Working, InHand DEF HandOK, E, Current
<1>2. hand.part = q
  BY <1>1 DEF AgainOK
<1>3. Ahead(o) = {E}
  BY <1>1, <1>2 DEF Ahead
<1>4. E \notin Past(o)
  BY <1>1 DEF MarkedOK
<1> QED  BY <1>3, <1>4

\* How a step moves the window: not at all, by a new record at the end of the
\* partition, or by a commit, which needs an event that is processed.
LEMMA WindowStep ==
  ASSUME TypeOK, FeedOK, Ladder, HandOK, [Next]_vars, NEW o \in Orders, Eligible(o)
  PROVE  \/ Past(o)' = Past(o) /\ Ahead(o)' = Ahead(o)
         \/ /\ Past(o)' = Past(o) /\ Ahead(o) = {}
            /\ UNCHANGED <<pc, hand, rows, processed>>
         \/ /\ Past(o)' = Past(o) \cup Ahead(o) /\ Ahead(o) \subseteq processed
            /\ pc \in {"skip", "commit", "commitdlq"} /\ UNCHANGED <<rows, processed>>
<1> DEFINE q == PartitionOf[o]
           c == committed[q]
<1>0. Effects
  BY StepEffects
<1>1. /\ q \in Partitions /\ c \in Nat /\ Len(log[q]) \in Nat /\ c <= Len(log[q])
      /\ Past(o) = {log[q][i].event : i \in {j \in 1..c : log[q][j].event.order = o}}
  BY Window
<1>2. Past(o)' = {log'[q][i].event : i \in {j \in 1..committed'[q] : log'[q][j].event.order = o}}
  BY DEF Past, EventsIn, RecordsUpTo
<1>3. Ahead(o)' = {log'[q][i].event : i \in {j \in 1..Len(log'[q]) :
                                               j = committed'[q] + 1 /\ log'[q][j].event.order = o}}
  BY DEF Ahead
<1>4. CASE log' = log /\ committed' = committed
  BY <1>4 DEF Past, EventsIn, RecordsUpTo, Ahead
<1>5. CASE log' # log
  <2>1. UNCHANGED <<committed, pc, hand, rows, processed>>
    BY <1>5, ProduceAlone
  <2>2. /\ Len(log'[q]) \in Nat /\ Len(log'[q]) >= Len(log[q])
        /\ \A i \in 1..Len(log[q]) : log'[q][i] = log[q][i]
    BY <1>0, <1>1, LogStep DEF Effects
  <2>3. Past(o)' = Past(o)
    <3>1. \A j \in 1..c : log'[q][j] = log[q][j]
      BY <1>1, <2>2
    <3> QED  BY <1>1, <1>2, <2>1, <3>1
  <2>4. CASE c < Len(log[q])
    <3>1. c + 1 \in 1..Len(log[q]) /\ c + 1 \in 1..Len(log'[q])
      BY <1>1, <2>2, <2>4
    <3>2. log'[q][c + 1] = log[q][c + 1]
      BY <2>2, <3>1
    <3>3. Ahead(o)' = Ahead(o)
      BY <1>3, <2>1, <3>1, <3>2 DEF Ahead
    <3> QED  BY <2>3, <3>3
  <2>5. CASE c = Len(log[q])
    <3>1. Ahead(o) = {}
      BY <1>1, <2>5 DEF Ahead
    <3> QED  BY <2>1, <2>3, <3>1
  <2> QED  BY <1>1, <2>4, <2>5
<1>6. CASE /\ pc \in {"skip", "commit", "commitdlq"} /\ CommitOffset
           /\ UNCHANGED <<feed, log, stores, retrying, history>>
  <2>1. /\ hand # None /\ hand.part \in Partitions /\ hand.offset \in 1..Len(log[hand.part])
        /\ hand.offset \in {committed[hand.part], committed[hand.part] + 1}
        /\ E = log[hand.part][hand.offset].event
    BY <1>6, Working, InHand DEF TypeOK, E, Current
  <2>2. log' = log /\ UNCHANGED <<rows, processed>>
    BY <1>6 DEF stores
  <2>3. committed' = [committed EXCEPT ![hand.part] = hand.offset]
    BY <1>6 DEF CommitOffset
  <2>4. CASE hand.part # q \/ hand.offset = c
    <3>1. committed'[q] = c
      BY <1>1, <2>1, <2>3, <2>4 DEF TypeOK
    <3> QED  BY <1>1, <1>2, <1>3, <2>2, <3>1 DEF Ahead
  <2>5. CASE hand.part = q /\ hand.offset = c + 1
    <3>1. committed'[q] = c + 1 /\ c + 1 \in 1..Len(log[q])
      BY <1>1, <2>1, <2>3, <2>5 DEF TypeOK
    <3>2. Ahead(o) = {e \in {E} : e.order = o}
      BY <2>1, <2>5, <3>1 DEF Ahead
    <3>3. Past(o)' = Past(o) \cup Ahead(o)
      <4>1. 1..(c + 1) = 1..c \cup {c + 1}
        BY <1>1
      <4>2. E = log[q][c + 1].event
        BY <2>1, <2>5
      <4> QED  BY <1>1, <1>2, <2>2, <3>1, <3>2, <4>1, <4>2
    <3>4. Ahead(o) \subseteq processed
      BY <1>6, <3>2 DEF HandOK, Eligible
    <3> QED  BY <1>6, <2>2, <3>3, <3>4
  <2> QED  BY <2>1, <2>4, <2>5
<1> QED  BY <1>0, <1>4, <1>5, <1>6 DEF Effects, OffsetEffect

\* The keys in Redis.
LEMMA MarkedStep ==
  ASSUME TypeOK, FeedOK, Ladder, HandOK, [Next]_vars, NEW o \in Orders, Eligible(o),
         MarkedOK(o), AgainOK(o)
  PROVE  MarkedOK(o)'
<1>1. processed' = processed \/ (pc = "setex" /\ processed' = processed \cup {E})
  BY StepEffects DEF Effects, StoreEffect
<1>2. CASE Past(o)' = Past(o) /\ Ahead(o)' = Ahead(o)
  <2>1. pc = "setex" /\ E.order = o => E \in Ahead(o)
    BY InHandIsAhead
  <2> QED  BY <1>1, <1>2, <2>1 DEF MarkedOK
<1>3. CASE Past(o)' = Past(o) /\ Ahead(o) = {} /\ processed' = processed
  BY <1>3 DEF MarkedOK
<1>4. CASE /\ Past(o)' = Past(o) \cup Ahead(o) /\ Ahead(o) \subseteq processed
           /\ processed' = processed
  BY <1>4 DEF MarkedOK
<1> QED  BY <1>2, <1>3, <1>4, WindowStep

\* What comes again is processed already.
LEMMA AgainStep ==
  ASSUME TypeOK, Ladder, QueueOK, Effects, NEW o \in Orders, Eligible(o)', AgainOK(o)
  PROVE  AgainOK(o)'
<1>0. processed \subseteq processed'
  BY Monotone
<1>1. ASSUME NEW m \in BagToSet(dlq'), m.event.order = o PROVE m.event \in processed'
  <2>1. CASE m \in BagToSet(dlq)
    BY <1>0, <1>1, <2>1 DEF AgainOK
  <2>2. CASE m \notin BagToSet(dlq)
    <3>1. dlq' # dlq
      BY <1>1, <2>2
    <3>2. CASE pc = "dlq" /\ Enqueue /\ E \in processed \cup diverted'
      <4>1. BagToSet(dlq (+) SetToBag({Current})) = BagToSet(dlq) \cup {Current}
        BY BagAdd DEF QueueOK
      <4>2. m = Current /\ m.event = E
        BY <1>1, <2>2, <3>2, <4>1 DEF Enqueue, E
      <4> QED  BY <1>0, <1>1, <3>2, <4>2 DEF Eligible
    <3>3. ASSUME NEW x, dlq' = dlq (-) SetToBag({x}) PROVE FALSE
      <4>1. BagToSet(dlq') \subseteq BagToSet(dlq)
        BY <3>3, BagRemove DEF QueueOK
      <4> QED  BY <1>1, <2>2, <4>1
    <3> QED  BY <3>1, <3>2, <3>3 DEF Effects, QueueEffect, Expires
  <2> QED  BY <2>1, <2>2
<1>2. ASSUME NEW p \in Partitions, p # PartitionOf[o], NEW i \in 1..Len(log'[p]),
             log'[p][i].event.order = o
      PROVE  log'[p][i].event \in processed'
  <2>1. CASE i \in 1..Len(log[p])
    <3>1. log'[p][i] = log[p][i]
      BY <2>1, LogStep DEF Effects
    <3> QED  BY <1>0, <1>2, <2>1, <3>1 DEF AgainOK
  <2>2. CASE i \notin 1..Len(log[p])
    <3>0. log \in [Partitions -> Seq(Record)] /\ log' # log
      BY <2>2 DEF TypeOK
    <3>1. ASSUME NEW e \in stored, Publishes(e) PROVE FALSE
      <4>1. /\ PartitionOf[e.order] \in Partitions /\ [event |-> e, retry |-> 0] \in Record
        BY ProjectionAssumption DEF TypeOK, Record, Event
      <4>2. /\ \A s \in Partitions : s # PartitionOf[e.order] => log'[s] = log[s]
            /\ Len(log'[PartitionOf[e.order]]) = Len(log[PartitionOf[e.order]]) + 1
            /\ log'[PartitionOf[e.order]][Len(log[PartitionOf[e.order]]) + 1] = [event |-> e, retry |-> 0]
        BY <3>0, <3>1, <4>1, ProduceAppends DEF Publishes
      <4>3. p = PartitionOf[e.order] /\ i = Len(log[p]) + 1
        BY <2>2, <3>0, <4>2
      <4>4. log'[p][i].event = e
        BY <4>2, <4>3
      <4> QED  BY <1>2, <4>3, <4>4
    <3>2. ASSUME NEW m \in BagToSet(dlq), NEW s \in Partitions, Retries(m, s)
          PROVE  log'[p][i].event \in processed
      <4>1. m \in Record /\ NextTry(m) \in Record /\ NextTry(m).event = m.event
        BY <3>2, NextTryType DEF TypeOK, Retries
      <4>2. /\ \A t \in Partitions : t # s => log'[t] = log[t]
            /\ Len(log'[s]) = Len(log[s]) + 1
            /\ log'[s][Len(log[s]) + 1] = NextTry(m)
        BY <3>0, <3>2, <4>1, ProduceAppends DEF Retries
      <4>3. p = s /\ i = Len(log[p]) + 1
        BY <2>2, <3>0, <4>2
      <4>4. log'[p][i].event = m.event
        BY <4>1, <4>2, <4>3
      <4> QED  BY <1>2, <4>4 DEF AgainOK
    <3> QED  BY <1>0, <3>0, <3>1, <3>2 DEF Effects, LogEffect
  <2> QED  BY <2>1, <2>2
<1> QED  BY <1>1, <1>2 DEF AgainOK

\* Projecting the event in hand brings the row from the committed offset, or
\* from one past it, to one past it.
LEMMA ProjectedRow ==
  ASSUME TypeOK, FeedOK, Ladder, HandOK, NEW o \in Orders, Eligible(o),
         MarkedOK(o), AgainOK(o), RowOK(o), pc = "project", E.order = o
  PROVE  Project(rows[o], E) = RowOf(Past(o) \cup Ahead(o))
<1>1. Ahead(o) = {E} /\ E \notin Past(o)
  BY InHandIsAhead
<1>2. /\ \A f \in Past(o) : f.version < E.version
      /\ Past(o) = {} <=> E.type = "ORDER_CREATED"
  BY <1>1, NextIsNewest DEF Eligible
<1>3. /\ Past(o) \subseteq Event /\ E \in Event /\ E.payload \in PayloadOf(E.type)
      /\ \A f \in Past(o) : f.version <= MaxVersion /\ f.payload \in PayloadOf(f.type)
  BY <1>1, Window
<1>4. Project(RowOf(Past(o)), E) = RowOf(Past(o) \cup {E})
  BY <1>2, <1>3, ProjectNext, ProjectionAssumption
<1>5. RowOf(Past(o)) \in Row \cup {None}
  <2>1. CASE Past(o) = {}
    BY <2>1 DEF RowOf
  <2>2. CASE Past(o) # {}
    BY <1>3, <2>2, RowOfType, ProjectionAssumption
  <2> QED  BY <2>1, <2>2
<1>6. Project(RowOf(Past(o) \cup {E}), E) = RowOf(Past(o) \cup {E})
  BY <1>3, <1>4, <1>5, ProjectTwice
<1> QED  BY <1>1, <1>4, <1>6 DEF RowOK

\* The row.
LEMMA RowStep ==
  ASSUME TypeOK, FeedOK, Ladder, HandOK, [Next]_vars, NEW o \in Orders, Eligible(o),
         MarkedOK(o), AgainOK(o), RowOK(o)
  PROVE  RowOK(o)'
<1>0. Effects
  BY StepEffects
<1>1. ASSUME Projected(o)'
      PROVE  \/ Projected(o) /\ rows' = rows
             \/ pc = "project" /\ ProjectRow /\ E.order = o
  <2>1. /\ hand' = hand
        /\ \/ pc \in {"invalidate", "setex"} /\ rows' = rows
           \/ pc = "project" /\ ProjectRow
    BY <1>1, BeforeProjected DEF Projected
  <2>2. E' = E
    BY <1>0, <2>1, Working, CurrentStays
  <2> QED  BY <1>1, <2>1, <2>2 DEF Projected
<1>2. CASE Past(o)' = Past(o) /\ Ahead(o)' = Ahead(o)
  <2>1. CASE pc = "project" /\ ProjectRow /\ E.order = o
    <3>1. rows'[o] = Project(rows[o], E)
      BY <2>1 DEF ProjectRow, TypeOK
    <3>2. rows'[o] = RowOf(Past(o)' \cup Ahead(o)')
      BY <1>2, <2>1, <3>1, ProjectedRow
    <3> QED  BY <3>2 DEF RowOK
  <2>2. CASE ~(pc = "project" /\ ProjectRow /\ E.order = o)
    <3>1. rows'[o] = rows[o]
      BY <1>0, <2>2 DEF Effects, StoreEffect, ProjectRow, TypeOK
    <3>2. Ahead(o) \subseteq processed' => Ahead(o) \subseteq processed \/ Projected(o)
      <4>1. CASE UNCHANGED processed
        BY <4>1
      <4>2. CASE pc = "setex" /\ processed' = processed \cup {E}
        <5>1. CASE E.order = o
          BY <4>2, <5>1 DEF Projected
        <5>2. CASE E.order # o
          BY <4>2, <5>2, Window
        <5> QED  BY <5>1, <5>2
      <4> QED  BY <1>0, <4>1, <4>2 DEF Effects, StoreEffect
    <3>3. Projected(o)' => Projected(o)
      BY <1>1, <2>2
    <3> QED  BY <1>2, <3>1, <3>2, <3>3 DEF RowOK
  <2> QED  BY <2>1, <2>2
<1>3. CASE /\ Past(o)' = Past(o) /\ Ahead(o) = {}
           /\ UNCHANGED <<pc, hand, rows, processed>>
  <2>1. rows'[o] = RowOf(Past(o)')
    BY <1>3 DEF RowOK
  <2>2. ~Projected(o)'
    <3>1. ~Projected(o)
      BY <1>3, InHandIsAhead DEF Projected
    <3>2. ~(pc = "project" /\ ProjectRow /\ E.order = o)
      BY <1>3, InHandIsAhead
    <3> QED  BY <1>1, <3>1, <3>2
  <2>3. Ahead(o)' \subseteq processed' => Ahead(o)' \subseteq Past(o)'
    <3>1. \A e \in Ahead(o)' : e.order = o
      BY DEF Ahead
    <3> QED  BY <1>3, <3>1 DEF MarkedOK
  <2>4. Ahead(o)' \subseteq Past(o)' => Past(o)' \cup Ahead(o)' = Past(o)'
    OBVIOUS
  <2> QED  BY <2>1, <2>2, <2>3, <2>4 DEF RowOK
<1>4. CASE /\ Past(o)' = Past(o) \cup Ahead(o) /\ Ahead(o) \subseteq processed
           /\ pc \in {"skip", "commit", "commitdlq"} /\ UNCHANGED <<rows, processed>>
  <2>1. rows'[o] = RowOf(Past(o)')
    BY <1>4 DEF RowOK
  <2>2. ~Projected(o)'
    BY <1>1, <1>4 DEF Projected
  <2>3. Ahead(o)' \subseteq processed' => Ahead(o)' \subseteq Past(o)'
    <3>1. \A e \in Ahead(o)' : e.order = o
      BY DEF Ahead
    <3> QED  BY <1>4, <3>1 DEF MarkedOK
  <2>4. Ahead(o)' \subseteq Past(o)' => Past(o)' \cup Ahead(o)' = Past(o)'
    OBVIOUS
  <2> QED  BY <2>1, <2>2, <2>3, <2>4 DEF RowOK
<1> QED  BY <1>2, <1>3, <1>4, WindowStep

\* Every step of the read side keeps the rows as RowsOK says.
LEMMA RowsStep ==
  ASSUME Inv, RowsOK, [Next]_vars
  PROVE  RowsOK'
<1>0. TypeOK /\ FeedOK /\ Ladder /\ QueueOK /\ HandOK /\ Effects
  BY StepEffects DEF Inv
<1> SUFFICES ASSUME NEW o \in Orders, Eligible(o)'
             PROVE  MarkedOK(o)' /\ AgainOK(o)' /\ RowOK(o)'
  BY DEF RowsOK
<1>1. Eligible(o)
  BY <1>0, EligibleBefore
<1>2. MarkedOK(o) /\ AgainOK(o) /\ RowOK(o)
  BY <1>1 DEF RowsOK
<1> QED  BY <1>0, <1>1, <1>2, MarkedStep, AgainStep, RowStep

\* The row is that of the committed offset, or of the record after it.
LEMMA RowsFollow ==
  ASSUME TypeOK, FeedOK, Ladder, RowsOK
  PROVE  FollowsTheLog
<1> SUFFICES ASSUME NEW o \in Orders, Eligible(o)
             PROVE  LET q == PartitionOf[o]
                    IN \E n \in {committed[q], committed[q] + 1} :
                         /\ n <= Len(log[q])
                         /\ rows[o] = RowOf(EventsIn(RecordsUpTo(q, n), o))
  BY DEF FollowsTheLog, Eligible
<1> DEFINE q == PartitionOf[o]
           c == committed[q]
<1>1. /\ c \in Nat /\ Len(log[q]) \in Nat /\ c <= Len(log[q])
      /\ Past(o) = {log[q][i].event : i \in {j \in 1..c : log[q][j].event.order = o}}
  BY Window
<1>2. Past(o) = EventsIn(RecordsUpTo(q, c), o)
  BY DEF Past
<1>3. rows[o] \in {RowOf(Past(o)), RowOf(Past(o) \cup Ahead(o))}
  BY DEF RowsOK, RowOK
<1>4. CASE rows[o] = RowOf(Past(o))
  BY <1>1, <1>2, <1>4
<1>5. CASE rows[o] # RowOf(Past(o))
  <2>1. Ahead(o) # {}
    BY <1>3, <1>5
  <2>2. /\ c + 1 \in 1..Len(log[q]) /\ log[q][c + 1].event.order = o
        /\ Ahead(o) = {log[q][c + 1].event}
    BY <2>1 DEF Ahead
  <2>3. EventsIn(RecordsUpTo(q, c + 1), o) =
          {log[q][i].event : i \in {j \in 1..(c + 1) : log[q][j].event.order = o}}
    BY DEF EventsIn, RecordsUpTo
  <2>4. EventsIn(RecordsUpTo(q, c + 1), o) = Past(o) \cup Ahead(o)
    <3>1. 1..(c + 1) = 1..c \cup {c + 1}
      BY <1>1
    <3> QED  BY <1>1, <2>2, <2>3, <3>1
  <2>5. c + 1 <= Len(log[q])
    BY <1>1, <2>2
  <2>6. rows[o] = RowOf(EventsIn(RecordsUpTo(q, c + 1), o))
    BY <1>3, <1>5, <2>4
  <2> QED  BY <2>5, <2>6
<1> QED  BY <1>4, <1>5

\* At the start there are neither rows nor records.
LEMMA InitRows == Init => RowsOK
<1> SUFFICES ASSUME Init, NEW o \in Orders PROVE MarkedOK(o) /\ AgainOK(o) /\ RowOK(o)
  BY DEF RowsOK
<1>1. \A q \in Partitions : Len(log[q]) = 0 /\ committed[q] = 0
  BY DEF Init
<1>2. PartitionOf[o] \in Partitions
  BY ProjectionAssumption
<1>3. Past(o) = {} /\ Ahead(o) = {}
  BY <1>1, <1>2 DEF Past, EventsIn, RecordsUpTo, Ahead
<1>4. MarkedOK(o)
  BY <1>3 DEF Init, MarkedOK
<1>5. AgainOK(o)
  <2>1. BagToSet(EmptyBag) = {}
    BY DEF EmptyBag, SetToBag, BagToSet
  <2> QED  BY <1>1, <2>1 DEF Init, AgainOK
<1>6. RowOK(o)
  <2>1. rows[o] = None /\ RowOf({}) = None
    BY DEF Init, RowOf
  <2> QED  BY <1>3, <2>1 DEF RowOK
<1> QED  BY <1>4, <1>5, <1>6

-----------------------------------------------------------------------------
(* The cache follows the rows.                                             *)

QTypeOK == /\ reader \in [Readers -> Missed \cup Loaded \cup {None}]
           /\ raced \in SUBSET Orders

\* When an event is about to be marked, its order's view is not outdated, or
\* known to be.
SetexOK == pc = "setex" => cache[E.order] \in {None, rows[E.order]} \/ E.order \in raced

QInv == Inv /\ RowsOK /\ QTypeOK /\ SetexOK /\ CacheFollowsRows

-----------------------------------------------------------------------------
(* Steps of the readers.                                                   *)

\* What a reader, or the TTL, can do to the read side.
ReaderStep ==
  /\ UNCHANGED <<feed, log, committed, consumer, rows, processed, expiring, retrying, history>>
  /\ \/ UNCHANGED <<cache, raced>>
     \/ \E o \in Orders, v \in Row \cup {None} :
          /\ cache' = [cache EXCEPT ![o] = v]
          /\ \/ v \in {None, rows[o]} /\ raced' = raced \ {o}
             \/ raced' = raced \cup {o}

\* A step is one of the read side or one of a reader and the cache.
LEMMA ReaderSteps ==
  ASSUME TypeOK, QTypeOK, [QNext]_qvars
  PROVE  QTypeOK' /\ (ReaderStep \/ ReadSideStep)
<1> USE DEF QTypeOK
<1>1. CASE ReadSideStep
  BY <1>1 DEF ReadSideStep
<1>2. ASSUME NEW r \in Readers, NEW o \in Orders, CacheMiss(r, o)
      PROVE  QTypeOK' /\ ReaderStep
  BY <1>2 DEF CacheMiss, Missed, ReaderStep, vars, stores
<1>3. ASSUME NEW r \in Readers, SelectRow(r) PROVE QTypeOK' /\ ReaderStep
  <2>1. reader[r].order \in Orders /\ rows[reader[r].order] \in Row
    BY <1>3 DEF SelectRow, Missed, TypeOK
  <2>2. [reader[r] EXCEPT !.row = rows[reader[r].order]] \in Loaded
    BY <1>3, <2>1 DEF SelectRow, Missed, Loaded
  <2>3. QTypeOK'
    BY <1>3, <2>2 DEF SelectRow
  <2> QED  BY <1>3, <2>3 DEF SelectRow, ReaderStep, vars, stores
<1>4. ASSUME NEW r \in Readers, NotFound(r) PROVE QTypeOK' /\ ReaderStep
  BY <1>4 DEF NotFound, ReaderStep, vars, stores
<1>5. ASSUME NEW r \in Readers, reader[r] \in Loaded, FillCache(r),
             reader' = [reader EXCEPT ![r] = None]
      PROVE  QTypeOK' /\ ReaderStep
  <2>1. reader[r].order \in Orders /\ reader[r].row \in Row
    BY <1>5 DEF Loaded
  <2>2. QTypeOK'
    BY <1>5, <2>1 DEF FillCache
  <2>3. ReaderStep
    BY <1>5, <2>1 DEF FillCache, ReaderStep
  <2> QED  BY <2>2, <2>3
<1>6. ASSUME NEW r \in Readers, Fill(r) \/ FillFails(r) PROVE QTypeOK' /\ ReaderStep
  <2>1. CASE FillCache(r)
    BY <1>5, <1>6, <2>1 DEF Fill, FillFails
  <2>2. CASE FillFails(r) /\ UNCHANGED <<vars, raced>>
    BY <2>2 DEF FillFails, ReaderStep, vars, stores
  <2> QED  BY <1>6, <2>1, <2>2 DEF Fill, FillFails
<1>7. ASSUME NEW o \in Orders, CacheExpires(o) PROVE QTypeOK' /\ ReaderStep
  BY <1>7 DEF CacheExpires, ReaderStep
<1>8. CASE UNCHANGED qvars
  BY <1>8 DEF qvars, vars, stores, ReaderStep
<1> QED
  BY <1>1, <1>2, <1>3, <1>4, <1>6, <1>7, <1>8 DEF QNext, GetOrder

\* Readers touch nothing the read side depends on.
LEMMA ReaderKeepsInv ==
  ASSUME Inv, RowsOK, ReaderStep
  PROVE  Inv' /\ RowsOK'
<1>1. cache' \in [Orders -> Row \cup {None}]
  BY DEF ReaderStep, Inv, TypeOK
<1>2. UNCHANGED <<stored, published, log, committed, pc, hand, tries, rows, processed, expiring,
                  dlq, dead, deleting, diverted, dropped>>
  BY DEF ReaderStep, feed, consumer, retrying, history
<1>3. TypeOK'
  BY <1>1, <1>2 DEF Inv, TypeOK
<1>4. Produced' = Produced /\ Settled' = Settled /\ Current' = Current /\ E' = E
  BY <1>2 DEF Produced, RecordsUpTo, Settled, Current, E
<1>5. FeedOK' /\ Ladder' /\ QueueOK' /\ DeadOnlyAfterRetries'
  BY <1>2, <1>4 DEF Inv, FeedOK, Ladder, QueueOK, DeadOnlyAfterRetries
<1>6. Dealt' /\ HandOK'
  BY <1>2, <1>4 DEF Inv, Dealt, HandOK, PassedOn, Queued
<1>7. NothingLost'
  BY <1>2, <1>4 DEF Inv, NothingLost, RecordsUpTo, Accounted, Queued, Pending
<1>8. ASSUME NEW o \in Orders
      PROVE  /\ Eligible(o)' <=> Eligible(o)
             /\ Projected(o)' <=> Projected(o)
             /\ Past(o)' = Past(o) /\ Ahead(o)' = Ahead(o)
  BY <1>2, <1>4 DEF Eligible, InSequence, Past, Ahead, EventsIn, RecordsUpTo, Projected
<1>9. RowsOK'
  <2> SUFFICES ASSUME NEW o \in Orders, Eligible(o)'
               PROVE  MarkedOK(o)' /\ AgainOK(o)' /\ RowOK(o)'
    BY DEF RowsOK
  <2>1. MarkedOK(o) /\ AgainOK(o) /\ RowOK(o)
    BY <1>8 DEF RowsOK
  <2>2. MarkedOK(o)' /\ RowOK(o)'
    BY <1>2, <1>8, <2>1 DEF MarkedOK, RowOK
  <2>3. AgainOK(o)'
    BY <1>2, <2>1 DEF AgainOK
  <2> QED  BY <2>2, <2>3
<1> QED  BY <1>3, <1>5, <1>6, <1>7, <1>9 DEF Inv

\* A reader writes a view that is current, or is known to have raced.
LEMMA ReaderKeepsCache ==
  ASSUME TypeOK, Ladder, QTypeOK, SetexOK, CacheFollowsRows, ReaderStep
  PROVE  SetexOK' /\ CacheFollowsRows'
<1>1. UNCHANGED <<rows, processed, published, pc>> /\ E' = E
  BY DEF ReaderStep, consumer, feed, E, Current
<1>2. \A o \in Orders : \/ cache'[o] = cache[o] /\ (o \in raced => o \in raced')
                        \/ cache'[o] \in {None, rows[o]}
                        \/ o \in raced'
  BY DEF ReaderStep, TypeOK
<1>3. pc = "setex" => E.order \in Orders
  BY Working, InHand
<1>4. SetexOK'
  BY <1>1, <1>2, <1>3 DEF SetexOK
<1>5. CacheFollowsRows'
  BY <1>1, <1>2 DEF CacheFollowsRows, OutdatedOnlyWhen, PublishedOf
<1> QED  BY <1>4, <1>5

-----------------------------------------------------------------------------
(* Steps of the consumer.                                                  *)

\* A projection that changes a row leaves the version of its event there.
LEMMA ProjectedVersion ==
  ASSUME NEW row \in Row \cup {None}, NEW e \in Event
  PROVE  Project(row, e) = row \/ Project(row, e).version = e.version
<1>1. CASE e.type = "ORDER_CREATED"
  BY <1>1 DEF Project, NewRow
<1>2. CASE e.type # "ORDER_CREATED" /\ row = None
  BY <1>2 DEF Project
<1>3. CASE e.type = "ORDER_ITEM_ADDED" /\ row # None
  BY <1>3 DEF Project, Row
<1>4. CASE e.type \notin {"ORDER_CREATED", "ORDER_ITEM_ADDED"} /\ row # None
  BY <1>4 DEF Project, Row
<1> QED  BY <1>1, <1>2, <1>3, <1>4

\* The consumer reaches the setex by the invalidation only, and waits there.
LEMMA BeforeSetex ==
  ASSUME [Next]_vars, pc' = "setex"
  PROVE  /\ hand' = hand /\ rows' = rows
         /\ \/ pc = "setex" /\ cache' = cache
            \/ pc = "invalidate" /\ cache' = [cache EXCEPT ![E.order] = None]
<1> USE DEF consumer, stores
<1>1. CASE UNCHANGED vars
  BY <1>1 DEF vars
<1>2. CASE Publisher
  BY <1>2 DEF Publisher, Accept, Publish
<1>3. CASE Consumer
  BY <1>3 DEF Consumer, Poll, Dedup, DedupFails, Die, Goto, ProjectEvent, ProjectFails,
              Invalidate, InvalidateFails, MarkProcessed, MarkProcessedFails, SetExpiry,
              SetExpiryFails, SendToDlq, SendToDlqFails, Commit, CommitFails
<1>4. CASE Crash \/ Restart
  BY <1>4 DEF Crash, Restart, Die
<1>5. CASE Lambda \/ NotDeleted \/ \E m \in BagToSet(dlq) : MessageExpires(m)
  BY <1>5 DEF Lambda, DeadLetter, RetryMessage, DeleteMessage, NotDeleted, MessageExpires
<1> QED  BY <1>1, <1>2, <1>3, <1>4, <1>5 DEF Next

\* The consumer outdates a view only by a row whose event it has in hand.
LEMMA ReadSideKeepsCache ==
  ASSUME Inv, QTypeOK, SetexOK, CacheFollowsRows, ReadSideStep
  PROVE  SetexOK' /\ CacheFollowsRows'
<1>0. /\ Effects /\ TypeOK /\ Ladder /\ HandOK /\ [Next]_vars
      /\ raced' = {o \in raced : cache'[o] # None}
  BY StepEffects DEF Inv, ReadSideStep
<1>1. SetexOK'
  <2> SUFFICES ASSUME pc' = "setex"
               PROVE  cache'[E'.order] \in {None, rows'[E'.order]} \/ E'.order \in raced'
    BY DEF SetexOK
  <2>1. /\ hand' = hand /\ rows' = rows
        /\ \/ pc = "setex" /\ cache' = cache
           \/ pc = "invalidate" /\ cache' = [cache EXCEPT ![E.order] = None]
    BY <1>0, BeforeSetex
  <2>2. E' = E /\ E.order \in Orders
    BY <1>0, <2>1, Working, CurrentStays, InHand
  <2> QED  BY <1>0, <2>1, <2>2 DEF SetexOK, TypeOK
<1>2. CacheFollowsRows'
  <2> SUFFICES ASSUME NEW o \in Orders, cache'[o] \notin {None, rows'[o]}, o \notin raced'
               PROVE  \E e \in PublishedOf(o)' \ processed' : e.version = rows'[o].version
    BY DEF CacheFollowsRows, OutdatedOnlyWhen
  <2>1. cache'[o] = cache[o] /\ o \notin raced
    <3>1. cache'[o] = cache[o]
      BY <1>0 DEF Effects, StoreEffect, TypeOK
    <3> QED  BY <1>0, <3>1
  <2>2. PublishedOf(o) \subseteq PublishedOf(o)'
    BY <1>0, FeedStep DEF PublishedOf, Effects, Inv
  <2>3. CASE rows'[o] = rows[o]
    <3>1. PICK e \in PublishedOf(o) \ processed : e.version = rows[o].version
      BY <2>1, <2>3 DEF CacheFollowsRows, OutdatedOnlyWhen
    <3>2. CASE UNCHANGED processed
      BY <2>2, <2>3, <3>1, <3>2
    <3>3. CASE pc = "setex" /\ processed' = processed \cup {E}
      <4>1. E.order # o
        BY <2>1, <2>3, <3>3 DEF SetexOK
      <4> QED  BY <2>2, <2>3, <3>1, <3>3, <4>1 DEF PublishedOf
    <3> QED  BY <1>0, <3>2, <3>3 DEF Effects, StoreEffect
  <2>4. CASE rows'[o] # rows[o]
    <3>1. pc = "project" /\ ProjectRow
      BY <1>0, <2>4 DEF Effects, StoreEffect
    <3>2. E \in Event /\ E \in published /\ E.order \in Orders /\ E \notin processed
      BY <1>0, <3>1, Working, InHand DEF HandOK
    <3>3. o = E.order /\ rows'[o] = Project(rows[o], E)
      BY <1>0, <2>4, <3>1, <3>2 DEF ProjectRow, TypeOK
    <3>4. rows'[o].version = E.version
      <4>1. rows[o] \in Row \cup {None}
        BY <1>0 DEF TypeOK
      <4>2. Project(rows[o], E) = rows[o] \/ Project(rows[o], E).version = E.version
        BY <3>2, <4>1, ProjectedVersion
      <4> QED  BY <2>4, <3>3, <4>2
    <3>5. processed' = processed
      BY <1>0, <3>1 DEF Effects, StoreEffect
    <3>6. E \in PublishedOf(o)'
      <4>1. E \in PublishedOf(o)
        BY <3>2, <3>3 DEF PublishedOf
      <4> QED  BY <2>2, <4>1
    <3> QED  BY <3>2, <3>4, <3>5, <3>6
  <2> QED  BY <2>3, <2>4
<1> QED  BY <1>1, <1>2

-----------------------------------------------------------------------------
(* Theorems.                                                               *)

\* The initial states satisfy the invariant.
LEMMA QInitInv == QInit => QInv
<1> SUFFICES ASSUME QInit PROVE QInv
  OBVIOUS
<1>1. Inv /\ RowsOK
  BY InitInv, InitRows DEF QInit
<1>2. QTypeOK
  BY DEF QInit, QTypeOK
<1>3. SetexOK /\ CacheFollowsRows
  BY DEF QInit, Init, SetexOK, CacheFollowsRows
<1> QED  BY <1>1, <1>2, <1>3 DEF QInv

\* Every step of the consumer, the Lambda, a reader or the cache keeps it.
LEMMA QInvStep == QInv /\ [QNext]_qvars => QInv'
<1> SUFFICES ASSUME QInv, [QNext]_qvars PROVE QInv'
  OBVIOUS
<1>0. Inv /\ RowsOK /\ TypeOK /\ Ladder /\ QTypeOK /\ SetexOK /\ CacheFollowsRows
  BY DEF QInv, Inv
<1>1. QTypeOK' /\ (ReaderStep \/ ReadSideStep)
  BY <1>0, ReaderSteps
<1>2. CASE ReaderStep
  BY <1>0, <1>1, <1>2, ReaderKeepsInv, ReaderKeepsCache DEF QInv
<1>3. CASE ReadSideStep
  <2>1. Inv' /\ RowsOK'
    BY <1>0, <1>3, InvStep, RowsStep DEF ReadSideStep
  <2> QED  BY <1>0, <1>1, <1>3, <2>1, ReadSideKeepsCache DEF QInv
<1> QED  BY <1>1, <1>2, <1>3

\* The read side's invariant holds whatever the readers do.
THEOREM QInvariance == QSpec => []QInv
BY QInitInv, QInvStep, PTL DEF QSpec

\* consumers/main.py, "EXACTLY-ONCE via enable_auto_commit=False + manual commit
\* after projection", as far as it goes: the row of an order that is published in
\* sequence and never diverted is what the events up to the committed offset
\* define, or one record further, through crashes, redeliveries and duplicates.
THEOREM RowsFollowTheLog == QSpec => []FollowsTheLog
<1>1. QInv => FollowsTheLog
  BY RowsFollow DEF QInv, Inv
<1> QED  BY <1>1, QInvariance, PTL

\* query_router.py and consumers/main.py, "invalidate on every event": through
\* crashes, retries, duplicates and reordering Redis serves something else than
\* PostgreSQL has only while the event the row shows is unprocessed, or because
\* a reader overtook the invalidation.
THEOREM CacheIsInvalidated == QSpec => []CacheFollowsRows
<1>1. QInv => CacheFollowsRows
  BY DEF QInv
<1> QED  BY <1>1, QInvariance, PTL
=============================================================================
