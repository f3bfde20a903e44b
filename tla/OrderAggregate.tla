--------------------------- MODULE OrderAggregate ---------------------------
(***************************************************************************)
(* Domain events and the order aggregate: api/models/events.py and         *)
(* api/services/aggregate.py.                                              *)
(*                                                                         *)
(* An aggregate is never stored: every command rebuilds it by replaying    *)
(* the events of its order in version order.  The replay loop is written   *)
(* here in closed form (Rebuild), because each pass of the loop overwrites *)
(* version and status and adds to items; module AggregateReplay runs the   *)
(* loop event by event and shows that it computes Rebuild.                 *)
(*                                                                         *)
(* Data kept: an event is its order, version, type and payload, where the  *)
(* payload is one opaque value (the product, the payment_id or the         *)
(* tracking_id).                                                           *)
(* event_id is not a field: it is a fresh UUID per event, only stored      *)
(* events are ever published, and the unique index makes                   *)
(* <<order, version>> identify a stored event.  Timestamps and correlation *)
(* ids are left out.                                                       *)
(***************************************************************************)
EXTENDS Naturals

CONSTANTS Orders,     \* aggregate ids
          Payloads,   \* what a request can carry
          None        \* no payload, no event, no order

EventType == {"ORDER_CREATED", "ORDER_ITEM_ADDED", "ORDER_CONFIRMED",
              "ORDER_PAYMENT_PROCESSED", "ORDER_SHIPPED", "ORDER_DELIVERED",
              "ORDER_CANCELLED"}

OrderStatus == {"PENDING", "CONFIRMED", "PAID", "SHIPPED", "DELIVERED",
                "CANCELLED"}

Event == [order : Orders, version : Nat \ {0}, type : EventType,
          payload : Payloads \cup {None}]

ASSUME NoneAssumption == None \notin Orders \cup Payloads \cup Event

\* The payloads of each type: the product of an item, the payment_id, the
\* tracking_id; the other payloads are not told apart.
PayloadOf(t) ==
  IF t \in {"ORDER_ITEM_ADDED", "ORDER_PAYMENT_PROCESSED", "ORDER_SHIPPED"}
    THEN Payloads ELSE {None}

\* A BaseEvent as its factory builds it.
MakeEvent(o, v, t, p) == [order |-> o, version |-> v, type |-> t, payload |-> p]

\* The status an event of type t leaves behind; an added item leaves it alone.
StatusSetBy == [t \in EventType \ {"ORDER_ITEM_ADDED"} |->
                  CASE t = "ORDER_CREATED"           -> "PENDING"
                    [] t = "ORDER_CONFIRMED"         -> "CONFIRMED"
                    [] t = "ORDER_PAYMENT_PROCESSED" -> "PAID"
                    [] t = "ORDER_SHIPPED"           -> "SHIPPED"
                    [] t = "ORDER_DELIVERED"         -> "DELIVERED"
                    [] t = "ORDER_CANCELLED"         -> "CANCELLED"]

\* The types after which the consumer lets the events of the order expire.
IsTerminal(e) == e.type \in {"ORDER_DELIVERED", "ORDER_CANCELLED"}

\* Mutant: a default status that OrderStatus does not have.
NewAggregateDraft == [version |-> 0, status |-> "DRAFT", items |-> {}]

\* A new OrderAggregate, before any event is applied.  The list items is kept
\* as the set of its ORDER_ITEM_ADDED events, whose versions give the order.
NewAggregate == [version |-> 0, status |-> "PENDING", items |-> {}]

\* Mutant: an added item resets the status.
ApplyResettingStatus(agg, e) ==
  [version |-> e.version,
   status  |-> IF e.type = "ORDER_ITEM_ADDED" THEN "PENDING"
                                              ELSE StatusSetBy[e.type],
   items   |-> IF e.type = "ORDER_ITEM_ADDED" THEN agg.items \cup {e}
                                              ELSE agg.items]

\* One pass of the replay loop.
Apply(agg, e) ==
  [version |-> e.version,
   status  |-> IF e.type = "ORDER_ITEM_ADDED" THEN agg.status
                                              ELSE StatusSetBy[e.type],
   items   |-> IF e.type = "ORDER_ITEM_ADDED" THEN agg.items \cup {e}
                                              ELSE agg.items]

Items(evs)        == {e \in evs : e.type = "ORDER_ITEM_ADDED"}
StatusEvents(evs) == {e \in evs : e.type # "ORDER_ITEM_ADDED"}
Latest(evs)       == CHOOSE e \in evs : \A f \in evs : f.version <= e.version

StatusOf(evs) == IF StatusEvents(evs) = {}
                   THEN NewAggregate.status
                   ELSE StatusSetBy[Latest(StatusEvents(evs)).type]

\* The whole loop over a non-empty set of events with distinct versions.
Rebuild(evs) == [version |-> Latest(evs).version,
                 status  |-> StatusOf(evs),
                 items   |-> Items(evs)]

-----------------------------------------------------------------------------
(* The business rules.  A failed assertion answers the command with an     *)
(* error and changes nothing.                                              *)

\* Mutant: items can be added until the order is paid.
CanAddItemLate(agg) == agg.status \in {"PENDING", "CONFIRMED"}

CanAddItem(agg) == agg.status = "PENDING"
CanConfirm(agg) == agg.items # {} /\ agg.status = "PENDING"
CanPay(agg)     == agg.status = "CONFIRMED"
CanShip(agg)    == agg.status = "PAID"
CanCancel(agg)  == agg.status \notin {"SHIPPED", "DELIVERED"}

\* The rule each command asserts before it builds an event of type t.
Allowed(agg, t) ==
  CASE t = "ORDER_ITEM_ADDED"        -> CanAddItem(agg)
    [] t = "ORDER_CONFIRMED"         -> CanConfirm(agg)
    [] t = "ORDER_PAYMENT_PROCESSED" -> CanPay(agg)
    [] t = "ORDER_SHIPPED"           -> CanShip(agg)
    [] t = "ORDER_CANCELLED"         -> CanCancel(agg)
    [] OTHER                         -> FALSE
=============================================================================
