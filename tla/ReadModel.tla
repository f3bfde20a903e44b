----------------------------- MODULE ReadModel -----------------------------
(***************************************************************************)
(* The PostgreSQL read model of one order: the tables of                   *)
(* infra/postgres_init.sql and project_to_postgres of consumers/main.py.   *)
(*                                                                         *)
(* A row holds what orders and order_items keep of an order, and is None   *)
(* while orders has no such order_id.  A line is a row of order_items:     *)
(* the upsert on (order_id, product_id) overwrites quantity and line_total *)
(* but leaves product_name and unit_price, so a line remembers the version *)
(* of the event that counted it and of the one that priced it.             *)
(* total_amount is not a field: the transaction that changes a line sums   *)
(* the lines again.  The payload of an ORDER_ITEM_ADDED is its product_id. *)
(***************************************************************************)
EXTENDS OrderAggregate

Line == [product : Payloads, counted : Nat, priced : Nat]

Row == [status : OrderStatus, version : Nat, payment : Payloads \cup {None},
        tracking : Payloads \cup {None}, lines : SUBSET Line]

ASSUME NoneIsNoRow == None \notin Row

\* INSERT INTO orders ... VALUES ('PENDING', 0.0, version)
NewRow(e) == [status |-> "PENDING", version |-> e.version, payment |-> None,
              tracking |-> None, lines |-> {}]

\* INSERT INTO order_items ... ON CONFLICT (order_id, product_id) DO UPDATE
\* SET quantity, line_total.
Upsert(lines, e) ==
  LET old    == {l \in lines : l.product = e.payload}
      priced == IF old = {} THEN e.version ELSE (CHOOSE l \in old : TRUE).priced
  IN (lines \ old) \cup {[product |-> e.payload, counted |-> e.version, priced |-> priced]}

\* The foreign key of order_items: a line needs its order.
CanProject(row, e) == e.type = "ORDER_ITEM_ADDED" => row # None

\* The transaction of project_to_postgres.  An UPDATE that finds no row
\* changes nothing and succeeds.
Project(row, e) ==
  CASE e.type = "ORDER_CREATED" -> IF row = None THEN NewRow(e) ELSE row
    [] e.type # "ORDER_CREATED" /\ row = None -> None
    [] e.type = "ORDER_ITEM_ADDED" /\ row # None ->
         [row EXCEPT !.lines = Upsert(@, e), !.version = e.version]
    [] OTHER ->
         [row EXCEPT !.status   = StatusSetBy[e.type],
                     !.version  = e.version,
                     !.payment  = IF e.type = "ORDER_PAYMENT_PROCESSED" THEN e.payload ELSE @,
                     !.tracking = IF e.type = "ORDER_SHIPPED" THEN e.payload ELSE @]

-----------------------------------------------------------------------------
(* The reference: what the row of an order should be after the events evs, *)
(* stated on the set and not as a sequence of updates.                     *)

\* The payload of the last event of type t, None if there is none.
LastPayload(evs, t) ==
  LET ts == {e \in evs : e.type = t}
  IN IF ts = {} THEN None ELSE Latest(ts).payload

LinesOf(evs) ==
  {[product |-> e.payload, counted |-> e.version,
    priced  |-> (CHOOSE f \in Items(evs) :
                   /\ f.payload = e.payload
                   /\ \A g \in Items(evs) : g.payload = e.payload => f.version <= g.version).version] :
     e \in {f \in Items(evs) :
              \A g \in Items(evs) : g.payload = f.payload => g.version <= f.version}}

RowOf(evs) ==
  IF evs = {} THEN None
  ELSE [status   |-> StatusOf(evs),
        version  |-> Latest(evs).version,
        payment  |-> LastPayload(evs, "ORDER_PAYMENT_PROCESSED"),
        tracking |-> LastPayload(evs, "ORDER_SHIPPED"),
        lines    |-> LinesOf(evs)]
=============================================================================
