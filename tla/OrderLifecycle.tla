--------------------------- MODULE OrderLifecycle ---------------------------
(***************************************************************************)
(* What the write side promises: each order goes through its life cycle    *)
(* one accepted command at a time, as if no two commands ever overlapped.  *)
(* WriteSide, in which handlers work on aggregates they loaded earlier,    *)
(* implements this specification.                                          *)
(***************************************************************************)
EXTENDS Naturals

CONSTANT Orders

VARIABLES version,    \* accepted commands of each order
          status,     \* "NONE" until the order is created
          hasItems    \* whether an item was ever added

vars == <<version, status, hasItems>>

Init == /\ version  = [o \in Orders |-> 0]
        /\ status   = [o \in Orders |-> "NONE"]
        /\ hasItems = [o \in Orders |-> FALSE]

\* A command on o is accepted: one more version, and status s.
Accept(o, s) == /\ version' = [version EXCEPT ![o] = @ + 1]
                /\ status'  = [status EXCEPT ![o] = s]

Create(o)  == /\ status[o] = "NONE"
              /\ Accept(o, "PENDING")
              /\ UNCHANGED hasItems

AddItem(o) == /\ status[o] = "PENDING"
              /\ Accept(o, "PENDING")
              /\ hasItems' = [hasItems EXCEPT ![o] = TRUE]

Confirm(o) == /\ status[o] = "PENDING" /\ hasItems[o]
              /\ Accept(o, "CONFIRMED")
              /\ UNCHANGED hasItems

Pay(o)     == /\ status[o] = "CONFIRMED"
              /\ Accept(o, "PAID")
              /\ UNCHANGED hasItems

Ship(o)    == /\ status[o] = "PAID"
              /\ Accept(o, "SHIPPED")
              /\ UNCHANGED hasItems

Cancel(o)  == /\ status[o] \notin {"NONE", "SHIPPED", "DELIVERED"}
              /\ Accept(o, "CANCELLED")
              /\ UNCHANGED hasItems

Next == \E o \in Orders : \/ Create(o) \/ AddItem(o) \/ Confirm(o)
                          \/ Pay(o) \/ Ship(o) \/ Cancel(o)

Spec == Init /\ [][Next]_vars
=============================================================================
