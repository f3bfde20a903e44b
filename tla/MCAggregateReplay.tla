------------------------- MODULE MCAggregateReplay -------------------------
(***************************************************************************)
(* TLC instance of AggregateReplay: every history of one order with at     *)
(* most MaxEvents events, of any types, with and without gaps in the       *)
(* versions.                                                               *)
(***************************************************************************)
EXTENDS AggregateReplay

CONSTANTS AnOrder,    \* the order whose events are replayed
          MaxEvents   \* bound: versions 1..MaxEvents

MCHistories ==
  {{MakeEvent(AnOrder, v, types[v], None) : v \in DOMAIN types} :
     types \in UNION {[D -> EventType] : D \in (SUBSET (1..MaxEvents)) \ {{}}}}
=============================================================================
