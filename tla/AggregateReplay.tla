-------------------------- MODULE AggregateReplay --------------------------
(***************************************************************************)
(* OrderAggregate.rebuild_from_events, run one event at a time: the events *)
(* a command loaded are sorted by version and applied in turn to a new     *)
(* aggregate.  The other modules use the closed form Rebuild; this one     *)
(* shows that the loop computes it, whatever events it is given (also a    *)
(* history with gaps, such as TTL pruning can leave).                      *)
(***************************************************************************)
EXTENDS OrderAggregate

CONSTANT Histories   \* the sets of events get_events may return

\* The unique index on (aggregate_id, aggregate_version) and the query on
\* aggregate_id: one order, distinct versions.
IsHistory(evs) == /\ evs \subseteq Event
                  /\ evs # {}
                  /\ \A e, f \in evs : e.order = f.order
                  /\ \A e, f \in evs : e.version = f.version => e = f

ASSUME HistoriesAssumption == \A evs \in Histories : IsHistory(evs)

VARIABLES events,    \* the argument of rebuild_from_events
          applied,   \* the events the loop has been through
          agg        \* the aggregate under construction

vars == <<events, applied, agg>>

Init == /\ events \in Histories
        /\ applied = {}
        /\ agg = NewAggregate

\* Mutant: the events are applied in whatever order they were loaded.
IsNextUnsorted(e) == e \in events \ applied

\* The next event in the order of sorted(events, key=aggregate_version).
IsNext(e) == /\ e \in events \ applied
             /\ \A f \in events \ applied : e.version <= f.version

ApplyNext == \E e \in events : /\ IsNext(e)
                               /\ agg' = Apply(agg, e)
                               /\ applied' = applied \cup {e}
                               /\ UNCHANGED events

Next == ApplyNext

Spec == Init /\ [][Next]_vars

-----------------------------------------------------------------------------
\* The loop variables keep their types.
TypeOK == /\ IsHistory(events)
          /\ applied \in SUBSET events
          /\ agg \in [version : Nat, status : OrderStatus, items : SUBSET Event]

\* Whatever the history, the aggregate that rebuild_from_events returns has
\* the version of the latest event, the status set by the latest event that
\* sets one, and every added item: the closed form the command handlers are
\* modelled with.
ReplayComputesRebuild == applied = events => agg = Rebuild(events)

\* The loop invariant: the events applied so far are the oldest ones, and the
\* aggregate is the one they rebuild.
LoopInvariant ==
  /\ \A e \in applied, f \in events \ applied : e.version < f.version
  /\ IF applied = {} THEN agg = NewAggregate ELSE agg = Rebuild(applied)

=============================================================================
