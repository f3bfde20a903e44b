----------------------- MODULE AggregateReplayProofs -----------------------
(***************************************************************************)
(* The replay loop of rebuild_from_events computes Rebuild, for every      *)
(* history of every length.                                                *)
(***************************************************************************)
EXTENDS AggregateReplay, AggregateLemmas

\* The initial states of the loop satisfy the loop invariant.
LEMMA LoopInit == Init => TypeOK /\ LoopInvariant
BY HistoriesAssumption
   DEF Init, TypeOK, LoopInvariant, NewAggregate, OrderStatus

\* Each pass of the loop keeps it: the next event is later than every applied
\* one, so ApplyIsRebuild extends the aggregate by it.
LEMMA LoopStep == TypeOK /\ LoopInvariant /\ [Next]_vars => TypeOK' /\ LoopInvariant'
<1> SUFFICES ASSUME TypeOK, LoopInvariant, [Next]_vars
             PROVE  TypeOK' /\ LoopInvariant'
  OBVIOUS
<1>1. CASE UNCHANGED vars
  BY <1>1 DEF vars, TypeOK, LoopInvariant
<1>2. CASE Next
  <2>1. PICK e \in events : /\ IsNext(e)
                            /\ agg' = Apply(agg, e)
                            /\ applied' = applied \cup {e}
                            /\ events' = events
    BY <1>2 DEF Next, ApplyNext
  <2>2. e \in Event /\ applied \subseteq Event /\ events \subseteq Event
    BY DEF TypeOK, IsHistory
  <2>3. \A f \in applied : f.version < e.version
    BY <2>1 DEF LoopInvariant, IsNext
  <2>4. \A f \in events \ applied' : e.version < f.version
    <3> SUFFICES ASSUME NEW f \in events \ applied' PROVE e.version < f.version
      OBVIOUS
    <3>1. f \in events \ applied /\ f # e  BY <2>1
    <3>2. e.version <= f.version  BY <2>1, <3>1 DEF IsNext
    <3>3. e.version # f.version  BY <3>1 DEF TypeOK, IsHistory
    <3> QED  BY <2>2, <3>2, <3>3 DEF Event
  <2>5. agg' = Rebuild(applied')
    <3>1. agg = IF applied = {} THEN NewAggregate ELSE Rebuild(applied)
      BY DEF LoopInvariant
    <3> QED  BY <2>1, <2>2, <2>3, <3>1, ApplyIsRebuild
  <2>6. LoopInvariant'
    <3>1. \A f \in applied', g \in (events \ applied)' : f.version < g.version
      BY <2>1, <2>4 DEF LoopInvariant
    <3>2. applied' # {}  BY <2>1
    <3> QED  BY <2>5, <3>1, <3>2 DEF LoopInvariant
  <2>7. TypeOK'
    <3>1. agg' \in [version : Nat, status : OrderStatus, items : SUBSET Event]
      BY <2>1, <2>2, StatusSetByType DEF TypeOK, Apply, Event
    <3> QED  BY <2>1, <3>1 DEF TypeOK, IsHistory
  <2> QED  BY <2>6, <2>7
<1> QED  BY <1>1, <1>2 DEF Next

\* The loop invariant of rebuild_from_events holds throughout.
THEOREM LoopInvariantHolds == Spec => [](TypeOK /\ LoopInvariant)
BY LoopInit, LoopStep, PTL DEF Spec

\* The loop variables keep their types on every history.
THEOREM ReplayTypeCorrect == Spec => []TypeOK
BY LoopInvariantHolds, PTL

\* Whatever history get_events returned, the aggregate rebuild_from_events
\* returns is Rebuild of it: the closed form used in WriteSide and Projection
\* is the code's loop.
THEOREM ReplayIsRebuild == Spec => []ReplayComputesRebuild
<1>1. TypeOK /\ LoopInvariant => ReplayComputesRebuild
  BY DEF TypeOK, LoopInvariant, ReplayComputesRebuild, IsHistory
<1> QED  BY LoopInvariantHolds, <1>1, PTL
=============================================================================
