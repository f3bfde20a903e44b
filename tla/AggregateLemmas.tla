-------------------------- MODULE AggregateLemmas --------------------------
(***************************************************************************)
(* Facts about the operators of OrderAggregate that the proofs about the   *)
(* replay loop and the write side share.                                   *)
(***************************************************************************)
EXTENDS OrderAggregate, WellFoundedInduction, TLAPS

\* A non-empty set of natural numbers has a least element.
LEMMA LeastNat ==
  ASSUME NEW S, S \subseteq Nat, S # {}
  PROVE  \E x \in S : \A y \in S : x <= y
<1> DEFINE R == OpToRel(<, Nat)
<1>1. PICK x \in S : \A y \in S : ~ (<<y, x>> \in R)
  <2> HIDE DEF R
  <2> QED  BY NatLessThanWellFounded, WFMin DEF R
<1>2. ASSUME NEW y \in S PROVE x <= y
  <2>1. <<y, x>> \notin R /\ x \in Nat /\ y \in Nat
    BY <1>1
  <2> QED  BY <2>1 DEF OpToRel
<1> QED  BY <1>2

\* A non-empty set of natural numbers with an upper bound has a maximum: the
\* least distance to the bound belongs to it.
LEMMA BoundedMax ==
  ASSUME NEW S, S \subseteq Nat, S # {}, NEW n \in Nat, \A x \in S : x <= n
  PROVE  \E x \in S : \A y \in S : y <= x
<1> DEFINE T == {n - x : x \in S}
<1>1. T \subseteq Nat /\ T # {}
  <2>1. \A x \in S : n - x \in Nat
    <3> SUFFICES ASSUME NEW x \in S PROVE n - x \in Nat
      OBVIOUS
    <3>1. x \in Nat /\ x <= n  OBVIOUS
    <3> QED  BY <3>1
  <2> QED  BY <2>1
<1>2. PICK d \in T : \A c \in T : d <= c
  <2> HIDE DEF T
  <2> QED  BY <1>1, LeastNat
<1>3. PICK x \in S : d = n - x
  BY <1>2
<1>4. \A y \in S : y <= x
  <2> SUFFICES ASSUME NEW y \in S PROVE y <= x
    OBVIOUS
  <2>1. n - y \in T  OBVIOUS
  <2>2. n - x <= n - y  BY <2>1, <1>2, <1>3
  <2>3. x \in Nat /\ y \in Nat  OBVIOUS
  <2> HIDE DEF T
  <2> QED  BY <2>2, <2>3
<1> QED  BY <1>4

\* Latest of a non-empty set of events with bounded versions is one of them,
\* and none has a higher version.
LEMMA LatestIsMax ==
  ASSUME NEW evs, evs \subseteq Event, evs # {},
         NEW n \in Nat, \A e \in evs : e.version <= n
  PROVE  /\ Latest(evs) \in evs
         /\ \A f \in evs : f.version <= Latest(evs).version
<1> DEFINE S == {e.version : e \in evs}
<1>1. S \subseteq Nat /\ S # {} /\ \A x \in S : x <= n
  BY DEF Event
<1>2. PICK x \in S : \A y \in S : y <= x
  <2> HIDE DEF S
  <2> QED  BY <1>1, BoundedMax
<1>3. PICK e \in evs : e.version = x
  OBVIOUS
<1>4. \A f \in evs : f.version <= e.version
  BY <1>2, <1>3
<1> QED  BY <1>4 DEF Latest
\* A later event than all others is the latest one.
LEMMA LatestOfExtended ==
  ASSUME NEW evs, evs \subseteq Event, NEW e \in Event,
         \A f \in evs : f.version < e.version
  PROVE  Latest(evs \cup {e}) = e
<1> DEFINE all == evs \cup {e}
           Max(x) == \A f \in all : f.version <= x.version
<1>1. Max(e)
  BY DEF Event
<1>2. ASSUME NEW x \in all, Max(x) PROVE x = e
  <2>1. e.version <= x.version  BY <1>2
  <2>2. x \notin evs  BY <2>1 DEF Event
  <2> QED  BY <2>2
<1>3. e \in all  OBVIOUS
<1>4. (CHOOSE x \in all : Max(x)) = e
  <2> HIDE DEF all, Max
  <2> QED  BY <1>1, <1>2, <1>3
<1> QED  BY <1>4 DEF Latest

\* One more pass of the replay loop: applying an event to the aggregate its
\* predecessors rebuild gives the aggregate rebuilt from all of them.
LEMMA ApplyIsRebuild ==
  ASSUME NEW evs, evs \subseteq Event, NEW e \in Event,
         \A f \in evs : f.version < e.version
  PROVE  Apply(IF evs = {} THEN NewAggregate ELSE Rebuild(evs), e) = Rebuild(evs \cup {e})
<1> DEFINE agg == IF evs = {} THEN NewAggregate ELSE Rebuild(evs)
           all == evs \cup {e}
<1>1. Latest(all) = e
  BY LatestOfExtended
<1>2. agg.items = Items(evs) /\ agg.status = StatusOf(evs)
  BY DEF NewAggregate, Rebuild, Items, StatusOf, StatusEvents
<1> HIDE DEF agg
<1>3. CASE e.type = "ORDER_ITEM_ADDED"
  <2>1. Items(all) = Items(evs) \cup {e}
    BY <1>3 DEF Items
  <2>2. StatusEvents(all) = StatusEvents(evs)
    BY <1>3 DEF StatusEvents
  <2>3. StatusOf(all) = StatusOf(evs)
    BY <2>2 DEF StatusOf
  <2> QED  BY <1>1, <1>2, <1>3, <2>1, <2>3 DEF Apply, Rebuild, agg
<1>4. CASE e.type # "ORDER_ITEM_ADDED"
  <2>1. Items(all) = Items(evs)
    BY <1>4 DEF Items
  <2>2. StatusEvents(all) = StatusEvents(evs) \cup {e}
    BY <1>4 DEF StatusEvents
  <2>3. Latest(StatusEvents(evs) \cup {e}) = e
    <3>1. StatusEvents(evs) \subseteq evs  BY DEF StatusEvents
    <3> QED  BY <3>1, LatestOfExtended
  <2>4. StatusOf(all) = StatusSetBy[e.type]
    BY <2>2, <2>3 DEF StatusOf
  <2> QED  BY <1>1, <1>2, <1>4, <2>1, <2>4 DEF Apply, Rebuild, agg
<1> QED  BY <1>3, <1>4

\* Every event type but ORDER_ITEM_ADDED sets one of the statuses.
LEMMA StatusSetByType ==
  \A t \in EventType \ {"ORDER_ITEM_ADDED"} : StatusSetBy[t] \in OrderStatus
BY DEF StatusSetBy, EventType, OrderStatus
=============================================================================
