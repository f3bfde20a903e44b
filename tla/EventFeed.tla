----------------------------- MODULE EventFeed -----------------------------
(***************************************************************************)
(* The contract between the write side and the read side: what a consumer  *)
(* of the topic may rely on.  Events are recorded along legal histories,   *)
(* one version after the other, and only recorded events are published;    *)
(* but an event may be published late, again, after later ones, or never.  *)
(* WriteSide implements this contract; Projection is checked against       *)
(* everything it allows.                                                   *)
(***************************************************************************)
EXTENDS OrderAggregate

VARIABLES stored,      \* the events recorded in MongoDB
          published    \* the events that are in the topic

feed == <<stored, published>>

StoredOf(o)    == {e \in stored : e.order = o}
PublishedOf(o) == {e \in published : e.order = o}

FeedInit == stored = {} /\ published = {}

NextVersion(evs)  == IF evs = {} THEN 1 ELSE Latest(evs).version + 1
MayFollow(evs, t) == IF evs = {} THEN t = "ORDER_CREATED" ELSE Allowed(Rebuild(evs), t)

\* A command is accepted: the next event of order o, of type t.
RecordEvent(o, t, p) ==
  /\ MayFollow(StoredOf(o), t) /\ p \in PayloadOf(t)
  /\ stored' = stored \cup {MakeEvent(o, NextVersion(StoredOf(o)), t, p)}
  /\ UNCHANGED published

PublishEvent(e) ==
  /\ e \in stored
  /\ published' = published \cup {e}
  /\ UNCHANGED stored

FeedNext == \/ \E o \in Orders, t \in EventType, p \in Payloads \cup {None} : RecordEvent(o, t, p)
            \/ \E e \in stored : PublishEvent(e)

FeedSpec == FeedInit /\ [][FeedNext]_feed
=============================================================================
