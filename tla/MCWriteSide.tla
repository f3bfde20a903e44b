---------------------------- MODULE MCWriteSide ----------------------------
(***************************************************************************)
(* TLC instances of WriteSide.  Handlers are interchangeable: no action    *)
(* and no safety property names a particular one.                          *)
(***************************************************************************)
EXTENDS WriteSide, TLC

HandlerSymmetry == Permutations(Handlers)

\* Overlapping requests alone: the API stays up and no call to MongoDB, Kafka,
\* Redis or the gateway fails.  What can still go wrong is a version conflict
\* or a declined payment.
Proceed(h) ==
  \/ Charge(h) \/ ChargeDeclined(h)
  \/ AppendEvent(h) \/ VersionConflict(h)
  \/ CheckPublished(h) \/ SkipPublished(h) \/ Send(h) \/ MarkPublished(h)
  \/ RememberKey(h) \/ Answer(h)

OverlapSpec == Init /\ [][\E h \in Handlers : Arrive(h) \/ Proceed(h)]_vars
=============================================================================
