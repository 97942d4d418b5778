------------------------------ MODULE MCEvent ------------------------------
(* An instance of Event for TLC. *)
EXTENDS Event
CONSTANTS p1, p2, p3, w1, w2
Raisers   == {p1, p2, p3}
NoThreads == {}
Polling   == {w1, w2}

\* Nobody pops, and INFINITE_ = 10000 is more than ever is raised.
ASSUME EventAssumption == Consumers = {} /\ MaxSize > Quota * Cardinality(Producers)
=============================================================================
