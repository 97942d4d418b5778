------------------------------ MODULE MCQueue ------------------------------
(* Instances of QueueArray for TLC. *)
EXTENDS QueueArray
CONSTANTS p1, p2, c1

OneProducer  == {p1}
TwoProducers == {p1, p2}
OneConsumer  == {c1}

\* of two producers one drops its reference and one keeps it
SecondProducer == {p2}
Nobody         == {}
=============================================================================
