CONSTANTS
    p1 = p1
    p2 = p2
    c1 = c1
    Nil = Nil
    Producers <- TwoProducers
    Keepers <- SecondProducer
    Consumers <- OneConsumer
    MaxSize = 1
    Quota = 2
SPECIFICATION Spec
\* producers stop after their quota, and a consumer may wait for ever
CHECK_DEADLOCK FALSE
INVARIANTS PopSafe QueuedAlive SizeExact FreedOnce
PROPERTY FifoSpec
