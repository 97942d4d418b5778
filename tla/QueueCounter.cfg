CONSTANTS
    p1 = p1
    p2 = p2
    c1 = c1
    Nil = Nil
    Producers <- OneProducer
    Keepers <- Nobody
    Consumers <- OneConsumer
    MaxSize = 2
    Quota = 2
SPECIFICATION Spec
\* producers stop after their quota, and a consumer may wait for ever
CHECK_DEADLOCK FALSE
INVARIANT SizeAgrees
