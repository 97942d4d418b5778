CONSTANTS
    p1 = p1
    p2 = p2
    c1 = c1
    Nil = Nil
    Producers <- OneProducer
    Keepers <- Nobody
    Consumers <- OneConsumer
    MaxSize = 1
    Quota = 3
SPECIFICATION FairSpec
\* producers stop after their quota, and a consumer may wait for ever
CHECK_DEADLOCK FALSE
PROPERTY AllDelivered
