CONSTANTS
    p1 = p1
    p2 = p2
    p3 = p3
    w1 = w1
    w2 = w2
    Nil = Nil
    Producers <- Raisers
    Keepers <- NoThreads
    Consumers <- NoThreads
    Waiters <- Polling
    MaxSize = 4
    Quota = 1
SPECIFICATION FairEvent
\* every raiser and every waiter comes to an end
CHECK_DEADLOCK FALSE
PROPERTIES Sticky WakesAll
