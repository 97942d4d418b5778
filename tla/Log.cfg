CONSTANTS
    Loggers = {first, second, third}
    First = first
    Rivals = {first, second}
    Nil = Nil
    MaxMessages = 2
SPECIFICATION FairSpec
\* the threads end
CHECK_DEADLOCK FALSE
INVARIANTS FirstUseSafe LogInOrder
PROPERTY AllRendered
