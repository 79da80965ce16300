SPECIFICATION Spec
CONSTANTS
    c1 = c1
    c2 = c2
    s1 = s1
    Callers <- TwoCallers
    Streams <- OneStream
    MaxTasks = 2
    MaxThreads = 2
INVARIANTS ActiveExact NoLostWakeup
PROPERTIES ImplementsQueues WaitForOneReturns
CHECK_DEADLOCK FALSE
