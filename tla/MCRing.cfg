SPECIFICATION Spec
CONSTANTS
    Capacity = 2
    Capacities = {1, 3}
    Batches = {0, 1, 3}
    WhileAttached = FALSE
    MaxPushes = 6
    MaxCrashes = 2
INVARIANTS InOrder Unread
PROPERTY ImplementsFifo
CHECK_DEADLOCK FALSE
