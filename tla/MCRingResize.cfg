SPECIFICATION Spec
CONSTANTS
    Capacity = 2
    Capacities = {1, 2}
    Batches = {1, 3}
    WhileAttached = TRUE
    MaxPushes = 2
    MaxCrashes = 2
INVARIANT AttachedGeometry
CHECK_DEADLOCK FALSE
