SPECIFICATION Spec
CONSTANTS
    Threads = {t1, t2}
    Buffers = {b1, b2, b3}
    Sizes = {0, 1, 2, 3}
    Limits = {0, 2, 7}
    PageSize = 1
    MaxFailures = 1
    Null = Null
SYMMETRY Symmetry
INVARIANTS OwnedOnce ListMatchesPool CacheCounted ActiveCoversHeld OldestFirst
