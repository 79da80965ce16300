CONSTANTS
  Jobs <- MCJobs
  Capacity = 1
  Attempts = 2
SPECIFICATION FairSpec
INVARIANTS Result NoOverlap
PROPERTIES Finishes
CHECK_DEADLOCK FALSE
