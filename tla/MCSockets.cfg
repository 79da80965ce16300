CONSTANTS
  x = x
  y = y
  Ends <- MCEnds
  Plans <- MCPlans
  Capacity = 1
  MaxErrors = 2
SPECIFICATION FairSpec
INVARIANTS ReceivedInOrder ReadyMeansFilled NoLostWakeup
PROPERTIES ImplementsDuplex JoinReturns Delivered
CHECK_DEADLOCK FALSE
