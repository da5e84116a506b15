CONSTANTS
  Intervals <- MCIntervals
  MaxCount = 3
SPECIFICATION FairSpec
INVARIANTS
  AtMostOneLateTrigger
  AtMostOneStaleWait
  NoThreadAfterDestroy
PROPERTY DestructorReturns
\* The owner may leave the timer alone, and a destroyed one has stopped.
CHECK_DEADLOCK FALSE
