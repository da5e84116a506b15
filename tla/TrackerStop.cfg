CONSTANTS
  Callers = {c1, c2}
  c1 = c1
  c2 = c2
  MaxRounds = 2
SPECIFICATION FairSpec
PROPERTY StopQuitsQueue
\* A stop can wait for ever, and a freed object is at its end.
CHECK_DEADLOCK FALSE
