\* What the exception of the constructor says.
SPECIFICATION Spec
CONSTANTS
  l1 = l1
  l2 = l2
  l3 = l3
  t1 = t1
  t2 = t2
  Lists <- ThreeLists
  Threads <- TwoThreads
SYMMETRY Perms
INVARIANTS
  OneListPerThread
CHECK_DEADLOCK FALSE
