\* A program may end: no list, pointer or camera is left, or a null pointer
\* was dereferenced.
SPECIFICATION MCSpec
CONSTANTS
  l1 = l1
  l2 = l2
  l3 = l3
  t1 = t1
  t2 = t2
  p1 = p1
  p2 = p2
  p3 = p3
  i1 = i1
  i2 = i2
  b1 = b1
  b2 = b2
  b3 = b3
  u1 = u1
  u2 = u2
  o1 = o1
  o2 = o2
  Lists <- ThreeLists
  Threads <- TwoThreads
  Pointers <- ThreePointers
  Interfaces <- TwoInterfaces
  Blocks <- ThreeBlocks
  Uniques <- TwoUniques
  Things <- TwoThings
  MaxCameras = 3
  Cpus <- MCCpus
INVARIANTS
  EveryWorkerHasWindow
  DxInv
  NoDanglingPtr
  NoLostObject
  OneOwner
  StopFreesOneCapture
  BoundUseIsSafe
  InitAllOrNothing
  ConstructorReleases
  ReadsItsBuffer
PROPERTIES
  DxPtrOwns
  UniquePtrOwns
  ClockReturns
CHECK_DEADLOCK FALSE
