\* One window and two clients under FairSpec; no symmetry, as TLC asks for
\* liveness.
SPECIFICATION FairSpec
CONSTANTS
  w1 = w1
  w2 = w2
  c1 = c1
  c2 = c2
  Windows <- OneWindow
  Clients <- TwoClients
  ApiResults = {TRUE}
  MaxPending = 3
INVARIANTS
  ShownIsListed
PROPERTIES
  DestructorReturns
  ShownEventuallyListed
