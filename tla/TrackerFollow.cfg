CONSTANTS
  p1 = p1
  p2 = p2
  iconic = iconic
  monitor = monitor
  speck = speck
  empty = empty
  Places <- TwoPlaces
  Iconic <- iconic
  Monitor <- monitor
  Speck <- speck
  Empty <- empty
  Options <- MCOptions
  MaxDelay = 2
  MaxEvents = 3
SPECIFICATION FairSpec
INVARIANTS
  FrameSettles
  HiddenNotFramed
  ConsoleFramed
PROPERTIES
  FrameLeaves
  ConsoleReappears
\* A window that is gone raises no more events.
CHECK_DEADLOCK FALSE
