CONSTANTS
  Sizes <- MCSizes
  Places <- MCPlaces
  Settings <- MCSettings
  Aero = {TRUE, FALSE}
SPECIFICATION Spec
INVARIANTS
  StatusAsDocumented
\* The parent window comes to its end.
CHECK_DEADLOCK FALSE
