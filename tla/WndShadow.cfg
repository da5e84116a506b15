CONSTANTS
  Sizes <- MCSizes
  Places <- MCPlaces
  Settings <- MCSettings
  Aero = {TRUE, FALSE}
SPECIFICATION Spec
INVARIANTS
  ShownMatchesStatus
  ShownInPlace
  FreshShadow
\* The parent window comes to its end.
CHECK_DEADLOCK FALSE
