\* What the comment in the filter says.
SPECIFICATION CwSpec
CONSTANTS
  w1 = w1
  w2 = w2
  Windows <- TwoWindows
INVARIANTS
  PopupRule
