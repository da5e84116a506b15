\* Two windows, two clients, every system call may fail.
SPECIFICATION Spec
CONSTANTS
  w1 = w1
  w2 = w2
  c1 = c1
  c2 = c2
  Windows <- TwoWindows
  Clients <- TwoClients
  ApiResults = {TRUE, FALSE}
  MaxPending = 1
SYMMETRY Perms
INVARIANTS
  IInv
  ListMatchesSet
  EraseInRange
  NoConflictingAccess
  NoMissedChange
PROPERTIES
  FreedAfterQuit
  NotifiesChanges
