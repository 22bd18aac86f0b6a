\* Three transactions of any kind at once.
CONSTANTS
  Process = {p1, p2, p3}
  Occ = {1, 2, 3, 4}
  Row = {1, 2, 3, 4, 5, 6, 7}
  OccOf <- MCOccOf
  Sent = {1, 3}
  Planned = {1, 2, 4, 7}
  Fresh = {1, 2}
  Entry = {1, 2, 3}
  EntryOf <- MCEntryOf
  Routines = {2, 3}
  Unfolds = {1, 2}
SYMMETRY Alike
SPECIFICATION Spec
INVARIANT CyclesExplained
CHECK_DEADLOCK FALSE
