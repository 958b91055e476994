SPECIFICATION MCSpec
CONSTANTS
  Procs = {p1, p2}
  Workspaces = {w1}
  MaxSlot = 2
  MaxCrashes = 2
  Sharing = FALSE
  Blank = Blank
  None = None
  Stale = Stale
  Modes = {"classic", "strip"}
  MaxPanes = 3
  MaxSerial = 4
  MaxChanges = 3
CHECK_DEADLOCK FALSE
INVARIANTS
  NothingLost
  OneHome
  ComesBack
PROPERTIES
  MovesEnd
  SavedInTime
  ChangesSaved
