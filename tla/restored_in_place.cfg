SPECIFICATION PanesSpec
CONSTANTS
  Modes = {"classic"}
  MaxPanes = 3
  MaxSerial = 4
CHECK_DEADLOCK FALSE
INVARIANTS InPlace
