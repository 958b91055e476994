CONSTANTS
  MaxPanes = 3
  MaxTabs = 1
  Modes = {"strip"}
  Inputs = {}
SPECIFICATION Spec
CHECK_DEADLOCK FALSE
INVARIANT
  ColumnsListScreen
