CONSTANTS
  MaxPanes = 3
  MaxTabs = 1
  Modes = {"strip"}
  Inputs = {"pane.close", "zoom"}
SPECIFICATION Spec
CHECK_DEADLOCK FALSE
INVARIANTS
  ColumnsSound
  ActiveIsFocused
  ScreenAgrees
