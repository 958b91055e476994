CONSTANTS
  MaxPanes = 3
  MaxTabs = 1
  Modes = {"classic", "strip"}
  Inputs = {"dialog"}
SPECIFICATION Spec
CHECK_DEADLOCK FALSE
INVARIANTS
  ScreenAgrees
  PrimaryIsFirst
PROPERTIES
  ConfirmClosesAsked
