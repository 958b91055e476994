CONSTANTS
  MaxPanes = 3
  MaxTabs = 2
  Modes = {"classic"}
  Inputs = {"pane.split", "pane.close", "zoom"}
SPECIFICATION FairSpec
CHECK_DEADLOCK FALSE
INVARIANTS
  HiddenByZoom
  TreesWhole
PROPERTIES
  EmptyPaneGoes
