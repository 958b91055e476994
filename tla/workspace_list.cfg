SPECIFICATION MCSpec
CONSTANTS
  Workspaces = {w1, w2, w3}
  NoWs = NoWs
  MaxLen = 3
  MaxNotes = 1
  MaxDeletes = 1
  Ws = {s1, s2}
  Panes = {p1, p2, p3}
  Tabs = {t1, t2, t3, t4}
  None = None
  Across = FALSE
SYMMETRY WorkspaceSymmetry
INVARIANTS
  ShowsCurrent
  PanesFilled
  FlashTicks
  FlagFits
PROPERTIES
  NotificationsFollow
  CurrentSurvives
  ButtonClosesAsked
