SPECIFICATION Spec
CONSTANTS
  Ws = {s1, s2}
  Panes = {p1, p2, p3}
  Tabs = {t1, t2, t3}
  None = None
  Across = TRUE
CHECK_DEADLOCK FALSE
INVARIANT TabsTracked
