SPECIFICATION TeamSpec
CONSTANTS
  Clients = {c1}
  NumWs = 1
  MaxPanes = 3
  Attempts = 2
CHECK_DEADLOCK FALSE
INVARIANT TextReachesPane
