SPECIFICATION MCSpec
CONSTANTS
  Terminals = {t1, t2}
  Addresses = {a1, a2}
  None = None
  Clients = {c1, c2}
  NumWs = 2
  MaxPanes = 5
  Attempts = 2
CHECK_DEADLOCK FALSE
INVARIANTS
  PromiseKept
  SettledOnce
  
  
  
PROPERTIES
  DeadDoNotWrite
  SettledOrAsked
  DialogGoes
  CommandsEnd
