SPECIFICATION MCSpec
CONSTANTS
  Ws = {w1, w2}
  Terms = {t1, t2}
  Dirs = {a, b}
  NoWs = NoWs
  NoDir = NoDir
  MaxReads = 3
  MaxSerial = 2
  IconTerms = {i1, i2}
  Firsts = {i1}
  Roots = {r1, r2}
  Files = {f1}
  NoRoot = NoRoot
  NoIcon = NoIcon
  NoTerm = NoTerm
  Unknown = Unknown
  MaxIdles = 2
SYMMETRY Symmetry
CHECK_DEADLOCK FALSE
INVARIANTS
  AnswersAreCurrent
  Settled
  OneSearch
PROPERTIES
  ImplementsLatest
  IconImplementsLatest
  ListenersCalled
