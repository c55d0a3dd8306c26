SPECIFICATION FairSpec
CONSTANTS
  Browsers = {b1}
  TabIds = {t1}
  Calls = {c1, c2}
  Tokens = {k1, k2, k3}
  NoToken = NoToken
  Links = {l1}
  MaxLogins = 2
  MaxEnds = 1
CHECK_DEADLOCK FALSE
INVARIANTS
  SessionContinues
  
  EndedForGood
PROPERTY EveryCallReturns
SYMMETRY Symmetry
