SPECIFICATION Spec
CONSTANTS
  People = {p1, p2}
  Phones = {n1, n2}
  Cins = {i1, i2}
  Files = {f1, f2}
  Null = Null
  Requests = {w1, w2}
  Attempts = {a1, a2, a3}
  MAX_ATTEMPTS = 3
  LOCKOUT = 2
  Categories = {s1, s2}
  Saves = {e1, e2}
  Uploads = {u1, u2}
  FREE_SERVICES_MAX = 1
  PREMIUM_SERVICES_MAX = 2
  PORTFOLIO_MAX = 1
  Links = {l1, l2, l3}
  NoLink = NoLink
  Rows = {r1, r2}
  Good = {g1, g2}
  Bad = bad
  FreeMax = 1
  MaxEdits = 2
  Values = {v1, v2}
  Pictures = {x1, x2}
  Calls = {c1, c2}
  MaxClicks = 4
  MaxFails = 2
CHECK_DEADLOCK FALSE
INVARIANTS
  CinSharedOnlyByOverlap
  DossierOnDisk
  DossierComplete
  AttemptsBounded
  ServicesFollowPlan
  PortfolioBounded
  PendingCanConfirm
  ProfileShown
PROPERTIES
  LockEnds
  FormComesBack
  RejectedResubmits
SYMMETRY Symmetry
