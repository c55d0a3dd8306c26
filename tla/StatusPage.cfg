SPECIFICATION FairSpec
CONSTANTS
  Calls = {c1, c2, c3}
  MaxFails = 2
PROPERTY SuccessStays
CHECK_DEADLOCK FALSE
