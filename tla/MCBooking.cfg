\* Slots on the hour, one pro, two days of four hours.
SPECIFICATION Spec
CONSTANTS
  Bookings = {b1, b2, b3}
  Pros = {p1}
  Hour = 1
  Day = 4
  StartMin = 0
  EndMin = 4
  Starts = {1, 2, 3, 4}
  MaxDuration = 3
  LateNotice = 2
  ExpiryDelay = 2
  MaxTime = 7
SYMMETRY Symmetry
INVARIANTS NoRivalOfConfirmed ConsentToNewDuration
           HistoryMatchesStatus EarlyCompletionHasSuccessor OfferedSlotsAreFree
CHECK_DEADLOCK FALSE
