\* Two requests at once, no failure: do both pros' answers exclude each other?
SPECIFICATION Spec
CONSTANTS
  Bookings = {b1, b2}
  Pros = {p1}
  Workers = {w1, w2}
  NoBooking = NoBooking
  Hour = 1
  Day = 4
  StartMin = 0
  EndMin = 4
  Starts = {1, 2}
  MaxDuration = 2
  LateNotice = 1
  ExpiryDelay = 1
  MaxTime = 3
  MaxFailures = 0
  HourMayPass = FALSE
INVARIANT NoDoubleBooking
CHECK_DEADLOCK FALSE
