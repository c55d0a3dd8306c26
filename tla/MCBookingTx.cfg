SPECIFICATION Spec
CONSTANTS
  Bookings = {b1, b2}
  Pros = {p1}
  Workers = {w1, w2}
  NoBooking = NoBooking
  Hour = 1
  Day = 4
  StartMin = 0
  EndMin = 4
  Starts = {1, 2}
  MaxDuration = 2
  LateNotice = 1
  ExpiryDelay = 1
  MaxTime = 3
  HourMayPass = TRUE
  MaxFailures = 1
SYMMETRY Symmetry
INVARIANTS StampsMatchEvents DoubleBookingOnlyByOverlap
PROPERTY NothingReopens
CHECK_DEADLOCK FALSE
