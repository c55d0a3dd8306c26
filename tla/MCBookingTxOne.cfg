SPECIFICATION Spec
CONSTANTS
  Bookings = {b1, b2}
  Pros = {p1}
  Workers = {w1}
  NoBooking = NoBooking
  Hour = 2
  Day = 6
  StartMin = 0
  EndMin = 6
  Starts = {1, 2, 3}
  MaxDuration = 2
  LateNotice = 1
  ExpiryDelay = 1
  MaxTime = 5
  HourMayPass = FALSE
  MaxFailures = 0
PROPERTY ImplementsBooking
CHECK_DEADLOCK FALSE
