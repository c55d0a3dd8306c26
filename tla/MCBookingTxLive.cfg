SPECIFICATION FairSpec
CONSTANTS
  Bookings = {b1, b2}
  Pros = {p1}
  Workers = {w1, w2}
  NoBooking = NoBooking
  Hour = 1
  Day = 4
  StartMin = 0
  EndMin = 4
  Starts = {1}
  MaxDuration = 1
  LateNotice = 1
  ExpiryDelay = 0
  MaxTime = 2
  HourMayPass = TRUE
  MaxFailures = 0
PROPERTIES EveryRequestReturns EveryBookingIsClosed
CHECK_DEADLOCK FALSE
