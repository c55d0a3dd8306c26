SPECIFICATION Spec
CONSTANTS
  MaxMoves = 2
  MaxTroubles = 1
  Bookings = {b1}
  Nobody = Nobody
  ListCalls = {c1, c2}
  Durations = {1, 2}
  MaxPresses = 3
  Dates = {d1, d2}
  Slots = {s1}
  NoDate = NoDate
  NoSlot = NoSlot
  Orders = {o1, o2}
  NoOrder = NoOrder
  OfferClicks = 4
  Calls = {c1, c2}
  MaxClicks = 4
  MaxFails = 1
  StatusCalls = {c1, c2, c3}
  StatusFails = 2
CHECK_DEADLOCK FALSE
INVARIANTS
  PageFitsUser
  KeepsPlace
  AcceptedAsShown
  OwnChangesShown
  AsksForOfferedSlots
  OneRequestPerVisit
  OrdersAreShown
PROPERTIES
  Settles
  WaitingEnds
