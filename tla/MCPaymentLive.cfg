SPECIFICATION FairSpec
CONSTANTS
  Orders = {o1, o2}
  Plans = {"PREMIUM_MONTHLY", "BOOST"}
  NoOrder = NoOrder
  Callers = {c1}
  Admins = {a1}
  Cron = cron
  MonthlyDays = 1
  AnnualDays = 2
  BoostDays = 1
  Cooldown = 2
  MaxDay = 3
  MaxFailures = 1

PROPERTIES PaidIsActivated EntitlementsEnd
CHECK_DEADLOCK FALSE
