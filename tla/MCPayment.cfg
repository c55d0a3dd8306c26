SPECIFICATION Spec
CONSTANTS
  Orders = {o1, o2}
  Plans = {"PREMIUM_MONTHLY", "PREMIUM_ANNUAL", "BOOST"}
  NoOrder = NoOrder
  Callers = {c1, c2}
  Admins = {a1}
  Cron = cron
  MonthlyDays = 1
  AnnualDays = 2
  BoostDays = 1
  Cooldown = 2
  MaxDay = 2
  MaxFailures = 1
INVARIANTS OnePendingPerPlan GrantedOnce PremiumMatchesSubscription
SYMMETRY Symmetry
CHECK_DEADLOCK FALSE
