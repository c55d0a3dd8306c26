------------------------------ MODULE Payment ------------------------------
(***************************************************************************)
(* PaymentService and SubscriptionExpirationService, statement by          *)
(* statement, for one professional: the orders, flags and boosts of two    *)
(* professionals share nothing, the pending key contains the user's id and *)
(* the cron treats every profile alike.                                    *)
(*                                                                         *)
(* The professional orders a plan (initiatePayment), pays outside the      *)
(* platform, and an administrator confirms or rejects the order, which     *)
(* activates the plan.  Each request is a worker with a program counter;   *)
(* one statement of the code is one step, and only activatePlan opens a    *)
(* transaction.  Dates are days.                                           *)
(***************************************************************************)
EXTENDS Integers, Sequences, FiniteSets

CONSTANTS
  Orders,          \* the payment orders the professional may ever create
  Plans,           \* the plans on sale: PAYMENT_PLANS, or some of them
  NoOrder,         \* what a request that names no order is about
  Callers,         \* requests of the professional in flight at once
  Admins,          \* requests of administrators in flight at once
  Cron,            \* the worker that runs expireSubscriptions
  MonthlyDays, AnnualDays,          \* durationDays of the premium plans
  BoostDays,                        \* BOOST_ACTIVE_DAYS
  Cooldown,                         \* BOOST_COOLDOWN_DAYS
  MaxDay,          \* bound on the clock
  MaxFailures      \* bound on the requests that fail half-way

ASSUME PaymentAssumption ==
  /\ NoOrder \notin Orders
  /\ Plans \subseteq {"PREMIUM_MONTHLY", "PREMIUM_ANNUAL", "BOOST"}
  /\ Cron \notin Callers \cup Admins /\ Callers \cap Admins = {}
  /\ {MonthlyDays, AnnualDays, BoostDays, Cooldown} \subseteq Nat \ {0}
  /\ MaxDay \in Nat /\ MaxFailures \in Nat

VARIABLES
  orders,     \* the PaymentOrder table
  profile,    \* isPremium, premiumActiveUntil and boostActiveUntil of ProProfile
  subs,       \* endedAt of the ProSubscription rows, which all stay ACTIVE
  lastBoost,  \* createdAt of the last ProBoost row
  today,      \* the clock
  req,        \* req[w]: what worker w is doing
  failures,   \* requests that failed half-way so far
  unfinished, \* history: the orders whose request failed between payment and activation
  granted     \* history: how many times each order activated its plan

tables == <<orders, profile, subs, lastBoost>>
vars == <<tables, today, req, failures, unfinished, granted>>

Workers == Callers \cup Admins \cup {Cron}
Null == -1
Dates == Nat \cup {Null}

\* PAYMENT_PLANS: how many days a plan lasts.
durationDays(plan) == CASE plan = "PREMIUM_MONTHLY" -> MonthlyDays
                        [] plan = "PREMIUM_ANNUAL" -> AnnualDays
                        [] OTHER -> BoostDays

\* A PaymentOrder; key: whether it holds the pending key of its plan, which is unique.
Order(status, plan, key) == [status |-> status, plan |-> plan, key |-> key]
Absent == Order("ABSENT", "BOOST", FALSE)

\* sub: the subscription that the request found, 0 for none.
Request(pc, plan, order, at, sub) ==
  [pc |-> pc, plan |-> plan, order |-> order, at |-> at, sub |-> sub]
Idle == Request("idle", "BOOST", NoOrder, 0, 0)

\* A professional may come with an order from before pending keys existed, and
\* with a premium flag that has no end.
Init ==
  /\ \/ orders = [o \in Orders |-> Absent]
     \/ \E l \in Orders, p \in Plans :
          orders = [o \in Orders |-> IF o = l THEN Order("PENDING", p, FALSE) ELSE Absent]
  /\ \E b \in BOOLEAN :
       profile = [isPremium |-> b, premiumUntil |-> Null, boostUntil |-> Null]
  /\ subs = <<>> /\ lastBoost = Null
  /\ today = 0
  /\ req = [w \in Workers |-> Idle]
  /\ failures = 0 /\ unfinished = {}
  /\ granted = [o \in Orders |-> 0]

At(w, pc) == req[w].pc = pc
Goto(w, pc) == req' = [req EXCEPT ![w].pc = pc]
Finish(w) == req' = [req EXCEPT ![w] = Idle]
Reads == UNCHANGED <<tables, today, failures, unfinished, granted>>

-----------------------------------------------------------------------------
\* initiatePayment

hasActivePremium ==
  profile.premiumUntil > today \/ (profile.isPremium /\ profile.premiumUntil = Null)

\* A checkout that has passed the checks: a boost goes on with its cooldown.
Checkout(p) == IF p = "BOOST" THEN Request("cooldown", p, NoOrder, today, 0)
                              ELSE Request("lookup", p, NoOrder, 0, 0)

\* findUnique of the profile, and the checks it allows: no premium plan while one
\* runs, none while a boost runs, no boost while a premium plan runs.
BeginInitiate(w, p) ==
  /\ At(w, "idle")
  /\ ~hasActivePremium
  /\ p # "BOOST" => profile.boostUntil <= today
  /\ req' = [req EXCEPT ![w] = Checkout(p)]
  /\ Reads

\* findFirst of the last boost; the handler throws while it is too recent.
CheckCooldown(w) ==
  /\ At(w, "cooldown")
  /\ IF lastBoost # Null /\ req[w].at - lastBoost < Cooldown
     THEN Finish(w)
     ELSE req' = [req EXCEPT ![w] = Request("lookup", @.plan, NoOrder, 0, 0)]
  /\ Reads

PendingOf(plan) == {o \in Orders : orders[o].status = "PENDING" /\ orders[o].plan = plan}

KeyHolders(plan) == {o \in Orders : orders[o].key /\ orders[o].plan = plan}

\* findFirst of the pending order of the plan, which is reused.
Lookup(w) ==
  /\ At(w, "lookup")
  /\ IF PendingOf(req[w].plan) = {} THEN Goto(w, "create")
     ELSE \E o \in PendingOf(req[w].plan) :
            IF orders[o].key THEN Finish(w)
            ELSE req' = [req EXCEPT ![w] = Request("adopt", @.plan, o, 0, 0)]
  /\ Reads

\* updateMany of an order without key, if it is still pending and still has none;
\* the violation of the unique key is swallowed.
Adopt(w) ==
  LET o == req[w].order
  IN  /\ At(w, "adopt")
      /\ orders' = IF /\ orders[o].status = "PENDING" /\ ~orders[o].key
                      /\ KeyHolders(req[w].plan) = {}
                   THEN [orders EXCEPT ![o] = Order("PENDING", @.plan, TRUE)] ELSE orders
      /\ Finish(w)
      /\ UNCHANGED <<profile, subs, lastBoost, today, failures, unfinished, granted>>

\* Mutant: the order is created without its pending key.
CreateWithoutKey(w) ==
  /\ At(w, "create")
  /\ \E o \in Orders :
       /\ orders[o].status = "ABSENT"
       /\ orders' = [orders EXCEPT ![o] = Order("PENDING", req[w].plan, FALSE)]
  /\ Finish(w)
  /\ UNCHANGED <<profile, subs, lastBoost, today, failures, unfinished, granted>>

\* create with the pending key.  When another order holds the key the insertion
\* fails, and that order is reused.  Orders bounds the insertions.
Create(w) ==
  /\ At(w, "create")
  /\ IF KeyHolders(req[w].plan) # {} THEN orders' = orders
     ELSE \E o \in Orders :
            /\ orders[o].status = "ABSENT"
            /\ orders' = [orders EXCEPT ![o] = Order("PENDING", req[w].plan, TRUE)]
  /\ Finish(w)
  /\ UNCHANGED <<profile, subs, lastBoost, today, failures, unfinished, granted>>

-----------------------------------------------------------------------------
\* confirmPayment, rejectPayment and activatePlan

\* Mutant: the order may be paid already.
BeginConfirmAny(w, o) ==
  /\ At(w, "idle") /\ orders[o].status # "ABSENT"
  /\ req' = [req EXCEPT ![w] = Request("pay", orders[o].plan, o, 0, 0)]
  /\ Reads

\* findUnique: only a paid order is refused, a rejected one may be confirmed.
BeginConfirm(w, o) ==
  /\ At(w, "idle") /\ orders[o].status \in {"PENDING", "FAILED"}
  /\ req' = [req EXCEPT ![w] = Request("pay", orders[o].plan, o, 0, 0)]
  /\ Reads

\* Mutant: the handler answers without activating the plan.
PayOnly(w) ==
  /\ At(w, "pay")
  /\ orders' = [orders EXCEPT ![req[w].order] = Order("PAID", @.plan, FALSE)]
  /\ Finish(w)
  /\ UNCHANGED <<profile, subs, lastBoost, today, failures, unfinished, granted>>

\* update by reference, whatever the status has become.
Pay(w) ==
  /\ At(w, "pay")
  /\ orders' = [orders EXCEPT ![req[w].order] = Order("PAID", @.plan, FALSE)]
  /\ req' = [req EXCEPT ![w] =
       Request(IF @.plan = "BOOST" THEN "boost" ELSE "subscribe", @.plan, @.order, today, 0)]
  /\ UNCHANGED <<profile, subs, lastBoost, today, failures, unfinished, granted>>

Grant(o) == granted' = [granted EXCEPT ![o] = @ + 1]

\* activatePlan of a boost: one row is created and the profile updated.
ActivateBoost(w) ==
  /\ At(w, "boost")
  /\ lastBoost' = today
  /\ profile' = [profile EXCEPT !.boostUntil = req[w].at + BoostDays]
  /\ Grant(req[w].order)
  /\ Finish(w)
  /\ UNCHANGED <<orders, subs, today, failures, unfinished>>

\* activatePlan of a premium plan: findFirst of an active subscription ...
FindSubscription(w) ==
  /\ At(w, "subscribe")
  /\ \E s \in IF subs = <<>> THEN {0} ELSE DOMAIN subs :
       req' = [req EXCEPT ![w] = Request("activate", @.plan, @.order, @.at, s)]
  /\ Reads

endsAt(w) == req[w].at + durationDays(req[w].plan)

\* Mutant: an active subscription is left as it is.
ActivateProfileOnly(w) ==
  /\ At(w, "activate")
  /\ subs' = IF req[w].sub = 0 THEN Append(subs, endsAt(w)) ELSE subs
  /\ profile' = [profile EXCEPT !.isPremium = TRUE, !.premiumUntil = endsAt(w)]
  /\ Grant(req[w].order)
  /\ Finish(w)
  /\ UNCHANGED <<orders, lastBoost, today, failures, unfinished>>

\* ... which is updated, or one is created, and the profile with it: the
\* transaction commits when the profile is written.
ActivatePremium(w) ==
  /\ At(w, "activate")
  /\ subs' = IF req[w].sub = 0 THEN Append(subs, endsAt(w))
             ELSE [subs EXCEPT ![req[w].sub] = endsAt(w)]
  /\ profile' = [profile EXCEPT !.isPremium = TRUE, !.premiumUntil = endsAt(w)]
  /\ Grant(req[w].order)
  /\ Finish(w)
  /\ UNCHANGED <<orders, lastBoost, today, failures, unfinished>>

BeginReject(w, o) ==
  /\ At(w, "idle") /\ orders[o].status = "PENDING"
  /\ req' = [req EXCEPT ![w] = Request("reject", orders[o].plan, o, 0, 0)]
  /\ Reads

\* update by reference, whatever the status has become.
Reject(w) ==
  /\ At(w, "reject")
  /\ orders' = [orders EXCEPT ![req[w].order] = Order("FAILED", @.plan, FALSE)]
  /\ Finish(w)
  /\ UNCHANGED <<profile, subs, lastBoost, today, failures, unfinished, granted>>

-----------------------------------------------------------------------------
\* expireSubscriptions, the hourly cron: two updateMany with the date of its start.
BeginExpire ==
  /\ At(Cron, "idle")
  /\ req' = [req EXCEPT ![Cron] = Request("expire_premium", "BOOST", NoOrder, today, 0)]
  /\ Reads

Past(date, at) == date # Null /\ date < at

\* Mutant: the cron clears the flag and keeps the date.
ExpirePremiumFlag ==
  /\ At(Cron, "expire_premium")
  /\ profile' = IF profile.isPremium /\ Past(profile.premiumUntil, req[Cron].at)
                THEN [profile EXCEPT !.isPremium = FALSE] ELSE profile
  /\ Goto(Cron, "expire_boost")
  /\ UNCHANGED <<orders, subs, lastBoost, today, failures, unfinished, granted>>

ExpirePremium ==
  /\ At(Cron, "expire_premium")
  /\ profile' = IF profile.isPremium /\ Past(profile.premiumUntil, req[Cron].at)
                THEN [profile EXCEPT !.isPremium = FALSE, !.premiumUntil = Null]
                ELSE profile
  /\ Goto(Cron, "expire_boost")
  /\ UNCHANGED <<orders, subs, lastBoost, today, failures, unfinished, granted>>

ExpireBoost ==
  /\ At(Cron, "expire_boost")
  /\ profile' = IF Past(profile.boostUntil, req[Cron].at)
                THEN [profile EXCEPT !.boostUntil = Null] ELSE profile
  /\ Finish(Cron)
  /\ UNCHANGED <<orders, subs, lastBoost, today, failures, unfinished, granted>>

-----------------------------------------------------------------------------
\* The server stops or loses the database between two statements of a request.
Fail(w) ==
  /\ ~At(w, "idle") /\ failures < MaxFailures
  /\ Finish(w)
  /\ failures' = failures + 1
  /\ unfinished' = IF req[w].pc \in {"boost", "subscribe", "activate"}
                   THEN unfinished \cup {req[w].order} ELSE unfinished
  /\ UNCHANGED <<tables, today, granted>>

Tick ==
  /\ today < MaxDay
  /\ today' = today + 1
  /\ UNCHANGED <<tables, req, failures, unfinished, granted>>

Step(w) ==
  \/ CheckCooldown(w) \/ Lookup(w) \/ Adopt(w) \/ Create(w)
  \/ Pay(w) \/ ActivateBoost(w) \/ FindSubscription(w) \/ ActivatePremium(w)
  \/ Reject(w)

Next ==
  \/ \E w \in Callers, p \in Plans : BeginInitiate(w, p)
  \/ \E w \in Admins, o \in Orders : BeginConfirm(w, o) \/ BeginReject(w, o)
  \/ \E w \in Workers : Step(w) \/ Fail(w)
  \/ BeginExpire \/ ExpirePremium \/ ExpireBoost
  \/ Tick

Spec == Init /\ [][Next]_vars

\* The server goes on with the requests it has begun and runs the cron; days pass.
FairSpec ==
  /\ Spec
  /\ \A w \in Workers : WF_vars(Step(w))
  /\ WF_vars(BeginExpire \/ ExpirePremium \/ ExpireBoost)
  /\ WF_vars(Tick)

-----------------------------------------------------------------------------
Requests ==
  [pc : {"idle", "cooldown", "lookup", "adopt", "create", "pay", "boost", "subscribe",
         "activate", "reject", "expire_premium", "expire_boost"},
   plan : Plans \cup {"BOOST"}, order : Orders \cup {NoOrder}, at : Nat, sub : Nat]

\* Every column and every request holds a value of its type.
TypeOK ==
  /\ orders \in [Orders -> [status : {"ABSENT", "PENDING", "PAID", "FAILED"},
                            plan : Plans \cup {"BOOST"}, key : BOOLEAN]]
  /\ profile \in [isPremium : BOOLEAN, premiumUntil : Dates, boostUntil : Dates]
  /\ subs \in Seq(Nat) /\ lastBoost \in Dates
  /\ today \in 0..MaxDay /\ failures \in 0..MaxFailures
  /\ req \in [Workers -> Requests] /\ unfinished \subseteq Orders \cup {NoOrder}
  /\ granted \in [Orders -> Nat]

\* However many checkouts run at once, and whatever becomes of the orders, a plan
\* has one pending order at most: the pending key, the search that precedes it and
\* the adoption of orders without key never let a second one in.
OnePendingPerPlan ==
  \A o1, o2 \in Orders :
    /\ orders[o1].status = "PENDING" /\ orders[o2].status = "PENDING"
    /\ orders[o1].plan = orders[o2].plan
    => o1 = o2

\* The pending key is given back with the status: an order that is closed never
\* keeps the professional from ordering the plan again.
KeyOnlyWhilePending == \A o \in Orders : orders[o].key => orders[o].status = "PENDING"

\* While one administrator works at a time, an order activates its plan once: not
\* again when it is confirmed twice, nor when it was rejected before.
GrantedOnce == \A o \in Orders : granted[o] <= 1

\* The flag the site reads and the subscription rows tell the same end, through
\* renewals, overlapping orders and the cron.
PremiumMatchesSubscription ==
  profile.premiumUntil # Null =>
    profile.isPremium /\ \E s \in DOMAIN subs : subs[s] = profile.premiumUntil

\* An order that is paid gets its plan, unless the very request that set it to PAID
\* failed before it activated the plan: the order is set to PAID outside the transaction
\* of the activation, and a paid order cannot be confirmed again.  No other checkout, no
\* rejection, no cron and no failure of another request keeps the plan from it.
PaidIsActivated ==
  \A o \in Orders :
    orders[o].status = "PAID" ~> (granted[o] > 0 \/ o \in unfinished)

\* Premium and boost end by themselves once their date is past, or were renewed.
EntitlementsEnd ==
  /\ Past(profile.premiumUntil, today) ~> ~Past(profile.premiumUntil, today)
  /\ Past(profile.boostUntil, today) ~> ~Past(profile.boostUntil, today)

=============================================================================
