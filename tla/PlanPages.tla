----------------------------- MODULE PlanPages ------------------------------
(***************************************************************************)
(* The two pages that start a payment: the offers (plans), with a          *)
(* PaymentButton for Premium and one for Boost, and the subscription page  *)
(* of the dashboard, which goes on to the status of the order.  The user   *)
(* moves between them while a checkout is in flight: its answer then finds *)
(* another page.  The orders are those of Payment, where a pending order   *)
(* of the same plan is used again.                                         *)
(***************************************************************************)
EXTENDS Naturals

CONSTANTS
  Orders,    \* bound: orders created
  NoOrder,
  Calls,     \* bound: checkouts in flight
  MaxClicks, \* bound: what the professional does
  MaxFails   \* bound: answers that are lost

VARIABLES
  order,                    \* the server: plan and status of the orders made
  page,                     \* offers, hub, status, elsewhere
  isAnnual, target,         \* the offers: the choices
  isLoading, cooling, timer, modal,  \* its buttons
  hub,                      \* the state of the subscription page
  call,                     \* the checkouts, and whether the page of each is still there
  seen,                     \* history: orders whose reference was on the screen,
  lost,                     \*   and those whose answer was lost or found its page gone
  clicks, fails

buttonVars == <<isLoading, cooling, timer, modal>>
offersVars == <<isAnnual, target, buttonVars>>
boundVars == <<clicks, fails>>
vars == <<order, page, offersVars, hub, call, seen, lost, boundVars>>

Buttons == {"premium", "boost"}
Plans == {"PREMIUM_MONTHLY", "PREMIUM_ANNUAL", "BOOST"}
NoPlan == "none"
Made == {o \in Orders : order[o].status # "none"}
Pending == {o \in Made : order[o].status = "PENDING"}

Idle == [at |-> "idle"]
InFlight == {c \in Calls : call[c] # Idle}

\* The list of the plans: loading, shown, error.
Hub == [load |-> "loading", pendingOrder |-> NoOrder, activeCheckout |-> NoPlan, lastAttempted |-> NoPlan, error |-> FALSE]

Init ==
  /\ order = [o \in Orders |-> [plan |-> NoPlan, status |-> "none"]] /\ page = "elsewhere"
  /\ isAnnual = FALSE /\ target = FALSE
  /\ isLoading = [b \in Buttons |-> FALSE] /\ cooling = isLoading /\ timer = isLoading
  /\ modal = [b \in Buttons |-> NoOrder]
  /\ hub = Hub /\ call = [c \in Calls |-> Idle]
  /\ seen = {} /\ lost = {} /\ clicks = 0 /\ fails = 0

Click == clicks < MaxClicks /\ clicks' = clicks + 1
Fail == fails < MaxFails /\ fails' = fails + 1

\* A page that is left forgets its state and clears its timers; the router may
\* still be called by what it leaves behind.
Leave(p, calls) ==
  /\ page' = p /\ isAnnual' = FALSE /\ target' = FALSE
  /\ isLoading' = [b \in Buttons |-> FALSE] /\ cooling' = isLoading' /\ timer' = isLoading'
  /\ modal' = [b \in Buttons |-> NoOrder] /\ hub' = Hub
  /\ call' = [c \in Calls |-> IF calls[c] = Idle THEN Idle ELSE [calls[c] EXCEPT !.here = FALSE]]

Go ==
  /\ Click /\ \E p \in {"offers", "hub", "elsewhere"} \ {page} : Leave(p, call)
  /\ UNCHANGED <<order, seen, lost, fails>>

Send(from, plan) ==
  \E c \in Calls \ InFlight :
    call' = [call EXCEPT ![c] = [at |-> "sent", from |-> from, plan |-> plan, order |-> NoOrder, reused |-> FALSE, here |-> TRUE]]

-----------------------------------------------------------------------------
(* The offers, and their buttons. *)
Choose ==
  /\ page = "offers" /\ Click
  /\ \/ isAnnual' = ~isAnnual /\ UNCHANGED target
     \/ target' = ~target /\ UNCHANGED isAnnual
  /\ UNCHANGED <<order, page, buttonVars, hub, call, seen, lost, fails>>

PlanOf(b) == IF b = "boost" THEN "BOOST" ELSE IF isAnnual THEN "PREMIUM_ANNUAL" ELSE "PREMIUM_MONTHLY"
Disabled(b) == isLoading[b] \/ (b = "boost" /\ ~target)

\* Three seconds are to pass between two requests of a button.
handlePayment(b) ==
  /\ page = "offers" /\ ~Disabled(b) /\ ~cooling[b] /\ modal = [a \in Buttons |-> NoOrder] /\ Click
  /\ Send(b, PlanOf(b))
  /\ isLoading' = [isLoading EXCEPT ![b] = TRUE] /\ cooling' = [cooling EXCEPT ![b] = TRUE]
  /\ UNCHANGED <<order, page, isAnnual, target, timer, modal, hub, seen, lost, fails>>

\* Mutant: the instructions are opened only for the plan that is still selected.
ButtonAnsweredSelected(c) ==
  /\ call[c].at \in {"made", "refused"} /\ call[c].from \in Buttons /\ call' = [call EXCEPT ![c] = Idle]
  /\ LET b == call[c].from  o == IF PlanOf(b) = call[c].plan THEN call[c].order ELSE NoOrder IN
     /\ timer' = [timer EXCEPT ![b] = @ \/ call[c].here]
     /\ modal' = [modal EXCEPT ![b] = IF call[c].here THEN o ELSE @]
     /\ seen' = IF call[c].here THEN (seen \cup {o}) \ {NoOrder} ELSE seen
     /\ lost' = IF call[c].here THEN lost ELSE (lost \cup {o}) \ {NoOrder}
  /\ UNCHANGED <<order, page, isAnnual, target, isLoading, cooling, hub, boundVars>>

\* The instructions, with the reference; the button waits for its timer.
ButtonAnswered(c) ==
  /\ call[c].at \in {"made", "refused"} /\ call[c].from \in Buttons /\ call' = [call EXCEPT ![c] = Idle]
  /\ LET b == call[c].from  o == call[c].order IN
     /\ timer' = [timer EXCEPT ![b] = @ \/ call[c].here]
     /\ modal' = [modal EXCEPT ![b] = IF call[c].here /\ o # NoOrder THEN o ELSE @]
     /\ seen' = IF call[c].here THEN (seen \cup {o}) \ {NoOrder} ELSE seen
     /\ lost' = IF call[c].here THEN lost ELSE (lost \cup {o}) \ {NoOrder}
  /\ UNCHANGED <<order, page, isAnnual, target, isLoading, cooling, hub, boundVars>>

CoolDown(b) ==
  /\ cooling[b] /\ cooling' = [cooling EXCEPT ![b] = FALSE]
  /\ UNCHANGED <<order, page, isAnnual, target, isLoading, timer, modal, hub, call, seen, lost, boundVars>>

TimerFires(b) ==
  /\ timer[b] /\ ~cooling[b] /\ timer' = [timer EXCEPT ![b] = FALSE] /\ isLoading' = [isLoading EXCEPT ![b] = FALSE]
  /\ UNCHANGED <<order, page, isAnnual, target, cooling, modal, hub, call, seen, lost, boundVars>>

closeModal(b) ==
  /\ modal[b] # NoOrder /\ modal' = [modal EXCEPT ![b] = NoOrder]
  /\ UNCHANGED <<order, page, isAnnual, target, isLoading, cooling, timer, hub, call, seen, lost, boundVars>>

-----------------------------------------------------------------------------
(* The subscription page. *)

\* The plans and the latest pending order, each with a failure of its own.
loadSubscriptionData(plans, pending) ==
  /\ page = "hub" /\ hub.load = "loading"
  /\ IF plans /\ pending THEN fails' = fails ELSE Fail
  /\ \E o \in IF pending /\ Pending # {} THEN Pending ELSE {NoOrder} :
       /\ hub' = [hub EXCEPT !.load = IF plans THEN "shown" ELSE "error", !.pendingOrder = o]
       /\ seen' = (seen \cup {o}) \ {NoOrder}
  /\ UNCHANGED <<order, page, offersVars, call, lost, clicks>>

RetryLoad ==
  /\ page = "hub" /\ hub.load = "error" /\ Click /\ hub' = [hub EXCEPT !.load = "loading"]
  /\ UNCHANGED <<order, page, offersVars, call, seen, lost, fails>>

\* A button of the list, or the retry of the plan that was tried last.
startCheckout(plan) ==
  /\ page = "hub" /\ hub.activeCheckout = NoPlan /\ Click
  /\ hub.load = "shown" \/ (hub.error /\ plan = hub.lastAttempted)
  /\ Send("hub", plan)
  /\ hub' = [hub EXCEPT !.activeCheckout = plan, !.lastAttempted = plan, !.error = FALSE]
  /\ UNCHANGED <<order, page, offersVars, seen, lost, fails>>

\* The status of a new order replaces the page, whichever it is by then; an order
\* that is used again is named on the subscription page, if that is still there.
CheckoutAnswered(c) ==
  /\ call[c].at = "made" /\ call[c].from = "hub"
  /\ IF call[c].reused
     THEN /\ call' = [call EXCEPT ![c] = Idle]
          /\ hub' = IF call[c].here THEN [hub EXCEPT !.pendingOrder = call[c].order, !.activeCheckout = NoPlan] ELSE hub
          /\ seen' = IF call[c].here THEN seen \cup {call[c].order} ELSE seen
          /\ lost' = IF call[c].here THEN lost ELSE lost \cup {call[c].order}
          /\ UNCHANGED <<page, offersVars>>
     ELSE /\ Leave("status", [call EXCEPT ![c] = Idle])
          /\ seen' = seen \cup {call[c].order} /\ lost' = lost
  /\ UNCHANGED <<order, boundVars>>

CheckoutRefused(c) ==
  /\ call[c].at = "refused" /\ call[c].from = "hub" /\ call' = [call EXCEPT ![c] = Idle]
  /\ hub' = IF call[c].here THEN [hub EXCEPT !.error = TRUE, !.activeCheckout = NoPlan] ELSE hub
  /\ UNCHANGED <<order, page, offersVars, seen, lost, boundVars>>

-----------------------------------------------------------------------------
\* checkout: the pending order of the plan, a new one, or a refusal (a file that
\* is not approved, a plan that runs, a checkout just before).
Served(c) ==
  /\ call[c].at = "sent"
  /\ LET again == {o \in Pending : order[o].plan = call[c].plan} IN
     \/ \E o \in IF again # {} THEN again ELSE Orders \ Made :
          /\ call' = [call EXCEPT ![c] = [@ EXCEPT !.at = "made", !.order = o, !.reused = again # {}]]
          /\ order' = [order EXCEPT ![o] = [plan |-> call[c].plan, status |-> "PENDING"]]
     \/ call' = [call EXCEPT ![c].at = "refused"] /\ order' = order
  /\ UNCHANGED <<page, offersVars, hub, seen, lost, boundVars>>

\* A call that is lost looks like a refusal to its page.
Lost(c) ==
  /\ call[c].at \in {"sent", "made"} /\ Fail
  /\ call' = [call EXCEPT ![c] = [@ EXCEPT !.at = "refused", !.order = NoOrder]]
  /\ lost' = (lost \cup {call[c].order}) \ {NoOrder}
  /\ UNCHANGED <<order, page, offersVars, hub, seen, clicks>>

\* confirmPayment, rejectPayment.
Decide(o) ==
  /\ o \in Pending /\ \E s \in {"PAID", "FAILED"} : order' = [order EXCEPT ![o].status = s]
  /\ UNCHANGED <<page, offersVars, hub, call, seen, lost, boundVars>>

Answers ==
  \/ \E c \in Calls : Served(c) \/ ButtonAnswered(c) \/ CheckoutAnswered(c) \/ CheckoutRefused(c)
  \/ \E b \in Buttons : CoolDown(b) \/ TimerFires(b)

Next ==
  \/ Answers \/ Go \/ Choose \/ RetryLoad
  \/ \E b \in Buttons : handlePayment(b) \/ closeModal(b)
  \/ \E plans, pending \in BOOLEAN : loadSubscriptionData(plans, pending)
  \/ \E plan \in {"PREMIUM_MONTHLY", "PREMIUM_ANNUAL"} : startCheckout(plan)
  \/ \E c \in Calls : Lost(c)
  \/ \E o \in Orders : Decide(o)

-----------------------------------------------------------------------------
\* An order that was made has had its reference on the screen of the one who is
\* to pay it, or a call in flight still carries it, unless an answer was lost or
\* its page had been left.
OrdersAreShown ==
  Made \subseteq seen \cup lost \cup {call[c].order : c \in InFlight}

\* The buttons of the two pages come back.
CheckoutButtonsReturn ==
  /\ \A b \in Buttons : isLoading[b] ~> ~isLoading[b]
  /\ (hub.activeCheckout # NoPlan) ~> (hub.activeCheckout = NoPlan)

=============================================================================
