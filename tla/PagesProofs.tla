---------------------------- MODULE PagesProofs ----------------------------
(***************************************************************************)
(* Proofs about the pages of Pages, for every value of the constants:      *)
(* where the guards take a visitor, the two lists of bookings, the request *)
(* of a booking and the checkouts.  A page keeps its state to itself, so   *)
(* each has its own inductive invariant.                                   *)
(***************************************************************************)
EXTENDS Pages, FiniteSetTheorems, TLAPS

-----------------------------------------------------------------------------
(* The request of a booking.                                               *)
BookCalls == {Book!Idle} \cup [at : {"sent", "answered"}, date : Dates, slots : SUBSET Slots]
Posts ==
  {Book!NoPost}
    \cup [at : {"sent", "created", "conflict", "refused", "no address", "mismatch"},
          date : Dates \cup {NoDate}, slot : Slots]

BookTypeOK ==
  /\ free \in [Dates -> SUBSET Slots] /\ served \in [Dates -> SUBSET Slots]
  /\ selectedDate \in Dates \cup {NoDate} /\ selectedSlot \in Slots \cup {NoSlot} /\ slots \subseteq Slots
  /\ slotCall \in [Calls -> BookCalls] /\ post \in Posts
  /\ submitting \in BOOLEAN /\ success \in BOOLEAN /\ loadingSlots \in BOOLEAN /\ overlapped \in BOOLEAN
  /\ bookFails \in Nat

\* While the lists come one at a time, the one that is awaited is of the selected day, and
\* what is on the page, chosen or posted was offered for its day.
OneList ==
  ~overlapped =>
    /\ \A c, d \in Book!Waiting : c = d
    /\ \A c \in Book!Waiting : loadingSlots /\ selectedDate \in {slotCall[c].date, NoDate}
    /\ selectedDate # NoDate =>
         /\ selectedSlot # NoSlot => selectedSlot \in served[selectedDate]
         /\ ~loadingSlots => slots \subseteq served[selectedDate]

\* A request that was created is known to be, is about to be known, or its answer was lost.
OnePost ==
  /\ submitting <=> post # Book!NoPost
  /\ success => post = Book!NoPost
  /\ IsFiniteSet(made)
  /\ Cardinality(made) <= bookFails + 1
  /\ ~success /\ post.at # "created" => Cardinality(made) <= bookFails

BookInv == BookTypeOK /\ OneList /\ OnePost /\ Book!AsksForOfferedSlots

-----------------------------------------------------------------------------
(* The checkouts.                                                          *)
Checkouts ==
  {Offers!Idle}
    \cup [at : {"sent", "refused"}, from : Offers!Buttons \cup {"hub"}, plan : Offers!Plans,
          order : {NoOrder}, reused : BOOLEAN, here : BOOLEAN]
    \cup [at : {"made"}, from : Offers!Buttons \cup {"hub"}, plan : Offers!Plans,
          order : Orders, reused : BOOLEAN, here : BOOLEAN]

OffersInv ==
  /\ order \in [Orders -> [plan : Offers!Plans \cup {Offers!NoPlan},
                           status : {"none", "PENDING", "PAID", "FAILED"}]]
  /\ planCall \in [Calls -> Checkouts]
  /\ Offers!OrdersAreShown

-----------------------------------------------------------------------------
(* The lists of bookings.                                                  *)
Statuses == Lists!OPEN \cup Lists!CLOSED \cup {"COMPLETED", "none"}
Rows == [status : Statuses, duration : Durations \cup {0, 1}, isModifiedByPro : BOOLEAN]
Copies == [Bookings -> Rows]
Operations == {"confirm", "decline", "modify", "accept", "refuse", "complete", "cancel"}
ListRecords ==
  {Lists!Idle}
    \cup [at : {"fetch", "list"}, side : Lists!Sides, op : {"load"}, booking : {Nobody},
          duration : {0}, rows : Copies]
    \cup [at : {"sent", "applied", "refused", "fetch", "list"}, side : Lists!Sides,
          op : Operations, booking : Bookings, duration : Durations \cup {0}, rows : Copies]

\* The dialog names a booking when it is open.
Dialogs ==
  {Lists!Closed} \cup [kind : {"modify", "complete", "cancel"}, booking : Bookings]

ListsTypeOK ==
  /\ row \in Copies
  /\ list \in [Lists!Sides -> Copies]
  /\ dialog \in [Lists!Sides -> Dialogs]
  /\ listCall \in [ListCalls -> ListRecords]
  /\ \A c \in ListCalls : listCall[c].at = "sent" /\ listCall[c].op = "modify" => listCall[c].duration \in Durations
  /\ agreed \in [Bookings -> Durations \cup {0, 1}]
  /\ last \in [Bookings -> {"nobody", "pro", "client", "cron"}]
  /\ crossed \in [Lists!Sides -> BOOLEAN] /\ failed \in [Lists!Sides -> BOOLEAN]

\* A copy of a booking that waits for its client has the duration that was proposed, and
\* keeps it: a duration is proposed once.
Current(b, r) ==
  r.status = "WAITING_FOR_CLIENT" => row[b].isModifiedByPro /\ row[b].duration = r.duration

Proposed ==
  \A b \in Bookings :
    /\ row[b].status = "PENDING" => ~row[b].isModifiedByPro
    /\ row[b].status = "WAITING_FOR_CLIENT" => row[b].isModifiedByPro
    /\ \A s \in Lists!Sides : Current(b, list[s][b])
    /\ \A c \in ListCalls :
         /\ listCall[c].at = "list" => Current(b, listCall[c].rows[b])
         /\ listCall[c].at = "sent" /\ listCall[c].op = "accept" /\ listCall[c].booking = b
              => row[b].isModifiedByPro /\ row[b].duration = agreed[b]

\* Who makes one call at a time sees his last change, or the list that has it is coming.
Coming(s) ==
  ~crossed[s] /\ ~failed[s] =>
    /\ \A c, d \in Lists!InFlight(s) : c = d
    /\ \A b \in Bookings : last[b] = s =>
         /\ \A c \in Lists!InFlight(s) : listCall[c].at = "list" => listCall[c].rows[b] = row[b]
         /\ \/ list[s][b] = row[b]
            \/ \E c \in Lists!InFlight(s) : listCall[c].at \in {"applied", "fetch", "list"}

ListsInv ==
  /\ ListsTypeOK /\ Proposed /\ Lists!AcceptedAsShown
  /\ \A s \in Lists!Sides : Coming(s)

-----------------------------------------------------------------------------
(* The navigation.                                                         *)
Stores == [user : {"none"}, kyc : {"none"}, isAuthenticated : {FALSE}, loading : BOOLEAN]
            \cup [user : {account.role}, kyc : Nav!KycStatus \cup {"none"}, isAuthenticated : {TRUE},
                  loading : {FALSE}]

NavTypeOK ==
  /\ account \in Nav!Accounts /\ live \in BOOLEAN /\ cookie \in BOOLEAN
  /\ store \in Stores
  /\ path \in Nav!Pages /\ goto \in Nav!Pages \cup {Nav!Nowhere} /\ next \in Nav!Pages \cup {Nav!Nowhere}
  /\ fresh \in BOOLEAN
  /\ proMe \in [kyc : Nav!KycStatus \cup {"none"}, premium : BOOLEAN]
  /\ me \in {"none", "sent", "yes", "no"} /\ mine \in {"none", "sent"} /\ overview \in {"none", "sent"}
  /\ login \in {"none", "sent", "registered"} /\ logout \in {"none", "sent", "awaited"}
  /\ asked \in Nav!Pages /\ steady \in BOOLEAN

\* The guards have run: the page that nothing leaves is one they want.
Guarded ==
  /\ store.loading => me # "none"
  /\ ~fresh /\ goto = Nav!Nowhere => Nav!Wanted = {}

\* A rejected file is never shown of an account that has none.
Truthful == "REJECTED" \in {store.kyc, proMe.kyc} => account.kyc = "REJECTED"

\* Where a user who is not disturbed may be on the way to the page he asked for.
Places == {asked} \cup (IF account.kyc = "REJECTED" THEN {"/dashboard/kyc"} ELSE {})

AtEase ==
  /\ live /\ cookie /\ login = "none" /\ logout = "none"
  /\ me # "no" /\ path \notin Nav!AUTH_PAGES
  /\ goto \in Places \cup {Nav!Nowhere} /\ (goto = Nav!Nowhere => path \in Places)
  /\ overview = "sent" => account.premium \/ account.role # "PRO"
  /\ Nav!PageGuard = path /\ Nav!LayoutGuard = path
  /\ store.loading => goto = Nav!Nowhere /\ path = asked /\ me # "none"
  /\ ~store.loading => me = "none" /\ store.isAuthenticated

Calm == steady /\ asked \in Nav!Waiting => AtEase

NavInv == NavTypeOK /\ Guarded /\ Truthful /\ Calm

-----------------------------------------------------------------------------
(* The proofs.  Fairness plays no part in them.                            *)
LEMMA SafetyPart == Spec => Init /\ [][Next]_vars
BY PTL DEF Spec

LEMMA OffersSteps ==
  ASSUME [Next]_vars
  PROVE  Offers!Next \/ UNCHANGED offersVars
BY DEF Next, Others, vars

LEMMA BookSteps ==
  ASSUME [Next]_vars
  PROVE  Book!Next \/ UNCHANGED bookVars
BY DEF Next, Others, vars

LEMMA ListsSteps ==
  ASSUME [Next]_vars
  PROVE  Lists!Next \/ UNCHANGED listsVars
BY DEF Next, Others, vars

LEMMA NavSteps ==
  ASSUME [Next]_vars
  PROVE  Nav!Next \/ UNCHANGED navVars
BY DEF Next, Others, vars

-----------------------------------------------------------------------------
(* The checkouts.                                                          *)

\* A checkout names an order when that was made, and then only.
LEMMA CheckoutFacts ==
  ASSUME NEW r \in Checkouts
  PROVE  /\ r.at = "idle" <=> r = Offers!Idle
         /\ r # Offers!Idle => /\ r.order \in Orders \cup {NoOrder}
                               /\ r.order \in Orders <=> r.at = "made"
         /\ r # Offers!Idle => LET q == [r EXCEPT !.here = FALSE]
                               IN  q \in Checkouts /\ q # Offers!Idle /\ q.order = r.order
         /\ r.at = "sent" =>
              /\ \A o \in Orders, again \in BOOLEAN :
                   LET q == [r EXCEPT !.at = "made", !.order = o, !.reused = again]
                   IN  q \in Checkouts /\ q # Offers!Idle /\ q.order = o
              /\ [r EXCEPT !.at = "refused"] \in Checkouts
         /\ r.at \in {"sent", "made"} => [r EXCEPT !.at = "refused", !.order = NoOrder] \in Checkouts
<1>0. NoOrder \notin Orders
  BY PagesAssumption
<1>1. /\ r.at = "idle" <=> r = Offers!Idle
      /\ r # Offers!Idle => /\ r.order \in Orders \cup {NoOrder}
                            /\ r.order \in Orders <=> r.at = "made"
  BY <1>0 DEF Checkouts, Offers!Idle
<1>2. ASSUME r # Offers!Idle
      PROVE  LET q == [r EXCEPT !.here = FALSE]
             IN  q \in Checkouts /\ q # Offers!Idle /\ q.order = r.order
  BY <1>2 DEF Checkouts, Offers!Idle
<1>3. ASSUME r.at = "sent", NEW o \in Orders, NEW again \in BOOLEAN
      PROVE  LET q == [r EXCEPT !.at = "made", !.order = o, !.reused = again]
             IN  q \in Checkouts /\ q # Offers!Idle /\ q.order = o
  <2>1. r \in [at : {"sent", "refused"}, from : Offers!Buttons \cup {"hub"}, plan : Offers!Plans,
                order : {NoOrder}, reused : BOOLEAN, here : BOOLEAN]
    BY <1>3 DEF Checkouts, Offers!Idle
  <2> DEFINE q == [r EXCEPT !.at = "made", !.order = o, !.reused = again]
  <2>2. q \in [at : {"made"}, from : Offers!Buttons \cup {"hub"}, plan : Offers!Plans,
                order : Orders, reused : BOOLEAN, here : BOOLEAN]
    BY <1>3, <2>1
  <2>3. q.order = o
    BY <1>3, <2>1
  <2> HIDE DEF q
  <2>4. q \in Checkouts /\ q # Offers!Idle
    BY <2>2 DEF Checkouts, Offers!Idle
  <2> QED
    BY <2>3, <2>4 DEF q
<1>4. r.at = "sent" => [r EXCEPT !.at = "refused"] \in Checkouts
  BY DEF Checkouts, Offers!Idle
<1>5. ASSUME r.at \in {"sent", "made"}
      PROVE  [r EXCEPT !.at = "refused", !.order = NoOrder] \in Checkouts
  <2>1. r \in [at : {"sent", "refused", "made"}, from : Offers!Buttons \cup {"hub"}, plan : Offers!Plans,
                order : Orders \cup {NoOrder}, reused : BOOLEAN, here : BOOLEAN]
    BY <1>5 DEF Checkouts, Offers!Idle
  <2>2. [r EXCEPT !.at = "refused", !.order = NoOrder] \in
          [at : {"refused"}, from : Offers!Buttons \cup {"hub"}, plan : Offers!Plans,
           order : {NoOrder}, reused : BOOLEAN, here : BOOLEAN]
    BY <2>1
  <2> QED
    BY <2>2 DEF Checkouts
<1> QED
  BY <1>1, <1>2, <1>3, <1>4, <1>5

\* An order that was made is seen, lost or carried by a call.
LEMMA ShownOrders ==
  Offers!OrdersAreShown <=>
    \A o \in Orders : order[o].status # "none" =>
      \/ o \in seen \cup lost
      \/ \E c \in Calls : planCall[c] # Offers!Idle /\ planCall[c].order = o
BY DEF Offers!OrdersAreShown, Offers!Made, Offers!InFlight

\* Orders are not forgotten by a step that makes none but those its calls carry, and that
\* leaves what a call carries with that, or seen or lost.
LEMMA CarriedOn ==
  ASSUME OffersInv,
         order' \in [Orders -> [plan : Offers!Plans \cup {Offers!NoPlan},
                                status : {"none", "PENDING", "PAID", "FAILED"}]],
         planCall' \in [Calls -> Checkouts],
         \A o \in Orders : order'[o].status # "none" =>
           \/ order[o].status # "none"
           \/ \E c \in Calls : planCall'[c] # Offers!Idle /\ planCall'[c].order = o,
         \A o \in Orders : o \in seen \cup lost => o \in seen' \cup lost',
         \A c \in Calls : planCall[c] # Offers!Idle /\ planCall[c].order \in Orders =>
           \/ planCall[c].order \in seen' \cup lost'
           \/ planCall'[c] # Offers!Idle /\ planCall'[c].order = planCall[c].order
  PROVE  OffersInv'
<1>1. Offers!OrdersAreShown'
  <2>1. \A o \in Orders : order[o].status # "none" =>
          \/ o \in seen \cup lost
          \/ \E c \in Calls : planCall[c] # Offers!Idle /\ planCall[c].order = o
    BY ShownOrders DEF OffersInv
  <2>2. \A o \in Orders : order'[o].status # "none" =>
          \/ o \in seen' \cup lost'
          \/ \E c \in Calls : planCall'[c] # Offers!Idle /\ planCall'[c].order = o
    BY <2>1
  <2> QED
    BY <2>2 DEF Offers!OrdersAreShown, Offers!Made, Offers!InFlight
<1> QED
  BY <1>1 DEF OffersInv

\* Every page that is left leaves its calls behind.
LEMMA LeaveCalls ==
  ASSUME NEW calls \in [Calls -> Checkouts], NEW p, Offers!Leave(p, calls)
  PROVE  /\ planCall' \in [Calls -> Checkouts]
         /\ \A c \in Calls : calls[c] # Offers!Idle => /\ planCall'[c] # Offers!Idle
                                                       /\ planCall'[c].order = calls[c].order
<1>1. planCall' = [c \in Calls |-> IF calls[c] = Offers!Idle THEN Offers!Idle ELSE [calls[c] EXCEPT !.here = FALSE]]
  BY DEF Offers!Leave
<1>2. Offers!Idle \in Checkouts
  BY DEF Checkouts
<1>3. \A c \in Calls : calls[c] # Offers!Idle =>
        LET q == [calls[c] EXCEPT !.here = FALSE]
        IN  q \in Checkouts /\ q # Offers!Idle /\ q.order = calls[c].order
  BY CheckoutFacts
<1> QED
  BY <1>1, <1>2, <1>3

LEMMA SendTyped ==
  ASSUME planCall \in [Calls -> Checkouts], NEW from \in Offers!Buttons \cup {"hub"},
         NEW plan \in Offers!Plans, Offers!Send(from, plan)
  PROVE  /\ planCall' \in [Calls -> Checkouts]
         /\ \A c \in Calls : planCall[c] # Offers!Idle => planCall'[c] = planCall[c]
<1> DEFINE r == [at |-> "sent", from |-> from, plan |-> plan, order |-> NoOrder, reused |-> FALSE, here |-> TRUE]
<1>1. PICK c \in Calls \ Offers!InFlight : planCall' = [planCall EXCEPT ![c] = r]
  BY DEF Offers!Send
<1>2. r \in Checkouts
  BY DEF Checkouts
<1> HIDE DEF r
<1> QED
  BY <1>1, <1>2 DEF Offers!InFlight

LEMMA OffersInit == Init => OffersInv
<1> SUFFICES ASSUME Init PROVE OffersInv
  OBVIOUS
<1>1. /\ order = [o \in Orders |-> [plan |-> Offers!NoPlan, status |-> "none"]]
      /\ planCall = [c \in Calls |-> Offers!Idle]
  BY DEF Init, Offers!Init
<1>2. Offers!Idle \in Checkouts
  BY DEF Checkouts
<1>3. Offers!OrdersAreShown
  BY <1>1 DEF Offers!OrdersAreShown, Offers!Made
<1> QED
  BY <1>1, <1>2, <1>3 DEF OffersInv

LEMMA OffersKeeps ==
  ASSUME OffersInv, [Next]_vars
  PROVE  OffersInv'
<1>0. /\ order \in [Orders -> [plan : Offers!Plans \cup {Offers!NoPlan},
                               status : {"none", "PENDING", "PAID", "FAILED"}]]
      /\ planCall \in [Calls -> Checkouts]
      /\ Offers!Idle \in Checkouts /\ NoOrder \notin Orders
  BY PagesAssumption DEF OffersInv, Checkouts
\* Steps that make no order and drop nothing from a call.
<1>1. ASSUME order' = order, planCall' \in [Calls -> Checkouts],
             seen \cup lost \subseteq seen' \cup lost' \cup {NoOrder},
             \A c \in Calls : planCall[c] # Offers!Idle =>
               planCall'[c] # Offers!Idle /\ planCall'[c].order = planCall[c].order
      PROVE  OffersInv'
  BY <1>0, <1>1, CarriedOn
<1>2. ASSUME order' = order, planCall' = planCall, lost' = lost, seen \subseteq seen' \cup {NoOrder}
      PROVE  OffersInv'
  BY <1>0, <1>1, <1>2
<1>3. CASE Offers!Go
  <2>1. PICK p : Offers!Leave(p, planCall)
    BY <1>3 DEF Offers!Go
  <2> QED
    BY <1>0, <1>1, <1>3, <2>1, LeaveCalls DEF Offers!Go
<1>4. CASE \/ Offers!Choose \/ Offers!RetryLoad \/ UNCHANGED offersVars
           \/ \E b \in Offers!Buttons : Offers!CoolDown(b) \/ Offers!TimerFires(b) \/ Offers!closeModal(b)
  BY <1>2, <1>4 DEF Offers!Choose, Offers!RetryLoad, Offers!CoolDown, Offers!TimerFires, Offers!closeModal,
     offersVars
<1>5. ASSUME NEW b \in Offers!Buttons, Offers!handlePayment(b)
      PROVE  OffersInv'
  <2>1. Offers!PlanOf(b) \in Offers!Plans
    BY DEF Offers!PlanOf, Offers!Plans
  <2> QED
    BY <1>0, <1>1, <1>5, <2>1, SendTyped DEF Offers!handlePayment
<1>6. ASSUME NEW plan \in {"PREMIUM_MONTHLY", "PREMIUM_ANNUAL"}, Offers!startCheckout(plan)
      PROVE  OffersInv'
  <2>1. plan \in Offers!Plans
    BY DEF Offers!Plans
  <2> QED
    BY <1>0, <1>1, <1>6, <2>1, SendTyped DEF Offers!startCheckout
<1>7. ASSUME NEW plans \in BOOLEAN, NEW pending \in BOOLEAN, Offers!loadSubscriptionData(plans, pending)
      PROVE  OffersInv'
  BY <1>2, <1>7 DEF Offers!loadSubscriptionData
<1>8. ASSUME NEW o \in Orders, Offers!Decide(o)
      PROVE  OffersInv'
  <2>1. PICK s \in {"PAID", "FAILED"} : order' = [order EXCEPT ![o].status = s]
    BY <1>8 DEF Offers!Decide
  <2>2. order[o].status # "none" /\ planCall' = planCall /\ seen' = seen /\ lost' = lost
    BY <1>8 DEF Offers!Decide, Offers!Pending, Offers!Made
  <2>3. order' \in [Orders -> [plan : Offers!Plans \cup {Offers!NoPlan},
                               status : {"none", "PENDING", "PAID", "FAILED"}]]
    BY <1>0, <2>1
  <2>4. \A p \in Orders : order'[p].status # "none" => order[p].status # "none"
    BY <1>0, <2>1, <2>2
  <2> QED
    BY <1>0, <2>2, <2>3, <2>4, CarriedOn
\* Answers.
<1>9. ASSUME NEW c \in Calls, Offers!Served(c)
      PROVE  OffersInv'
  <2>0. planCall[c] \in Checkouts /\ planCall[c].at = "sent" /\ seen' = seen /\ lost' = lost
    BY <1>0, <1>9 DEF Offers!Served
  <2>1. planCall[c] # Offers!Idle /\ planCall[c].order \notin Orders /\ planCall[c].plan \in Offers!Plans
    BY <1>0, <2>0 DEF Checkouts, Offers!Idle
  <2>2. CASE order' = order /\ planCall' = [planCall EXCEPT ![c].at = "refused"]
    <3>1. planCall' \in [Calls -> Checkouts] /\ \A d \in Calls \ {c} : planCall'[d] = planCall[d]
      <4>1. [planCall[c] EXCEPT !.at = "refused"] \in Checkouts
        BY <1>0, <2>0, <2>1, CheckoutFacts
      <4> QED
        BY <1>0, <2>2, <4>1
    <3> QED
      BY <1>0, <2>0, <2>1, <2>2, <3>1, CarriedOn
  <2>3. ASSUME NEW o \in Orders, NEW again \in BOOLEAN,
               planCall' = [planCall EXCEPT ![c] = [@ EXCEPT !.at = "made", !.order = o, !.reused = again]],
               order' = [order EXCEPT ![o] = [plan |-> planCall[c].plan, status |-> "PENDING"]]
        PROVE  OffersInv'
    <3> DEFINE q == [planCall[c] EXCEPT !.at = "made", !.order = o, !.reused = again]
    <3>1. q \in Checkouts /\ q # Offers!Idle /\ q.order = o
      <4>1. \A p \in Orders, b \in BOOLEAN :
              LET r == [planCall[c] EXCEPT !.at = "made", !.order = p, !.reused = b]
              IN  r \in Checkouts /\ r # Offers!Idle /\ r.order = p
        BY <2>0, CheckoutFacts
      <4> QED
        BY <4>1
    <3>2. planCall' = [planCall EXCEPT ![c] = q]
      BY <2>3
    <3> HIDE DEF q
    <3>3. planCall' \in [Calls -> Checkouts] /\ planCall'[c] = q /\ \A d \in Calls \ {c} : planCall'[d] = planCall[d]
      BY <1>0, <3>1, <3>2
    <3>4. /\ order' \in [Orders -> [plan : Offers!Plans \cup {Offers!NoPlan},
                                    status : {"none", "PENDING", "PAID", "FAILED"}]]
          /\ \A p \in Orders : p # o => order'[p] = order[p]
      BY <1>0, <2>0, <2>1, <2>3
    <3> QED
      BY <1>0, <2>0, <2>1, <3>1, <3>3, <3>4, CarriedOn
  <2>4. \/ order' = order /\ planCall' = [planCall EXCEPT ![c].at = "refused"]
        \/ \E o \in Orders, again \in BOOLEAN :
             /\ planCall' = [planCall EXCEPT ![c] = [@ EXCEPT !.at = "made", !.order = o, !.reused = again]]
             /\ order' = [order EXCEPT ![o] = [plan |-> planCall[c].plan, status |-> "PENDING"]]
    BY <1>9 DEF Offers!Served, Offers!Pending, Offers!Made
  <2> QED
    BY <2>2, <2>3, <2>4
<1>10. ASSUME NEW c \in Calls, planCall[c] # Offers!Idle, order' = order,
              planCall' = [planCall EXCEPT ![c] = Offers!Idle],
              seen \cup lost \subseteq seen' \cup lost' \cup {NoOrder},
              planCall[c].order \in Orders => planCall[c].order \in seen' \cup lost'
       PROVE  OffersInv'
  BY <1>0, <1>10, CarriedOn
<1>11. ASSUME NEW c \in Calls, Offers!ButtonAnswered(c)
       PROVE  OffersInv'
  <2>1. /\ planCall[c] # Offers!Idle /\ order' = order /\ planCall' = [planCall EXCEPT ![c] = Offers!Idle]
        /\ seen' = IF planCall[c].here THEN (seen \cup {planCall[c].order}) \ {NoOrder} ELSE seen
        /\ lost' = IF planCall[c].here THEN lost ELSE (lost \cup {planCall[c].order}) \ {NoOrder}
    BY <1>0, <1>11, CheckoutFacts DEF Offers!ButtonAnswered
  <2> QED
    BY <1>0, <1>10, <2>1
<1>12. ASSUME NEW c \in Calls, Offers!CheckoutAnswered(c)
       PROVE  OffersInv'
  <2>1. planCall[c] # Offers!Idle /\ order' = order
    BY <1>0, <1>12, CheckoutFacts DEF Offers!CheckoutAnswered
  <2>2. CASE planCall[c].reused
    <3>1. /\ planCall' = [planCall EXCEPT ![c] = Offers!Idle]
          /\ seen' = IF planCall[c].here THEN seen \cup {planCall[c].order} ELSE seen
          /\ lost' = IF planCall[c].here THEN lost ELSE lost \cup {planCall[c].order}
      BY <1>12, <2>2 DEF Offers!CheckoutAnswered
    <3> QED
      BY <1>10, <2>1, <3>1
  <2>3. CASE ~planCall[c].reused
    <3> DEFINE calls == [planCall EXCEPT ![c] = Offers!Idle]
    <3>1. Offers!Leave("status", calls) /\ seen' = seen \cup {planCall[c].order} /\ lost' = lost
      BY <1>12, <2>3 DEF Offers!CheckoutAnswered
    <3>2. calls \in [Calls -> Checkouts] /\ \A d \in Calls \ {c} : calls[d] = planCall[d]
      BY <1>0
    <3> HIDE DEF calls
    <3>3. /\ planCall' \in [Calls -> Checkouts]
          /\ \A d \in Calls : calls[d] # Offers!Idle => /\ planCall'[d] # Offers!Idle
                                                        /\ planCall'[d].order = calls[d].order
      BY <3>1, <3>2, LeaveCalls
    <3> QED
      BY <1>0, <2>1, <3>1, <3>2, <3>3, CarriedOn
  <2> QED
    BY <2>2, <2>3
<1>13. ASSUME NEW c \in Calls, Offers!CheckoutRefused(c)
       PROVE  OffersInv'
  <2>1. /\ planCall[c] # Offers!Idle /\ planCall[c].order \notin Orders /\ order' = order
        /\ planCall' = [planCall EXCEPT ![c] = Offers!Idle] /\ seen' = seen /\ lost' = lost
    BY <1>0, <1>13, CheckoutFacts DEF Offers!CheckoutRefused
  <2> QED
    BY <1>10, <2>1
<1>14. ASSUME NEW c \in Calls, Offers!Lost(c)
       PROVE  OffersInv'
  <2> DEFINE q == [planCall[c] EXCEPT !.at = "refused", !.order = NoOrder]
  <2>1. /\ order' = order /\ seen' = seen /\ lost' = (lost \cup {planCall[c].order}) \ {NoOrder}
        /\ planCall' = [planCall EXCEPT ![c] = q]
    BY <1>14 DEF Offers!Lost
  <2>2. q \in Checkouts
    BY <1>0, <1>14, CheckoutFacts DEF Offers!Lost
  <2> HIDE DEF q
  <2>3. planCall' \in [Calls -> Checkouts] /\ \A d \in Calls \ {c} : planCall'[d] = planCall[d]
    BY <1>0, <2>1, <2>2
  <2> QED
    BY <1>0, <2>1, <2>3, CarriedOn
<1> QED
  BY <1>3, <1>4, <1>5, <1>6, <1>7, <1>8, <1>9, <1>11, <1>12, <1>13, <1>14, OffersSteps
     DEF Offers!Next, Offers!Answers

LEMMA OffersCorrect == Spec => []OffersInv
<1>1. OffersInv /\ [Next]_vars => OffersInv'
  BY OffersKeeps
<1> QED
  BY <1>1, OffersInit, SafetyPart, PTL

\* Whatever is answered late, lost or left behind, and in whatever order: an order that was
\* made was shown to the one who is to pay it, is about to be, or its answer is known to
\* have been lost.
THEOREM OrdersAreShownHolds == Spec => []OrdersAreShown
<1>1. OffersInv => OrdersAreShown
  BY DEF OffersInv, OrdersAreShown
<1> QED
  BY <1>1, OffersCorrect, PTL

-----------------------------------------------------------------------------
(* The request of a booking.                                               *)
LEMMA BookCallFacts ==
  ASSUME NEW r \in BookCalls
  PROVE  /\ r.at \in {"sent", "answered"} <=> r # Book!Idle
         /\ r # Book!Idle =>
              /\ r.date \in Dates /\ r.slots \subseteq Slots
              /\ \A S \in SUBSET Slots : LET q == [r EXCEPT !.at = "answered", !.slots = S]
                                         IN  q \in BookCalls /\ q # Book!Idle /\ q.date = r.date
<1>1. r.at \in {"sent", "answered"} <=> r # Book!Idle
  BY DEF BookCalls, Book!Idle
<1>2. ASSUME r # Book!Idle, NEW S \in SUBSET Slots
      PROVE  LET q == [r EXCEPT !.at = "answered", !.slots = S]
             IN  q \in BookCalls /\ q # Book!Idle /\ q.date = r.date
  <2>1. r \in [at : {"sent", "answered"}, date : Dates, slots : SUBSET Slots]
    BY <1>2 DEF BookCalls
  <2> DEFINE q == [r EXCEPT !.at = "answered", !.slots = S]
  <2>2. q \in [at : {"answered"}, date : Dates, slots : SUBSET Slots] /\ q.date = r.date
    BY <1>2, <2>1
  <2> HIDE DEF q
  <2>3. q \in BookCalls /\ q # Book!Idle
    BY <2>2 DEF BookCalls, Book!Idle
  <2> QED
    BY <2>2, <2>3 DEF q
<1>3. r # Book!Idle => r.date \in Dates /\ r.slots \subseteq Slots
  BY DEF BookCalls
<1> QED
  BY <1>1, <1>2, <1>3

LEMMA PostFacts ==
  ASSUME NEW r \in Posts
  PROVE  /\ r.at = "none" <=> r = Book!NoPost
         /\ r # Book!NoPost => r.date \in Dates \cup {NoDate} /\ r.slot \in Slots
<1>1. CASE r = Book!NoPost
  <2>1. Book!NoPost.at = "none"
    BY DEF Book!NoPost
  <2> QED
    BY <1>1, <2>1
<1>2. CASE r # Book!NoPost
  <2>1. r \in [at : {"sent", "created", "conflict", "refused", "no address", "mismatch"},
               date : Dates \cup {NoDate}, slot : Slots]
    BY <1>2 DEF Posts
  <2>2. r.at # "none"
    BY <2>1
  <2> QED
    BY <1>2, <2>1, <2>2
<1> QED
  BY <1>1, <1>2

\* An answered request is still that request.
Answers == {"created", "conflict", "refused", "no address", "mismatch"}

LEMMA AnsweredFacts ==
  ASSUME NEW r \in Posts, r # Book!NoPost, NEW a \in Answers, NEW q, q = [r EXCEPT !.at = a]
  PROVE  q \in Posts /\ q # Book!NoPost /\ q.at = a /\ q.date = r.date /\ q.slot = r.slot
<1>1. r \in [at : {"sent"} \cup Answers, date : Dates \cup {NoDate}, slot : Slots]
  BY DEF Posts, Answers
<1>2. q \in [at : Answers, date : Dates \cup {NoDate}, slot : Slots]
      /\ q.at = a /\ q.date = r.date /\ q.slot = r.slot
  BY <1>1
<1>3. q \in Posts /\ q # Book!NoPost
  BY <1>2 DEF Posts, Answers, Book!NoPost
<1> QED
  BY <1>2, <1>3

\* The list that a new day asks for.
LEMMA AskFacts ==
  ASSUME BookTypeOK, NEW d \in Dates, Book!Ask(d)
  PROVE  /\ slotCall' \in [Calls -> BookCalls]
         /\ loadingSlots' = TRUE /\ overlapped' = (overlapped \/ Book!Waiting # {})
         /\ \A c \in Book!Waiting' : (c \in Book!Waiting /\ slotCall'[c] = slotCall[c]) \/ slotCall'[c].date = d
         /\ Book!Waiting = {} => \A c, e \in Book!Waiting' : c = e
<1> DEFINE r == [at |-> "sent", date |-> d, slots |-> {}]
<1>1. PICK c \in Calls : slotCall[c] = Book!Idle /\ slotCall' = [slotCall EXCEPT ![c] = r]
  BY DEF Book!Ask
<1>2. r \in BookCalls /\ r.date = d
  BY DEF BookCalls
<1> HIDE DEF r
<1>3. slotCall' \in [Calls -> BookCalls] /\ slotCall'[c] = r /\ \A e \in Calls \ {c} : slotCall'[e] = slotCall[e]
  BY <1>1, <1>2 DEF BookTypeOK
<1>4. loadingSlots' = TRUE /\ overlapped' = (overlapped \/ Book!Waiting # {})
  BY DEF Book!Ask
<1> QED
  BY <1>2, <1>3, <1>4 DEF Book!Waiting

LEMMA BookInit == Init => BookInv
<1> SUFFICES ASSUME Init PROVE BookInv
  OBVIOUS
<1>1. /\ free \in [Dates -> SUBSET Slots] /\ made = {} /\ selectedDate \in Dates /\ slots = {}
      /\ loadingSlots = TRUE /\ selectedSlot = NoSlot /\ submitting = FALSE /\ success = FALSE
      /\ post = Book!NoPost /\ served = [d \in Dates |-> {}] /\ overlapped = FALSE /\ bookFails = 0
  BY DEF Init, Book!Init
<1> DEFINE r == [at |-> "sent", date |-> selectedDate, slots |-> {}]
<1>2. PICK c \in Calls : slotCall = [d \in Calls |-> IF d = c THEN r ELSE Book!Idle]
  BY DEF Init, Book!Init
<1>3. r \in BookCalls /\ r.date = selectedDate /\ Book!Idle \in BookCalls
  BY <1>1 DEF BookCalls
<1> HIDE DEF r
<1>4. Book!NoPost \in Posts /\ Book!NoPost.at = "none"
  BY DEF Posts, Book!NoPost
<1>5. BookTypeOK
  BY <1>1, <1>2, <1>3, <1>4 DEF BookTypeOK
<1>6. OneList
  <2>1. \A d \in Book!Waiting : d = c /\ slotCall[d].date = selectedDate
    BY <1>2, <1>3 DEF Book!Waiting
  <2> QED
    BY <1>1, <2>1 DEF OneList
<1>7. OnePost
  BY <1>1, <1>4, FS_EmptySet DEF OnePost
<1> QED
  BY <1>1, <1>5, <1>6, <1>7 DEF BookInv, Book!AsksForOfferedSlots

\* A step of the part that is a call of the list, a click of the client, or the request.
LEMMA BookCases ==
  ASSUME [Next]_vars
  PROVE  \/ \E d \in Dates \cup {NoDate} : Book!SelectDate(d)
         \/ \E s \in Slots : Book!SelectSlot(s)
         \/ \E c \in Calls : Book!ListServed(c) \/ Book!ListAnswered(c) \/ Book!ListLost(c)
         \/ Book!handleBooking \/ Book!PostServed \/ Book!PostRefused \/ Book!PostAnswered \/ Book!PostLost
         \/ Book!Elsewhere \/ Book!Redirect \/ (\E found \in BOOLEAN : Book!ProAnswered(found))
         \/ UNCHANGED bookVars
BY BookSteps DEF Book!Next, Book!Client, Book!Answers

\* What the request and the rest of the page do to the list of slots: nothing.
LEMMA ListAlone ==
  ASSUME \/ Book!handleBooking \/ Book!PostServed \/ Book!PostRefused \/ Book!PostAnswered \/ Book!PostLost
         \/ Book!Elsewhere \/ Book!Redirect \/ (\E found \in BOOLEAN : Book!ProAnswered(found))
         \/ UNCHANGED bookVars
  PROVE  UNCHANGED <<selectedDate, selectedSlot, slots, loadingSlots, slotCall, served, overlapped>>
BY DEF Book!handleBooking, Book!PostServed, Book!PostRefused, Book!PostAnswered, Book!PostLost, Book!Elsewhere,
   Book!Redirect, Book!ProAnswered, bookVars, Book!listVars

\* And what the lists do to the request: nothing.
LEMMA PostAlone ==
  ASSUME \/ \E d \in Dates \cup {NoDate} : Book!SelectDate(d)
         \/ \E s \in Slots : Book!SelectSlot(s)
         \/ \E c \in Calls : Book!ListServed(c) \/ Book!ListAnswered(c) \/ Book!ListLost(c)
         \/ Book!Elsewhere \/ Book!Redirect \/ (\E found \in BOOLEAN : Book!ProAnswered(found))
         \/ UNCHANGED bookVars
  PROVE  /\ UNCHANGED <<made, submitting, success, post>>
         /\ bookFails' = bookFails \/ bookFails' = bookFails + 1
BY DEF Book!SelectDate, Book!SelectSlot, Book!ListServed, Book!ListAnswered, Book!ListLost, Book!Elsewhere,
   Book!Redirect, Book!ProAnswered, bookVars, Book!submitVars, Book!boundVars

\* The lists: types, and one at a time.
LEMMA BookLists ==
  ASSUME BookTypeOK, OneList, [Next]_vars
  PROVE  /\ served' \in [Dates -> SUBSET Slots] /\ \A d \in Dates : served[d] \subseteq served'[d]
         /\ selectedDate' \in Dates \cup {NoDate} /\ selectedSlot' \in Slots \cup {NoSlot} /\ slots' \subseteq Slots
         /\ slotCall' \in [Calls -> BookCalls]
         /\ loadingSlots' \in BOOLEAN /\ overlapped' \in BOOLEAN /\ (overlapped => overlapped')
         /\ OneList'
<1> DEFINE Goal ==
         /\ served' \in [Dates -> SUBSET Slots] /\ \A d \in Dates : served[d] \subseteq served'[d]
         /\ selectedDate' \in Dates \cup {NoDate} /\ selectedSlot' \in Slots \cup {NoSlot} /\ slots' \subseteq Slots
         /\ slotCall' \in [Calls -> BookCalls]
         /\ loadingSlots' \in BOOLEAN /\ overlapped' \in BOOLEAN /\ (overlapped => overlapped')
         /\ OneList'
<1>0. /\ free \in [Dates -> SUBSET Slots] /\ served \in [Dates -> SUBSET Slots]
      /\ selectedDate \in Dates \cup {NoDate} /\ selectedSlot \in Slots \cup {NoSlot} /\ slots \subseteq Slots
      /\ slotCall \in [Calls -> BookCalls] /\ loadingSlots \in BOOLEAN /\ overlapped \in BOOLEAN
      /\ Book!Idle \in BookCalls
  BY DEF BookTypeOK, BookCalls
<1>1. ASSUME UNCHANGED <<selectedDate, selectedSlot, slots, loadingSlots, slotCall, served, overlapped>>
      PROVE  Goal
  BY <1>0, <1>1 DEF OneList, Book!Waiting
<1>2. ASSUME NEW d \in Dates \cup {NoDate}, Book!SelectDate(d)
      PROVE  Goal
  <2>1. selectedDate' = d /\ slots' = slots /\ served' = served
    BY <1>2 DEF Book!SelectDate
  <2>2. CASE d = NoDate
    <3>1. UNCHANGED <<slotCall, loadingSlots, overlapped, selectedSlot>>
      BY <1>2, <2>2 DEF Book!SelectDate
    <3> QED
      BY <1>0, <2>1, <2>2, <3>1 DEF OneList, Book!Waiting
  <2>3. CASE d # NoDate
    <3>1. Book!Ask(d) /\ selectedSlot' = NoSlot /\ d \in Dates
      BY <1>2, <2>3 DEF Book!SelectDate
    <3>2. /\ slotCall' \in [Calls -> BookCalls]
          /\ loadingSlots' = TRUE /\ overlapped' = (overlapped \/ Book!Waiting # {})
          /\ \A c \in Book!Waiting' : (c \in Book!Waiting /\ slotCall'[c] = slotCall[c]) \/ slotCall'[c].date = d
          /\ Book!Waiting = {} => \A c, e \in Book!Waiting' : c = e
      BY <3>1, AskFacts
    <3>3. OneList'
      BY <2>1, <3>1, <3>2 DEF OneList
    <3> QED
      BY <1>0, <2>1, <3>1, <3>2, <3>3
  <2> QED
    BY <2>2, <2>3
<1>3. ASSUME NEW s \in Slots, Book!SelectSlot(s)
      PROVE  Goal
  <2>1. /\ UNCHANGED <<selectedDate, slots, loadingSlots, slotCall, served, overlapped>>
        /\ selectedSlot' = s /\ s \in slots /\ ~loadingSlots
    BY <1>3 DEF Book!SelectSlot, Book!listVars
  <2> QED
    BY <1>0, <2>1 DEF OneList, Book!Waiting
<1>4. ASSUME NEW c \in Calls, Book!ListServed(c)
      PROVE  Goal
  <2> DEFINE q == [slotCall[c] EXCEPT !.at = "answered", !.slots = free[slotCall[c].date]]
  <2>1. /\ UNCHANGED <<selectedDate, selectedSlot, slots, loadingSlots, served, overlapped>>
        /\ slotCall' = [slotCall EXCEPT ![c] = q] /\ slotCall[c].at = "sent"
    BY <1>4 DEF Book!ListServed
  <2>2. slotCall[c] # Book!Idle /\ slotCall[c].date \in Dates
    BY <1>0, <2>1, BookCallFacts
  <2>3. q \in BookCalls /\ q # Book!Idle /\ q.date = slotCall[c].date
    <3>1. free[slotCall[c].date] \in SUBSET Slots
      BY <1>0, <2>2
    <3> QED
      BY <1>0, <2>2, <3>1, BookCallFacts
  <2> HIDE DEF q
  <2>4. slotCall' \in [Calls -> BookCalls] /\ slotCall'[c] = q /\ \A e \in Calls \ {c} : slotCall'[e] = slotCall[e]
    BY <1>0, <2>1, <2>3
  <2>5. Book!Waiting' = Book!Waiting /\ \A e \in Calls : slotCall'[e].date = slotCall[e].date
    BY <2>2, <2>3, <2>4 DEF Book!Waiting
  <2>6. OneList'
    BY <2>1, <2>5 DEF OneList, Book!Waiting
  <2> QED
    BY <1>0, <2>1, <2>4, <2>6
<1>5. ASSUME NEW c \in Calls, Book!ListAnswered(c)
      PROVE  Goal
  <2>1. /\ UNCHANGED <<selectedDate, selectedSlot, overlapped>> /\ slotCall[c].at = "answered"
        /\ slotCall' = [slotCall EXCEPT ![c] = Book!Idle] /\ slots' = slotCall[c].slots /\ loadingSlots' = FALSE
        /\ served' = [served EXCEPT ![slotCall[c].date] = @ \cup slotCall[c].slots]
    BY <1>5 DEF Book!ListAnswered
  <2>2. c \in Book!Waiting /\ slotCall[c].date \in Dates /\ slotCall[c].slots \subseteq Slots
    BY <1>0, <2>1, BookCallFacts DEF Book!Waiting
  <2>3. /\ served' \in [Dates -> SUBSET Slots] /\ \A d \in Dates : served[d] \subseteq served'[d]
        /\ slotCall[c].slots \subseteq served'[slotCall[c].date]
    BY <1>0, <2>1, <2>2
  <2>4. /\ slotCall' \in [Calls -> BookCalls] /\ slotCall'[c] = Book!Idle
        /\ \A e \in Calls \ {c} : slotCall'[e] = slotCall[e]
    BY <1>0, <2>1
  <2>5. Book!Waiting' = Book!Waiting \ {c}
    BY <2>4 DEF Book!Waiting
  <2>6. OneList'
    BY <1>0, <2>1, <2>2, <2>3, <2>5 DEF OneList
  <2> QED
    BY <1>0, <2>1, <2>2, <2>3, <2>4, <2>6
<1>6. ASSUME NEW c \in Calls, Book!ListLost(c)
      PROVE  Goal
  <2>1. /\ UNCHANGED <<selectedDate, selectedSlot, overlapped, served>> /\ slotCall[c] # Book!Idle
        /\ slotCall' = [slotCall EXCEPT ![c] = Book!Idle] /\ slots' = {} /\ loadingSlots' = FALSE
    BY <1>6 DEF Book!ListLost
  <2>2. slotCall' \in [Calls -> BookCalls] /\ Book!Waiting' = Book!Waiting \ {c} /\ c \in Book!Waiting
    BY <1>0, <2>1 DEF Book!Waiting
  <2>3. OneList'
    BY <2>1, <2>2 DEF OneList
  <2> QED
    BY <1>0, <2>1, <2>2, <2>3
<1> QED
  BY <1>1, <1>2, <1>3, <1>4, <1>5, <1>6, BookCases, ListAlone

\* The request: types, and one to a visit.
LEMMA BookPosts ==
  ASSUME BookTypeOK, OnePost, [Next]_vars
  PROVE  /\ post' \in Posts /\ bookFails' \in Nat /\ submitting' \in BOOLEAN /\ success' \in BOOLEAN
         /\ OnePost'
<1> DEFINE Goal ==
         /\ post' \in Posts /\ bookFails' \in Nat /\ submitting' \in BOOLEAN /\ success' \in BOOLEAN
         /\ OnePost'
<1>0. /\ post \in Posts /\ bookFails \in Nat /\ submitting \in BOOLEAN /\ success \in BOOLEAN
      /\ Book!NoPost \in Posts /\ Book!NoPost.at = "none"
      /\ Cardinality(made) \in Nat
  BY FS_CardinalityType DEF BookTypeOK, OnePost, Posts, Book!NoPost
<1>1. ASSUME UNCHANGED <<made, submitting, success, post>>, bookFails' \in {bookFails, bookFails + 1}
      PROVE  Goal
  BY <1>0, <1>1 DEF OnePost
<1>2. CASE Book!handleBooking
  <2> DEFINE r == [at |-> "sent", date |-> selectedDate, slot |-> selectedSlot]
  <2>1. /\ post' = r /\ submitting' = TRUE /\ UNCHANGED <<made, success, bookFails>>
        /\ ~success /\ ~submitting /\ selectedSlot # NoSlot
    BY <1>2 DEF Book!handleBooking, Book!FormShown
  <2>2. r \in Posts /\ r # Book!NoPost /\ r.at = "sent"
    BY <2>1 DEF Posts, Book!NoPost, BookTypeOK
  <2> HIDE DEF r
  <2>3. post.at # "created"
    BY <1>0, <2>1 DEF OnePost
  <2> QED
    BY <1>0, <2>1, <2>2, <2>3 DEF OnePost
<1>3. ASSUME NEW a \in Answers,
             post.at = "sent", post' = [post EXCEPT !.at = a], UNCHANGED <<submitting, success, bookFails>>,
             \/ made' = made /\ a # "created"
             \/ a = "created" /\ \E x : made' = made \cup {x}
      PROVE  Goal
  <2> DEFINE q == [post EXCEPT !.at = a]
  <2>0. post # Book!NoPost
    BY <1>0, <1>3
  <2>1. q \in Posts /\ q # Book!NoPost /\ q.at = a
    BY <1>0, <2>0, AnsweredFacts
  <2> HIDE DEF q
  <2>2. post' = q /\ submitting' = submitting /\ success' = success /\ bookFails' = bookFails
    BY <1>3 DEF q
  <2>3. ~success /\ submitting = TRUE /\ IsFiniteSet(made)
    BY <1>0, <2>0 DEF OnePost
  <2>4. Cardinality(made) <= bookFails
    <3>1. post.at # "created"
      BY <1>3
    <3> QED
      BY <2>3, <3>1 DEF OnePost
  <2>5. ASSUME NEW x, made' = made \cup {x}
        PROVE  IsFiniteSet(made') /\ Cardinality(made') <= bookFails + 1
    <3>1. IsFiniteSet(made \cup {x}) /\ Cardinality(made \cup {x}) \in {Cardinality(made), Cardinality(made) + 1}
      BY <2>3, FS_AddElement
    <3> QED
      BY <1>0, <2>4, <2>5, <3>1
  <2>6. /\ IsFiniteSet(made') /\ Cardinality(made') <= bookFails + 1
        /\ a # "created" => Cardinality(made') <= bookFails
    <3>1. CASE made' = made
      BY <1>0, <2>3, <2>4, <3>1
    <3>2. CASE a = "created" /\ \E x : made' = made \cup {x}
      BY <2>5, <3>2
    <3> QED
      BY <1>3, <3>1, <3>2
  <2> QED
    BY <1>0, <2>1, <2>2, <2>3, <2>6 DEF OnePost
<1>4. CASE Book!PostServed
  <2>1. post.at = "sent" /\ UNCHANGED <<submitting, success, bookFails>>
    BY <1>4 DEF Book!PostServed, Book!boundVars
  <2>2. \/ made' = made /\ \E a \in {"conflict", "refused"} : post' = [post EXCEPT !.at = a]
        \/ post' = [post EXCEPT !.at = "created"] /\ \E x : made' = made \cup {x}
    BY <1>4 DEF Book!PostServed
  <2>3. CASE made' = made /\ \E a \in {"conflict", "refused"} : post' = [post EXCEPT !.at = a]
    <3>1. PICK a \in {"conflict", "refused"} : post' = [post EXCEPT !.at = a]
      BY <2>3
    <3>2. a \in Answers /\ a # "created"
      BY DEF Answers
    <3> QED
      BY <1>3, <2>1, <2>3, <3>1, <3>2
  <2>4. CASE post' = [post EXCEPT !.at = "created"] /\ \E x : made' = made \cup {x}
    <3>1. "created" \in Answers
      BY DEF Answers
    <3> QED
      BY <1>3, <2>1, <2>4, <3>1
  <2> QED
    BY <2>2, <2>3, <2>4
<1>5. CASE Book!PostRefused
  <2>1. /\ post.at = "sent" /\ UNCHANGED <<made, submitting, success, bookFails>>
        /\ \E a \in {"no address", "mismatch", "refused"} : post' = [post EXCEPT !.at = a]
    BY <1>5 DEF Book!PostRefused, Book!boundVars
  <2>2. PICK a \in {"no address", "mismatch", "refused"} : post' = [post EXCEPT !.at = a]
    BY <2>1
  <2>3. a \in Answers /\ a # "created"
    BY DEF Answers
  <2> QED
    BY <1>3, <2>1, <2>2, <2>3
<1>6. CASE Book!PostAnswered
  <2>1. /\ post' = Book!NoPost /\ submitting' = FALSE /\ made' = made /\ bookFails' = bookFails
        /\ success' = (post.at = "created") /\ post.at # "none"
    BY <1>6 DEF Book!PostAnswered, Book!boundVars
  <2>2. ~success
    BY <1>0, <2>1 DEF OnePost
  <2>3. success' \in BOOLEAN /\ (~success' => post.at # "created")
    BY <2>1, Zenon
  <2>4. /\ IsFiniteSet(made) /\ Cardinality(made) <= bookFails + 1
        /\ ~success' => Cardinality(made) <= bookFails
    BY <2>2, <2>3 DEF OnePost
  <2>5. OnePost'
    BY <1>0, <2>1, <2>4 DEF OnePost
  <2> QED
    BY <1>0, <2>1, <2>3, <2>5
<1>7. CASE Book!PostLost
  <2>1. /\ post' = Book!NoPost /\ submitting' = FALSE /\ made' = made /\ bookFails' = bookFails + 1
        /\ success' = success /\ post # Book!NoPost
    BY <1>7 DEF Book!PostLost
  <2>2. IsFiniteSet(made) /\ Cardinality(made) <= bookFails + 1 /\ ~success
    BY <2>1 DEF OnePost
  <2>3. IsFiniteSet(made') /\ Cardinality(made') <= bookFails' /\ bookFails' \in Nat /\ Cardinality(made') <= bookFails' + 1
    BY <1>0, <2>1, <2>2
  <2>4. OnePost'
    BY <1>0, <2>1, <2>2, <2>3 DEF OnePost
  <2> QED
    BY <1>0, <2>1, <2>3, <2>4
<1>8. CASE Book!handleBooking \/ Book!PostServed \/ Book!PostRefused \/ Book!PostAnswered \/ Book!PostLost
  BY <1>2, <1>4, <1>5, <1>6, <1>7, <1>8
<1>9. CASE ~(Book!handleBooking \/ Book!PostServed \/ Book!PostRefused \/ Book!PostAnswered \/ Book!PostLost)
  <2>1. UNCHANGED <<made, submitting, success, post>> /\ bookFails' \in {bookFails, bookFails + 1}
    BY <1>9, BookCases, PostAlone
  <2> QED
    BY <1>1, <2>1
<1> QED
  BY <1>8, <1>9

LEMMA BookKeeps ==
  ASSUME BookInv, [Next]_vars
  PROVE  BookInv'
<1>1. BookTypeOK /\ OneList /\ OnePost /\ Book!AsksForOfferedSlots
  BY DEF BookInv
<1>2. free' \in [Dates -> SUBSET Slots]
  <2>1. CASE Book!Elsewhere
    <3>1. PICK d \in Dates, s \in Slots : free' = [free EXCEPT ![d] = IF s \in @ THEN @ \ {s} ELSE @ \cup {s}]
      BY <2>1 DEF Book!Elsewhere
    <3> QED
      BY <1>1, <3>1 DEF BookTypeOK
  <2>2. CASE ~Book!Elsewhere
    <3>1. free' = free
      BY <2>2, BookCases DEF Book!SelectDate, Book!SelectSlot, Book!ListServed, Book!ListAnswered, Book!ListLost,
         Book!handleBooking, Book!PostServed, Book!PostRefused, Book!PostAnswered, Book!PostLost, Book!Redirect,
         Book!ProAnswered, bookVars
    <3> QED
      BY <1>1, <3>1 DEF BookTypeOK
  <2> QED
    BY <2>1, <2>2
<1>3. BookTypeOK' /\ OneList' /\ OnePost'
  BY <1>1, <1>2, BookLists, BookPosts DEF BookTypeOK
<1>4. Book!AsksForOfferedSlots'
  <2>1. CASE Book!handleBooking
    <3>1. /\ UNCHANGED <<selectedDate, selectedSlot, served, overlapped>> /\ selectedSlot # NoSlot
          /\ post' = [at |-> "sent", date |-> selectedDate, slot |-> selectedSlot]
      BY <2>1 DEF Book!handleBooking, Book!listVars
    <3>2. post'.date = selectedDate /\ post'.slot = selectedSlot
      BY <3>1
    <3> QED
      BY <1>1, <3>1, <3>2 DEF OneList, Book!AsksForOfferedSlots
  <2>2. ASSUME post' = Book!NoPost \/ (post # Book!NoPost /\ post'.date = post.date /\ post'.slot = post.slot)
        PROVE  Book!AsksForOfferedSlots'
    <3>1. post # Book!NoPost => post.date \in Dates \cup {NoDate}
      BY <1>1, PostFacts DEF BookTypeOK
    <3>2. (overlapped => overlapped') /\ \A d \in Dates : served[d] \subseteq served'[d]
      BY <1>1, BookLists
    <3> QED
      BY <1>1, <2>2, <3>1, <3>2 DEF Book!AsksForOfferedSlots
  <2>3. CASE Book!PostServed \/ Book!PostRefused
    <3>1. /\ post.at = "sent"
          /\ \E a \in Answers : post' = [post EXCEPT !.at = a]
      BY <2>3 DEF Book!PostServed, Book!PostRefused, Answers
    <3>2. post \in Posts /\ post # Book!NoPost
      BY <1>1, <3>1, PostFacts DEF BookTypeOK, Book!NoPost
    <3>3. post'.date = post.date /\ post'.slot = post.slot
      <4>1. PICK a \in Answers : post' = [post EXCEPT !.at = a]
        BY <3>1
      <4> QED
        BY <3>2, <4>1, AnsweredFacts
    <3> QED
      BY <2>2, <3>2, <3>3
  <2>4. CASE Book!PostAnswered \/ Book!PostLost
    BY <2>2, <2>4 DEF Book!PostAnswered, Book!PostLost
  <2>5. CASE post' = post
    BY <2>2, <2>5
  <2> QED
    BY <2>1, <2>3, <2>4, <2>5, BookCases, PostAlone
<1> QED
  BY <1>3, <1>4 DEF BookInv

LEMMA BookCorrect == Spec => []BookInv
<1>1. BookInv /\ [Next]_vars => BookInv'
  BY BookKeeps
<1> QED
  BY <1>1, BookInit, SafetyPart, PTL

\* A client who waits for each list before he changes the date only asks for slots that he
\* was offered for the day of his request, whatever is lost and whatever he clicks.
THEOREM AsksForOfferedSlotsHolds == Spec => []AsksForOfferedSlots
<1>1. BookInv => AsksForOfferedSlots
  BY DEF BookInv, AsksForOfferedSlots
<1> QED
  BY <1>1, BookCorrect, PTL

\* The cardinality that an instance counts with is the one of the library's theorems.
LEMMA OneCardinality == \A S : Book!Cardinality(S) = Cardinality(S)
BY DEF Book!Cardinality, Book!IsFiniteSet, Cardinality, IsFiniteSet

\* A visit makes one request, and one more for each answer that was lost, however often the
\* form is sent.
THEOREM OneRequestPerVisitHolds == Spec => []OneRequestPerVisit
<1>1. ASSUME BookInv
      PROVE  OneRequestPerVisit
  <2>1. bookFails \in Nat /\ Cardinality(made) \in Nat
        /\ Cardinality(made) <= bookFails + 1
    BY <1>1, FS_CardinalityType DEF BookInv, BookTypeOK, OnePost
  <2> QED
    BY <2>1, OneCardinality DEF OneRequestPerVisit, Book!OneRequestPerVisit
<1> QED
  BY <1>1, BookCorrect, PTL

-----------------------------------------------------------------------------
(* The lists of bookings.                                                  *)

\* A step of the part, in the order of the module.
LEMMA ListsCases ==
  ASSUME [Next]_vars
  PROVE  \/ \E s \in Lists!Sides : Lists!Load(s) \/ Lists!Confirm(s) \/ Lists!CancelDialog(s)
         \/ \E s \in Lists!Sides, b \in Bookings : Lists!Press(s, b) \/ Lists!OpenDialog(s, b)
         \/ \E b \in Bookings : Lists!Expire(b)
         \/ \E c \in ListCalls : Lists!Serve(c) \/ Lists!ServeList(c)
         \/ \E c \in ListCalls : Lists!ApplyAnswered(c) \/ Lists!RefusalAnswered(c)
         \/ \E c \in ListCalls : Lists!ListAnswered(c) \/ Lists!Lost(c)
         \/ UNCHANGED listsVars
BY ListsSteps DEF Lists!Next, Lists!User, Lists!Answers

\* A call in flight: whose it is, and what becomes of it on its way.
LEMMA ListCallFacts ==
  ASSUME NEW r \in ListRecords
  PROVE  /\ r.at = "idle" <=> r = Lists!Idle
         /\ r.at \in {"idle", "sent", "applied", "refused", "fetch", "list"}
         /\ r.at # "idle" => r.side \in Lists!Sides /\ r.rows \in Copies /\ r.op \in Operations \cup {"load"}
         /\ r.at \in {"sent", "applied", "refused"} =>
              r.op \in Operations /\ r.booking \in Bookings /\ r.duration \in Durations \cup {0}
<1>1. CASE r = Lists!Idle
  BY <1>1 DEF Lists!Idle
<1>2. CASE r \in [at : {"fetch", "list"}, side : Lists!Sides, op : {"load"}, booking : {Nobody},
                  duration : {0}, rows : Copies]
  BY <1>2 DEF Lists!Idle
<1>3. CASE r \in [at : {"sent", "applied", "refused", "fetch", "list"}, side : Lists!Sides,
                  op : Operations, booking : Bookings, duration : Durations \cup {0}, rows : Copies]
  BY <1>3 DEF Lists!Idle
<1> QED
  BY <1>1, <1>2, <1>3 DEF ListRecords

LEMMA MovedFacts ==
  ASSUME NEW r \in ListRecords, NEW a, NEW q, q = [r EXCEPT !.at = a],
         \/ r.at = "sent" /\ a \in {"applied", "refused"}
         \/ r.at = "applied" /\ a = "fetch"
  PROVE  q \in ListRecords /\ q.at = a /\ q.side = r.side /\ q.op = r.op /\ q.booking = r.booking
<1>1. r \in [at : {"sent", "applied", "refused", "fetch", "list"}, side : Lists!Sides,
             op : Operations, booking : Bookings, duration : Durations \cup {0}, rows : Copies]
  BY DEF ListRecords, Lists!Idle
<1>2. a \in {"sent", "applied", "refused", "fetch", "list"}
  OBVIOUS
<1>3. q \in [at : {"sent", "applied", "refused", "fetch", "list"}, side : Lists!Sides,
             op : Operations, booking : Bookings, duration : Durations \cup {0}, rows : Copies]
      /\ q.at = a /\ q.side = r.side /\ q.op = r.op /\ q.booking = r.booking
  BY <1>1, <1>2
<1> QED
  BY <1>3 DEF ListRecords

\* The calls that the pages make.
LEMMA EmptyFacts ==
  /\ Lists!Empty \in Copies
  /\ \A b \in Bookings : Lists!Empty[b].status = "none"
<1>1. Lists!NoRow \in Rows /\ Lists!NoRow.status = "none"
  BY DEF Lists!NoRow, Rows, Statuses
<1> QED
  BY <1>1 DEF Lists!Empty, Copies

LEMMA FetchFacts ==
  ASSUME NEW s \in Lists!Sides, NEW q, q = Lists!Fetch(s)
  PROVE  q \in ListRecords /\ q.at = "fetch" /\ q.side = s /\ q.op = "load" /\ q # Lists!Idle
<1>1. q \in [at : {"fetch", "list"}, side : Lists!Sides, op : {"load"}, booking : {Nobody},
             duration : {0}, rows : Copies]
      /\ q.at = "fetch" /\ q.side = s /\ q.op = "load"
  BY EmptyFacts DEF Lists!Fetch
<1> QED
  BY <1>1, ListCallFacts DEF ListRecords, Lists!Idle

LEMMA RequestFacts ==
  ASSUME NEW s \in Lists!Sides, NEW op \in Operations, NEW b \in Bookings, NEW d \in Durations \cup {0},
         NEW q, q = Lists!Request(s, op, b, d)
  PROVE  /\ q \in ListRecords /\ q.at = "sent" /\ q.side = s /\ q.op = op /\ q.booking = b
         /\ q.duration = d /\ q # Lists!Idle
<1>1. q \in [at : {"sent", "applied", "refused", "fetch", "list"}, side : Lists!Sides,
             op : Operations, booking : Bookings, duration : Durations \cup {0}, rows : Copies]
      /\ q.at = "sent" /\ q.side = s /\ q.op = op /\ q.booking = b /\ q.duration = d
  BY EmptyFacts DEF Lists!Request
<1> QED
  BY <1>1 DEF ListRecords, Lists!Idle

LEMMA SendFacts ==
  ASSUME NEW s \in Lists!Sides, NEW r, Lists!Send(s, r)
  PROVE  /\ \E c \in ListCalls : listCall[c] = Lists!Idle /\ listCall' = [listCall EXCEPT ![c] = r]
         /\ crossed' = [crossed EXCEPT ![s] = @ \/ Lists!InFlight(s) # {}]
<1>1. \E c \in ListCalls : listCall[c] = Lists!Idle
  BY DEF Lists!Send
<1> DEFINE c == CHOOSE c \in ListCalls : listCall[c] = Lists!Idle
<1>2. c \in ListCalls /\ listCall[c] = Lists!Idle
  BY <1>1
<1>3. listCall' = [listCall EXCEPT ![c] = r] /\ crossed' = [crossed EXCEPT ![s] = @ \/ Lists!InFlight(s) # {}]
  BY DEF Lists!Send
<1> QED
  BY <1>2, <1>3

\* What the server makes of a row: it is never pending again, and what was proposed once
\* is not changed.
LEMMA ServeFacts ==
  ASSUME ListsTypeOK, NEW c \in ListCalls, listCall[c].at = "sent",
         Lists!Allowed(listCall[c].op, row[listCall[c].booking]),
         NEW r \in Lists!To(listCall[c], row[listCall[c].booking])
  PROVE  /\ r \in Rows /\ r.status # "PENDING"
         /\ row[listCall[c].booking].isModifiedByPro =>
              r.isModifiedByPro /\ r.duration = row[listCall[c].booking].duration
         /\ r.status = "WAITING_FOR_CLIENT" => r.isModifiedByPro
         /\ r.status = "CONFIRMED" =>
              /\ listCall[c].op = "accept" \/ row[listCall[c].booking].status = "PENDING"
              /\ r.isModifiedByPro = row[listCall[c].booking].isModifiedByPro
              /\ r.duration = row[listCall[c].booking].duration
<1> DEFINE call == listCall[c]
           old == row[call.booking]
<1>1. call.op \in Operations /\ call.booking \in Bookings /\ call.side \in Lists!Sides
  BY ListCallFacts DEF ListsTypeOK
<1>2. old \in Rows
  BY <1>1 DEF ListsTypeOK, Copies
<1>3. call.op = "modify" => call.duration \in Durations
  BY DEF ListsTypeOK
<1>4. Lists!Allowed(call.op, old) /\ r \in Lists!To(call, old)
  OBVIOUS
<1> HIDE DEF call, old
<1>5. CASE call.op = "modify"
  <2>1. r = [status |-> "WAITING_FOR_CLIENT", duration |-> call.duration, isModifiedByPro |-> TRUE]
    BY <1>4, <1>5 DEF Lists!To
  <2>2. ~old.isModifiedByPro
    BY <1>4, <1>5 DEF Lists!Allowed
  <2> QED
    BY <1>3, <1>5, <2>1, <2>2 DEF Rows, Statuses, Lists!OPEN, call, old
<1>6. CASE call.op # "modify"
  <2>1. \E t \in Statuses \ {"PENDING", "WAITING_FOR_CLIENT"} :
          /\ r = [old EXCEPT !.status = t]
          /\ t = "CONFIRMED" => call.op \in {"confirm", "accept"}
    <3>1. CASE call.op \in {"confirm", "accept"}
      BY <1>4, <3>1 DEF Lists!To, Statuses, Lists!OPEN
    <3>2. CASE call.op \in {"decline", "refuse"}
      BY <1>4, <3>2 DEF Lists!To, Statuses, Lists!CLOSED
    <3>3. CASE call.op = "complete"
      BY <1>4, <3>3 DEF Lists!To, Statuses
    <3>4. CASE call.op = "cancel"
      BY <1>1, <1>4, <3>4 DEF Lists!To, Lists!Cancelled, Lists!Sides, Statuses, Lists!CLOSED
    <3> QED
      BY <1>1, <1>6, <3>1, <3>2, <3>3, <3>4 DEF Operations
  <2>2. PICK t \in Statuses \ {"PENDING", "WAITING_FOR_CLIENT"} :
          /\ r = [old EXCEPT !.status = t]
          /\ t = "CONFIRMED" => call.op \in {"confirm", "accept"}
    BY <2>1
  <2>3. r \in Rows /\ r.status = t /\ r.isModifiedByPro = old.isModifiedByPro /\ r.duration = old.duration
    BY <1>2, <2>2 DEF Rows
  <2>4. call.op = "confirm" => old.status = "PENDING"
    BY <1>4 DEF Lists!Allowed, Lists!From
  <2> QED
    BY <2>2, <2>3, <2>4 DEF call, old
<1> QED
  BY <1>5, <1>6

\* A change of one place: what is there, and that the rest is as it was.
LEMMA OneCall ==
  ASSUME ListsTypeOK, NEW c \in ListCalls, NEW q \in ListRecords, listCall' = [listCall EXCEPT ![c] = q]
  PROVE  /\ listCall' \in [ListCalls -> ListRecords] /\ listCall'[c] = q
         /\ \A d \in ListCalls : d # c => listCall'[d] = listCall[d]
BY DEF ListsTypeOK

\* The server answers a call: the row of its booking is changed, or nothing is.
LEMMA ServeStep ==
  ASSUME ListsTypeOK, NEW c \in ListCalls, Lists!Serve(c)
  PROVE  /\ listCall[c].at = "sent" /\ listCall[c].booking \in Bookings /\ listCall[c].side \in Lists!Sides
         /\ UNCHANGED <<list, dialog, agreed, crossed, failed>>
         /\ listCall' \in [ListCalls -> ListRecords] /\ listCall'[c].at \in {"applied", "refused"}
         /\ listCall'[c].side = listCall[c].side
         /\ \A d \in ListCalls : d # c => listCall'[d] = listCall[d]
         /\ \/ UNCHANGED <<row, last>> /\ listCall'[c].at = "refused"
            \/ /\ listCall'[c].at = "applied"
               /\ last' = [last EXCEPT ![listCall[c].booking] = listCall[c].side]
               /\ \E r \in Lists!To(listCall[c], row[listCall[c].booking]) :
                    row' = [row EXCEPT ![listCall[c].booking] = r]
               /\ Lists!Allowed(listCall[c].op, row[listCall[c].booking])
<1>1. listCall[c] \in ListRecords /\ listCall[c].at = "sent" /\ UNCHANGED <<list, dialog, agreed, crossed, failed>>
  BY DEF ListsTypeOK, Lists!Serve, Lists!pageVars
<1>2. listCall[c].booking \in Bookings /\ listCall[c].side \in Lists!Sides
  BY <1>1, ListCallFacts
<1>3. ASSUME NEW a \in {"applied", "refused"}, listCall' = [listCall EXCEPT ![c].at = a]
      PROVE  /\ listCall' \in [ListCalls -> ListRecords] /\ listCall'[c].at = a
             /\ listCall'[c].side = listCall[c].side
             /\ \A d \in ListCalls : d # c => listCall'[d] = listCall[d]
  <2> DEFINE q == [listCall[c] EXCEPT !.at = a]
  <2>1. q \in ListRecords /\ q.at = a /\ q.side = listCall[c].side
    BY <1>1, MovedFacts
  <2>2. listCall' = [listCall EXCEPT ![c] = q]
    BY <1>3
  <2> HIDE DEF q
  <2> QED
    BY <2>1, <2>2, OneCall
<1>4. CASE Lists!Allowed(listCall[c].op, row[listCall[c].booking])
  <2>1. /\ listCall' = [listCall EXCEPT ![c].at = "applied"]
        /\ last' = [last EXCEPT ![listCall[c].booking] = listCall[c].side]
        /\ \E r \in Lists!To(listCall[c], row[listCall[c].booking]) : row' = [row EXCEPT ![listCall[c].booking] = r]
    BY <1>4 DEF Lists!Serve
  <2> QED
    BY <1>1, <1>2, <1>3, <1>4, <2>1
<1>5. CASE ~Lists!Allowed(listCall[c].op, row[listCall[c].booking])
  <2>1. listCall' = [listCall EXCEPT ![c].at = "refused"] /\ UNCHANGED <<row, last>>
    BY <1>5 DEF Lists!Serve
  <2> QED
    BY <1>1, <1>2, <1>3, <2>1
<1> QED
  BY <1>4, <1>5

\* A row: what was proposed once stays, and a row that has just become what it is was
\* accepted, or never was proposed anything.
LEMMA RowSteps ==
  ASSUME ListsTypeOK, Proposed, Lists!AcceptedAsShown, [Next]_vars
  PROVE  /\ row' \in Copies
         /\ \A b \in Bookings :
              /\ row[b].isModifiedByPro => row'[b].isModifiedByPro /\ row'[b].duration = row[b].duration
              /\ row'[b].status = "PENDING" => ~row'[b].isModifiedByPro
              /\ row'[b].status = "WAITING_FOR_CLIENT" => row'[b].isModifiedByPro
              /\ row'[b].isModifiedByPro /\ row'[b].status = "CONFIRMED" => row'[b].duration = agreed[b]
<1> DEFINE Kept(r) ==
      /\ r \in Copies
      /\ \A b \in Bookings :
           /\ row[b].isModifiedByPro => r[b].isModifiedByPro /\ r[b].duration = row[b].duration
           /\ r[b].status = "PENDING" => ~r[b].isModifiedByPro
           /\ r[b].status = "WAITING_FOR_CLIENT" => r[b].isModifiedByPro
           /\ r[b].isModifiedByPro /\ r[b].status = "CONFIRMED" => r[b].duration = agreed[b]
<1>1. Kept(row)
  BY DEF ListsTypeOK, Proposed, Lists!AcceptedAsShown
<1>2. ASSUME NEW b \in Bookings, Lists!Expire(b)
      PROVE  Kept(row')
  <2> DEFINE r == [row[b] EXCEPT !.status = "EXPIRED"]
  <2>1. row \in Copies /\ row[b] \in Rows /\ row' = [row EXCEPT ![b] = r]
    BY <1>2 DEF Lists!Expire, ListsTypeOK, Copies
  <2>2. r \in Rows /\ r.status = "EXPIRED" /\ r.isModifiedByPro = row[b].isModifiedByPro /\ r.duration = row[b].duration
    BY <2>1 DEF Rows, Statuses, Lists!CLOSED
  <2> HIDE DEF r
  <2>3. row' \in Copies /\ row'[b] = r /\ \A a \in Bookings : a # b => row'[a] = row[a]
    BY <2>1, <2>2 DEF Copies
  <2> QED
    BY <1>1, <2>2, <2>3
<1>3. ASSUME NEW c \in ListCalls, Lists!Serve(c)
      PROVE  Kept(row')
  <2> DEFINE b == listCall[c].booking
  <2>1. listCall[c].at = "sent" /\ b \in Bookings
    BY <1>3, ServeStep
  <2>2. CASE row' = row
    BY <1>1, <2>2
  <2>3. CASE row' # row
    <3>1. Lists!Allowed(listCall[c].op, row[b]) /\ \E r \in Lists!To(listCall[c], row[b]) : row' = [row EXCEPT ![b] = r]
      BY <1>3, <2>3, ServeStep
    <3>2. PICK r \in Lists!To(listCall[c], row[b]) : row' = [row EXCEPT ![b] = r]
      BY <3>1
    <3>3. /\ r \in Rows /\ r.status # "PENDING"
          /\ row[b].isModifiedByPro => r.isModifiedByPro /\ r.duration = row[b].duration
          /\ r.status = "WAITING_FOR_CLIENT" => r.isModifiedByPro
          /\ r.status = "CONFIRMED" =>
               /\ listCall[c].op = "accept" \/ row[b].status = "PENDING"
               /\ r.isModifiedByPro = row[b].isModifiedByPro
               /\ r.duration = row[b].duration
      BY <2>1, <3>1, ServeFacts
    <3>4. listCall[c].op = "accept" => row[b].duration = agreed[b]
      BY <2>1 DEF Proposed
    <3>5. row[b].status = "PENDING" => ~row[b].isModifiedByPro
      BY <2>1 DEF Proposed
    <3> HIDE DEF b
    <3>6. row' \in Copies /\ row'[b] = r /\ \A a \in Bookings : a # b => row'[a] = row[a]
      BY <2>1, <3>2, <3>3 DEF Copies, ListsTypeOK
    <3>7. r.isModifiedByPro /\ r.status = "CONFIRMED" => r.duration = agreed[b]
      BY <3>3, <3>4, <3>5
    <3> QED
      BY <1>1, <3>3, <3>6, <3>7
  <2> QED
    BY <2>2, <2>3
<1>4. ASSUME ~(\E b \in Bookings : Lists!Expire(b)), ~(\E c \in ListCalls : Lists!Serve(c))
      PROVE  Kept(row')
  <2>1. row' = row
    BY <1>4, ListsCases DEF Lists!Load, Lists!Confirm, Lists!CancelDialog, Lists!Press, Lists!OpenDialog,
       Lists!ServeList, Lists!ApplyAnswered, Lists!RefusalAnswered, Lists!ListAnswered, Lists!Lost, listsVars
  <2> QED
    BY <1>1, <2>1
<1> QED
  BY <1>2, <1>3, <1>4

\* A page makes a call: an acceptance is of the duration on the screen.
LEMMA PageStep ==
  ASSUME ListsTypeOK, NEW s \in Lists!Sides,
         Lists!Load(s) \/ Lists!Confirm(s) \/ (\E b \in Bookings : Lists!Press(s, b))
  PROVE  /\ UNCHANGED <<row, list, dialog, last, failed>>
         /\ crossed' = [crossed EXCEPT ![s] = @ \/ Lists!InFlight(s) # {}]
         /\ \E c \in ListCalls, q \in ListRecords :
              /\ listCall[c] = Lists!Idle /\ listCall' = [listCall EXCEPT ![c] = q]
              /\ q.side = s /\ q.at \in {"sent", "fetch"}
              /\ q.at = "sent" /\ q.op = "modify" => q.duration \in Durations
              /\ \/ agreed' = agreed /\ ~(q.at = "sent" /\ q.op = "accept")
                 \/ /\ q.booking \in Bookings /\ list[s][q.booking].status = "WAITING_FOR_CLIENT"
                    /\ agreed' = [agreed EXCEPT ![q.booking] = list[s][q.booking].duration]
<1>1. CASE Lists!Load(s)
  <2>1. Lists!Send(s, Lists!Fetch(s)) /\ UNCHANGED <<row, list, dialog, agreed, last, failed>>
    BY <1>1 DEF Lists!Load
  <2> DEFINE q == Lists!Fetch(s)
  <2>2. q \in ListRecords /\ q.at = "fetch" /\ q.side = s
    BY FetchFacts
  <2>3. /\ \E c \in ListCalls : listCall[c] = Lists!Idle /\ listCall' = [listCall EXCEPT ![c] = q]
        /\ crossed' = [crossed EXCEPT ![s] = @ \/ Lists!InFlight(s) # {}]
    BY <2>1, SendFacts
  <2> HIDE DEF q
  <2> QED
    BY <2>1, <2>2, <2>3
<1>2. CASE Lists!Confirm(s)
  <2>1. /\ dialog[s] # Lists!Closed /\ UNCHANGED <<row, list, dialog, agreed, last, failed>>
        /\ \E d \in IF dialog[s].kind = "modify" THEN Durations ELSE {0} :
             Lists!Send(s, Lists!Request(s, dialog[s].kind, dialog[s].booking, d))
    BY <1>2 DEF Lists!Confirm, Lists!Confirmable
  <2>2. dialog[s].kind \in {"modify", "complete", "cancel"} /\ dialog[s].booking \in Bookings
    BY <2>1 DEF ListsTypeOK, Dialogs
  <2>3. PICK d \in IF dialog[s].kind = "modify" THEN Durations ELSE {0} :
          Lists!Send(s, Lists!Request(s, dialog[s].kind, dialog[s].booking, d))
    BY <2>1
  <2> DEFINE q == Lists!Request(s, dialog[s].kind, dialog[s].booking, d)
  <2>4. q \in ListRecords /\ q.at = "sent" /\ q.side = s /\ q.op = dialog[s].kind /\ q.duration = d
    BY <2>2, RequestFacts DEF Operations
  <2>5. /\ \E c \in ListCalls : listCall[c] = Lists!Idle /\ listCall' = [listCall EXCEPT ![c] = q]
        /\ crossed' = [crossed EXCEPT ![s] = @ \/ Lists!InFlight(s) # {}]
    BY <2>3, SendFacts
  <2> HIDE DEF q
  <2>6. (q.op = "modify" => q.duration \in Durations) /\ q.op # "accept"
    BY <2>2, <2>4
  <2> QED
    BY <2>1, <2>4, <2>5, <2>6
<1>3. ASSUME NEW b \in Bookings, Lists!Press(s, b)
      PROVE  /\ UNCHANGED <<row, list, dialog, last, failed>>
             /\ crossed' = [crossed EXCEPT ![s] = @ \/ Lists!InFlight(s) # {}]
             /\ \E c \in ListCalls, q \in ListRecords :
                  /\ listCall[c] = Lists!Idle /\ listCall' = [listCall EXCEPT ![c] = q]
                  /\ q.side = s /\ q.at \in {"sent", "fetch"}
                  /\ q.at = "sent" /\ q.op = "modify" => q.duration \in Durations
                  /\ \/ agreed' = agreed /\ ~(q.at = "sent" /\ q.op = "accept")
                     \/ /\ q.booking \in Bookings /\ list[s][q.booking].status = "WAITING_FOR_CLIENT"
                        /\ agreed' = [agreed EXCEPT ![q.booking] = list[s][q.booking].duration]
  <2>1. PICK op \in Lists!Buttons(s, b) \ Lists!InDialog(s) :
          /\ Lists!Send(s, Lists!Request(s, op, b, 0))
          /\ agreed' = IF op = "accept" THEN [agreed EXCEPT ![b] = list[s][b].duration] ELSE agreed
          /\ UNCHANGED <<row, list, dialog, last, failed>>
    BY <1>3 DEF Lists!Press
  <2>2. op \in {"confirm", "decline", "accept", "refuse"}
        /\ (op = "accept" => list[s][b].status = "WAITING_FOR_CLIENT")
    <3>1. CASE s = "pro"
      BY <3>1 DEF Lists!Buttons, Lists!ProButtons, Lists!InDialog
    <3>2. CASE s = "client"
      BY <3>2 DEF Lists!Buttons, Lists!ClientButtons, Lists!InDialog
    <3> QED
      BY <3>1, <3>2 DEF Lists!Sides
  <2> DEFINE q == Lists!Request(s, op, b, 0)
  <2>3. q \in ListRecords /\ q.at = "sent" /\ q.side = s /\ q.op = op /\ q.booking = b
    BY <2>2, RequestFacts DEF Operations
  <2>4. /\ \E c \in ListCalls : listCall[c] = Lists!Idle /\ listCall' = [listCall EXCEPT ![c] = q]
        /\ crossed' = [crossed EXCEPT ![s] = @ \/ Lists!InFlight(s) # {}]
    BY <2>1, SendFacts
  <2> HIDE DEF q
  <2>5. q.op # "modify"
    BY <2>2, <2>3
  <2>6. \/ agreed' = agreed /\ ~(q.at = "sent" /\ q.op = "accept")
        \/ /\ q.booking \in Bookings /\ list[s][q.booking].status = "WAITING_FOR_CLIENT"
           /\ agreed' = [agreed EXCEPT ![q.booking] = list[s][q.booking].duration]
    <3>1. CASE op = "accept"
      BY <2>1, <2>2, <2>3, <3>1
    <3>2. CASE op # "accept"
      BY <2>1, <2>3, <3>2
    <3> QED
      BY <3>1, <3>2
  <2> QED
    BY <2>1, <2>3, <2>4, <2>5, <2>6
<1> QED
  BY <1>1, <1>2, <1>3

\* A list is served: the rows of the moment.
LEMMA ServeListStep ==
  ASSUME ListsTypeOK, NEW c \in ListCalls, Lists!ServeList(c)
  PROVE  /\ UNCHANGED <<row, list, dialog, agreed, last, crossed, failed>>
         /\ listCall[c].at = "fetch"
         /\ listCall' \in [ListCalls -> ListRecords] /\ listCall'[c].at = "list"
         /\ listCall'[c].side = listCall[c].side /\ listCall'[c].rows = row
         /\ \A d \in ListCalls : d # c => listCall'[d] = listCall[d]
<1> DEFINE q == [listCall[c] EXCEPT !.at = "list", !.rows = row]
<1>1. /\ UNCHANGED <<row, list, dialog, agreed, last, crossed, failed>>
      /\ listCall[c].at = "fetch" /\ listCall' = [listCall EXCEPT ![c] = q]
  BY DEF Lists!ServeList, Lists!pageVars, Lists!historyVars
<1>2. listCall[c] \in ListRecords /\ row \in Copies
  BY DEF ListsTypeOK
<1>3. q \in ListRecords /\ q.at = "list" /\ q.side = listCall[c].side /\ q.rows = row
  <2>1. CASE listCall[c] \in [at : {"fetch", "list"}, side : Lists!Sides, op : {"load"}, booking : {Nobody},
                             duration : {0}, rows : Copies]
    <3>1. q \in [at : {"fetch", "list"}, side : Lists!Sides, op : {"load"}, booking : {Nobody},
                 duration : {0}, rows : Copies]
          /\ q.at = "list" /\ q.side = listCall[c].side /\ q.rows = row
      BY <1>2, <2>1
    <3> QED
      BY <3>1 DEF ListRecords
  <2>2. CASE listCall[c] \in [at : {"sent", "applied", "refused", "fetch", "list"}, side : Lists!Sides,
                             op : Operations, booking : Bookings, duration : Durations \cup {0}, rows : Copies]
    <3>1. q \in [at : {"sent", "applied", "refused", "fetch", "list"}, side : Lists!Sides,
                 op : Operations, booking : Bookings, duration : Durations \cup {0}, rows : Copies]
          /\ q.at = "list" /\ q.side = listCall[c].side /\ q.rows = row
      BY <1>2, <2>2
    <3> QED
      BY <3>1 DEF ListRecords
  <2>3. listCall[c] # Lists!Idle
    BY <1>1 DEF Lists!Idle
  <2> QED
    BY <1>2, <2>1, <2>2, <2>3 DEF ListRecords
<1> HIDE DEF q
<1> QED
  BY <1>1, <1>3, OneCall

\* A change that was accepted is followed by a load of the list.
LEMMA ApplyStep ==
  ASSUME ListsTypeOK, NEW c \in ListCalls, Lists!ApplyAnswered(c)
  PROVE  /\ UNCHANGED <<row, list, dialog, agreed, last, crossed, failed>>
         /\ listCall[c].at = "applied"
         /\ listCall' \in [ListCalls -> ListRecords] /\ listCall'[c].at = "fetch"
         /\ listCall'[c].side = listCall[c].side
         /\ \A d \in ListCalls : d # c => listCall'[d] = listCall[d]
<1> DEFINE q == [listCall[c] EXCEPT !.at = "fetch"]
<1>1. /\ UNCHANGED <<row, list, dialog, agreed, last, crossed, failed>>
      /\ listCall[c].at = "applied" /\ listCall' = [listCall EXCEPT ![c] = q]
  BY DEF Lists!ApplyAnswered, Lists!historyVars
<1>2. q \in ListRecords /\ q.at = "fetch" /\ q.side = listCall[c].side
  <2>1. listCall[c] \in ListRecords
    BY DEF ListsTypeOK
  <2> QED
    BY <1>1, <2>1, MovedFacts
<1> HIDE DEF q
<1> QED
  BY <1>1, <1>2, OneCall

\* The end of a call: the page shows its list, or what it had.
LEMMA EndStep ==
  ASSUME ListsTypeOK, NEW c \in ListCalls,
         Lists!RefusalAnswered(c) \/ Lists!ListAnswered(c) \/ Lists!Lost(c)
  PROVE  /\ UNCHANGED <<row, agreed, last, crossed>>
         /\ listCall[c].side \in Lists!Sides /\ listCall[c].rows \in Copies
         /\ listCall' \in [ListCalls -> ListRecords] /\ listCall'[c] = Lists!Idle /\ listCall[c].at # "idle"
         /\ \A d \in ListCalls : d # c => listCall'[d] = listCall[d]
         /\ dialog' \in [Lists!Sides -> Dialogs]
         /\ \/ failed' = failed /\ list' = list /\ listCall[c].at = "refused"
            \/ failed' = failed /\ list' = [list EXCEPT ![listCall[c].side] = listCall[c].rows] /\ listCall[c].at = "list"
            \/ /\ failed' = [failed EXCEPT ![listCall[c].side] = TRUE]
               /\ list' \in {list, [list EXCEPT ![listCall[c].side] = Lists!Empty]}
<1>1. /\ UNCHANGED <<row, agreed, last, crossed>>
      /\ listCall' = [listCall EXCEPT ![c] = Lists!Idle] /\ listCall[c].at # "idle"
      /\ \/ failed' = failed /\ list' = list /\ listCall[c].at = "refused"
         \/ failed' = failed /\ list' = [list EXCEPT ![listCall[c].side] = listCall[c].rows] /\ listCall[c].at = "list"
         \/ /\ failed' = [failed EXCEPT ![listCall[c].side] = TRUE]
            /\ list' \in {list, [list EXCEPT ![listCall[c].side] = Lists!Empty]}
  BY DEF Lists!RefusalAnswered, Lists!ListAnswered, Lists!Lost, Lists!historyVars
<1>2. listCall[c] \in ListRecords /\ Lists!Idle \in ListRecords
  BY DEF ListsTypeOK, ListRecords
<1>3. listCall[c].side \in Lists!Sides /\ listCall[c].rows \in Copies
  BY <1>1, <1>2, ListCallFacts
<1>4. dialog' = dialog \/ \E x \in {dialog[listCall[c].side], Lists!Closed} : dialog' = [dialog EXCEPT ![listCall[c].side] = x]
  BY DEF Lists!RefusalAnswered, Lists!ListAnswered, Lists!Lost, Lists!Finally
<1>5. Lists!Closed \in Dialogs /\ dialog \in [Lists!Sides -> Dialogs]
  BY DEF Dialogs, ListsTypeOK
<1>6. dialog' \in [Lists!Sides -> Dialogs]
  BY <1>3, <1>4, <1>5
<1> QED
  BY <1>1, <1>2, <1>3, <1>6, OneCall

\* The steps that make no call, take none further and end none.
LEMMA QuietStep ==
  ASSUME \/ \E s \in Lists!Sides : Lists!CancelDialog(s)
         \/ \E s \in Lists!Sides, b \in Bookings : Lists!OpenDialog(s, b)
         \/ UNCHANGED listsVars
  PROVE  UNCHANGED <<row, list, listCall, agreed, last, crossed, failed>>
BY DEF Lists!CancelDialog, Lists!OpenDialog, Lists!historyVars, listsVars

LEMMA ExpireStep ==
  ASSUME ListsTypeOK, NEW b \in Bookings, Lists!Expire(b)
  PROVE  /\ UNCHANGED <<list, dialog, listCall, agreed, crossed, failed>>
         /\ last' = [last EXCEPT ![b] = "cron"]
         /\ \A a \in Bookings : a # b => row'[a] = row[a]
BY DEF Lists!Expire, Lists!pageVars, ListsTypeOK, Copies

\* Types.
LEMMA ListsTypes ==
  ASSUME ListsTypeOK, Proposed, Lists!AcceptedAsShown, [Next]_vars
  PROVE  ListsTypeOK'
<1>0. /\ row \in Copies /\ list \in [Lists!Sides -> Copies] /\ dialog \in [Lists!Sides -> Dialogs]
      /\ listCall \in [ListCalls -> ListRecords]
      /\ \A c \in ListCalls : listCall[c].at = "sent" /\ listCall[c].op = "modify" => listCall[c].duration \in Durations
      /\ agreed \in [Bookings -> Durations \cup {0, 1}]
      /\ last \in [Bookings -> {"nobody", "pro", "client", "cron"}]
      /\ crossed \in [Lists!Sides -> BOOLEAN] /\ failed \in [Lists!Sides -> BOOLEAN]
      /\ row' \in Copies
  BY RowSteps DEF ListsTypeOK
<1>1. ASSUME NEW s \in Lists!Sides,
             Lists!Load(s) \/ Lists!Confirm(s) \/ (\E b \in Bookings : Lists!Press(s, b))
      PROVE  ListsTypeOK'
  <2>1. /\ UNCHANGED <<row, list, dialog, last, failed>>
        /\ crossed' = [crossed EXCEPT ![s] = @ \/ Lists!InFlight(s) # {}]
    BY <1>1, PageStep
  <2>2. PICK c \in ListCalls, q \in ListRecords :
          /\ listCall[c] = Lists!Idle /\ listCall' = [listCall EXCEPT ![c] = q]
          /\ q.side = s /\ q.at \in {"sent", "fetch"}
          /\ q.at = "sent" /\ q.op = "modify" => q.duration \in Durations
          /\ \/ agreed' = agreed /\ ~(q.at = "sent" /\ q.op = "accept")
             \/ /\ q.booking \in Bookings /\ list[s][q.booking].status = "WAITING_FOR_CLIENT"
                /\ agreed' = [agreed EXCEPT ![q.booking] = list[s][q.booking].duration]
    BY <1>1, PageStep
  <2>3. /\ listCall' \in [ListCalls -> ListRecords]
        /\ \A d \in ListCalls : listCall'[d].at = "sent" /\ listCall'[d].op = "modify" => listCall'[d].duration \in Durations
    BY <1>0, <2>2, OneCall
  <2>4. agreed' \in [Bookings -> Durations \cup {0, 1}]
    <3>1. q.booking \in Bookings => list[s][q.booking].duration \in Durations \cup {0, 1}
      BY <1>0 DEF Copies, Rows
    <3> QED
      BY <1>0, <2>2, <3>1
  <2>5. crossed' \in [Lists!Sides -> BOOLEAN]
    BY <1>0, <2>1
  <2> QED
    BY <1>0, <2>1, <2>3, <2>4, <2>5 DEF ListsTypeOK
<1>2. CASE \/ \E s \in Lists!Sides : Lists!CancelDialog(s)
           \/ \E s \in Lists!Sides, b \in Bookings : Lists!OpenDialog(s, b)
           \/ UNCHANGED listsVars
  <2>1. UNCHANGED <<row, list, listCall, agreed, last, crossed, failed>>
    BY <1>2, QuietStep
  <2>2. dialog' \in [Lists!Sides -> Dialogs]
    <3>1. CASE \E s \in Lists!Sides : Lists!CancelDialog(s)
      BY <1>0, <3>1 DEF Lists!CancelDialog, Dialogs
    <3>2. ASSUME NEW s \in Lists!Sides, NEW b \in Bookings, Lists!OpenDialog(s, b)
          PROVE  dialog' \in [Lists!Sides -> Dialogs]
      <4>1. PICK op \in Lists!Buttons(s, b) \cap Lists!InDialog(s) :
              dialog' = [dialog EXCEPT ![s] = [kind |-> op, booking |-> b]]
        BY <3>2 DEF Lists!OpenDialog
      <4>2. op \in {"modify", "complete", "cancel"}
        BY DEF Lists!InDialog
      <4>3. [kind |-> op, booking |-> b] \in Dialogs
        BY <4>2 DEF Dialogs
      <4> QED
        BY <1>0, <4>1, <4>3
    <3>3. CASE UNCHANGED listsVars
      BY <1>0, <3>3 DEF listsVars
    <3> QED
      BY <1>2, <3>1, <3>2, <3>3
  <2> QED
    BY <1>0, <2>1, <2>2 DEF ListsTypeOK
<1>3. ASSUME NEW b \in Bookings, Lists!Expire(b)
      PROVE  ListsTypeOK'
  <2>1. last' \in [Bookings -> {"nobody", "pro", "client", "cron"}]
    BY <1>0, <1>3, ExpireStep
  <2> QED
    BY <1>0, <1>3, <2>1, ExpireStep DEF ListsTypeOK
<1>4. ASSUME NEW c \in ListCalls, Lists!Serve(c)
      PROVE  ListsTypeOK'
  <2>1. /\ UNCHANGED <<list, dialog, agreed, crossed, failed>>
        /\ listCall' \in [ListCalls -> ListRecords] /\ listCall'[c].at \in {"applied", "refused"}
        /\ \A d \in ListCalls : d # c => listCall'[d] = listCall[d]
        /\ last' = last \/ last' = [last EXCEPT ![listCall[c].booking] = listCall[c].side]
        /\ listCall[c].side \in Lists!Sides
    BY <1>4, ServeStep
  <2>2. last' \in [Bookings -> {"nobody", "pro", "client", "cron"}]
    BY <1>0, <2>1 DEF Lists!Sides
  <2> QED
    BY <1>0, <2>1, <2>2 DEF ListsTypeOK
<1>5. ASSUME NEW c \in ListCalls, Lists!ServeList(c)
      PROVE  ListsTypeOK'
  <2>1. /\ UNCHANGED <<row, list, dialog, agreed, last, crossed, failed>>
        /\ listCall' \in [ListCalls -> ListRecords] /\ listCall'[c].at = "list"
        /\ \A d \in ListCalls : d # c => listCall'[d] = listCall[d]
    BY <1>5, ServeListStep
  <2> QED
    BY <1>0, <2>1 DEF ListsTypeOK
<1>6. ASSUME NEW c \in ListCalls, Lists!ApplyAnswered(c)
      PROVE  ListsTypeOK'
  <2>1. /\ UNCHANGED <<row, list, dialog, agreed, last, crossed, failed>>
        /\ listCall' \in [ListCalls -> ListRecords] /\ listCall'[c].at = "fetch"
        /\ \A d \in ListCalls : d # c => listCall'[d] = listCall[d]
    BY <1>6, ApplyStep
  <2> QED
    BY <1>0, <2>1 DEF ListsTypeOK
<1>7. ASSUME NEW c \in ListCalls,
             Lists!RefusalAnswered(c) \/ Lists!ListAnswered(c) \/ Lists!Lost(c)
      PROVE  ListsTypeOK'
  <2>1. /\ UNCHANGED <<row, agreed, last, crossed>>
        /\ listCall[c].side \in Lists!Sides /\ listCall[c].rows \in Copies
        /\ listCall' \in [ListCalls -> ListRecords] /\ listCall'[c] = Lists!Idle
        /\ \A d \in ListCalls : d # c => listCall'[d] = listCall[d]
        /\ dialog' \in [Lists!Sides -> Dialogs]
        /\ failed' = failed \/ failed' = [failed EXCEPT ![listCall[c].side] = TRUE]
        /\ \/ list' = list
           \/ list' = [list EXCEPT ![listCall[c].side] = listCall[c].rows]
           \/ list' = [list EXCEPT ![listCall[c].side] = Lists!Empty]
    BY <1>7, EndStep
  <2>2. list' \in [Lists!Sides -> Copies]
    BY <1>0, <2>1, EmptyFacts
  <2>4. failed' \in [Lists!Sides -> BOOLEAN]
    BY <1>0, <2>1
  <2>3. listCall'[c].at # "sent"
    BY <2>1 DEF Lists!Idle
  <2> QED
    BY <1>0, <2>1, <2>2, <2>3, <2>4 DEF ListsTypeOK
<1> HIDE DEF ListsTypeOK
<1>8. CASE \E s \in Lists!Sides : Lists!Load(s) \/ Lists!Confirm(s) \/ Lists!CancelDialog(s)
  BY <1>1, <1>2, <1>8, Zenon
<1>9. CASE \E s \in Lists!Sides, b \in Bookings : Lists!Press(s, b) \/ Lists!OpenDialog(s, b)
  BY <1>1, <1>2, <1>9, Zenon
<1>10. CASE \E c \in ListCalls : Lists!Serve(c) \/ Lists!ServeList(c)
  BY <1>4, <1>5, <1>10, Zenon
<1>11. CASE \E c \in ListCalls : Lists!ApplyAnswered(c) \/ Lists!RefusalAnswered(c)
  BY <1>6, <1>7, <1>11, Zenon
<1>12. CASE \E c \in ListCalls : Lists!ListAnswered(c) \/ Lists!Lost(c)
  BY <1>7, <1>12, Zenon
<1> QED
  BY <1>2, <1>3, <1>8, <1>9, <1>10, <1>11, <1>12, ListsCases, Zenon

\* A copy that is current stays so, and what a client accepts is what was proposed.
LEMMA ListsProposed ==
  ASSUME ListsTypeOK, Proposed, Lists!AcceptedAsShown, [Next]_vars
  PROVE  Proposed' /\ Lists!AcceptedAsShown'
<1>0. /\ listCall \in [ListCalls -> ListRecords] /\ agreed \in [Bookings -> Durations \cup {0, 1}]
      /\ list \in [Lists!Sides -> Copies]
      /\ \A b \in Bookings :
           /\ row[b].isModifiedByPro => row'[b].isModifiedByPro /\ row'[b].duration = row[b].duration
           /\ row'[b].status = "PENDING" => ~row'[b].isModifiedByPro
           /\ row'[b].status = "WAITING_FOR_CLIENT" => row'[b].isModifiedByPro
           /\ row'[b].isModifiedByPro /\ row'[b].status = "CONFIRMED" => row'[b].duration = agreed[b]
           /\ \A s \in Lists!Sides : Current(b, list[s][b])
           /\ \A c \in ListCalls :
                /\ listCall[c].at = "list" => Current(b, listCall[c].rows[b])
                /\ listCall[c].at = "sent" /\ listCall[c].op = "accept" /\ listCall[c].booking = b
                     => row[b].isModifiedByPro /\ row[b].duration = agreed[b]
  BY RowSteps DEF ListsTypeOK, Proposed
<1>1. ASSUME NEW b \in Bookings, NEW r, Current(b, r)
      PROVE  r.status = "WAITING_FOR_CLIENT" => row'[b].isModifiedByPro /\ row'[b].duration = r.duration
  BY <1>0, <1>1 DEF Current
\* What is left to show of a step: the lists, the calls, and what was agreed.
<1>2. ASSUME agreed' = agreed,
             \A s \in Lists!Sides, b \in Bookings :
               list'[s][b].status = "WAITING_FOR_CLIENT" =>
                 row'[b].isModifiedByPro /\ row'[b].duration = list'[s][b].duration,
             \A c \in ListCalls :
               \/ listCall'[c] = listCall[c]
               \/ listCall'[c].at \notin {"sent", "list"}
               \/ listCall'[c].at = "sent" /\ listCall'[c].op # "accept"
               \/ listCall'[c].at = "list" /\ listCall'[c].rows = row /\ row' = row
      PROVE  Proposed' /\ Lists!AcceptedAsShown'
  <2>1. ASSUME NEW b \in Bookings, NEW c \in ListCalls
        PROVE  /\ listCall'[c].at = "list" =>
                    (listCall'[c].rows[b].status = "WAITING_FOR_CLIENT" =>
                       row'[b].isModifiedByPro /\ row'[b].duration = listCall'[c].rows[b].duration)
               /\ listCall'[c].at = "sent" /\ listCall'[c].op = "accept" /\ listCall'[c].booking = b
                    => row'[b].isModifiedByPro /\ row'[b].duration = agreed'[b]
    <3>1. CASE listCall'[c] = listCall[c]
      BY <1>0, <1>1, <1>2, <3>1
    <3>2. CASE listCall'[c].at \notin {"sent", "list"} \/ (listCall'[c].at = "sent" /\ listCall'[c].op # "accept")
      BY <3>2
    <3>3. CASE listCall'[c].at = "list" /\ listCall'[c].rows = row /\ row' = row
      BY <1>0, <3>3
    <3> QED
      BY <1>2, <3>1, <3>2, <3>3
  <2>2. Proposed'
    BY <1>0, <1>2, <2>1 DEF Proposed, Current
  <2>3. Lists!AcceptedAsShown'
    BY <1>0, <1>2 DEF Lists!AcceptedAsShown
  <2> QED
    BY <2>2, <2>3
<1>3. ASSUME list' = list
      PROVE  \A s \in Lists!Sides, b \in Bookings :
               list'[s][b].status = "WAITING_FOR_CLIENT" =>
                 row'[b].isModifiedByPro /\ row'[b].duration = list'[s][b].duration
  BY <1>0, <1>1, <1>3
<1>4. ASSUME NEW s \in Lists!Sides,
             Lists!Load(s) \/ Lists!Confirm(s) \/ (\E b \in Bookings : Lists!Press(s, b))
      PROVE  Proposed' /\ Lists!AcceptedAsShown'
  <2>1. row' = row /\ list' = list
    BY <1>4, PageStep
  <2>2. PICK c \in ListCalls, q \in ListRecords :
          /\ listCall[c] = Lists!Idle /\ listCall' = [listCall EXCEPT ![c] = q]
          /\ q.side = s /\ q.at \in {"sent", "fetch"}
          /\ q.at = "sent" /\ q.op = "modify" => q.duration \in Durations
          /\ \/ agreed' = agreed /\ ~(q.at = "sent" /\ q.op = "accept")
             \/ /\ q.booking \in Bookings /\ list[s][q.booking].status = "WAITING_FOR_CLIENT"
                /\ agreed' = [agreed EXCEPT ![q.booking] = list[s][q.booking].duration]
    BY <1>4, PageStep
  <2>3. listCall'[c] = q /\ \A d \in ListCalls : d # c => listCall'[d] = listCall[d]
    BY <2>2, OneCall
  <2>4. CASE agreed' = agreed /\ ~(q.at = "sent" /\ q.op = "accept")
    BY <1>2, <1>3, <2>1, <2>2, <2>3, <2>4
  <2>5. CASE /\ q.booking \in Bookings /\ list[s][q.booking].status = "WAITING_FOR_CLIENT"
             /\ agreed' = [agreed EXCEPT ![q.booking] = list[s][q.booking].duration]
    <3> DEFINE k == q.booking
    <3>1. k \in Bookings /\ row[k].isModifiedByPro /\ row[k].duration = list[s][k].duration
      BY <1>0, <2>5 DEF Current
    <3>2. agreed'[k] = row[k].duration /\ \A b \in Bookings : b # k => agreed'[b] = agreed[b]
      BY <1>0, <2>5, <3>1
    <3> HIDE DEF k
    <3>3. \A b \in Bookings : row[b].isModifiedByPro /\ row[b].duration = agreed[b] => row[b].duration = agreed'[b]
      BY <3>1, <3>2
    <3>4. Lists!AcceptedAsShown'
      BY <1>0, <2>1, <3>1, <3>2 DEF Lists!AcceptedAsShown
    <3>5. ASSUME NEW b \in Bookings, NEW d \in ListCalls
          PROVE  /\ listCall'[d].at = "list" => Current(b, listCall'[d].rows[b])
                 /\ listCall'[d].at = "sent" /\ listCall'[d].op = "accept" /\ listCall'[d].booking = b
                      => row[b].isModifiedByPro /\ row[b].duration = agreed'[b]
      <4>1. CASE d = c
        <5>1. b = k => row[b].isModifiedByPro /\ row[b].duration = agreed'[b]
          BY <3>1, <3>2
        <5> QED
          BY <2>2, <2>3, <4>1, <5>1 DEF k
      <4>2. CASE d # c
        BY <1>0, <2>3, <3>3, <4>2
      <4> QED
        BY <4>1, <4>2
    <3>6. Proposed'
      BY <1>0, <2>1, <3>5 DEF Proposed, Current
    <3> QED
      BY <3>4, <3>6
  <2> QED
    BY <2>2, <2>4, <2>5
<1>5. CASE \/ \E s \in Lists!Sides : Lists!CancelDialog(s)
           \/ \E s \in Lists!Sides, b \in Bookings : Lists!OpenDialog(s, b)
           \/ UNCHANGED listsVars
  BY <1>2, <1>3, <1>5, QuietStep
<1>6. ASSUME NEW b \in Bookings, Lists!Expire(b)
      PROVE  Proposed' /\ Lists!AcceptedAsShown'
  BY <1>2, <1>3, <1>6, ExpireStep
<1>7. ASSUME NEW c \in ListCalls, Lists!Serve(c)
      PROVE  Proposed' /\ Lists!AcceptedAsShown'
  <2>1. /\ UNCHANGED <<list, agreed>> /\ listCall'[c].at \in {"applied", "refused"}
        /\ \A d \in ListCalls : d # c => listCall'[d] = listCall[d]
    BY <1>7, ServeStep
  <2>2. \A d \in ListCalls : listCall'[d] = listCall[d] \/ listCall'[d].at \notin {"sent", "list"}
    BY <2>1
  <2> QED
    BY <1>2, <1>3, <2>1, <2>2
<1>8. ASSUME NEW c \in ListCalls, Lists!ServeList(c)
      PROVE  Proposed' /\ Lists!AcceptedAsShown'
  <2>1. /\ UNCHANGED <<row, list, agreed>> /\ listCall'[c].at = "list" /\ listCall'[c].rows = row
        /\ \A d \in ListCalls : d # c => listCall'[d] = listCall[d]
    BY <1>8, ServeListStep
  <2> QED
    BY <1>2, <1>3, <2>1
<1>9. ASSUME NEW c \in ListCalls, Lists!ApplyAnswered(c)
      PROVE  Proposed' /\ Lists!AcceptedAsShown'
  <2>1. /\ UNCHANGED <<row, list, agreed>> /\ listCall'[c].at = "fetch"
        /\ \A d \in ListCalls : d # c => listCall'[d] = listCall[d]
    BY <1>9, ApplyStep
  <2>2. \A d \in ListCalls : listCall'[d] = listCall[d] \/ listCall'[d].at \notin {"sent", "list"}
    BY <2>1
  <2> QED
    BY <1>2, <1>3, <2>1, <2>2
<1>10. ASSUME NEW c \in ListCalls,
              Lists!RefusalAnswered(c) \/ Lists!ListAnswered(c) \/ Lists!Lost(c)
       PROVE  Proposed' /\ Lists!AcceptedAsShown'
  <2>1. /\ UNCHANGED <<row, agreed>> /\ listCall[c].side \in Lists!Sides
        /\ listCall'[c] = Lists!Idle /\ \A d \in ListCalls : d # c => listCall'[d] = listCall[d]
        /\ \/ list' = list
           \/ list' = [list EXCEPT ![listCall[c].side] = listCall[c].rows] /\ listCall[c].at = "list"
           \/ list' = [list EXCEPT ![listCall[c].side] = Lists!Empty]
    BY <1>10, EndStep
  <2>2. ASSUME NEW s \in Lists!Sides, NEW b \in Bookings
        PROVE  list'[s][b].status = "WAITING_FOR_CLIENT" =>
                 row'[b].isModifiedByPro /\ row'[b].duration = list'[s][b].duration
    <3>1. CASE list'[s] = list[s]
      BY <1>0, <1>1, <3>1
    <3>2. CASE list'[s] = listCall[c].rows /\ listCall[c].at = "list"
      BY <1>0, <1>1, <3>2
    <3>3. CASE list'[s] = Lists!Empty
      BY <3>3, EmptyFacts
    <3> QED
      BY <1>0, <2>1, <3>1, <3>2, <3>3
  <2>3. \A d \in ListCalls : listCall'[d] = listCall[d] \/ listCall'[d].at \notin {"sent", "list"}
    BY <2>1 DEF Lists!Idle
  <2> QED
    BY <1>2, <2>1, <2>2, <2>3
<1> HIDE DEF Proposed
<1>11. CASE \E s \in Lists!Sides : Lists!Load(s) \/ Lists!Confirm(s) \/ Lists!CancelDialog(s)
  BY <1>4, <1>5, <1>11, Zenon
<1>12. CASE \E s \in Lists!Sides, b \in Bookings : Lists!Press(s, b) \/ Lists!OpenDialog(s, b)
  BY <1>4, <1>5, <1>12, Zenon
<1>13. CASE \E c \in ListCalls : Lists!Serve(c) \/ Lists!ServeList(c)
  BY <1>7, <1>8, <1>13, Zenon
<1>14. CASE \E c \in ListCalls : Lists!ApplyAnswered(c) \/ Lists!RefusalAnswered(c)
  BY <1>9, <1>10, <1>14, Zenon
<1>15. CASE \E c \in ListCalls : Lists!ListAnswered(c) \/ Lists!Lost(c)
  BY <1>10, <1>15, Zenon
<1> QED
  BY <1>5, <1>6, <1>11, <1>12, <1>13, <1>14, <1>15, ListsCases, Zenon

\* One side, and a step that is not this side's.
LEMMA ElsewhereStep ==
  ASSUME NEW s \in Lists!Sides, Coming(s),
         crossed'[s] = crossed[s], failed'[s] = failed[s], list'[s] = list[s],
         \A b \in Bookings : last'[b] = s => last[b] = s /\ row'[b] = row[b],
         \A c \in ListCalls :
           \/ listCall'[c] = listCall[c]
           \/ /\ listCall[c].at = "idle" \/ listCall[c].side # s
              /\ listCall'[c].at = "idle" \/ listCall'[c].side # s
  PROVE  Coming(s)'
<1>1. Lists!InFlight(s)' = Lists!InFlight(s) /\ \A c \in Lists!InFlight(s) : listCall'[c] = listCall[c]
  BY DEF Lists!InFlight
<1> QED
  BY <1>1 DEF Coming

\* Its own, when its only call goes on or ends.
LEMMA OwnStep ==
  ASSUME NEW s \in Lists!Sides, Coming(s),
         crossed'[s] = crossed[s], failed'[s] = failed[s],
         NEW c \in ListCalls, listCall[c].at # "idle", listCall[c].side = s,
         listCall'[c].at = "idle" \/ listCall'[c].side = s,
         \A d \in ListCalls : d # c => listCall'[d] = listCall[d],
         \A b \in Bookings : last'[b] = s =>
           \/ listCall'[c].at \in {"applied", "fetch"}
           \/ listCall'[c].at = "list" /\ listCall'[c].rows[b] = row'[b]
           \/ listCall'[c].at # "list" /\ list'[s][b] = row'[b]
           \/ crossed[s] \/ failed[s]
  PROVE  Coming(s)'
<1> SUFFICES ASSUME ~crossed'[s], ~failed'[s]
             PROVE  /\ \A d, e \in Lists!InFlight(s)' : d = e
                    /\ \A b \in Bookings : last'[b] = s =>
                         /\ \A d \in Lists!InFlight(s)' : listCall'[d].at = "list" => listCall'[d].rows[b] = row'[b]
                         /\ \/ list'[s][b] = row'[b]
                            \/ \E d \in Lists!InFlight(s)' : listCall'[d].at \in {"applied", "fetch", "list"}
  BY DEF Coming
<1>0. ~crossed[s] /\ ~failed[s]
  OBVIOUS
<1>1. \A d \in Lists!InFlight(s) : d = c
  BY <1>0 DEF Coming, Lists!InFlight
<1>2. \A d \in Lists!InFlight(s)' : d = c
  BY <1>1 DEF Lists!InFlight
<1>3. listCall'[c].at # "idle" => c \in Lists!InFlight(s)'
  BY DEF Lists!InFlight
<1> QED
  BY <1>0, <1>2, <1>3

\* What the only call of a side says of the list that the side has.
LEMMA ComingFacts ==
  ASSUME NEW s \in Lists!Sides, Coming(s), ~crossed[s], ~failed[s],
         NEW c \in ListCalls, listCall[c].at # "idle", listCall[c].side = s,
         NEW b \in Bookings, last[b] = s
  PROVE  /\ listCall[c].at = "list" => listCall[c].rows[b] = row[b]
         /\ listCall[c].at \notin {"applied", "fetch", "list"} => list[s][b] = row[b]
<1>1. c \in Lists!InFlight(s) /\ \A d \in Lists!InFlight(s) : d = c
  BY DEF Coming, Lists!InFlight
<1> QED
  BY <1>1 DEF Coming

\* A side that makes one call at a time has its last change on the screen, or on its way.
LEMMA ListsComing ==
  ASSUME ListsTypeOK, NEW s \in Lists!Sides, Coming(s), [Next]_vars
  PROVE  Coming(s)'
<1>0. /\ listCall \in [ListCalls -> ListRecords] /\ crossed \in [Lists!Sides -> BOOLEAN]
      /\ failed \in [Lists!Sides -> BOOLEAN] /\ last \in [Bookings -> {"nobody", "pro", "client", "cron"}]
      /\ list \in [Lists!Sides -> Copies] /\ row \in Copies
  BY DEF ListsTypeOK
<1>1. ASSUME UNCHANGED <<row, list, listCall, last, crossed, failed>>
      PROVE  Coming(s)'
  BY <1>1, ElsewhereStep
<1>2. ASSUME NEW t \in Lists!Sides,
             Lists!Load(t) \/ Lists!Confirm(t) \/ (\E b \in Bookings : Lists!Press(t, b))
      PROVE  Coming(s)'
  <2>1. /\ UNCHANGED <<row, list, last, failed>>
        /\ crossed' = [crossed EXCEPT ![t] = @ \/ Lists!InFlight(t) # {}]
    BY <1>2, PageStep
  <2>2. PICK c \in ListCalls, q \in ListRecords :
          /\ listCall[c] = Lists!Idle /\ listCall' = [listCall EXCEPT ![c] = q]
          /\ q.side = t /\ q.at \in {"sent", "fetch"}
    BY <1>2, PageStep
  <2>3. listCall'[c] = q /\ listCall[c].at = "idle" /\ \A d \in ListCalls : d # c => listCall'[d] = listCall[d]
    <3>1. listCall[c].at = "idle"
      BY <2>2 DEF Lists!Idle
    <3> QED
      BY <2>2, <3>1, OneCall
  <2>4. CASE t # s
    <3>1. crossed'[s] = crossed[s]
      BY <1>0, <2>1, <2>4
    <3>2. \A d \in ListCalls : \/ listCall'[d] = listCall[d]
                               \/ listCall[d].at = "idle" /\ listCall'[d].side # s
      BY <2>2, <2>3, <2>4
    <3> QED
      BY <2>1, <3>1, <3>2, ElsewhereStep
  <2>5. CASE t = s
    <3>1. crossed'[s] = (crossed[s] \/ Lists!InFlight(s) # {})
      BY <1>0, <2>1, <2>5, Zenon
    <3>2. CASE crossed[s] \/ Lists!InFlight(s) # {}
      <4>1. crossed'[s]
        BY <3>1, <3>2, Zenon
      <4> QED
        BY <4>1 DEF Coming
    <3>3. CASE ~crossed[s] /\ Lists!InFlight(s) = {}
      <4>1. \A d \in Lists!InFlight(s)' : d = c
        BY <2>3, <3>3 DEF Lists!InFlight
      <4>2. listCall'[c].at # "list"
        BY <2>2, <2>3
      <4>3. ~failed'[s] => \A b \in Bookings : last'[b] = s => list'[s][b] = row'[b]
        BY <2>1, <3>3 DEF Coming
      <4> QED
        BY <4>1, <4>2, <4>3 DEF Coming
    <3> QED
      BY <3>2, <3>3
  <2> QED
    BY <2>4, <2>5
<1>3. CASE \/ \E t \in Lists!Sides : Lists!CancelDialog(t)
           \/ \E t \in Lists!Sides, b \in Bookings : Lists!OpenDialog(t, b)
           \/ UNCHANGED listsVars
  BY <1>1, <1>3, QuietStep
<1>4. ASSUME NEW b \in Bookings, Lists!Expire(b)
      PROVE  Coming(s)'
  <2>1. /\ UNCHANGED <<list, listCall, crossed, failed>>
        /\ last' = [last EXCEPT ![b] = "cron"] /\ \A a \in Bookings : a # b => row'[a] = row[a]
    BY <1>4, ExpireStep
  <2>2. \A a \in Bookings : last'[a] = s => last[a] = s /\ row'[a] = row[a]
    BY <1>0, <2>1 DEF Lists!Sides
  <2> QED
    BY <2>1, <2>2, ElsewhereStep
<1>5. ASSUME NEW c \in ListCalls, Lists!Serve(c)
      PROVE  Coming(s)'
  <2>1. /\ listCall[c].at = "sent" /\ listCall[c].booking \in Bookings
        /\ UNCHANGED <<list, crossed, failed>>
        /\ listCall'[c].at \in {"applied", "refused"} /\ listCall'[c].side = listCall[c].side
        /\ \A d \in ListCalls : d # c => listCall'[d] = listCall[d]
        /\ \/ UNCHANGED <<row, last>> /\ listCall'[c].at = "refused"
           \/ /\ listCall'[c].at = "applied"
              /\ last' = [last EXCEPT ![listCall[c].booking] = listCall[c].side]
              /\ \E r : row' = [row EXCEPT ![listCall[c].booking] = r]
    BY <1>5, ServeStep
  <2>2. \A b \in Bookings : last'[b] = s /\ (listCall[c].side # s \/ b # listCall[c].booking) => last[b] = s /\ row'[b] = row[b]
    BY <1>0, <2>1 DEF Copies
  <2>3. CASE listCall[c].side # s
    BY <2>1, <2>2, <2>3, ElsewhereStep
  <2>4. CASE listCall[c].side = s
    <3>1. ASSUME NEW b \in Bookings, last'[b] = s
          PROVE  \/ listCall'[c].at \in {"applied", "fetch"}
                 \/ listCall'[c].at # "list" /\ list'[s][b] = row'[b]
                 \/ crossed[s] \/ failed[s]
      BY <2>1, <2>4, <3>1, ComingFacts
    <3> QED
      BY <2>1, <2>4, <3>1, OwnStep
  <2> QED
    BY <2>3, <2>4
<1>6. ASSUME NEW c \in ListCalls, Lists!ServeList(c) \/ Lists!ApplyAnswered(c)
      PROVE  Coming(s)'
  <2>1. /\ UNCHANGED <<row, list, last, crossed, failed>>
        /\ listCall[c].at # "idle" /\ listCall'[c].side = listCall[c].side
        /\ listCall'[c].at = "fetch" \/ (listCall'[c].at = "list" /\ listCall'[c].rows = row)
        /\ \A d \in ListCalls : d # c => listCall'[d] = listCall[d]
    BY <1>6, ServeListStep, ApplyStep
  <2>2. CASE listCall[c].side # s
    BY <2>1, <2>2, ElsewhereStep
  <2>3. CASE listCall[c].side = s
    BY <2>1, <2>3, OwnStep
  <2> QED
    BY <2>2, <2>3
<1>7. ASSUME NEW c \in ListCalls,
             Lists!RefusalAnswered(c) \/ Lists!ListAnswered(c) \/ Lists!Lost(c)
      PROVE  Coming(s)'
  <2>1. /\ UNCHANGED <<row, last, crossed>>
        /\ listCall[c].side \in Lists!Sides
        /\ listCall'[c].at = "idle" /\ listCall[c].at # "idle"
        /\ \A d \in ListCalls : d # c => listCall'[d] = listCall[d]
        /\ \/ failed' = failed /\ list' = list /\ listCall[c].at = "refused"
           \/ failed' = failed /\ list' = [list EXCEPT ![listCall[c].side] = listCall[c].rows] /\ listCall[c].at = "list"
           \/ /\ failed' = [failed EXCEPT ![listCall[c].side] = TRUE]
              /\ list' \in {list, [list EXCEPT ![listCall[c].side] = Lists!Empty]}
    BY <1>7, EndStep DEF Lists!Idle
  <2>2. CASE listCall[c].side # s
    <3>1. failed'[s] = failed[s] /\ list'[s] = list[s]
      BY <1>0, <2>1, <2>2
    <3> QED
      BY <2>1, <2>2, <3>1, ElsewhereStep
  <2>3. CASE listCall[c].side = s /\ failed' = [failed EXCEPT ![listCall[c].side] = TRUE]
    <3>1. failed'[s]
      BY <1>0, <2>3
    <3> QED
      BY <3>1 DEF Coming
  <2>4. CASE /\ listCall[c].side = s /\ failed' = failed
             /\ \/ list' = list /\ listCall[c].at = "refused"
                \/ list' = [list EXCEPT ![listCall[c].side] = listCall[c].rows] /\ listCall[c].at = "list"
    <3>1. ASSUME NEW b \in Bookings, last'[b] = s
          PROVE  list'[s][b] = row'[b] \/ crossed[s] \/ failed[s]
      BY <1>0, <2>1, <2>4, <3>1, ComingFacts
    <3> QED
      BY <2>1, <2>4, <3>1, OwnStep
  <2> QED
    BY <2>1, <2>2, <2>3, <2>4
<1> HIDE DEF Coming
<1>8. CASE \E t \in Lists!Sides : Lists!Load(t) \/ Lists!Confirm(t) \/ Lists!CancelDialog(t)
  BY <1>2, <1>3, <1>8, Zenon
<1>9. CASE \E t \in Lists!Sides, b \in Bookings : Lists!Press(t, b) \/ Lists!OpenDialog(t, b)
  BY <1>2, <1>3, <1>9, Zenon
<1>10. CASE \E c \in ListCalls : Lists!Serve(c) \/ Lists!ServeList(c)
  BY <1>5, <1>6, <1>10, Zenon
<1>11. CASE \E c \in ListCalls : Lists!ApplyAnswered(c) \/ Lists!RefusalAnswered(c)
  BY <1>6, <1>7, <1>11, Zenon
<1>12. CASE \E c \in ListCalls : Lists!ListAnswered(c) \/ Lists!Lost(c)
  BY <1>7, <1>12, Zenon
<1> QED
  BY <1>3, <1>4, <1>8, <1>9, <1>10, <1>11, <1>12, ListsCases, Zenon

LEMMA ListsInit == Init => ListsInv
<1> SUFFICES ASSUME Init PROVE ListsInv
  OBVIOUS
<1>1. /\ row \in [Bookings -> [status : {"PENDING", "CONFIRMED"}, duration : {1}, isModifiedByPro : {FALSE}]]
      /\ list = [s \in Lists!Sides |-> Lists!Empty] /\ dialog = [s \in Lists!Sides |-> Lists!Closed]
      /\ agreed = [b \in Bookings |-> 0] /\ last = [b \in Bookings |-> "nobody"]
      /\ crossed = [s \in Lists!Sides |-> FALSE] /\ failed = [s \in Lists!Sides |-> FALSE]
  BY DEF Init, Lists!Init
<1>2. \E c, d : listCall = [e \in ListCalls |-> IF e = c THEN Lists!Fetch("pro")
                                                ELSE IF e = d THEN Lists!Fetch("client") ELSE Lists!Idle]
  <2> DEFINE c == CHOOSE c \in ListCalls : TRUE
             d == CHOOSE d \in ListCalls : d # c
  <2>1. listCall = [e \in ListCalls |-> IF e = c THEN Lists!Fetch("pro")
                                         ELSE IF e = d THEN Lists!Fetch("client") ELSE Lists!Idle]
    BY DEF Init, Lists!Init
  <2> HIDE DEF c, d
  <2> QED
    BY <2>1
<1>3. PICK c, d : listCall = [e \in ListCalls |-> IF e = c THEN Lists!Fetch("pro")
                                                  ELSE IF e = d THEN Lists!Fetch("client") ELSE Lists!Idle]
  BY <1>2
<1>4. /\ Lists!Fetch("pro") \in ListRecords /\ Lists!Fetch("pro").at = "fetch" /\ Lists!Fetch("pro").side = "pro"
      /\ Lists!Fetch("client") \in ListRecords /\ Lists!Fetch("client").at = "fetch"
      /\ Lists!Fetch("client").side = "client"
      /\ Lists!Idle \in ListRecords /\ Lists!Idle.at = "idle"
  BY FetchFacts DEF Lists!Sides, ListRecords, Lists!Idle
<1>5. /\ listCall \in [ListCalls -> ListRecords]
      /\ \A e \in ListCalls : listCall[e].at \in {"fetch", "idle"}
      /\ \A e \in ListCalls : listCall[e].at # "idle" =>
           (listCall[e].side = "pro" /\ e = c) \/ (listCall[e].side = "client" /\ e = d)
  BY <1>3, <1>4
<1>6. /\ row \in Copies /\ \A b \in Bookings : row[b].status \in {"PENDING", "CONFIRMED"} /\ ~row[b].isModifiedByPro
  BY <1>1 DEF Copies, Rows, Statuses, Lists!OPEN
<1>7. ListsTypeOK
  BY <1>1, <1>5, <1>6, EmptyFacts DEF ListsTypeOK, Dialogs
<1>8. Proposed
  <2>1. \A s \in Lists!Sides, b \in Bookings : Current(b, list[s][b])
    BY <1>1, EmptyFacts DEF Current
  <2> QED
    BY <1>5, <1>6, <2>1 DEF Proposed
<1>9. Lists!AcceptedAsShown
  BY <1>6 DEF Lists!AcceptedAsShown
<1>10. ASSUME NEW s \in Lists!Sides
       PROVE  Coming(s)
  <2>1. \A e, f \in Lists!InFlight(s) : e = f
    BY <1>5 DEF Lists!InFlight
  <2>2. \A b \in Bookings : last[b] # s
    BY <1>1 DEF Lists!Sides
  <2> QED
    BY <2>1, <2>2 DEF Coming
<1> QED
  BY <1>7, <1>8, <1>9, <1>10 DEF ListsInv

LEMMA ListsCorrect == Spec => []ListsInv
<1>1. ASSUME ListsInv, [Next]_vars
      PROVE  ListsInv'
  <2>1. ListsTypeOK /\ Proposed /\ Lists!AcceptedAsShown /\ \A s \in Lists!Sides : Coming(s)
    BY <1>1 DEF ListsInv
  <2>2. ListsTypeOK' /\ Proposed' /\ Lists!AcceptedAsShown'
    BY <1>1, <2>1, ListsTypes, ListsProposed
  <2>3. \A s \in Lists!Sides : Coming(s)'
    BY <1>1, <2>1, ListsComing
  <2>4. Lists!Sides' = Lists!Sides
    BY DEF Lists!Sides
  <2> QED
    BY <2>2, <2>3, <2>4 DEF ListsInv
<1> QED
  BY <1>1, ListsInit, SafetyPart, PTL

\* A booking that its client confirmed has the duration that was on his screen when he
\* accepted, however old his list was and whatever was in flight.
THEOREM AcceptedAsShownHolds == Spec => []AcceptedAsShown
<1>1. ListsInv => AcceptedAsShown
  BY DEF ListsInv, AcceptedAsShown
<1> QED
  BY <1>1, ListsCorrect, PTL

\* A user who makes one call at a time and loses no answer sees the change he made last,
\* once nothing of his is in flight.
THEOREM OwnChangesShownHolds == Spec => []OwnChangesShown
<1>1. ASSUME ListsInv
      PROVE  OwnChangesShown
  <2>1. ASSUME NEW s \in Lists!Sides, NEW b \in Bookings, Lists!InFlight(s) = {}, ~crossed[s], ~failed[s], last[b] = s
        PROVE  list[s][b] = row[b]
    <3>1. Coming(s)
      BY <1>1 DEF ListsInv
    <3> QED
      BY <2>1, <3>1 DEF Coming
  <2> QED
    BY <2>1 DEF OwnChangesShown, Lists!OwnChangesShown
<1> QED
  BY <1>1, ListsCorrect, PTL

-----------------------------------------------------------------------------
(* The navigation.                                                         *)

\* A step of the part, in the order of the module.
LEMMA NavCases ==
  ASSUME [Next]_vars
  PROVE  \/ \E p \in Nav!Pages : Nav!Open(p) \/ Nav!Click(p)
         \/ Nav!SubmitLogin \/ Nav!SubmitRegister \/ Nav!LogoutAwaited \/ Nav!LogoutAtOnce
         \/ Nav!Navigate \/ Nav!RunEffects \/ Nav!InitServed \/ Nav!InitAnswered
         \/ Nav!ProfileAnswered \/ Nav!Poll \/ Nav!OverviewAnswered
         \/ Nav!LoginAnswered \/ Nav!LoginRefused \/ Nav!RegisterAnswered
         \/ \E gone \in BOOLEAN : Nav!LogoutAnswered(gone)
         \/ Nav!CookieExpires \/ Nav!SessionEnds \/ Nav!InitLost \/ Nav!Decide
         \/ UNCHANGED navVars
BY NavSteps DEF Nav!Next, Nav!User, Nav!Browser

\* What the store may become at once.
LEMMA StoreFacts ==
  ASSUME account \in Nav!Accounts
  PROVE  /\ Nav!UserOf \in Stores /\ Nav!Anonymous \in Stores /\ Nav!Booting \in Stores
         /\ Nav!UserOf.kyc = account.kyc /\ Nav!Anonymous.kyc = "none" /\ Nav!Booting.kyc = "none"
         /\ Nav!UserOf.user = account.role /\ Nav!UserOf.isAuthenticated
         /\ ~Nav!UserOf.loading /\ ~Nav!Anonymous.loading /\ Nav!Booting.loading
         /\ account.role \in {"CLIENT", "PRO"} /\ account.kyc \in Nav!KycStatus \cup {"none"}
         /\ account.premium \in BOOLEAN
         /\ Nav!NoProfile \in [kyc : Nav!KycStatus \cup {"none"}, premium : BOOLEAN]
         /\ Nav!NoProfile.kyc = "none"
         /\ account.role = "CLIENT" => account.kyc = "none"
<1>1. /\ account.role \in {"CLIENT", "PRO"} /\ account.kyc \in Nav!KycStatus \cup {"none"}
      /\ account.role = "CLIENT" => account.kyc = "none"
  BY DEF Nav!Accounts
<1>2. account.premium \in BOOLEAN
  BY Zenon DEF Nav!Accounts
<1>3. Nav!Booting \in [user : {"none"}, kyc : {"none"}, isAuthenticated : {FALSE}, loading : {TRUE}]
  BY DEF Nav!Booting, Nav!Anonymous
<1> QED
  BY <1>1, <1>2, <1>3 DEF Nav!UserOf, Nav!Anonymous, Nav!NoProfile, Stores

\* What is known of a store: who is in it, and that it does not wait once it knows.
LEMMA StoreKnows ==
  ASSUME store \in Stores
  PROVE  /\ store.user \in {"none", account.role} /\ store.kyc \in Nav!KycStatus \cup {"none"}
         /\ store.isAuthenticated \in BOOLEAN /\ store.loading \in BOOLEAN
         /\ store.isAuthenticated => store.user = account.role /\ ~store.loading
         /\ ~store.isAuthenticated => store.user = "none" /\ store.kyc = "none"
BY DEF Stores

\* The middleware and the guards lead to pages.
LEMMA MiddlewareFacts ==
  ASSUME NEW p \in Nav!Pages
  PROVE  Nav!middleware(p) \in Nav!Pages /\ (p \in Nav!PROTECTED /\ cookie => Nav!middleware(p) = p)
BY DEF Nav!middleware, Nav!isProtectedRoute, Nav!isAuthPage, Nav!Pages, Nav!AUTH_PAGES, Nav!PROTECTED,
   Nav!InLayout

LEMMA WantedFacts ==
  ASSUME path \in Nav!Pages
  PROVE  Nav!Wanted \subseteq Nav!Pages /\ Nav!Nowhere \notin Nav!Pages
<1>1. Nav!PageGuard \in Nav!Pages
  BY DEF Nav!PageGuard, Nav!ProfileGuard, Nav!PlansGuard, Nav!ClientBookingsGuard, Nav!ProBookingsGuard,
     Nav!HistoryGuard, Nav!KycGuard, Nav!BookGuard, Nav!Pages, Nav!PROTECTED, Nav!InLayout, Nav!AUTH_PAGES
<1>2. Nav!LayoutGuard \in Nav!Pages /\ Nav!RejectedGuard \in Nav!Pages
  BY DEF Nav!LayoutGuard, Nav!RejectedGuard, Nav!Pages, Nav!PROTECTED, Nav!InLayout
<1>3. Nav!Nowhere \notin Nav!Pages
  BY DEF Nav!Nowhere, Nav!Pages, Nav!PROTECTED, Nav!InLayout, Nav!AUTH_PAGES
<1> QED
  BY <1>1, <1>2, <1>3 DEF Nav!Wanted

\* The guards see the page, who the visitor is, and what his file is known to be.
LEMMA GuardsSee ==
  ASSUME path' = path, store'.user = store.user, store'.isAuthenticated = store.isAuthenticated,
         store'.loading = store.loading
  PROVE  /\ Nav!PageGuard' = Nav!PageGuard /\ Nav!LayoutGuard' = Nav!LayoutGuard
         /\ Nav!effectiveKycStatus' = Nav!effectiveKycStatus => Nav!Wanted' = Nav!Wanted
<1>1. Nav!PageGuard' = Nav!PageGuard
  BY DEF Nav!PageGuard, Nav!ProfileGuard, Nav!PlansGuard, Nav!ClientBookingsGuard, Nav!ProBookingsGuard,
     Nav!HistoryGuard, Nav!KycGuard, Nav!BookGuard
<1>2. Nav!LayoutGuard' = Nav!LayoutGuard
  BY DEF Nav!LayoutGuard, Nav!IsPro
<1>3. ASSUME Nav!effectiveKycStatus' = Nav!effectiveKycStatus
      PROVE  Nav!RejectedGuard' = Nav!RejectedGuard
  BY <1>3 DEF Nav!RejectedGuard, Nav!IsPro
<1> QED
  BY <1>1, <1>2, <1>3 DEF Nav!Wanted

\* Types, and what is known of the file of the user.
LEMMA NavTypes ==
  ASSUME NavTypeOK, Truthful, [Next]_vars
  PROVE  NavTypeOK' /\ Truthful'
<1> DEFINE Known == NavTypeOK' /\ Truthful'
<1>0. /\ account \in Nav!Accounts /\ live \in BOOLEAN /\ cookie \in BOOLEAN /\ store \in Stores
      /\ path \in Nav!Pages /\ goto \in Nav!Pages \cup {Nav!Nowhere} /\ next \in Nav!Pages \cup {Nav!Nowhere}
      /\ fresh \in BOOLEAN
      /\ proMe \in [kyc : Nav!KycStatus \cup {"none"}, premium : BOOLEAN]
      /\ me \in {"none", "sent", "yes", "no"} /\ mine \in {"none", "sent"} /\ overview \in {"none", "sent"}
      /\ login \in {"none", "sent", "registered"} /\ logout \in {"none", "sent", "awaited"}
      /\ asked \in Nav!Pages /\ steady \in BOOLEAN
  BY DEF NavTypeOK
<1>1. /\ {"/", "/dashboard", "/dashboard/kyc", "/dashboard/bookings", "/auth/login", "/book"} \subseteq Nav!Pages
      /\ {"none", "sent", "PENDING"} \cap {"REJECTED"} = {}
  BY DEF Nav!Pages, Nav!PROTECTED, Nav!InLayout, Nav!AUTH_PAGES
<1>1a. account' = account => Stores' = Stores
  BY DEF Stores
<1>2. ASSUME NEW p \in Nav!Pages, Nav!Open(p)
      PROVE  Known
  <2>1. /\ path' = Nav!middleware(p) /\ fresh' = TRUE /\ goto' = Nav!Nowhere
        /\ next' \in {p, Nav!Nowhere} /\ store' = Nav!Booting /\ me' = "sent" /\ proMe' = Nav!NoProfile
        /\ mine' = "none" /\ login' = "none" /\ logout' = "none" /\ overview' \in {"sent", "none"}
        /\ UNCHANGED <<account, cookie>> /\ asked' = p
    BY <1>2 DEF Nav!Open, Nav!Ask
  <2>2. live' \in BOOLEAN
    <3>1. live' \in {live, live /\ logout = "none"}
      BY <1>2, Zenon DEF Nav!Open
    <3> QED
      BY <1>0, <3>1, Zenon
  <2>3. steady' \in BOOLEAN
    <3>1. steady' = (logout = "none" /\ live /\ cookie /\ troubles = 0)
      BY <1>2, Zenon DEF Nav!Open, Nav!Ask
    <3> QED
      BY <3>1, Zenon
  <2>4. Stores' = Stores
    BY <2>1 DEF Stores
  <2> QED
    BY <1>0, <1>1, <2>1, <2>2, <2>3, <2>4, StoreFacts, MiddlewareFacts, <1>1a DEF NavTypeOK, Truthful
<1>3. ASSUME NEW p \in Nav!Pages, Nav!Click(p)
      PROVE  Known
  <2>1. /\ UNCHANGED <<account, live, cookie, store, path, fresh, next, me, proMe, mine, overview, login, logout>>
        /\ goto' = p /\ asked' = p
    BY <1>3 DEF Nav!Click, Nav!Ask, Nav!sessionVars, Nav!callVars
  <2>2. steady' \in BOOLEAN
    <3>1. steady' = (Nav!Settled /\ live /\ cookie /\ troubles = 0)
      BY <1>3, Zenon DEF Nav!Click, Nav!Ask
    <3> QED
      BY <3>1, Zenon
  <2> QED
    BY <1>0, <2>1, <2>2, <1>1a DEF NavTypeOK, Truthful
<1>4. CASE Nav!SubmitLogin \/ Nav!SubmitRegister
  <2>1. /\ UNCHANGED <<account, live, cookie, store, path, goto, fresh, next, me, proMe, mine, overview, logout, asked, steady>>
        /\ login' \in {"sent", "registered"}
    BY <1>4 DEF Nav!SubmitLogin, Nav!SubmitRegister, Nav!sessionVars, Nav!pageVars
  <2> QED
    BY <1>0, <2>1, <1>1a DEF NavTypeOK, Truthful
<1>5. CASE Nav!LogoutAwaited \/ Nav!LogoutAtOnce
  <2>1. /\ UNCHANGED <<account, live, cookie, store, path, fresh, next, me, proMe, mine, overview, login, asked>>
        /\ logout' \in {"sent", "awaited"} /\ goto' \in {goto, "/"} /\ steady' = FALSE
    BY <1>5 DEF Nav!LogoutAwaited, Nav!LogoutAtOnce, Nav!sessionVars, Nav!pageVars
  <2>2. steady' \in BOOLEAN
    BY <2>1, Zenon
  <2> QED
    BY <1>0, <1>1, <2>1, <2>2, <1>1a DEF NavTypeOK, Truthful
<1>6. CASE Nav!Navigate
  <2>1. /\ UNCHANGED <<account, live, cookie, store, me, login, logout, asked, steady>>
        /\ path' = Nav!middleware(goto) /\ goto \in Nav!Pages /\ fresh' = TRUE /\ goto' = Nav!Nowhere
        /\ proMe' = Nav!NoProfile /\ mine' = "none" /\ overview' \in {"sent", overview}
        /\ next' \in {goto, "/book", Nav!Nowhere}
    BY <1>0, <1>6 DEF Nav!Navigate, Nav!Arrive, Nav!sessionVars, Nav!historyVars
  <2> QED
    BY <1>0, <1>1, <2>1, StoreFacts, MiddlewareFacts, <1>1a DEF NavTypeOK, Truthful
<1>7. CASE Nav!RunEffects
  <2>1. /\ UNCHANGED <<account, live, cookie, store, path, next, me, proMe, overview, login, logout, asked, steady>>
        /\ fresh' = FALSE /\ goto' \in {goto} \cup Nav!Wanted /\ mine' \in {"sent", mine}
    BY <1>7 DEF Nav!RunEffects, Nav!sessionVars, Nav!historyVars
  <2>2. fresh' \in BOOLEAN
    BY <2>1, Zenon
  <2> QED
    BY <1>0, <2>1, <2>2, WantedFacts, <1>1a DEF NavTypeOK, Truthful
<1>8. CASE Nav!InitServed \/ Nav!Poll \/ Nav!LoginRefused
  <2>1. /\ UNCHANGED <<account, live, cookie, store, path, goto, fresh, next, proMe, overview, logout, asked, steady>>
        /\ me' \in {"yes", "no", me} /\ mine' \in {"sent", mine} /\ login' \in {"none", login}
    BY <1>8 DEF Nav!InitServed, Nav!Poll, Nav!LoginRefused, Nav!sessionVars, Nav!pageVars, Nav!historyVars
  <2> QED
    BY <1>0, <2>1, <1>1a DEF NavTypeOK, Truthful
<1>9. CASE Nav!InitAnswered \/ Nav!InitLost
  <2>1. /\ UNCHANGED <<account, live, path, goto, next, proMe, mine, overview, login, logout, asked>>
        /\ me' = "none" /\ store' \in {Nav!UserOf, Nav!Anonymous} /\ fresh' = TRUE
    BY <1>9 DEF Nav!InitAnswered, Nav!InitLost, Nav!sessionVars, Nav!historyVars
  <2>2. cookie' \in BOOLEAN
    <3>1. cookie' = cookie \/ cookie' = (cookie \/ (me = "yes" /\ live))
      BY <1>9, Zenon DEF Nav!InitAnswered, Nav!InitLost, Nav!sessionVars
    <3> QED
      BY <1>0, <3>1, Zenon
  <2>3. steady' \in BOOLEAN
    BY <1>0, <1>9 DEF Nav!InitAnswered, Nav!InitLost, Nav!historyVars
  <2>4. Stores' = Stores
    BY <2>1 DEF Stores
  <2> QED
    BY <1>0, <1>1, <2>1, <2>2, <2>3, <2>4, StoreFacts, <1>1a DEF NavTypeOK, Truthful
<1>10. CASE Nav!ProfileAnswered
  <2>1. /\ UNCHANGED <<account, live, path, goto, next, me, overview, login, logout, asked, steady>>
        /\ mine' = "none" /\ proMe' \in {proMe, [kyc |-> account.kyc, premium |-> account.premium]}
        /\ store' = store \/ (store.isAuthenticated /\ store' = [store EXCEPT !.kyc = proMe'.kyc])
    BY <1>10 DEF Nav!ProfileAnswered, Nav!historyVars
  <2>2. cookie' \in BOOLEAN /\ fresh' \in BOOLEAN
    <3>1. cookie' = (cookie \/ live) /\ fresh' = (fresh \/ proMe' # proMe)
      BY <1>10, Zenon DEF Nav!ProfileAnswered
    <3> QED
      BY <3>1, Zenon
  <2>3. proMe' \in [kyc : Nav!KycStatus \cup {"none"}, premium : BOOLEAN] /\ proMe'.kyc \in {proMe.kyc, account.kyc}
    BY <1>0, <2>1, StoreFacts
  <2>4. store' \in Stores /\ store'.kyc \in {store.kyc, proMe'.kyc}
    <3>1. CASE store' = store
      BY <1>0, <3>1
    <3>2. CASE store.isAuthenticated /\ store' = [store EXCEPT !.kyc = proMe'.kyc]
      <4>1. store \in [user : {account.role}, kyc : Nav!KycStatus \cup {"none"}, isAuthenticated : {TRUE},
                       loading : {FALSE}]
        BY <1>0, <3>2 DEF Stores
      <4>2. store' \in [user : {account.role}, kyc : Nav!KycStatus \cup {"none"}, isAuthenticated : {TRUE},
                        loading : {FALSE}] /\ store'.kyc = proMe'.kyc
        BY <2>3, <3>2, <4>1
      <4> QED
        BY <4>2 DEF Stores
    <3> QED
      BY <2>1, <3>1, <3>2
  <2>5. Stores' = Stores
    BY <2>1 DEF Stores
  <2>6. "REJECTED" \in {store'.kyc, proMe'.kyc} => account.kyc = "REJECTED"
    BY <2>3, <2>4 DEF Truthful
  <2> QED
    BY <1>0, <2>1, <2>2, <2>3, <2>4, <2>5, <2>6, <1>1a DEF NavTypeOK, Truthful
<1>11. CASE Nav!OverviewAnswered
  <2>1. /\ UNCHANGED <<account, live, store, path, fresh, next, me, proMe, mine, login, logout, asked, steady>>
        /\ overview' = "none" /\ goto' \in {goto, "/dashboard/bookings"}
    BY <1>11 DEF Nav!OverviewAnswered, Nav!historyVars
  <2>2. cookie' \in BOOLEAN
    <3>1. cookie' = (cookie \/ live)
      BY <1>11, Zenon DEF Nav!OverviewAnswered
    <3> QED
      BY <3>1, Zenon
  <2> QED
    BY <1>0, <1>1, <2>1, <2>2, <1>1a DEF NavTypeOK, Truthful
<1>12. CASE Nav!LoginAnswered \/ Nav!RegisterAnswered
  <2>1. /\ UNCHANGED <<account, path, next, me, proMe, mine, overview, logout, asked, steady>>
        /\ login' = "none" /\ live' = TRUE /\ cookie' = TRUE /\ store' = Nav!UserOf /\ fresh' = TRUE
        /\ goto' \in Nav!Pages
    BY <1>0, <1>1, <1>12 DEF Nav!LoginAnswered, Nav!RegisterAnswered, Nav!AfterLogin, Nav!historyVars
  <2>2. Stores' = Stores
    BY <2>1 DEF Stores
  <2> QED
    BY <1>0, <2>1, <2>2, StoreFacts, <1>1a DEF NavTypeOK, Truthful
<1>13. ASSUME NEW gone \in BOOLEAN, Nav!LogoutAnswered(gone)
       PROVE  Known
  <2>1. /\ UNCHANGED <<account, path, next, me, proMe, mine, overview, login, asked, steady>>
        /\ logout' = "none" /\ store' = Nav!Anonymous /\ fresh' = TRUE /\ goto' \in {goto, "/"}
    BY <1>13 DEF Nav!LogoutAnswered
  <2>2. live' \in BOOLEAN /\ cookie' \in BOOLEAN
    <3>1. (live' = live \/ live' = FALSE) /\ cookie' = (cookie /\ gone)
      BY <1>13, Zenon DEF Nav!LogoutAnswered
    <3> QED
      BY <1>0, <3>1, Zenon
  <2>3. Stores' = Stores
    BY <2>1 DEF Stores
  <2> QED
    BY <1>0, <1>1, <2>1, <2>2, <2>3, StoreFacts, <1>1a DEF NavTypeOK, Truthful
<1>14. CASE Nav!CookieExpires \/ Nav!SessionEnds
  <2>1. /\ UNCHANGED <<account, store, path, goto, fresh, next, me, proMe, mine, overview, login, logout, asked>>
        /\ cookie' = FALSE /\ (live' = live \/ live' = FALSE) /\ steady' = FALSE
    BY <1>14 DEF Nav!CookieExpires, Nav!SessionEnds, Nav!pageVars, Nav!callVars
  <2>2. cookie' \in BOOLEAN /\ live' \in BOOLEAN /\ steady' \in BOOLEAN
    BY <1>0, <2>1, Zenon
  <2> QED
    BY <1>0, <2>1, <2>2, <1>1a DEF NavTypeOK, Truthful
<1>15. CASE Nav!Decide
  <2>1. /\ UNCHANGED <<live, cookie, store, path, goto, fresh, next, me, proMe, mine, overview, login, logout, asked, steady>>
        /\ account.kyc = "PENDING" /\ \E k \in {"APPROVED", "REJECTED"} : account' = [account EXCEPT !.kyc = k]
    BY <1>15 DEF Nav!Decide, Nav!pageVars, Nav!callVars, Nav!historyVars
  <2>2. account' \in Nav!Accounts /\ account'.role = account.role
    BY <1>0, <2>1 DEF Nav!Accounts, Nav!KycStatus
  <2>3. Stores' = Stores
    BY <2>2 DEF Stores
  <2>4. "REJECTED" \notin {store.kyc, proMe.kyc}
    BY <2>1 DEF Truthful
  <2> QED
    BY <1>0, <2>1, <2>2, <2>3, <2>4, <1>1a DEF NavTypeOK, Truthful
<1>16. CASE UNCHANGED navVars
  BY <1>0, <1>16, <1>1a DEF NavTypeOK, Truthful, navVars
<1>17. CASE \E p \in Nav!Pages : Nav!Open(p) \/ Nav!Click(p)
  BY <1>2, <1>3, <1>17
<1>18. CASE \E gone \in BOOLEAN : Nav!LogoutAnswered(gone)
  BY <1>13, <1>18
<1> HIDE DEF Known
<1> QED
  BY <1>4, <1>5, <1>6, <1>7, <1>8, <1>9, <1>10, <1>11, <1>12, <1>14, <1>15, <1>16, <1>17, <1>18, NavCases, Zenon

\* The guards run again after every change of what they see.
LEMMA NavGuarded ==
  ASSUME NavTypeOK, Guarded, [Next]_vars
  PROVE  Guarded'
<1>0. /\ account \in Nav!Accounts /\ store \in Stores /\ path \in Nav!Pages
      /\ goto \in Nav!Pages \cup {Nav!Nowhere} /\ fresh \in BOOLEAN
      /\ Nav!Nowhere \notin Nav!Pages /\ Nav!Wanted \subseteq Nav!Pages
      /\ store.loading => me # "none"
      /\ ~fresh /\ goto = Nav!Nowhere => Nav!Wanted = {}
      /\ "/" \in Nav!Pages /\ "/dashboard/bookings" \in Nav!Pages
  BY WantedFacts DEF NavTypeOK, Guarded, Nav!Pages, Nav!PROTECTED, Nav!InLayout
<1>1. ASSUME UNCHANGED <<path, store, proMe, me>>, fresh' = fresh, goto' = goto \/ goto' \in Nav!Pages
      PROVE  Guarded'
  <2>1. Nav!Wanted' = Nav!Wanted
    BY <1>1, GuardsSee DEF Nav!effectiveKycStatus
  <2> QED
    BY <1>0, <1>1, <2>1 DEF Guarded
<1>2. ASSUME fresh' = TRUE, store'.loading => me' # "none"
      PROVE  Guarded'
  BY <1>2 DEF Guarded
<1>3. ASSUME NEW p \in Nav!Pages, Nav!Open(p)
      PROVE  Guarded'
  <2>1. fresh' = TRUE /\ me' # "none"
    BY <1>3 DEF Nav!Open
  <2> QED
    BY <1>2, <2>1
<1>4. ASSUME NEW p \in Nav!Pages, Nav!Click(p)
      PROVE  Guarded'
  <2>1. UNCHANGED <<path, store, proMe, me, fresh>> /\ goto' \in Nav!Pages
    BY <1>4 DEF Nav!Click, Nav!callVars
  <2> QED
    BY <1>1, <2>1
<1>5. CASE \/ Nav!SubmitLogin \/ Nav!SubmitRegister \/ Nav!LogoutAwaited \/ Nav!LogoutAtOnce \/ Nav!Poll
           \/ Nav!LoginRefused \/ Nav!CookieExpires \/ Nav!SessionEnds \/ Nav!Decide \/ Nav!OverviewAnswered
           \/ UNCHANGED navVars
  <2>1. UNCHANGED <<path, store, proMe, me, fresh>> /\ goto' \in {goto, "/", "/dashboard/bookings"}
    BY <1>5 DEF Nav!SubmitLogin, Nav!SubmitRegister, Nav!LogoutAwaited, Nav!LogoutAtOnce, Nav!Poll,
       Nav!LoginRefused, Nav!CookieExpires, Nav!SessionEnds, Nav!Decide, Nav!OverviewAnswered, navVars,
       Nav!pageVars, Nav!callVars
  <2> QED
    BY <1>0, <1>1, <2>1
<1>6. CASE Nav!Navigate
  <2>1. fresh' = TRUE /\ store' = store /\ me' = me
    BY <1>6 DEF Nav!Navigate, Nav!Arrive
  <2> QED
    BY <1>0, <1>2, <2>1
<1>7. CASE Nav!RunEffects
  <2>1. /\ UNCHANGED <<path, store, proMe, me>>
        /\ (Nav!Wanted = {} /\ goto' = goto) \/ goto' \in Nav!Wanted
    BY <1>7 DEF Nav!RunEffects
  <2>2. Nav!Wanted' = Nav!Wanted
    BY <2>1, GuardsSee DEF Nav!effectiveKycStatus
  <2> QED
    BY <1>0, <2>1, <2>2 DEF Guarded
<1>8. CASE Nav!InitServed
  <2>1. UNCHANGED <<path, store, proMe, fresh, goto>> /\ me' # "none"
    BY <1>8 DEF Nav!InitServed, Nav!pageVars
  <2>2. Nav!Wanted' = Nav!Wanted
    BY <2>1, GuardsSee DEF Nav!effectiveKycStatus
  <2> QED
    BY <1>0, <2>1, <2>2 DEF Guarded
<1>9. CASE \/ Nav!InitAnswered \/ Nav!InitLost \/ Nav!LoginAnswered \/ Nav!RegisterAnswered
           \/ \E gone \in BOOLEAN : Nav!LogoutAnswered(gone)
  <2>1. fresh' = TRUE /\ store' \in {Nav!UserOf, Nav!Anonymous}
    BY <1>9 DEF Nav!InitAnswered, Nav!InitLost, Nav!LoginAnswered, Nav!RegisterAnswered, Nav!LogoutAnswered
  <2>2. ~store'.loading
    BY <1>0, <2>1, StoreFacts
  <2> QED
    BY <1>2, <2>1, <2>2
<1>10. CASE Nav!ProfileAnswered
  <2>1. /\ UNCHANGED <<path, goto, me>>
        /\ store' = store \/ (proMe' # Nav!NoProfile /\ store' = [store EXCEPT !.kyc = proMe'.kyc])
    BY <1>10 DEF Nav!ProfileAnswered
  <2>2. fresh' = (fresh \/ proMe' # proMe)
    BY <1>10, Zenon DEF Nav!ProfileAnswered
  <2>3. store'.user = store.user /\ store'.isAuthenticated = store.isAuthenticated /\ store'.loading = store.loading
    BY <1>0, <2>1 DEF Stores
  <2>4. CASE proMe' = proMe
    <3>1. Nav!effectiveKycStatus' = Nav!effectiveKycStatus
      BY <2>1, <2>4 DEF Nav!effectiveKycStatus, Nav!NoProfile
    <3>2. Nav!Wanted' = Nav!Wanted
      BY <2>1, <2>3, <3>1, GuardsSee
    <3> QED
      BY <1>0, <2>1, <2>2, <2>3, <2>4, <3>2 DEF Guarded
  <2>5. CASE proMe' # proMe
    <3>1. fresh' = TRUE
      BY <2>2, <2>5, Zenon
    <3> QED
      BY <1>0, <1>2, <2>1, <2>3, <3>1
  <2> QED
    BY <2>4, <2>5
<1>11. CASE \E p \in Nav!Pages : Nav!Open(p) \/ Nav!Click(p)
  BY <1>3, <1>4, <1>11
<1> HIDE DEF Guarded
<1> QED
  BY <1>5, <1>6, <1>7, <1>8, <1>9, <1>10, <1>11, NavCases, Zenon

\* A guard that wants nothing: who may stay on the page.
LEMMA GuardsFit ==
  ASSUME NavTypeOK, Nav!Wanted = {}, ~store.loading
  PROVE  /\ store.user = "none" => path \in Nav!AUTH_PAGES \cup {"/"}
         /\ store.user = "CLIENT" => path \notin Nav!InLayout \cup {"/plans"}
         /\ store.user = "PRO" => path \notin {"/profile", "/client/bookings"}
         /\ path \in Nav!InLayout /\ Nav!effectiveKycStatus = "REJECTED" => path = "/dashboard/kyc"
<1>1. store \in Stores /\ path \in Nav!Pages /\ account.role \in {"CLIENT", "PRO"}
  BY StoreFacts DEF NavTypeOK
<1>2. Nav!PageGuard = path /\ Nav!LayoutGuard = path /\ Nav!RejectedGuard = path
  BY DEF Nav!Wanted
<1>3. /\ store.user = "none" => ~store.isAuthenticated
      /\ store.user # "none" => store.isAuthenticated
  BY <1>1, StoreKnows
<1>4. path \in Nav!InLayout => Nav!IsPro
  <2>1. "/" \notin Nav!InLayout
    BY DEF Nav!InLayout
  <2> QED
    BY <1>2, <2>1 DEF Nav!LayoutGuard
<1>5. path \in Nav!InLayout /\ Nav!effectiveKycStatus = "REJECTED" => path = "/dashboard/kyc"
  BY <1>2, <1>4 DEF Nav!RejectedGuard
<1>6. store.user = "CLIENT" => path \notin Nav!InLayout
  BY <1>4 DEF Nav!IsPro
<1>7. CASE path \in Nav!InLayout
  <2>1. store.user = "PRO" /\ path \notin {"/plans", "/profile", "/client/bookings"}
    BY <1>4, <1>7 DEF Nav!IsPro, Nav!InLayout
  <2> QED
    BY <1>5, <2>1
<1>8. CASE path \in {"/book", "/client/bookings", "/profile", "/plans"}
  <2>1. CASE path = "/book"
    BY <1>2, <1>3, <1>5, <1>6, <2>1 DEF Nav!PageGuard, Nav!BookGuard
  <2>2. CASE path = "/client/bookings"
    BY <1>2, <1>3, <1>5, <1>6, <2>2 DEF Nav!PageGuard, Nav!ClientBookingsGuard
  <2>3. CASE path = "/profile"
    BY <1>2, <1>3, <1>5, <1>6, <2>3 DEF Nav!PageGuard, Nav!ProfileGuard
  <2>4. CASE path = "/plans"
    BY <1>2, <1>3, <1>5, <1>6, <2>4 DEF Nav!PageGuard, Nav!PlansGuard
  <2> QED
    BY <1>8, <2>1, <2>2, <2>3, <2>4
<1>9. CASE path \in Nav!AUTH_PAGES \cup {"/"}
  BY <1>9 DEF Nav!AUTH_PAGES, Nav!InLayout
<1> QED
  BY <1>1, <1>7, <1>8, <1>9 DEF Nav!Pages, Nav!PROTECTED

\* The pages that wait for the session let their user stay, before it is known and after.
LEMMA StayFacts ==
  ASSUME NavTypeOK', asked' \in Nav!Waiting', path' \in Places',
         \/ store'.isAuthenticated
         \/ store'.loading /\ path' = asked'
  PROVE  Nav!PageGuard' = path' /\ Nav!LayoutGuard' = path' /\ path' \notin Nav!AUTH_PAGES
<1>1. account' \in Nav!Accounts /\ store' \in Stores'
  BY DEF NavTypeOK
<1>2. /\ store'.isAuthenticated => store'.user = account'.role
      /\ ~store'.isAuthenticated => store'.user = "none"
  BY <1>1 DEF Stores
<1>3. account'.role = "CLIENT" => path' = "/book"
  BY <1>1 DEF Nav!Waiting, Places, Nav!Accounts
<1>4. /\ account'.role \in {"CLIENT", "PRO"}
      /\ path' \in {"/book", "/dashboard/services", "/dashboard/availability", "/dashboard/profile",
                    "/dashboard/subscription", "/dashboard/kyc", "/dashboard"}
  BY <1>1 DEF Nav!Waiting, Places, Nav!Accounts
<1>5. Nav!PageGuard' = path'
  <2>1. CASE path' = "/book"
    BY <1>2, <2>1 DEF Nav!PageGuard, Nav!BookGuard
  <2>2. CASE path' = "/dashboard/kyc"
    BY <1>2, <1>3, <1>4, <2>2 DEF Nav!PageGuard, Nav!KycGuard
  <2>3. CASE path' \notin {"/book", "/dashboard/kyc"}
    BY <1>4, <2>3 DEF Nav!PageGuard
  <2> QED
    BY <2>1, <2>2, <2>3
<1>6. Nav!LayoutGuard' = path'
  BY <1>2, <1>3, <1>4 DEF Nav!LayoutGuard, Nav!InLayout, Nav!IsPro
<1> QED
  BY <1>4, <1>5, <1>6 DEF Nav!AUTH_PAGES

\* The pages asked for are protected ones, and lead nowhere else while the cookie is there.
LEMMA PlacesFacts ==
  ASSUME NavTypeOK, asked \in Nav!Waiting
  PROVE  /\ Places \subseteq Nav!PROTECTED /\ Places \subseteq Nav!Pages
         /\ "/dashboard" \in Places => account.premium \/ account.role # "PRO"
         /\ "/" \notin Places /\ "/auth/login" \notin Places
<1>1. account \in Nav!Accounts
  BY DEF NavTypeOK
<1> QED
  BY <1>1 DEF Nav!Waiting, Places, Nav!PROTECTED, Nav!InLayout, Nav!Pages

\* The user who is calm, and what of it a step may leave as it is.
LEMMA CalmKept ==
  ASSUME Calm, UNCHANGED <<account, asked, live, cookie, path, store, login, logout, me, goto>>,
         steady' => steady, overview' = "sent" => overview = "sent"
  PROVE  Calm'
<1>1. Nav!PageGuard' = Nav!PageGuard /\ Nav!LayoutGuard' = Nav!LayoutGuard
  BY GuardsSee
<1>2. Nav!Waiting' = Nav!Waiting /\ Places' = Places
  BY DEF Nav!Waiting, Places
<1> QED
  BY <1>1, <1>2 DEF Calm, AtEase

LEMMA NavCalm ==
  ASSUME NavTypeOK, Guarded, Truthful, Calm, NavTypeOK', [Next]_vars
  PROVE  Calm'
<1>0. /\ account \in Nav!Accounts /\ store \in Stores /\ path \in Nav!Pages /\ asked \in Nav!Pages
      /\ goto \in Nav!Pages \cup {Nav!Nowhere} /\ me \in {"none", "sent", "yes", "no"}
      /\ Nav!Nowhere \notin Nav!Pages /\ Nav!Waiting \subseteq Nav!PROTECTED /\ Nav!PROTECTED \subseteq Nav!Pages
      /\ Nav!PROTECTED \cap Nav!AUTH_PAGES = {} /\ "/" \notin Nav!PROTECTED
  BY WantedFacts DEF NavTypeOK, Nav!Waiting, Nav!PROTECTED, Nav!InLayout, Nav!Pages, Nav!AUTH_PAGES
<1>1. ASSUME UNCHANGED <<account, asked, live, cookie, path, store, login, logout, me, goto>>,
             steady' = steady, overview' = "sent" => overview = "sent"
      PROVE  Calm'
  BY <1>1, CalmKept
<1>2. ASSUME steady' = FALSE
      PROVE  Calm'
  BY <1>2 DEF Calm
<1>3. ASSUME NEW p \in Nav!Pages, Nav!Open(p)
      PROVE  Calm'
  <2> SUFFICES ASSUME steady', asked' \in Nav!Waiting' PROVE AtEase'
    BY DEF Calm
  <2>1. /\ path' = Nav!middleware(p) /\ goto' = Nav!Nowhere /\ store' = Nav!Booting /\ me' = "sent"
        /\ login' = "none" /\ logout' = "none" /\ account' = account /\ cookie' = cookie /\ asked' = p
        /\ overview' = "sent" => path' = "/dashboard"
    BY <1>3 DEF Nav!Open, Nav!Ask
  <2>2. logout = "none" /\ live /\ cookie
    BY <1>3, Zenon DEF Nav!Open, Nav!Ask
  <2>3. live'
    <3>1. live' \in {live, live /\ logout = "none"}
      BY <1>3, Zenon DEF Nav!Open
    <3> QED
      BY <2>2, <3>1, Zenon
  <2>4. p \in Nav!PROTECTED
    BY <1>0, <2>1 DEF Nav!Waiting
  <2>5. path' = p
    BY <2>1, <2>2, <2>4, MiddlewareFacts
  <2>6. store'.loading /\ path' \in Places'
    BY <1>0, <2>1, <2>5, StoreFacts DEF Places
  <2>7. Nav!PageGuard' = path' /\ Nav!LayoutGuard' = path' /\ path' \notin Nav!AUTH_PAGES
    BY <2>1, <2>5, <2>6, StayFacts
  <2>8. path' = "/dashboard" => account.premium \/ account.role # "PRO"
    BY <1>0, <2>1, <2>5 DEF Nav!Waiting, Nav!Accounts
  <2> QED
    BY <2>1, <2>2, <2>3, <2>5, <2>6, <2>7, <2>8 DEF AtEase
<1>4. ASSUME NEW p \in Nav!Pages, Nav!Click(p)
      PROVE  Calm'
  <2> SUFFICES ASSUME steady', asked' \in Nav!Waiting' PROVE AtEase'
    BY DEF Calm
  <2>1. /\ UNCHANGED <<account, live, cookie, store, path, me, overview, login, logout>>
        /\ goto' = p /\ asked' = p /\ p \in Nav!Links
    BY <1>4 DEF Nav!Click, Nav!Ask, Nav!sessionVars, Nav!callVars
  <2>2. live /\ cookie /\ Nav!Settled
    BY <1>4, Zenon DEF Nav!Click, Nav!Ask
  <2>3. /\ goto = Nav!Nowhere /\ ~fresh /\ me = "none" /\ overview = "none" /\ login = "none" /\ logout = "none"
    BY <2>2 DEF Nav!Settled
  <2>4. Nav!PageGuard = path /\ Nav!LayoutGuard = path /\ ~store.loading
    BY <2>3 DEF Guarded, Nav!Wanted
  <2>5. p \in Nav!Waiting /\ p \in Places'
    BY <2>1 DEF Nav!Waiting, Places
  <2>6. p \notin Nav!AUTH_PAGES \cup {"/", "/plans"}
    BY <1>0, <2>5 DEF Nav!Waiting
  <2>7. path \notin Nav!AUTH_PAGES
    BY <2>1, <2>6 DEF Nav!Links, Nav!AUTH_PAGES, Nav!showPendingState, Nav!InLayout
  <2>8. store.isAuthenticated
    <3>1. path \notin Nav!InLayout => store.isAuthenticated
      BY <2>1, <2>6 DEF Nav!Links, Nav!NavbarLinks, Nav!HeaderLinks, Nav!AUTH_PAGES, Nav!showPendingState
    <3>2. path \in Nav!InLayout => store.isAuthenticated
      BY <2>4 DEF Nav!LayoutGuard, Nav!IsPro, Nav!InLayout
    <3> QED
      BY <3>1, <3>2
  <2>9. Nav!PageGuard' = path' /\ Nav!LayoutGuard' = path'
    BY <2>1, <2>4, GuardsSee
  <2> QED
    BY <1>0, <2>1, <2>2, <2>3, <2>4, <2>5, <2>7, <2>8, <2>9 DEF AtEase
<1>5. CASE Nav!SubmitLogin \/ Nav!SubmitRegister
  <2>1. steady' = steady /\ asked' = asked /\ account' = account /\ path \in Nav!AUTH_PAGES
    BY <1>5 DEF Nav!SubmitLogin, Nav!SubmitRegister, Nav!sessionVars, Nav!AUTH_PAGES
  <2> QED
    BY <2>1 DEF Calm, AtEase, Nav!Waiting
<1>6. CASE Nav!LogoutAwaited \/ Nav!LogoutAtOnce \/ Nav!CookieExpires \/ Nav!SessionEnds \/ Nav!InitLost
  <2>1. steady' = FALSE
    BY <1>6 DEF Nav!LogoutAwaited, Nav!LogoutAtOnce, Nav!CookieExpires, Nav!SessionEnds, Nav!InitLost
  <2> QED
    BY <1>2, <2>1
<1>7. CASE Nav!Navigate
  <2> SUFFICES ASSUME steady', asked' \in Nav!Waiting' PROVE AtEase'
    BY DEF Calm
  <2>1. /\ UNCHANGED <<account, live, cookie, store, me, login, logout, asked, steady>>
        /\ goto # Nav!Nowhere /\ path' = Nav!middleware(goto) /\ goto' = Nav!Nowhere
        /\ overview' = "sent" => path' = "/dashboard" \/ overview = "sent"
    BY <1>7 DEF Nav!Navigate, Nav!Arrive, Nav!sessionVars, Nav!historyVars
  <2>2. asked \in Nav!Waiting /\ Places' = Places /\ AtEase
    BY <2>1 DEF Calm, Nav!Waiting, Places
  <2>3. goto \in Places /\ ~store.loading /\ store.isAuthenticated /\ me = "none"
    BY <2>1, <2>2 DEF AtEase
  <2>4. path' = goto
    BY <1>0, <2>1, <2>2, <2>3, PlacesFacts, MiddlewareFacts DEF AtEase
  <2>5. Nav!PageGuard' = path' /\ Nav!LayoutGuard' = path' /\ path' \notin Nav!AUTH_PAGES
    BY <2>1, <2>2, <2>3, <2>4, StayFacts
  <2>6. path' = "/dashboard" => account.premium \/ account.role # "PRO"
    BY <2>2, <2>3, <2>4, PlacesFacts
  <2> QED
    BY <2>1, <2>2, <2>3, <2>4, <2>5, <2>6 DEF AtEase
<1>8. CASE Nav!RunEffects
  <2> SUFFICES ASSUME steady', asked' \in Nav!Waiting' PROVE AtEase'
    BY DEF Calm
  <2>1. /\ UNCHANGED <<account, live, cookie, store, path, me, overview, login, logout, asked, steady>>
        /\ (Nav!Wanted = {} /\ goto' = goto) \/ goto' \in Nav!Wanted
    BY <1>8 DEF Nav!RunEffects, Nav!sessionVars, Nav!historyVars
  <2>2. asked \in Nav!Waiting /\ Places' = Places /\ AtEase
    BY <2>1 DEF Calm, Nav!Waiting, Places
  <2>3. Nav!PageGuard' = path' /\ Nav!LayoutGuard' = path'
    BY <2>1, <2>2, GuardsSee DEF AtEase
  <2>4. CASE goto' = goto
    BY <2>1, <2>2, <2>3, <2>4 DEF AtEase
  <2>5. CASE goto' \in Nav!Wanted
    <3>1. goto' = Nav!RejectedGuard /\ goto' # path
      BY <2>2, <2>5 DEF Nav!Wanted, AtEase
    <3>2. goto' = "/dashboard/kyc" /\ Nav!effectiveKycStatus = "REJECTED" /\ ~store.loading
      BY <3>1 DEF Nav!RejectedGuard
    <3>3. account.kyc = "REJECTED"
      BY <3>2 DEF Truthful, Nav!effectiveKycStatus
    <3>4. goto' \in Places /\ goto' # Nav!Nowhere
      BY <3>2, <3>3 DEF Places, Nav!Nowhere
    <3> QED
      BY <2>1, <2>2, <2>3, <3>2, <3>4 DEF AtEase
  <2> QED
    BY <2>1, <2>4, <2>5
<1>9. CASE Nav!InitServed
  <2> SUFFICES ASSUME steady', asked' \in Nav!Waiting' PROVE AtEase'
    BY DEF Calm
  <2>1. /\ UNCHANGED <<account, live, cookie, store, path, goto, overview, login, logout, asked, steady>>
        /\ me = "sent" /\ (live => me' = "yes")
    BY <1>9 DEF Nav!InitServed, Nav!sessionVars, Nav!pageVars, Nav!historyVars
  <2>2. asked \in Nav!Waiting /\ Places' = Places /\ AtEase
    BY <2>1 DEF Calm, Nav!Waiting, Places
  <2>3. Nav!PageGuard' = path' /\ Nav!LayoutGuard' = path'
    BY <2>1, <2>2, GuardsSee DEF AtEase
  <2> QED
    BY <2>1, <2>2, <2>3 DEF AtEase
<1>10. CASE Nav!InitAnswered
  <2> SUFFICES ASSUME steady', asked' \in Nav!Waiting' PROVE AtEase'
    BY DEF Calm
  <2>1. /\ UNCHANGED <<account, live, path, goto, overview, login, logout, asked, steady>>
        /\ me \in {"yes", "no"} /\ me' = "none"
        /\ store' = IF me = "yes" THEN Nav!UserOf ELSE Nav!Anonymous
    BY <1>10 DEF Nav!InitAnswered, Nav!historyVars
  <2>2. asked \in Nav!Waiting /\ Places' = Places /\ AtEase
    BY <2>1 DEF Calm, Nav!Waiting, Places
  <2>3. store.loading /\ me = "yes" /\ goto = Nav!Nowhere /\ path = asked
    BY <2>1, <2>2 DEF AtEase
  <2>4. store'.isAuthenticated /\ ~store'.loading
    BY <1>0, <2>1, <2>3, StoreFacts
  <2>5. cookie'
    <3>1. cookie' = (cookie \/ (me = "yes" /\ live))
      BY <1>10, Zenon DEF Nav!InitAnswered
    <3>2. cookie
      BY <2>2 DEF AtEase
    <3> QED
      BY <3>1, <3>2, Zenon
  <2>6. path' \in Places'
    BY <2>1, <2>2, <2>3 DEF Places
  <2>7. Nav!PageGuard' = path' /\ Nav!LayoutGuard' = path'
    BY <2>4, <2>6, StayFacts
  <2> QED
    BY <2>1, <2>2, <2>3, <2>4, <2>5, <2>6, <2>7 DEF AtEase
<1>11. CASE Nav!ProfileAnswered
  <2> SUFFICES ASSUME steady', asked' \in Nav!Waiting' PROVE AtEase'
    BY DEF Calm
  <2>1. /\ UNCHANGED <<account, live, path, goto, me, overview, login, logout, asked, steady>>
        /\ store' = store \/ store' = [store EXCEPT !.kyc = proMe'.kyc]
    BY <1>11 DEF Nav!ProfileAnswered, Nav!historyVars
  <2>2. asked \in Nav!Waiting /\ Places' = Places /\ AtEase
    BY <2>1 DEF Calm, Nav!Waiting, Places
  <2>3. cookie'
    <3>1. cookie' = (cookie \/ live)
      BY <1>11, Zenon DEF Nav!ProfileAnswered
    <3>2. live
      BY <2>2 DEF AtEase
    <3> QED
      BY <3>1, <3>2, Zenon
  <2>4. store'.user = store.user /\ store'.isAuthenticated = store.isAuthenticated /\ store'.loading = store.loading
    BY <1>0, <2>1 DEF Stores
  <2>5. Nav!PageGuard' = path' /\ Nav!LayoutGuard' = path'
    BY <2>1, <2>2, <2>4, GuardsSee DEF AtEase
  <2> QED
    BY <2>1, <2>2, <2>3, <2>4, <2>5 DEF AtEase
<1>12. CASE Nav!Poll \/ UNCHANGED navVars
  <2>1. UNCHANGED <<account, asked, live, cookie, path, store, login, logout, me, goto, steady, overview>>
    BY <1>12 DEF Nav!Poll, navVars, Nav!sessionVars, Nav!pageVars, Nav!historyVars
  <2> QED
    BY <1>1, <2>1
<1>13. CASE Nav!OverviewAnswered
  <2> SUFFICES ASSUME steady', asked' \in Nav!Waiting' PROVE AtEase'
    BY DEF Calm
  <2>1. /\ UNCHANGED <<account, live, store, path, me, login, logout, asked, steady>>
        /\ overview = "sent" /\ overview' = "none"
        /\ account.premium \/ account.role # "PRO" => goto' = goto
    BY <1>13 DEF Nav!OverviewAnswered, Nav!historyVars
  <2>2. asked \in Nav!Waiting /\ Places' = Places /\ AtEase
    BY <2>1 DEF Calm, Nav!Waiting, Places
  <2>3. cookie'
    <3>1. cookie' = (cookie \/ live)
      BY <1>13, Zenon DEF Nav!OverviewAnswered
    <3>2. live
      BY <2>2 DEF AtEase
    <3> QED
      BY <3>1, <3>2, Zenon
  <2>4. goto' = goto
    BY <2>1, <2>2 DEF AtEase
  <2>5. Nav!PageGuard' = path' /\ Nav!LayoutGuard' = path'
    BY <2>1, <2>2, GuardsSee DEF AtEase
  <2> QED
    BY <2>1, <2>2, <2>3, <2>4, <2>5 DEF AtEase
<1>14. CASE \/ Nav!LoginAnswered \/ Nav!LoginRefused \/ Nav!RegisterAnswered
            \/ \E gone \in BOOLEAN : Nav!LogoutAnswered(gone)
  <2>1. /\ steady' = steady /\ asked' = asked /\ account' = account
        /\ login # "none" \/ logout # "none"
    BY <1>14 DEF Nav!LoginAnswered, Nav!LoginRefused, Nav!RegisterAnswered, Nav!LogoutAnswered,
       Nav!sessionVars, Nav!historyVars
  <2> QED
    BY <2>1 DEF Calm, AtEase, Nav!Waiting
<1>15. CASE Nav!Decide
  <2> SUFFICES ASSUME steady', asked' \in Nav!Waiting' PROVE AtEase'
    BY DEF Calm
  <2>1. /\ UNCHANGED <<live, cookie, store, path, goto, me, overview, login, logout, asked, steady>>
        /\ account.kyc = "PENDING" /\ \E k \in {"APPROVED", "REJECTED"} : account' = [account EXCEPT !.kyc = k]
    BY <1>15 DEF Nav!Decide, Nav!pageVars, Nav!callVars, Nav!historyVars
  <2>2. account'.role = account.role /\ account'.premium = account.premium
    BY <1>0, <2>1 DEF Nav!Accounts
  <2>3. asked \in Nav!Waiting /\ AtEase
    BY <2>1, <2>2 DEF Calm, Nav!Waiting
  <2>4. Places \subseteq Places'
    BY <2>1 DEF Places
  <2>5. Nav!PageGuard' = path' /\ Nav!LayoutGuard' = path'
    BY <2>1, <2>3, GuardsSee DEF AtEase
  <2> QED
    BY <2>1, <2>2, <2>3, <2>4, <2>5 DEF AtEase
<1>16. CASE \E p \in Nav!Pages : Nav!Open(p) \/ Nav!Click(p)
  BY <1>3, <1>4, <1>16
<1> HIDE DEF Calm
<1> QED
  BY <1>5, <1>6, <1>7, <1>8, <1>9, <1>10, <1>11, <1>12, <1>13, <1>14, <1>15, <1>16, NavCases, Zenon

LEMMA NavInit == Init => NavInv
<1> SUFFICES ASSUME Init PROVE NavInv
  OBVIOUS
<1>1. /\ account \in Nav!Accounts /\ store = Nav!Booting /\ me = "sent" /\ path = "/" /\ goto = Nav!Nowhere
      /\ fresh = TRUE /\ next = Nav!Nowhere /\ proMe = Nav!NoProfile /\ mine = "none" /\ overview = "none"
      /\ login = "none" /\ logout = "none" /\ asked = "/" /\ steady = TRUE
  BY DEF Init, Nav!Init
<1>2. live \in BOOLEAN /\ cookie \in BOOLEAN
  BY Zenon DEF Init, Nav!Init
<1>3. "/" \in Nav!Pages /\ "/" \notin Nav!Waiting
  BY DEF Nav!Pages, Nav!Waiting
<1>4. NavTypeOK /\ Truthful
  BY <1>1, <1>2, <1>3, StoreFacts DEF NavTypeOK, Truthful
<1>5. Guarded /\ Calm
  BY <1>1, <1>3 DEF Guarded, Calm
<1> QED
  BY <1>4, <1>5 DEF NavInv

LEMMA NavCorrect == Spec => []NavInv
<1>1. NavInv /\ [Next]_vars => NavInv'
  BY NavTypes, NavGuarded, NavCalm DEF NavInv
<1> QED
  BY <1>1, NavInit, SafetyPart, PTL

\* When everything is answered the page on the screen is one that the visitor of the store
\* may see, in whatever order the session, the profile and his own moves arrived.
THEOREM PageFitsUserHolds == Spec => []PageFitsUser
<1>1. ASSUME NavInv
      PROVE  PageFitsUser
  <2>1. Nav!Settled => Nav!Wanted = {} /\ ~store.loading
    BY <1>1 DEF NavInv, Guarded, Nav!Settled
  <2> QED
    BY <1>1, <2>1, GuardsFit DEF NavInv, PageFitsUser, Nav!PageFitsUser
<1> QED
  BY <1>1, NavCorrect, PTL

\* A user whose session lives and whom nothing disturbs stays on the page he asked for, when
\* that page waits for the session check: no guard takes him to the login form.
THEOREM KeepsPlaceHolds == Spec => []KeepsPlace
<1>1. ASSUME NavInv
      PROVE  KeepsPlace
  <2>1. Nav!Settled => goto = Nav!Nowhere
    BY DEF Nav!Settled
  <2> QED
    BY <1>1, <2>1 DEF NavInv, Calm, AtEase, Places, KeepsPlace, Nav!KeepsPlace
<1> QED
  BY <1>1, NavCorrect, PTL

=============================================================================
