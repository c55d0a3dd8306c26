--------------------------- MODULE PaymentProofs ---------------------------
(***************************************************************************)
(* What Payment guarantees for every number of orders and of requests in   *)
(* flight, every length of plan and of cooldown, and every failure:        *)
(*   - the types, which the other proofs assume;                           *)
(*   - one pending order per plan, and a pending key only while it pends;  *)
(*   - one activation per order, when one administrator works at a time;   *)
(*   - a premium flag that ends when a subscription does.                  *)
(***************************************************************************)
EXTENDS Payment, SequenceTheorems, TLAPS

Row == [status : {"ABSENT", "PENDING", "PAID", "FAILED"},
        plan : Plans \cup {"BOOST"}, key : BOOLEAN]

Profile == [isPremium : BOOLEAN, premiumUntil : Dates, boostUntil : Dates]

\* The request of an idle worker is well typed.
LEMMA IdleTyped == Idle \in Requests
BY DEF Idle, Request, Requests

\* Moving a request to another step keeps the requests well typed.
LEMMA GotoTyped ==
  ASSUME req \in [Workers -> Requests], NEW w \in Workers,
         NEW pc \in {"create", "expire_boost"}, Goto(w, pc)
  PROVE  req' \in [Workers -> Requests]
<1>1. [req[w] EXCEPT !.pc = pc] \in Requests
  BY DEF Requests
<1>2. req' = [req EXCEPT ![w] = [req[w] EXCEPT !.pc = pc]]
  BY DEF Goto
<1> QED
  BY <1>1, <1>2

\* Counting an activation keeps the counters well typed.
LEMMA GrantTyped ==
  ASSUME granted \in [Orders -> Nat], NEW o, Grant(o)
  PROVE  granted' \in [Orders -> Nat]
<1>1. granted' = [x \in Orders |-> IF x = o THEN granted[o] + 1 ELSE granted[x]]
  BY DEF Grant
<1> QED
  BY <1>1

\* Renewing a subscription keeps the sequence of subscriptions well typed.
LEMMA RenewTyped ==
  ASSUME NEW s \in Seq(Nat), NEW i, NEW d \in Nat
  PROVE  [s EXCEPT ![i] = d] \in Seq(Nat)
<1>1. PICK n \in Nat : s \in [1..n -> Nat]
  BY SeqDef
<1>2. [s EXCEPT ![i] = d] \in [1..n -> Nat]
  BY <1>1
<1> QED
  BY <1>2, SeqDef

\* Every step keeps the tables typed.
LEMMA TypeStep == TypeOK /\ [Next]_vars => TypeOK'
<1> SUFFICES ASSUME TypeOK, [Next]_vars PROVE TypeOK'
  OBVIOUS
<1> USE PaymentAssumption
<1>0. Idle \in Requests
  BY IdleTyped
<1>1. CASE \E w \in Callers, p \in Plans : BeginInitiate(w, p)
  <2>1. PICK w \in Callers, p \in Plans : BeginInitiate(w, p)
    BY <1>1
  <2>2. Checkout(p) \in Requests
    BY DEF Checkout, Request, Requests, TypeOK
  <2>3. req' \in [Workers -> Requests]
    BY <2>1, <2>2 DEF BeginInitiate, TypeOK, Requests, Workers
  <2> QED
    BY <2>1, <2>3 DEF BeginInitiate, Reads, tables, TypeOK
<1>2. CASE \E w \in Admins, o \in Orders : BeginConfirm(w, o) \/ BeginReject(w, o)
  <2>1. PICK w \in Admins, o \in Orders : BeginConfirm(w, o) \/ BeginReject(w, o)
    BY <1>2
  <2>2. orders[o].plan \in Plans \cup {"BOOST"}
    BY DEF TypeOK
  <2>3. /\ Request("pay", orders[o].plan, o, 0, 0) \in Requests
        /\ Request("reject", orders[o].plan, o, 0, 0) \in Requests
    BY <2>2 DEF Request, Requests
  <2>4. req' \in [Workers -> Requests]
    BY <2>1, <2>3 DEF BeginConfirm, BeginReject, TypeOK, Requests, Workers
  <2> QED
    BY <2>1, <2>4 DEF BeginConfirm, BeginReject, Reads, tables, TypeOK
<1>3. ASSUME NEW w \in Workers, Step(w) \/ Fail(w) PROVE TypeOK'
  <2>1. CASE CheckCooldown(w)
    <3>1. Request("lookup", req[w].plan, NoOrder, 0, 0) \in Requests
      BY <1>3 DEF Request, Requests, TypeOK
    <3>2. req' \in [Workers -> Requests]
      BY <1>0, <2>1, <3>1 DEF CheckCooldown, Finish, TypeOK, Requests
    <3> QED
      BY <2>1, <3>2 DEF CheckCooldown, Reads, tables, TypeOK
  <2>2. CASE Lookup(w)
    <3>1. req' \in [Workers -> Requests]
      <4>1. CASE PendingOf(req[w].plan) = {}
        BY <2>2, <4>1, GotoTyped DEF Lookup, TypeOK
      <4>2. CASE PendingOf(req[w].plan) # {}
        <5>1. PICK o \in PendingOf(req[w].plan) :
                IF orders[o].key THEN Finish(w)
                ELSE req' = [req EXCEPT ![w] = Request("adopt", req[w].plan, o, 0, 0)]
          BY <2>2, <4>2 DEF Lookup
        <5>2. o \in Orders
          BY <5>1 DEF PendingOf
        <5>3. Request("adopt", req[w].plan, o, 0, 0) \in Requests
          BY <5>2 DEF Request, Requests, TypeOK
        <5> QED
          BY <1>0, <5>1, <5>3 DEF Finish, TypeOK
      <4> QED
        BY <4>1, <4>2
    <3> QED
      BY <2>2, <3>1 DEF Lookup, Reads, tables, TypeOK
  <2>3. CASE Adopt(w) \/ Create(w) \/ Reject(w) \/ ActivateBoost(w)
          \/ ActivatePremium(w) \/ Fail(w)
    <3>1. req' \in [Workers -> Requests]
      BY <1>0, <2>3 DEF Adopt, Create, Reject, ActivateBoost, ActivatePremium, Fail,
                        Finish, TypeOK
    <3>2. CASE Adopt(w)
      <4>1. \A o \in Orders : Order("PENDING", orders[o].plan, TRUE) \in Row
        BY DEF Order, Row, TypeOK
      <4>2. orders' \in [Orders -> Row]
        BY <3>2, <4>1 DEF Adopt, TypeOK, Row
      <4> QED
        BY <3>1, <3>2, <4>2 DEF Adopt, TypeOK, Row
    <3>3. CASE Create(w)
      <4>1. Order("PENDING", req[w].plan, TRUE) \in Row
        BY <1>3 DEF Order, Row, TypeOK, Requests
      <4>2. orders' \in [Orders -> Row]
        BY <3>3, <4>1 DEF Create, TypeOK, Row
      <4> QED
        BY <3>1, <3>3, <4>2 DEF Create, TypeOK, Row
    <3>4. CASE Reject(w)
      <4>1. \A o \in Orders : Order("FAILED", orders[o].plan, FALSE) \in Row
        BY DEF Order, Row, TypeOK
      <4>2. orders' \in [Orders -> Row]
        BY <3>4, <4>1 DEF Reject, TypeOK, Row
      <4> QED
        BY <3>1, <3>4, <4>2 DEF Reject, TypeOK, Row
    <3>5. CASE ActivateBoost(w)
      <4>1. req[w].at + BoostDays \in Nat
        BY <1>3 DEF TypeOK, Requests
      <4>2. profile' \in Profile
        BY <3>5, <4>1 DEF ActivateBoost, TypeOK, Profile, Dates
      <4>3. granted' \in [Orders -> Nat]
        BY <3>5, GrantTyped DEF ActivateBoost, TypeOK
      <4>4. lastBoost' \in Dates
        BY <3>5 DEF ActivateBoost, TypeOK, Dates
      <4> QED
        BY <3>1, <3>5, <4>2, <4>3, <4>4 DEF ActivateBoost, TypeOK, Profile
    <3>6. CASE ActivatePremium(w)
      <4>1. durationDays(req[w].plan) \in Nat
        BY DEF durationDays
      <4>2. endsAt(w) \in Nat
        BY <1>3, <4>1 DEF endsAt, TypeOK, Requests
      <4>3. subs' \in Seq(Nat)
        <5>1. subs \in Seq(Nat)
          BY DEF TypeOK
        <5>2. Append(subs, endsAt(w)) \in Seq(Nat)
          BY <4>2, <5>1
        <5>3. [subs EXCEPT ![req[w].sub] = endsAt(w)] \in Seq(Nat)
          BY <4>2, <5>1, RenewTyped
        <5> QED
          BY <3>6, <5>2, <5>3 DEF ActivatePremium
      <4>4. profile' \in Profile
        BY <3>6, <4>2 DEF ActivatePremium, TypeOK, Profile, Dates
      <4>5. granted' \in [Orders -> Nat]
        BY <3>6, GrantTyped DEF ActivatePremium, TypeOK
      <4> QED
        BY <3>1, <3>6, <4>3, <4>4, <4>5 DEF ActivatePremium, TypeOK, Profile
    <3>7. CASE Fail(w)
      <4>1. unfinished' \subseteq Orders \cup {NoOrder}
        <5>1. req[w].order \in Orders \cup {NoOrder}
          BY <1>3 DEF TypeOK, Requests
        <5> QED
          BY <3>7, <5>1 DEF Fail, TypeOK
      <4> QED
        BY <3>1, <3>7, <4>1 DEF Fail, tables, TypeOK
    <3> QED
      BY <2>3, <3>2, <3>3, <3>4, <3>5, <3>6, <3>7
  <2>4. CASE Pay(w)
    <3>1. \A pc \in {"boost", "subscribe"} :
            Request(pc, req[w].plan, req[w].order, today, 0) \in Requests
      BY <1>3 DEF Request, Requests, TypeOK
    <3>2. req' \in [Workers -> Requests]
      BY <2>4, <3>1 DEF Pay, TypeOK
    <3>3. \A o \in Orders : Order("PAID", orders[o].plan, FALSE) \in Row
      BY DEF Order, Row, TypeOK
    <3>4. orders' \in [Orders -> Row]
      BY <2>4, <3>3 DEF Pay, TypeOK, Row
    <3> QED
      BY <2>4, <3>2, <3>4 DEF Pay, TypeOK, Row
  <2>5. CASE FindSubscription(w)
    <3>1. PICK s \in IF subs = <<>> THEN {0} ELSE DOMAIN subs :
            req' = [req EXCEPT ![w] =
                      Request("activate", req[w].plan, req[w].order, req[w].at, s)]
      BY <2>5 DEF FindSubscription
    <3>2. s \in Nat
      <4>1. subs \in Seq(Nat)
        BY DEF TypeOK
      <4> QED
        BY <3>1, <4>1
    <3>3. Request("activate", req[w].plan, req[w].order, req[w].at, s) \in Requests
      BY <1>3, <3>2 DEF Request, Requests, TypeOK
    <3>4. req' \in [Workers -> Requests]
      BY <3>1, <3>3 DEF TypeOK
    <3> QED
      BY <2>5, <3>4 DEF FindSubscription, Reads, tables, TypeOK
  <2> QED
    BY <1>3, <2>1, <2>2, <2>3, <2>4, <2>5 DEF Step
<1>4. CASE BeginExpire \/ ExpirePremium \/ ExpireBoost
  <2>1. Cron \in Workers
    BY DEF Workers
  <2>2. Request("expire_premium", "BOOST", NoOrder, today, 0) \in Requests
    BY DEF Request, Requests, TypeOK
  <2>3. req' \in [Workers -> Requests]
    <3>1. CASE BeginExpire
      BY <2>1, <2>2, <3>1 DEF BeginExpire, TypeOK
    <3>2. CASE ExpirePremium
      BY <2>1, <3>2, GotoTyped DEF ExpirePremium, TypeOK
    <3>3. CASE ExpireBoost
      BY <1>0, <2>1, <3>3 DEF ExpireBoost, Finish, TypeOK
    <3> QED
      BY <1>4, <3>1, <3>2, <3>3
  <2> QED
    BY <1>4, <2>3 DEF BeginExpire, ExpirePremium, ExpireBoost, Reads, tables, TypeOK,
                      Dates
<1>5. CASE Tick
  BY <1>5 DEF Tick, tables, TypeOK
<1>6. CASE UNCHANGED vars
  BY <1>6 DEF vars, tables, TypeOK
<1> QED
  BY <1>1, <1>2, <1>3, <1>4, <1>5, <1>6 DEF Next

\* Every column and every request of Payment keeps its type.
THEOREM TypeCorrect == Spec => []TypeOK
<1>1. Init => TypeOK
  <2> SUFFICES ASSUME Init PROVE TypeOK
    OBVIOUS
  <2> USE PaymentAssumption
  <2>1. orders \in [Orders -> Row]
    <3>1. Absent \in Row /\ \A p \in Plans : Order("PENDING", p, FALSE) \in Row
      BY DEF Absent, Order, Row
    <3> QED
      BY <3>1 DEF Init
  <2>2. req \in [Workers -> Requests]
    BY IdleTyped DEF Init
  <2> QED
    BY <2>1, <2>2 DEF Init, TypeOK, Dates, Row
<1> QED
  BY <1>1, TypeStep, PTL DEF Spec

-----------------------------------------------------------------------------
(* One pending order per plan *)

\* A request that is about to create an order has seen no pending order of its
\* plan, so those there are by then have been created since and hold the key.
NoStrayOrder ==
  \A w \in Workers : At(w, "create") => \A o \in PendingOf(req[w].plan) : orders[o].key

PendingInv == KeyOnlyWhilePending /\ OnePendingPerPlan /\ NoStrayOrder

\* A step that leaves the orders alone only has to keep NoStrayOrder: no request
\* comes to create an order but by Lookup.
LEMMA PendingKept ==
  ASSUME PendingInv, orders' = orders,
         \A w \in Workers : At(w, "create")' => /\ At(w, "create")
                                                /\ req'[w].plan = req[w].plan
  PROVE  PendingInv'
BY DEF PendingInv, KeyOnlyWhilePending, OnePendingPerPlan, NoStrayOrder, PendingOf, At

\* A step that closes an order, or gives the key to a pending one of a plan whose
\* key is free, keeps the invariant.
LEMMA PendingClosed ==
  ASSUME TypeOK, PendingInv, NEW o \in Orders, NEW status \in {"PAID", "FAILED"},
         orders' = [orders EXCEPT ![o] = Order(status, orders[o].plan, FALSE)],
         \A w \in Workers : At(w, "create")' => /\ At(w, "create")
                                                /\ req'[w].plan = req[w].plan
  PROVE  PendingInv'
<1>1. \A x \in Orders : x # o => orders'[x] = orders[x]
  BY DEF TypeOK
<1>2. /\ orders'[o].status = status /\ orders'[o].plan = orders[o].plan
      /\ orders'[o].key = FALSE
  BY DEF TypeOK, Order
<1>3. KeyOnlyWhilePending'
  BY <1>1, <1>2 DEF PendingInv, KeyOnlyWhilePending
<1>4. OnePendingPerPlan'
  BY <1>1, <1>2 DEF PendingInv, OnePendingPerPlan
<1>5. NoStrayOrder'
  <2> SUFFICES ASSUME NEW v \in Workers, At(v, "create")', NEW x \in Orders,
                      orders'[x].status = "PENDING", orders'[x].plan = req'[v].plan
               PROVE  orders'[x].key
    BY DEF NoStrayOrder, PendingOf
  <2>1. At(v, "create") /\ req'[v].plan = req[v].plan
    OBVIOUS
  <2>2. CASE x = o
    BY <1>2, <2>2
  <2>3. CASE x # o
    BY <1>1, <2>1, <2>3 DEF PendingInv, NoStrayOrder, PendingOf
  <2> QED
    BY <2>2, <2>3
<1> QED
  BY <1>3, <1>4, <1>5 DEF PendingInv

\* The two steps that give a pending key.
LEMMA PendingKeyed ==
  ASSUME TypeOK, PendingInv, NEW o \in Orders, NEW plan,
         orders' = [orders EXCEPT ![o] = Order("PENDING", plan, TRUE)],
         \A x \in PendingOf(plan) : x = o,
         \A w \in Workers : At(w, "create")' => /\ At(w, "create")
                                                /\ req'[w].plan = req[w].plan
  PROVE  PendingInv'
<1>1. \A x \in Orders : x # o => orders'[x] = orders[x]
  BY DEF TypeOK
<1>2. /\ orders'[o].status = "PENDING" /\ orders'[o].plan = plan
      /\ orders'[o].key = TRUE
  BY DEF TypeOK, Order
<1>3. KeyOnlyWhilePending'
  BY <1>1, <1>2 DEF PendingInv, KeyOnlyWhilePending
<1>4. OnePendingPerPlan'
  <2> SUFFICES ASSUME NEW x \in Orders, NEW y \in Orders,
                      orders'[x].status = "PENDING", orders'[y].status = "PENDING",
                      orders'[x].plan = orders'[y].plan
               PROVE  x = y
    BY DEF OnePendingPerPlan
  <2>1. \A z \in Orders : z # o /\ orders'[z].status = "PENDING" => orders'[z].plan # plan
    BY <1>1 DEF PendingOf
  <2>2. CASE x # o /\ y # o
    BY <1>1, <2>2 DEF PendingInv, OnePendingPerPlan
  <2> QED
    BY <1>2, <2>1, <2>2
<1>5. NoStrayOrder'
  <2> SUFFICES ASSUME NEW v \in Workers, At(v, "create")', NEW x \in Orders,
                      orders'[x].status = "PENDING", orders'[x].plan = req'[v].plan
               PROVE  orders'[x].key
    BY DEF NoStrayOrder, PendingOf
  <2>1. At(v, "create") /\ req'[v].plan = req[v].plan
    OBVIOUS
  <2>2. CASE x = o
    BY <1>2, <2>2
  <2>3. CASE x # o
    BY <1>1, <2>1, <2>3 DEF PendingInv, NoStrayOrder, PendingOf
  <2> QED
    BY <2>2, <2>3
<1> QED
  BY <1>3, <1>4, <1>5 DEF PendingInv

\* What a step does to the program counters of the other requests.
LEMMA OthersStay ==
  ASSUME TypeOK, NEW w \in Workers, NEW r, req' = [req EXCEPT ![w] = r], r.pc # "create"
  PROVE  \A v \in Workers : At(v, "create")' => /\ At(v, "create")
                                                /\ req'[v].plan = req[v].plan
BY DEF TypeOK, At

\* Every step keeps the invariant of the pending orders.
LEMMA PendingStep == TypeOK /\ PendingInv /\ [Next]_vars => PendingInv'
<1> SUFFICES ASSUME TypeOK, PendingInv, [Next]_vars PROVE PendingInv'
  OBVIOUS
<1>0. Idle.pc = "idle"
  BY DEF Idle, Request
<1>1. ASSUME NEW w \in Callers, NEW p \in Plans, BeginInitiate(w, p) PROVE PendingInv'
  <2>1. Checkout(p).pc # "create"
    BY DEF Checkout, Request
  <2>2. w \in Workers
    BY DEF Workers
  <2> QED
    BY <1>1, <2>1, <2>2, PendingKept, OthersStay DEF BeginInitiate, Reads, tables
<1>2. ASSUME NEW w \in Admins, NEW o \in Orders, BeginConfirm(w, o) \/ BeginReject(w, o)
      PROVE  PendingInv'
  <2>1. \A pc \in {"pay", "reject"} :
          Request(pc, orders[o].plan, o, 0, 0).pc # "create"
    BY DEF Request
  <2>2. w \in Workers
    BY DEF Workers
  <2> QED
    BY <1>2, <2>1, <2>2, PendingKept, OthersStay DEF BeginConfirm, BeginReject, Reads, tables
<1>3. ASSUME NEW w \in Workers, Step(w) \/ Fail(w) PROVE PendingInv'
  <2>0. req' = [req EXCEPT ![w] = Idle]
          => \A v \in Workers : At(v, "create")' => /\ At(v, "create")
                                                    /\ req'[v].plan = req[v].plan
    BY <1>0, OthersStay
  <2>1. CASE CheckCooldown(w)
    <3>1. Request("lookup", req[w].plan, NoOrder, 0, 0).pc # "create"
      BY DEF Request
    <3> QED
      BY <2>0, <2>1, <3>1, PendingKept, OthersStay
        DEF CheckCooldown, Finish, Reads, tables
  <2>2. CASE Lookup(w)
    <3>1. CASE PendingOf(req[w].plan) = {}
      <4>1. orders' = orders /\ req' = [req EXCEPT ![w].pc = "create"]
        BY <2>2, <3>1 DEF Lookup, Goto, Reads, tables
      <4>2. /\ req'[w].plan = req[w].plan
            /\ \A v \in Workers : v # w => req'[v] = req[v]
        BY <4>1 DEF TypeOK, Requests
      <4> QED
        BY <3>1, <4>1, <4>2
          DEF PendingInv, KeyOnlyWhilePending, OnePendingPerPlan, NoStrayOrder,
              PendingOf, At
    <3>2. CASE PendingOf(req[w].plan) # {}
      <4>1. PICK o \in PendingOf(req[w].plan) :
              IF orders[o].key THEN Finish(w)
              ELSE req' = [req EXCEPT ![w] = Request("adopt", req[w].plan, o, 0, 0)]
        BY <2>2, <3>2 DEF Lookup
      <4>2. Request("adopt", req[w].plan, o, 0, 0).pc # "create"
        BY DEF Request
      <4>3. orders' = orders
        BY <2>2 DEF Lookup, Reads, tables
      <4> QED
        BY <2>0, <4>1, <4>2, <4>3, PendingKept, OthersStay DEF Finish
    <3> QED
      BY <3>1, <3>2
  <2>3. CASE Adopt(w)
    <3> DEFINE o == req[w].order
    <3>1. CASE orders[o].status = "PENDING" /\ ~orders[o].key /\ o \in Orders
               /\ orders' = [orders EXCEPT ![o] = Order("PENDING", orders[o].plan, TRUE)]
      <4>1. \A x \in PendingOf(orders[o].plan) : x = o
        BY <3>1 DEF PendingInv, OnePendingPerPlan, PendingOf
      <4> HIDE DEF o
      <4> QED
        BY <2>0, <2>3, <3>1, <4>1, PendingKeyed DEF Adopt, Finish
    <3>2. CASE orders' = orders
      BY <2>0, <2>3, <3>2, PendingKept DEF Adopt, Finish
    <3>3. CASE o \notin Orders
      <4>1. [orders EXCEPT ![o] = Order("PENDING", orders[o].plan, TRUE)] = orders
        BY <3>3 DEF TypeOK
      <4> QED
        BY <2>3, <3>2, <4>1 DEF Adopt
    <3> QED
      BY <2>3, <3>1, <3>2, <3>3 DEF Adopt
  <2>4. CASE Create(w)
    <3>1. CASE orders' = orders
      BY <2>0, <2>4, <3>1, PendingKept DEF Create, Finish
    <3>2. CASE KeyHolders(req[w].plan) = {}
      <4>1. PICK o \in Orders :
              orders' = [orders EXCEPT ![o] = Order("PENDING", req[w].plan, TRUE)]
        BY <2>4, <3>2 DEF Create
      <4>2. PendingOf(req[w].plan) = {}
        BY <2>4, <3>2 DEF Create, PendingInv, NoStrayOrder, KeyHolders, PendingOf
      <4> QED
        BY <2>0, <2>4, <4>1, <4>2, PendingKeyed DEF Create, Finish
    <3> QED
      BY <2>4, <3>1, <3>2 DEF Create
  <2>5. CASE Pay(w)
    <3>1. \A pc \in {"boost", "subscribe"} :
            Request(pc, req[w].plan, req[w].order, today, 0).pc # "create"
      BY DEF Request
    <3>2. \A v \in Workers : At(v, "create")' => /\ At(v, "create")
                                                 /\ req'[v].plan = req[v].plan
      BY <2>5, <3>1, OthersStay DEF Pay
    <3>3. CASE req[w].order \in Orders
      BY <2>5, <3>2, <3>3, PendingClosed DEF Pay
    <3>4. CASE req[w].order \notin Orders
      <4>1. orders' = orders
        BY <2>5, <3>4 DEF Pay, TypeOK
      <4> QED
        BY <3>2, <4>1, PendingKept
    <3> QED
      BY <3>3, <3>4
  <2>6. CASE Reject(w)
    <3>1. CASE req[w].order \in Orders
      BY <2>0, <2>6, <3>1, PendingClosed DEF Reject, Finish
    <3>2. CASE req[w].order \notin Orders
      <4>1. orders' = orders
        BY <2>6, <3>2 DEF Reject, TypeOK
      <4> QED
        BY <2>0, <2>6, <4>1, PendingKept DEF Reject, Finish
    <3> QED
      BY <3>1, <3>2
  <2>7. CASE ActivateBoost(w) \/ ActivatePremium(w) \/ Fail(w)
    BY <2>0, <2>7, PendingKept DEF ActivateBoost, ActivatePremium, Fail, Finish, tables
  <2>8. CASE FindSubscription(w)
    <3>1. PICK s : req' = [req EXCEPT ![w] =
                      Request("activate", req[w].plan, req[w].order, req[w].at, s)]
      BY <2>8 DEF FindSubscription
    <3>2. Request("activate", req[w].plan, req[w].order, req[w].at, s).pc # "create"
      BY DEF Request
    <3> QED
      BY <2>8, <3>1, <3>2, PendingKept, OthersStay DEF FindSubscription, Reads, tables
  <2> QED
    BY <1>3, <2>1, <2>2, <2>3, <2>4, <2>5, <2>6, <2>7, <2>8 DEF Step
<1>4. CASE BeginExpire \/ ExpirePremium \/ ExpireBoost
  <2>1. Cron \in Workers
    BY DEF Workers
  <2>2. Request("expire_premium", "BOOST", NoOrder, today, 0).pc # "create"
    BY DEF Request
  <2>3. CASE BeginExpire
    BY <2>1, <2>2, <2>3, PendingKept, OthersStay DEF BeginExpire, Reads, tables
  <2>4. CASE ExpirePremium
    BY <2>1, <2>4, PendingKept DEF ExpirePremium, Goto, At, TypeOK, Requests
  <2>5. CASE ExpireBoost
    BY <1>0, <2>1, <2>5, PendingKept, OthersStay DEF ExpireBoost, Finish
  <2> QED
    BY <1>4, <2>3, <2>4, <2>5
<1>5. CASE Tick \/ UNCHANGED vars
  BY <1>5, PendingKept DEF Tick, vars, tables, At
<1> QED
  BY <1>1, <1>2, <1>3, <1>4, <1>5 DEF Next

\* The pending key and the search before an insertion let one order of a plan pend
\* at a time, with any number of checkouts in flight and any failures.
THEOREM OnePendingPerPlanHolds == Spec => [](OnePendingPerPlan /\ KeyOnlyWhilePending)
<1>1. Init => PendingInv
  <2> SUFFICES ASSUME Init PROVE PendingInv
    OBVIOUS
  <2>1. \A w \in Workers : req[w].pc = "idle"
    BY DEF Init, Idle, Request
  <2>2. \A o \in Orders : orders[o].key = FALSE
    BY DEF Init, Absent, Order
  <2>3. OnePendingPerPlan
    BY DEF Init, Absent, Order, OnePendingPerPlan
  <2> QED
    BY <2>1, <2>2, <2>3 DEF PendingInv, KeyOnlyWhilePending, NoStrayOrder, At
<1>2. PendingInv => OnePendingPerPlan /\ KeyOnlyWhilePending
  BY DEF PendingInv
<1> QED
  BY <1>1, <1>2, TypeCorrect, PendingStep, PTL DEF Spec

-----------------------------------------------------------------------------
(* One activation per order *)

\* Administrators' requests are handled one at a time.
OneAdmin == \A a, b \in Admins : a = b

\* What the request of the administrator knows of its order: it is not paid until
\* it pays it, and it is paid and not activated from there to the activation.
GrantInv ==
  /\ \A o \in Orders : granted[o] <= 1 /\ (granted[o] # 0 => orders[o].status = "PAID")
  /\ \A w \in Workers :
       /\ req[w].pc \in {"pay", "reject", "boost", "subscribe", "activate"}
          => w \in Admins /\ req[w].order \in Orders
       /\ req[w].pc \in {"pay", "reject"} => orders[req[w].order].status # "PAID"
       /\ req[w].pc \in {"boost", "subscribe", "activate"}
          => orders[req[w].order].status = "PAID" /\ granted[req[w].order] = 0

\* A step that leaves the statuses and the counters alone, and after which every
\* request that acts on an order already did, on the same one and at a like point.
LEMMA GrantKept ==
  ASSUME GrantInv, granted' = granted,
         \A o \in Orders : orders'[o].status # orders[o].status
                             => orders[o].status = "ABSENT" /\ orders'[o].status # "PAID",
         \A w \in Workers :
           \/ req'[w] = req[w]
           \/ req'[w].pc \notin {"pay", "reject", "boost", "subscribe", "activate"},
         \A w \in Workers :
           req[w].pc \in {"boost", "subscribe", "activate"} => req[w].order \in Orders
  PROVE  GrantInv'
<1>1. \A o \in Orders : /\ orders[o].status = "PAID" => orders'[o].status = "PAID"
                        /\ orders[o].status # "PAID" => orders'[o].status # "PAID"
  OBVIOUS
<1>2. \A o \in Orders : /\ granted'[o] <= 1
                        /\ granted'[o] # 0 => orders'[o].status = "PAID"
  BY <1>1 DEF GrantInv
<1>3. ASSUME NEW w \in Workers
      PROVE  /\ req'[w].pc \in {"pay", "reject", "boost", "subscribe", "activate"}
                => w \in Admins /\ req'[w].order \in Orders
             /\ req'[w].pc \in {"pay", "reject"} => orders'[req'[w].order].status # "PAID"
             /\ req'[w].pc \in {"boost", "subscribe", "activate"}
                => orders'[req'[w].order].status = "PAID" /\ granted'[req'[w].order] = 0
  BY <1>1 DEF GrantInv
<1> QED
  BY <1>2, <1>3 DEF GrantInv

\* What GrantInv asks of request w.
Acts(w) ==
  /\ req[w].pc \in {"pay", "reject", "boost", "subscribe", "activate"}
     => w \in Admins /\ req[w].order \in Orders
  /\ req[w].pc \in {"pay", "reject"} => orders[req[w].order].status # "PAID"
  /\ req[w].pc \in {"boost", "subscribe", "activate"}
     => orders[req[w].order].status = "PAID" /\ granted[req[w].order] = 0

\* What GrantInv asks of the orders.
Counted ==
  \A o \in Orders : granted[o] <= 1 /\ (granted[o] # 0 => orders[o].status = "PAID")

\* The same when one request acts: the others are checked as they were.
LEMMA GrantActed ==
  ASSUME GrantInv, NEW w \in Workers, Counted', Acts(w)',
         \A v \in Workers \ {w} :
           \/ req'[v].pc \notin {"pay", "reject", "boost", "subscribe", "activate"}
           \/ req'[v] = req[v] /\ orders' = orders /\ granted' = granted
  PROVE  GrantInv'
<1>1. ASSUME NEW v \in Workers PROVE Acts(v)'
  <2>1. CASE v # w
    BY <2>1 DEF GrantInv, Acts
  <2> QED
    BY <2>1
<1> QED
  BY <1>1 DEF GrantInv, Acts, Counted

\* Every step keeps the invariant of the activations.
LEMMA GrantStep ==
  ASSUME OneAdmin, TypeOK, GrantInv, [Next]_vars
  PROVE  GrantInv'
<1> DEFINE acting == {"pay", "reject", "boost", "subscribe", "activate"}
<1>0. Idle.pc \notin acting
  BY DEF Idle, Request
<1>a. \A w \in Workers :
        req[w].pc \in {"boost", "subscribe", "activate"} => req[w].order \in Orders
  BY DEF GrantInv
<1>b. \A w \in Workers, v \in Workers :
        req[w].pc \in acting /\ req[v].pc \in acting => v = w
  BY DEF GrantInv, OneAdmin
<1>c. ASSUME NEW w \in Workers, NEW r, req' = [req EXCEPT ![w] = r]
      PROVE  req'[w] = r /\ \A v \in Workers : v # w => req'[v] = req[v]
  BY <1>c DEF TypeOK
<1>1. ASSUME NEW w \in Callers, NEW p \in Plans, BeginInitiate(w, p) PROVE GrantInv'
  <2>1. Checkout(p).pc \notin acting
    BY DEF Checkout, Request
  <2>2. w \in Workers
    BY DEF Workers
  <2>3. \A v \in Workers : req'[v] = req[v] \/ req'[v].pc \notin acting
    BY <1>1, <1>c, <2>1, <2>2 DEF BeginInitiate
  <2> QED
    BY <1>1, <1>a, <2>3, GrantKept DEF BeginInitiate, Reads, tables
<1>2. ASSUME NEW w \in Admins, NEW o \in Orders, BeginConfirm(w, o) \/ BeginReject(w, o)
      PROVE  GrantInv'
  <2>1. w \in Workers
    BY DEF Workers
  <2>2. PICK pc \in {"pay", "reject"} :
          req' = [req EXCEPT ![w] = Request(pc, orders[o].plan, o, 0, 0)]
    BY <1>2 DEF BeginConfirm, BeginReject
  <2>a. /\ Request(pc, orders[o].plan, o, 0, 0).pc = pc
        /\ Request(pc, orders[o].plan, o, 0, 0).order = o
    BY DEF Request
  <2>3. /\ req'[w].pc = pc /\ req'[w].order = o
        /\ \A v \in Workers : v # w => req'[v] = req[v]
    BY <1>c, <2>1, <2>2, <2>a
  <2>4. orders' = orders /\ granted' = granted /\ orders[o].status # "PAID"
    BY <1>2 DEF BeginConfirm, BeginReject, Reads, tables
  <2>5. Counted'
    BY <2>4 DEF GrantInv, Counted
  <2>6. Acts(w)'
    BY <1>2, <2>3, <2>4 DEF Acts
  <2> QED
    BY <2>1, <2>3, <2>4, <2>5, <2>6, GrantActed
<1>3. ASSUME NEW w \in Workers, Step(w) \/ Fail(w) PROVE GrantInv'
  <2>0. req' = [req EXCEPT ![w] = Idle]
          => \A v \in Workers : req'[v] = req[v] \/ req'[v].pc \notin acting
    BY <1>0, <1>c
  <2>1. CASE CheckCooldown(w) \/ Lookup(w)
    <3>1. \A v \in Workers : req'[v] = req[v] \/ req'[v].pc \notin acting
      <4>1. CASE req' = [req EXCEPT ![w].pc = "create"]
        BY <4>1 DEF TypeOK, Requests
      <4>2. CASE req' = [req EXCEPT ![w] = Request("lookup", req[w].plan, NoOrder, 0, 0)]
        BY <1>c, <4>2 DEF Request
      <4>3. CASE \E o \in Orders :
                   req' = [req EXCEPT ![w] = Request("adopt", req[w].plan, o, 0, 0)]
        BY <1>c, <4>3 DEF Request
      <4>4. CASE Finish(w)
        BY <2>0, <4>4 DEF Finish
      <4> QED
        BY <2>1, <4>1, <4>2, <4>3, <4>4 DEF CheckCooldown, Lookup, Goto, PendingOf
    <3>2. orders' = orders /\ granted' = granted
      BY <2>1 DEF CheckCooldown, Lookup, Reads, tables
    <3> QED
      BY <1>a, <3>1, <3>2, GrantKept
  <2>2. CASE Adopt(w) \/ Create(w)
    <3>1. \A o \in Orders : orders'[o].status # orders[o].status
                             => orders[o].status = "ABSENT" /\ orders'[o].status # "PAID"
      <4>1. \A plan : Order("PENDING", plan, TRUE).status = "PENDING"
        BY DEF Order
      <4>2. CASE Adopt(w)
        BY <4>1, <4>2 DEF Adopt, TypeOK
      <4>3. CASE Create(w)
        BY <4>1, <4>3 DEF Create, TypeOK
      <4> QED
        BY <2>2, <4>2, <4>3
    <3> QED
      BY <1>a, <2>0, <2>2, <3>1, GrantKept DEF Adopt, Create, Finish
  <2>3. CASE Pay(w)
    <3> DEFINE x == req[w].order
    <3>1. req[w].pc = "pay" /\ x \in Orders /\ orders[x].status # "PAID" /\ w \in Admins
      BY <2>3 DEF Pay, At, GrantInv
    <3>2. granted[x] = 0
      BY <3>1 DEF GrantInv
    <3>a. \A pc : /\ Request(pc, req[w].plan, x, today, 0).pc = pc
                  /\ Request(pc, req[w].plan, x, today, 0).order = x
      BY DEF Request
    <3>b. PICK pc \in {"boost", "subscribe"} :
            req' = [req EXCEPT ![w] = Request(pc, req[w].plan, x, today, 0)]
      BY <2>3 DEF Pay
    <3>3. /\ req'[w].pc \in {"boost", "subscribe"} /\ req'[w].order = x
          /\ \A v \in Workers : v # w => req'[v] = req[v] /\ req'[v].pc \notin acting
      <4>1. \A v \in Workers : v # w => req[v].pc \notin acting
        BY <1>b, <3>1
      <4>2. req'[w] = Request(pc, req[w].plan, x, today, 0)
            /\ \A v \in Workers : v # w => req'[v] = req[v]
        BY <1>c, <3>b
      <4> QED
        BY <3>a, <4>1, <4>2
    <3>4. /\ orders'[x].status = "PAID"
          /\ \A o \in Orders : o # x => orders'[o] = orders[o]
      BY <2>3, <3>1 DEF Pay, Order, TypeOK
    <3>5. granted' = granted
      BY <2>3 DEF Pay
    <3>6. \A o \in Orders : granted'[o] <= 1 /\ (granted'[o] # 0 => orders'[o].status = "PAID")
      BY <3>4, <3>5 DEF GrantInv
    <3>7. Acts(w)'
      BY <3>1, <3>2, <3>3, <3>4, <3>5 DEF Acts
    <3> QED
      BY <3>3, <3>6, <3>7, GrantActed DEF Counted
  <2>4. CASE Reject(w)
    <3> DEFINE x == req[w].order
    <3>1. req[w].pc = "reject" /\ x \in Orders /\ orders[x].status # "PAID"
      BY <2>4 DEF Reject, At, GrantInv
    <3>2. granted[x] = 0
      BY <3>1 DEF GrantInv
    <3>3. \A v \in Workers : req'[v].pc \notin acting
      BY <1>0, <1>b, <1>c, <2>4, <3>1 DEF Reject, Finish
    <3>4. \A o \in Orders : o # x => orders'[o] = orders[o]
      BY <2>4 DEF Reject, TypeOK
    <3>5. granted' = granted
      BY <2>4 DEF Reject
    <3>6. \A o \in Orders : granted'[o] <= 1 /\ (granted'[o] # 0 => orders'[o].status = "PAID")
      BY <3>2, <3>4, <3>5 DEF GrantInv
    <3>7. Acts(w)'
      BY <3>3 DEF Acts
    <3> QED
      BY <3>3, <3>6, <3>7, GrantActed DEF Counted
  <2>5. CASE ActivateBoost(w) \/ ActivatePremium(w)
    <3> DEFINE x == req[w].order
    <3>1. /\ req[w].pc \in {"boost", "activate"} /\ x \in Orders
          /\ orders[x].status = "PAID" /\ granted[x] = 0
      BY <2>5 DEF ActivateBoost, ActivatePremium, At, GrantInv
    <3>2. \A v \in Workers : req'[v].pc \notin acting
      <4>1. \A v \in Workers : v # w => req[v].pc \notin acting
        BY <1>b, <3>1
      <4>2. req'[w] = Idle /\ \A v \in Workers : v # w => req'[v] = req[v]
        BY <1>c, <2>5 DEF ActivateBoost, ActivatePremium, Finish
      <4> QED
        BY <1>0, <4>1, <4>2
    <3>3. granted' = [granted EXCEPT ![x] = granted[x] + 1] /\ orders' = orders
      BY <2>5 DEF ActivateBoost, ActivatePremium, Grant
    <3>4. granted'[x] = 1 /\ \A o \in Orders : o # x => granted'[o] = granted[o]
      BY <3>1, <3>3 DEF TypeOK
    <3>5. \A o \in Orders : granted'[o] <= 1 /\ (granted'[o] # 0 => orders'[o].status = "PAID")
      BY <3>1, <3>3, <3>4 DEF GrantInv
    <3>6. Acts(w)'
      BY <3>2 DEF Acts
    <3> QED
      BY <3>2, <3>5, <3>6, GrantActed DEF Counted
  <2>6. CASE FindSubscription(w)
    <3>1. PICK s : req' = [req EXCEPT ![w] =
                      Request("activate", req[w].plan, req[w].order, req[w].at, s)]
      BY <2>6 DEF FindSubscription
    <3>a. /\ Request("activate", req[w].plan, req[w].order, req[w].at, s).pc = "activate"
          /\ Request("activate", req[w].plan, req[w].order, req[w].at, s).order
               = req[w].order
      BY DEF Request
    <3>2. /\ req'[w].pc = "activate" /\ req'[w].order = req[w].order
          /\ \A v \in Workers : v # w => req'[v] = req[v]
      BY <1>c, <3>1, <3>a
    <3>3. orders' = orders /\ granted' = granted /\ req[w].pc = "subscribe"
      BY <2>6 DEF FindSubscription, Reads, tables, At
    <3>4. \A o \in Orders : granted'[o] <= 1 /\ (granted'[o] # 0 => orders'[o].status = "PAID")
      BY <3>3 DEF GrantInv
    <3>5. /\ w \in Admins /\ req[w].order \in Orders
          /\ orders[req[w].order].status = "PAID" /\ granted[req[w].order] = 0
      BY <3>3 DEF GrantInv
    <3>6. Acts(w)'
      BY <3>2, <3>3, <3>5 DEF Acts
    <3> QED
      BY <3>2, <3>3, <3>4, <3>6, GrantActed DEF Counted
  <2>7. CASE Fail(w)
    BY <1>a, <2>0, <2>7, GrantKept DEF Fail, Finish, tables
  <2> QED
    BY <1>3, <2>1, <2>2, <2>3, <2>4, <2>5, <2>6, <2>7 DEF Step
<1>4. CASE BeginExpire \/ ExpirePremium \/ ExpireBoost
  <2>1. Cron \in Workers
    BY DEF Workers
  <2>2. \A v \in Workers : req'[v] = req[v] \/ req'[v].pc \notin acting
    <3>1. CASE BeginExpire
      BY <1>c, <2>1, <3>1 DEF BeginExpire, Request
    <3>2. CASE ExpirePremium
      BY <2>1, <3>2 DEF ExpirePremium, Goto, TypeOK, Requests
    <3>3. CASE ExpireBoost
      BY <1>0, <1>c, <2>1, <3>3 DEF ExpireBoost, Finish
    <3> QED
      BY <1>4, <3>1, <3>2, <3>3
  <2>3. orders' = orders /\ granted' = granted
    BY <1>4 DEF BeginExpire, ExpirePremium, ExpireBoost, Reads, tables
  <2> QED
    BY <1>a, <2>2, <2>3, GrantKept
<1>5. CASE Tick \/ UNCHANGED vars
  BY <1>5, <1>a, GrantKept DEF Tick, vars, tables
<1> QED
  BY <1>1, <1>2, <1>3, <1>4, <1>5 DEF Next

\* With one administrator at a time an order activates its plan once at most,
\* whatever the professional and the cron do meanwhile and whatever fails.
THEOREM GrantedOnceHolds == ASSUME OneAdmin PROVE Spec => []GrantedOnce
<1>1. Init => GrantInv
  <2> SUFFICES ASSUME Init PROVE GrantInv
    OBVIOUS
  <2>1. \A w \in Workers : req[w].pc = "idle"
    BY DEF Init, Idle, Request
  <2>2. \A o \in Orders : granted[o] = 0
    BY DEF Init
  <2> QED
    BY <2>1, <2>2 DEF GrantInv
<1>2. TypeOK /\ GrantInv /\ [Next]_vars => GrantInv'
  BY GrantStep
<1>3. GrantInv => GrantedOnce
  BY DEF GrantInv, GrantedOnce
<1> QED
  BY <1>1, <1>2, <1>3, TypeCorrect, PTL DEF Spec

-----------------------------------------------------------------------------
(* The premium flag and the subscriptions *)

\* A subscription that a request found is still there when the request renews it.
FoundStays ==
  \A w \in Workers : req[w].pc = "activate" => req[w].sub \in {0} \cup DOMAIN subs

PremiumInv == PremiumMatchesSubscription /\ FoundStays

\* A step that leaves the subscriptions alone may take the flag away, with its date.
LEMMA PremiumKept ==
  ASSUME PremiumInv, subs' = subs,
         \/ profile'.premiumUntil = Null
         \/ /\ profile'.premiumUntil = profile.premiumUntil
            /\ profile'.isPremium = profile.isPremium,
         \A w \in Workers : \/ req'[w] = req[w] \/ req'[w].pc # "activate"
                            \/ req'[w].sub \in {0} \cup DOMAIN subs
  PROVE  PremiumInv'
<1>1. PremiumMatchesSubscription'
  <2> SUFFICES ASSUME profile'.premiumUntil # Null
               PROVE  profile'.isPremium /\ \E s \in DOMAIN subs' : subs'[s] = profile'.premiumUntil
    BY Zenon DEF PremiumMatchesSubscription
  <2>1. /\ profile'.premiumUntil = profile.premiumUntil /\ profile.premiumUntil # Null
        /\ profile'.isPremium = profile.isPremium
    OBVIOUS
  <2>2. profile.isPremium /\ \E s \in DOMAIN subs : subs[s] = profile.premiumUntil
    BY <2>1, Zenon DEF PremiumInv, PremiumMatchesSubscription
  <2> QED
    BY <2>1, <2>2
<1>2. FoundStays'
  BY DEF PremiumInv, FoundStays
<1> QED
  BY <1>1, <1>2 DEF PremiumInv

\* Every step keeps the flag and the subscriptions together.
LEMMA PremiumStep == TypeOK /\ PremiumInv /\ [Next]_vars => PremiumInv'
<1> SUFFICES ASSUME TypeOK, PremiumInv, [Next]_vars PROVE PremiumInv'
  OBVIOUS
<1>0. Idle.pc = "idle" /\ \A pc, plan, order, at, sub : Request(pc, plan, order, at, sub).pc = pc
  BY DEF Idle, Request
<1>a. ASSUME NEW w \in Workers, NEW r, req' = [req EXCEPT ![w] = r]
      PROVE  req'[w] = r /\ \A v \in Workers : v # w => req'[v] = req[v]
  BY <1>a DEF TypeOK
<1>b. ASSUME subs' = subs, profile' = profile,
             \A w \in Workers : req'[w] = req[w] \/ req'[w].pc # "activate"
      PROVE  PremiumInv'
  BY <1>b, PremiumKept
<1>1. ASSUME NEW w \in Callers, NEW p \in Plans, BeginInitiate(w, p) PROVE PremiumInv'
  <2>1. Checkout(p).pc # "activate" /\ w \in Workers
    BY <1>0 DEF Checkout, Workers
  <2> QED
    BY <1>1, <1>a, <1>b, <2>1 DEF BeginInitiate, Reads, tables
<1>2. ASSUME NEW w \in Admins, NEW o \in Orders, BeginConfirm(w, o) \/ BeginReject(w, o)
      PROVE  PremiumInv'
  <2>1. w \in Workers
    BY DEF Workers
  <2> QED
    BY <1>0, <1>2, <1>a, <1>b, <2>1 DEF BeginConfirm, BeginReject, Reads, tables
<1>3. ASSUME NEW w \in Workers, Step(w) \/ Fail(w) PROVE PremiumInv'
  <2>1. CASE CheckCooldown(w)
    BY <1>0, <1>a, <1>b, <2>1 DEF CheckCooldown, Finish, Reads, tables
  <2>2. CASE Lookup(w)
    <3>1. subs' = subs /\ profile' = profile
      BY <2>2 DEF Lookup, Reads, tables
    <3>2. \/ Finish(w) \/ Goto(w, "create")
          \/ \E o : req' = [req EXCEPT ![w] = Request("adopt", req[w].plan, o, 0, 0)]
      BY <2>2 DEF Lookup
    <3>3. CASE Goto(w, "create")
      BY <1>b, <3>1, <3>3 DEF Goto, TypeOK, Requests
    <3> QED
      BY <1>0, <1>a, <1>b, <3>1, <3>2, <3>3 DEF Finish
  <2>3. CASE Adopt(w) \/ Create(w) \/ Reject(w) \/ Fail(w)
    <3>1. subs' = subs /\ profile' = profile /\ Finish(w)
      BY <2>3 DEF Adopt, Create, Reject, Fail, tables
    <3> QED
      BY <1>0, <1>a, <1>b, <3>1 DEF Finish
  <2>4. CASE Pay(w)
    <3>1. subs' = subs /\ profile' = profile
      BY <2>4 DEF Pay
    <3>2. req'[w].pc # "activate" /\ \A v \in Workers : v # w => req'[v] = req[v]
      <4> DEFINE r == Request(IF req[w].plan = "BOOST" THEN "boost" ELSE "subscribe",
                              req[w].plan, req[w].order, today, 0)
      <4>1. req' = [req EXCEPT ![w] = r]
        BY <2>4 DEF Pay
      <4>2. r.pc # "activate"
        BY DEF Request
      <4> HIDE DEF r
      <4> QED
        BY <1>a, <4>1, <4>2
    <3> QED
      BY <1>b, <3>1, <3>2
  <2>5. CASE ActivateBoost(w)
    <3>1. profile'.premiumUntil = profile.premiumUntil /\ profile'.isPremium = profile.isPremium
      BY <2>5 DEF ActivateBoost, TypeOK
    <3>2. \A v \in Workers : req'[v] = req[v] \/ req'[v].pc # "activate"
      BY <1>0, <1>a, <2>5 DEF ActivateBoost, Finish
    <3> QED
      BY <2>5, <3>1, <3>2, PremiumKept DEF ActivateBoost
  <2>6. CASE FindSubscription(w)
    <3>1. PICK s \in IF subs = <<>> THEN {0} ELSE DOMAIN subs :
            req' = [req EXCEPT ![w] =
                      Request("activate", req[w].plan, req[w].order, req[w].at, s)]
      BY <2>6 DEF FindSubscription
    <3>2. Request("activate", req[w].plan, req[w].order, req[w].at, s).sub = s
      BY DEF Request
    <3>3. \A v \in Workers : req'[v] = req[v] \/ req'[v].sub \in {0} \cup DOMAIN subs
      BY <1>a, <3>1, <3>2
    <3> QED
      BY <2>6, <3>3, PremiumKept DEF FindSubscription, Reads, tables
  <2>7. CASE ActivatePremium(w)
    <3>0. subs \in Seq(Nat) /\ endsAt(w) \in Nat
      <4>1. durationDays(req[w].plan) \in Nat
        BY PaymentAssumption DEF durationDays
      <4> QED
        BY <4>1 DEF endsAt, TypeOK, Requests
    <3>1. PICK s \in DOMAIN subs' : subs'[s] = endsAt(w)
      <4>1. CASE req[w].sub = 0
        BY <2>7, <3>0, <4>1, AppendProperties DEF ActivatePremium
      <4>2. CASE req[w].sub # 0
        <5>1. req[w].sub \in DOMAIN subs
          BY <2>7, <4>2 DEF ActivatePremium, At, PremiumInv, FoundStays
        <5> QED
          BY <2>7, <4>2, <5>1 DEF ActivatePremium
      <4> QED
        BY <4>1, <4>2
    <3>2. DOMAIN subs \subseteq DOMAIN subs'
      <4>1. CASE req[w].sub = 0
        BY <2>7, <3>0, <4>1, AppendProperties DEF ActivatePremium
      <4>2. CASE req[w].sub # 0
        BY <2>7, <4>2 DEF ActivatePremium
      <4> QED
        BY <4>1, <4>2
    <3>3. profile'.premiumUntil = endsAt(w) /\ profile'.isPremium
      BY <2>7 DEF ActivatePremium, TypeOK
    <3>4. PremiumMatchesSubscription'
      BY <3>1, <3>3 DEF PremiumMatchesSubscription
    <3>5. \A v \in Workers : req'[v] = req[v] \/ req'[v].pc # "activate"
      BY <1>0, <1>a, <2>7 DEF ActivatePremium, Finish
    <3>6. FoundStays'
      BY <3>2, <3>5 DEF PremiumInv, FoundStays
    <3> QED
      BY <3>4, <3>6 DEF PremiumInv
  <2> QED
    BY <1>3, <2>1, <2>2, <2>3, <2>4, <2>5, <2>6, <2>7 DEF Step
<1>4. CASE BeginExpire \/ ExpirePremium \/ ExpireBoost
  <2>1. Cron \in Workers
    BY DEF Workers
  <2>2. CASE BeginExpire
    BY <1>0, <1>a, <1>b, <2>1, <2>2 DEF BeginExpire, Reads, tables
  <2>3. CASE ExpirePremium
    <3>1. profile' = profile \/ profile'.premiumUntil = Null
      BY <2>3 DEF ExpirePremium, TypeOK
    <3>2. \A v \in Workers : req'[v] = req[v] \/ req'[v].pc # "activate"
      BY <2>1, <2>3 DEF ExpirePremium, Goto, TypeOK, Requests
    <3> QED
      BY <2>3, <3>1, <3>2, PremiumKept DEF ExpirePremium
  <2>4. CASE ExpireBoost
    <3>1. profile'.premiumUntil = profile.premiumUntil /\ profile'.isPremium = profile.isPremium
      BY <2>4 DEF ExpireBoost, TypeOK
    <3>2. \A v \in Workers : req'[v] = req[v] \/ req'[v].pc # "activate"
      BY <1>0, <1>a, <2>1, <2>4 DEF ExpireBoost, Finish
    <3> QED
      BY <2>4, <3>1, <3>2, PremiumKept DEF ExpireBoost
  <2> QED
    BY <1>4, <2>2, <2>3, <2>4
<1>5. CASE Tick \/ UNCHANGED vars
  BY <1>5, <1>b DEF Tick, vars, tables
<1> QED
  BY <1>1, <1>2, <1>3, <1>4, <1>5 DEF Next

\* However many administrators confirm at once, and whatever fails, the premium flag is
\* set as long as it has an end, and a subscription of the professional has that end.
THEOREM PremiumMatchesHolds == Spec => []PremiumMatchesSubscription
<1>1. Init => PremiumInv
  <2> SUFFICES ASSUME Init PROVE PremiumInv
    OBVIOUS
  <2>1. profile.premiumUntil = Null /\ \A w \in Workers : req[w].pc # "activate"
    BY DEF Init, Idle, Request
  <2> QED
    BY <2>1 DEF PremiumInv, PremiumMatchesSubscription, FoundStays
<1>2. TypeOK /\ PremiumInv /\ [Next]_vars => PremiumInv'
  BY PremiumStep
<1>3. PremiumInv => PremiumMatchesSubscription
  BY DEF PremiumInv
<1> QED
  BY <1>1, <1>2, <1>3, TypeCorrect, PTL DEF Spec

=============================================================================
