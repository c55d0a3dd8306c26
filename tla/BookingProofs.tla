--------------------------- MODULE BookingProofs ---------------------------
(***************************************************************************)
(* Theorems about Booking, for every set of bookings and professionals,    *)
(* every opening hours, durations and requested slots.                     *)
(***************************************************************************)
EXTENDS Booking, TLAPS

-----------------------------------------------------------------------------
(* Rows and queries *)

\* A row keeps its type when a status and a timestamp are written to it.
LEMMA StampType ==
  ASSUME NEW r \in Row, NEW s \in Status, NEW col \in Stamps
  PROVE  Stamp(r, s, col) \in Row
BY DEF Stamp, Row, Status

\* The bookings that the queries return are bookings.
LEMMA QueriesReturnBookings ==
  ASSUME NEW rs, NEW b \in Bookings
  PROVE  /\ Competing(rs, b) \subseteq Bookings
         /\ \A P \in BackToBack(rs, b) : P \subseteq Bookings
<1>1. \A p, t, st : OfDay(rs, p, t, st) \subseteq Bookings
  BY DEF OfDay
<1>2. QED
  BY <1>1 DEF Competing, BackToBack

\* Recording an event of a known type keeps the event table well typed.
LEMMA RecordType ==
  ASSUME NEW S, NEW e \in Event, NEW f, f \in [Bookings -> SUBSET Event]
  PROVE  [b \in Bookings |-> IF b \in S THEN f[b] \cup {e} ELSE f[b]]
           \in [Bookings -> SUBSET Event]
OBVIOUS

-----------------------------------------------------------------------------
(* Type correctness *)

\* The initial tables are well typed.
LEMMA TypeInit == Init => TypeOK
<1> SUFFICES ASSUME Init PROVE TypeOK
  OBVIOUS
<1>1. \A p \in Pros : AbsentRow(p) \in Row
  BY DataAssumption DEF AbsentRow, Row
<1>2. QED
  BY <1>1 DEF Init, TypeOK

\* There is no booking initially.
LEMMA AbsentInit ==
  ASSUME Init
  PROVE  \A b \in Bookings : rows[b].status = "ABSENT" /\ rows[b].stamps = {}
<1>1. \A p : AbsentRow(p).status = "ABSENT" /\ AbsentRow(p).stamps = {}
  BY DEF AbsentRow
<1>2. \A b \in Bookings : rows[b] \in {AbsentRow(p) : p \in Pros}
  BY DEF Init
<1>3. QED
  BY <1>1, <1>2

\* A confirmation, with its cancellations and its automation, keeps the types.
LEMMA TypeConfirm ==
  ASSUME TypeOK, NEW b \in Bookings, NEW s, NEW role \in {"CLIENT", "PRO"},
         ConfirmFrom(b, s, role)
  PROVE  TypeOK'
<1>1. WinnerTakesAll(b) \in [Bookings -> Row]
  <2>1. \A c \in Bookings : rows[c] \in Row
    BY DEF TypeOK
  <2>2. \A c \in Bookings : Stamp(rows[c], "CONFIRMED", "confirmedAt") \in Row
    BY <2>1, StampType DEF Status, Stamps
  <2>3. \A c \in Bookings : Stamp(rows[c], "CANCELLED_AUTO_OVERLAP", "cancelledAt") \in Row
    BY <2>1, StampType DEF Status, Final, Cancelled, Stamps
  <2>4. QED
    BY <2>1, <2>2, <2>3 DEF WinnerTakesAll
<1>2. rows' \in [Bookings -> Row]
  <2>1. PICK P : rows' = AutoComplete(WinnerTakesAll(b), P)
    BY DEF ConfirmFrom
  <2>2. \A c \in Bookings :
          Stamp(WinnerTakesAll(b)[c], "COMPLETED", "completedAt") \in Row
    BY <1>1, StampType DEF Status, Final, Stamps
  <2>3. QED
    BY <1>1, <2>1, <2>2 DEF AutoComplete
<1>3. events' \in [Bookings -> SUBSET Event]
  BY DEF ConfirmFrom, TypeOK, Event
<1>4. now' \in Nat
  BY DEF ConfirmFrom, TypeOK
<1>5. QED
  BY <1>2, <1>3, <1>4 DEF TypeOK

\* Every handler keeps the types.
LEMMA TypeNext == TypeOK /\ [Next]_vars => TypeOK'
<1> SUFFICES ASSUME TypeOK, [Next]_vars PROVE TypeOK'
  OBVIOUS
<1> USE DataAssumption
<1>a. \A b \in Bookings : rows[b] \in Row
  BY DEF TypeOK
<1>1. ASSUME NEW b \in Bookings, NEW p \in Pros, NEW t \in Starts, Create(b, p, t)
      PROVE  TypeOK'
  <2>1. NewRow(p, t) \in Row
    BY DEF NewRow, Row, Status, Open
  <2>2. events' \in [Bookings -> SUBSET Event]
    BY <1>1 DEF Create, Record, TypeOK, Event
  <2>3. QED
    BY <1>1, <2>1, <2>2 DEF Create, TypeOK
<1>2. ASSUME NEW b \in Bookings, Decline(b) \/ Refuse(b)
      PROVE  TypeOK'
  <2>1. [rows[b] EXCEPT !.status = "DECLINED"] \in Row
    BY <1>a DEF Row, Status, Final
  <2>2. events' \in [Bookings -> SUBSET Event]
    BY <1>2 DEF Decline, Refuse, Record, TypeOK, Event
  <2>3. QED
    BY <1>2, <2>1, <2>2 DEF Decline, Refuse, TypeOK
<1>3. ASSUME NEW b \in Bookings, Confirm(b) \/ Accept(b)
      PROVE  TypeOK'
  BY <1>3, TypeConfirm DEF Confirm, Accept
<1>4. ASSUME NEW b \in Bookings, NEW d \in 1..MaxDuration, Modify(b, d)
      PROVE  TypeOK'
  <2>1. Modified(rows[b], d) \in Row
    BY <1>a DEF Modified, Row, Status, Open
  <2>2. QED
    BY <1>4, <2>1 DEF Modify, TypeOK
<1>5. ASSUME NEW b \in Bookings, Complete(b) \/ CancelByClient(b) \/ CancelByPro(b)
      PROVE  TypeOK'
  <2>1. /\ Stamp(rows[b], "COMPLETED", "completedAt") \in Row
        /\ Stamp(rows[b], "CANCELLED_BY_PRO", "cancelledAt") \in Row
        /\ CancelledByClient(rows[b], now) \in Row
    BY <1>a, StampType DEF CancelledByClient, Status, Final, Cancelled, Stamps
  <2>2. events' \in [Bookings -> SUBSET Event]
    BY <1>5 DEF Complete, CancelByClient, CancelByPro, Record, TypeOK, Event
  <2>3. QED
    BY <1>5, <2>1, <2>2 DEF Complete, CancelByClient, CancelByPro, TypeOK
<1>6. CASE Expire
  <2>1. \A b \in Bookings : [rows[b] EXCEPT !.status = "EXPIRED"] \in Row
    BY <1>a DEF Row, Status, Final
  <2>2. events' \in [Bookings -> SUBSET Event]
    BY <1>6 DEF Expire, Record, TypeOK, Event
  <2>3. QED
    BY <1>6, <2>1, <2>2 DEF Expire, TypeOK
<1>7. CASE Tick
  BY <1>7 DEF Tick, TypeOK
<1>8. CASE UNCHANGED vars
  BY <1>8 DEF vars, TypeOK
<1>9. QED
  BY <1>1, <1>2, <1>3, <1>4, <1>5, <1>6, <1>7, <1>8 DEF Next

\* The tables and the clock keep their types, whatever the handlers do.
THEOREM TypeCorrect == Spec => []TypeOK
BY TypeInit, TypeNext, PTL DEF Spec

-----------------------------------------------------------------------------
(* What a step does to the rows *)

\* The columns that no confirmation, cancellation or expiry writes.
SameRequest(r, s) == /\ r.pro = s.pro /\ r.start = s.start
                     /\ r.duration = s.duration /\ r.modified = s.modified

\* A confirmation changes the status and the timestamps only: of b, which becomes
\* confirmed or keeps out of the way, of open bookings that overlap it, which are
\* closed, and of confirmed ones, which may be completed.
LEMMA ConfirmEffect ==
  ASSUME TypeOK, NEW b \in Bookings, NEW s \in Open, NEW role, ConfirmFrom(b, s, role),
         NEW c \in Bookings
  PROVE  /\ SameRequest(rows'[c], rows[c])
         /\ rows'[c].status = "CONFIRMED" => c = b \/ rows[c].status = "CONFIRMED"
         /\ rows'[c].status \in Open
            => c # b /\ c \notin Competing(rows, b) /\ rows'[c] = rows[c]
         /\ "confirmedAt" \in rows'[c].stamps => c = b \/ "confirmedAt" \in rows[c].stamps
         /\ rows'[c].status # "ABSENT" => rows[c].status # "ABSENT"
<1> DEFINE won == WinnerTakesAll(b)
<1>1. PICK P \in BackToBack(won, b) : rows' = AutoComplete(won, P)
  BY DEF ConfirmFrom
<1>2. \A d \in P : won[d].status = "CONFIRMED"
  <2>1. \A p, t : \A d \in OfDay(won, p, t, {"CONFIRMED"}) : won[d].status = "CONFIRMED"
    BY DEF OfDay
  <2> HIDE DEF won
  <2>2. QED
    BY <1>1, <2>1 DEF BackToBack
<1>3. rows'[c] = IF c \in P THEN Stamp(won[c], "COMPLETED", "completedAt") ELSE won[c]
  BY <1>1 DEF AutoComplete
<1>4. won[c] = IF c = b THEN Stamp(rows[b], "CONFIRMED", "confirmedAt")
               ELSE IF c \in Competing(rows, b)
                    THEN Stamp(rows[c], "CANCELLED_AUTO_OVERLAP", "cancelledAt")
                    ELSE rows[c]
  BY DEF WinnerTakesAll
<1>5. rows[c] \in Row /\ rows[b].status # "ABSENT"
  BY DEF TypeOK, ConfirmFrom, Open
<1>6. c \in Competing(rows, b) => rows[c].status # "ABSENT"
  BY DEF Competing, OfDay, Open
<1>7. CASE c \in P
  <2>1. won[c].status = "CONFIRMED"
    BY <1>2, <1>7
  <2>2. c \notin Competing(rows, b) \/ c = b
    BY <1>4, <1>5, <2>1 DEF Stamp, Row
  <2>3. QED
    BY <1>3, <1>4, <1>5, <1>7, <2>1, <2>2 DEF Stamp, SameRequest, Row, Open
<1>8. CASE c \notin P
  BY <1>3, <1>4, <1>5, <1>6, <1>8 DEF Stamp, SameRequest, Row, Open
<1>9. QED
  BY <1>7, <1>8

\* Every step but a confirmation leaves the set of confirmed bookings and their
\* intervals as they are, or makes it smaller.
LEMMA NoNewConfirmed ==
  ASSUME TypeOK, [Next]_vars,
         \A b \in Bookings : ~Confirm(b) /\ ~Accept(b),
         NEW c \in Bookings, rows'[c].status = "CONFIRMED"
  PROVE  rows[c].status = "CONFIRMED" /\ SameRequest(rows'[c], rows[c])
<1> USE DEF SameRequest
<1>a. \A b \in Bookings : rows[b] \in Row
  BY DEF TypeOK
<1>1. ASSUME NEW b \in Bookings, NEW p \in Pros, NEW t \in Starts, Create(b, p, t)
      PROVE  rows[c].status = "CONFIRMED" /\ SameRequest(rows'[c], rows[c])
  BY <1>1 DEF Create, NewRow, TypeOK
<1>2. ASSUME NEW b \in Bookings, Decline(b) \/ Refuse(b)
      PROVE  rows[c].status = "CONFIRMED" /\ SameRequest(rows'[c], rows[c])
  BY <1>2, <1>a DEF Decline, Refuse, TypeOK, Row
<1>3. ASSUME NEW b \in Bookings, NEW d \in 1..MaxDuration, Modify(b, d)
      PROVE  rows[c].status = "CONFIRMED" /\ SameRequest(rows'[c], rows[c])
  BY <1>3, <1>a DEF Modify, Modified, TypeOK, Row
<1>4. ASSUME NEW b \in Bookings, Complete(b) \/ CancelByClient(b) \/ CancelByPro(b)
      PROVE  rows[c].status = "CONFIRMED" /\ SameRequest(rows'[c], rows[c])
  <2>1. /\ Stamp(rows[b], "COMPLETED", "completedAt").status # "CONFIRMED"
        /\ Stamp(rows[b], "CANCELLED_BY_PRO", "cancelledAt").status # "CONFIRMED"
        /\ Stamp(rows[b], "CANCELLED_BY_CLIENT", "cancelledAt").status # "CONFIRMED"
        /\ Stamp(rows[b], "CANCELLED_BY_CLIENT_LATE", "cancelledAt").status # "CONFIRMED"
    BY <1>a DEF Stamp, Row
  <2>2. CancelledByClient(rows[b], now).status # "CONFIRMED"
    BY <2>1 DEF CancelledByClient
  <2>3. c # b /\ rows'[c] = rows[c]
    BY <1>4, <2>1, <2>2 DEF Complete, CancelByClient, CancelByPro, TypeOK
  <2>4. QED
    BY <2>3
<1>5. CASE Expire
  BY <1>5, <1>a DEF Expire, TypeOK, Row
<1>6. CASE Tick \/ UNCHANGED vars
  BY <1>6 DEF Tick, vars
<1>7. QED
  BY <1>1, <1>2, <1>3, <1>4, <1>5, <1>6 DEF Next

-----------------------------------------------------------------------------
(* No double booking *)

\* Without bookings there is no double booking.
LEMMA DoubleBookingInit == Init => NoDoubleBooking
BY AbsentInit DEF NoDoubleBooking

\* overlaps does not depend on which booking comes first.
LEMMA OverlapsSymmetric ==
  ASSUME NEW r, NEW s
  PROVE  overlaps(r, s) <=> overlaps(s, r)
BY DEF overlaps

\* A confirmation, by the pro or by the client, makes no double booking.
LEMMA DoubleBookingConfirm ==
  ASSUME TypeOK, NoDoubleBooking,
         NEW b \in Bookings, NEW s \in Open, NEW role, ConfirmFrom(b, s, role)
  PROVE  NoDoubleBooking'
<1>1. SUFFICES ASSUME NEW c \in Bookings, NEW d \in Bookings, c # d, SameDay(c, d)',
                      rows'[c].status = "CONFIRMED", rows'[d].status = "CONFIRMED"
               PROVE  ~overlaps(rows'[c], rows'[d])
  BY DEF NoDoubleBooking
<1>2. SameRequest(rows'[c], rows[c]) /\ SameRequest(rows'[d], rows[d])
  BY <1>1, ConfirmEffect
<1>3. /\ SameDay(c, d)
      /\ overlaps(rows'[c], rows'[d]) <=> overlaps(rows[c], rows[d])
  BY <1>1, <1>2 DEF SameRequest, SameDay, overlaps, computeEndTime
\* The confirmed bookings of b's day were compared with b before it was confirmed.
<1>4. ASSUME NEW e \in Bookings, e # b, rows'[e].status = "CONFIRMED",
             rows[e].pro = rows[b].pro, DayOf(rows[e].start) = DayOf(rows[b].start)
      PROVE  ~overlaps(rows[b], rows[e])
  <2>1. rows[e].status = "CONFIRMED"
    BY <1>4, ConfirmEffect
  <2>2. e \in OfDay(rows, rows[b].pro, rows[b].start, {"CONFIRMED"})
    BY <1>4, <2>1 DEF OfDay
  <2>3. QED
    BY <2>2 DEF ConfirmFrom, ConfirmConflict
<1>5. CASE c = b
  BY <1>1, <1>3, <1>4, <1>5 DEF SameDay
<1>6. CASE d = b
  BY <1>1, <1>3, <1>4, <1>6, OverlapsSymmetric DEF SameDay
<1>7. CASE c # b /\ d # b
  <2>1. rows[c].status = "CONFIRMED" /\ rows[d].status = "CONFIRMED"
    BY <1>1, <1>7, ConfirmEffect
  <2>2. QED
    BY <1>1, <1>3, <2>1 DEF NoDoubleBooking
<1>8. QED
  BY <1>5, <1>6, <1>7

\* No handler makes a double booking.
LEMMA DoubleBookingNext == TypeOK /\ NoDoubleBooking /\ [Next]_vars => NoDoubleBooking'
<1> SUFFICES ASSUME TypeOK, NoDoubleBooking, [Next]_vars PROVE NoDoubleBooking'
  OBVIOUS
<1>1. CASE \E b \in Bookings : Confirm(b) \/ Accept(b)
  BY <1>1, DoubleBookingConfirm DEF Confirm, Accept, Open
<1>2. CASE ~\E b \in Bookings : Confirm(b) \/ Accept(b)
  <2>1. \A c \in Bookings : rows'[c].status = "CONFIRMED"
          => rows[c].status = "CONFIRMED" /\ SameRequest(rows'[c], rows[c])
    BY <1>2, NoNewConfirmed
  <2>2. QED
    BY <2>1 DEF NoDoubleBooking, SameRequest, SameDay, overlaps, computeEndTime
<1>3. QED
  BY <1>1, <1>2

\* A pro never has two confirmed bookings of one day that overlap, whatever the
\* number of requests, the opening hours and the durations: the conflict check of
\* a confirmation is enough when handlers do not interleave.
THEOREM NoDoubleBookingHolds == Spec => []NoDoubleBooking
<1>1. Init => TypeOK /\ NoDoubleBooking
  BY TypeInit, DoubleBookingInit
<1>2. TypeOK /\ NoDoubleBooking /\ [Next]_vars => (TypeOK /\ NoDoubleBooking)'
  BY TypeNext, DoubleBookingNext
<1>3. QED
  BY <1>1, <1>2, PTL DEF Spec

-----------------------------------------------------------------------------
(* The client's consent *)

\* A pending booking is as it was created: one hour, not modified, never
\* confirmed; and a booking is at a slot that somebody asked for.
PendingIsFresh ==
  \A b \in Bookings :
    /\ rows[b].status = "PENDING"
       => rows[b].duration = 1 /\ ~rows[b].modified /\ "confirmedAt" \notin rows[b].stamps
    /\ rows[b].status \in Open => "confirmedAt" \notin rows[b].stamps
    /\ rows[b].status # "ABSENT" => rows[b].start \in Starts

\* The facts about pending bookings and consent hold initially.
LEMMA FreshInit == Init => PendingIsFresh /\ ConsentToNewDuration
<1> SUFFICES ASSUME Init PROVE PendingIsFresh /\ ConsentToNewDuration
  OBVIOUS
<1> QED
  BY AbsentInit DEF PendingIsFresh, ConsentToNewDuration, Open

\* What a step that is not a confirmation does to a booking: it is created, gets a
\* duration, is closed with its timestamps, or stays as it is.
LEMMA OtherEffect ==
  ASSUME TypeOK, [Next]_vars,
         \A b \in Bookings : ~Confirm(b) /\ ~Accept(b),
         NEW c \in Bookings
  PROVE  /\ events[c] \subseteq events'[c]
         /\ \/ \E p \in Pros, t \in Starts : Create(c, p, t) /\ rows'[c] = NewRow(p, t)
            \/ \E d \in 1..MaxDuration : Modify(c, d) /\ rows'[c] = Modified(rows[c], d)
            \/ /\ SameRequest(rows'[c], rows[c])
               /\ rows[c].status # "ABSENT"
               /\ rows'[c].status \in Final
               /\ "confirmedAt" \in rows'[c].stamps => "confirmedAt" \in rows[c].stamps
            \/ rows'[c] = rows[c]
<1> DEFINE Closed == /\ SameRequest(rows'[c], rows[c])
                     /\ rows[c].status # "ABSENT"
                     /\ rows'[c].status \in Final
                     /\ "confirmedAt" \in rows'[c].stamps => "confirmedAt" \in rows[c].stamps
<1> USE DEF Record
<1>a. \A b \in Bookings : rows[b] \in Row
  BY DEF TypeOK
<1>b. \A s \in Final \ {"CONFIRMED"} : \A col \in Stamps \ {"confirmedAt"} :
        LET r == Stamp(rows[c], s, col)
        IN  /\ SameRequest(r, rows[c]) /\ r.status \in Final
            /\ "confirmedAt" \in r.stamps => "confirmedAt" \in rows[c].stamps
  BY <1>a DEF Stamp, SameRequest, Row
<1>1. ASSUME NEW b \in Bookings, NEW p \in Pros, NEW t \in Starts, Create(b, p, t)
      PROVE  events[c] \subseteq events'[c]
             /\ ((c = b /\ rows'[c] = NewRow(p, t)) \/ rows'[c] = rows[c])
  BY <1>1 DEF Create, TypeOK
<1>2. ASSUME NEW b \in Bookings, Decline(b) \/ Refuse(b)
      PROVE  events[c] \subseteq events'[c] /\ (Closed \/ rows'[c] = rows[c])
  BY <1>2, <1>a DEF Decline, Refuse, TypeOK, Row, SameRequest, Final
<1>3. ASSUME NEW b \in Bookings, NEW d \in 1..MaxDuration, Modify(b, d)
      PROVE  events[c] \subseteq events'[c]
             /\ ((c = b /\ rows'[c] = Modified(rows[c], d)) \/ rows'[c] = rows[c])
  BY <1>3 DEF Modify, TypeOK
<1>4. ASSUME NEW b \in Bookings, Complete(b) \/ CancelByClient(b) \/ CancelByPro(b)
      PROVE  events[c] \subseteq events'[c] /\ (Closed \/ rows'[c] = rows[c])
  <2>1. events[c] \subseteq events'[c]
    BY <1>4 DEF Complete, CancelByClient, CancelByPro, TypeOK
  <2>2. rows[b].status = "CONFIRMED"
    BY <1>4 DEF Complete, CancelByClient, CancelByPro
  <2>3. c # b => rows'[c] = rows[c]
    BY <1>4 DEF Complete, CancelByClient, CancelByPro, TypeOK
  <2>4. c = b => \E s \in Final, col \in Stamps \ {"confirmedAt"} :
                   rows'[c] = Stamp(rows[c], s, col)
    <3>1. {"CANCELLED_BY_CLIENT", "CANCELLED_BY_CLIENT_LATE", "CANCELLED_BY_PRO",
           "COMPLETED"} \subseteq Final
      BY DEF Final, Cancelled
    <3>2. {"cancelledAt", "completedAt"} \subseteq Stamps \ {"confirmedAt"}
      BY DEF Stamps
    <3>3. ASSUME c = b
          PROVE  \/ rows'[c] = Stamp(rows[c], "COMPLETED", "completedAt")
                 \/ rows'[c] = Stamp(rows[c], "CANCELLED_BY_PRO", "cancelledAt")
                 \/ rows'[c] = CancelledByClient(rows[c], now)
      BY <1>4, <3>3 DEF Complete, CancelByClient, CancelByPro, TypeOK
    <3>4. QED
      BY <3>1, <3>2, <3>3 DEF CancelledByClient
  <2>5. "CONFIRMED" \notin Final
    BY DEF Final, Cancelled
  <2>6. QED
    BY <1>b, <2>1, <2>2, <2>3, <2>4, <2>5
<1>5. ASSUME Expire
      PROVE  events[c] \subseteq events'[c] /\ (Closed \/ rows'[c] = rows[c])
  <2>1. c \in Due(rows, now) => rows[c].status # "ABSENT"
    BY DEF Due, Open
  <2>2. QED
    BY <1>5, <1>a, <2>1 DEF Expire, TypeOK, Row, SameRequest, Final
<1>6. ASSUME Tick \/ UNCHANGED vars
      PROVE  events[c] \subseteq events'[c] /\ rows'[c] = rows[c]
  BY <1>6 DEF Tick, vars
<1>7. QED
  BY <1>1, <1>2, <1>3, <1>4, <1>5, <1>6 DEF Next

\* Every handler keeps the facts about pending bookings and consent.
LEMMA FreshNext ==
  TypeOK /\ PendingIsFresh /\ ConsentToNewDuration /\ [Next]_vars
  => PendingIsFresh' /\ ConsentToNewDuration'
<1> SUFFICES ASSUME TypeOK, PendingIsFresh, ConsentToNewDuration, [Next]_vars,
                    NEW c \in Bookings
             PROVE  /\ rows'[c].status = "PENDING"
                       => /\ rows'[c].duration = 1 /\ ~rows'[c].modified
                          /\ "confirmedAt" \notin rows'[c].stamps
                    /\ rows'[c].status \in Open => "confirmedAt" \notin rows'[c].stamps
                    /\ rows'[c].status # "ABSENT" => rows'[c].start \in Starts
                    /\ "confirmedAt" \in rows'[c].stamps /\ rows'[c].modified
                       => <<"CONFIRMED", "CLIENT">> \in events'[c]
  BY DEF PendingIsFresh, ConsentToNewDuration
<1>a. rows[c] \in Row
  BY DEF TypeOK
<1>1. ASSUME NEW b \in Bookings, NEW s \in Open, NEW role,
             ConfirmFrom(b, s, role), role = IF s = "PENDING" THEN "PRO" ELSE "CLIENT"
      PROVE  /\ rows'[c].status \in Open => rows'[c] = rows[c]
             /\ rows'[c].status # "ABSENT" => rows'[c].start \in Starts
             /\ "confirmedAt" \in rows'[c].stamps /\ rows'[c].modified
                => <<"CONFIRMED", "CLIENT">> \in events'[c]
  <2>1. /\ SameRequest(rows'[c], rows[c])
        /\ rows'[c].status \in Open => rows'[c] = rows[c]
        /\ "confirmedAt" \in rows'[c].stamps => c = b \/ "confirmedAt" \in rows[c].stamps
        /\ rows'[c].status # "ABSENT" => rows[c].status # "ABSENT"
    BY <1>1, ConfirmEffect
  <2>2. /\ events[c] \subseteq events'[c]
        /\ c = b => <<"CONFIRMED", role>> \in events'[c]
    BY <1>1 DEF ConfirmFrom
  <2>3. c = b /\ rows[c].modified => s # "PENDING"
    BY <1>1 DEF PendingIsFresh, ConfirmFrom
  <2>4. QED
    BY <1>1, <2>1, <2>2, <2>3 DEF SameRequest, PendingIsFresh, ConsentToNewDuration
<1>2. CASE \E b \in Bookings : Confirm(b) \/ Accept(b)
  <2>1. /\ rows'[c].status \in Open => rows'[c] = rows[c]
        /\ rows'[c].status # "ABSENT" => rows'[c].start \in Starts
        /\ "confirmedAt" \in rows'[c].stamps /\ rows'[c].modified
           => <<"CONFIRMED", "CLIENT">> \in events'[c]
    BY <1>1, <1>2 DEF Confirm, Accept, Open
  <2>2. QED
    BY <2>1 DEF PendingIsFresh, Open
<1>3. CASE ~\E b \in Bookings : Confirm(b) \/ Accept(b)
  <2>a. /\ events[c] \subseteq events'[c]
        /\ \/ \E p \in Pros, t \in Starts : Create(c, p, t) /\ rows'[c] = NewRow(p, t)
           \/ \E d \in 1..MaxDuration : Modify(c, d) /\ rows'[c] = Modified(rows[c], d)
           \/ /\ SameRequest(rows'[c], rows[c])
              /\ rows[c].status # "ABSENT"
              /\ rows'[c].status \in Final
              /\ "confirmedAt" \in rows'[c].stamps => "confirmedAt" \in rows[c].stamps
           \/ rows'[c] = rows[c]
    BY <1>3, OtherEffect
  <2>1. ASSUME NEW p \in Pros, NEW t \in Starts, rows'[c] = NewRow(p, t)
        PROVE  /\ rows'[c].duration = 1 /\ ~rows'[c].modified
               /\ "confirmedAt" \notin rows'[c].stamps
               /\ rows'[c].start \in Starts
    BY <2>1 DEF NewRow
  <2>2. ASSUME NEW d \in 1..MaxDuration, Modify(c, d), rows'[c] = Modified(rows[c], d)
        PROVE  /\ rows'[c].status # "PENDING"
               /\ "confirmedAt" \notin rows'[c].stamps
               /\ rows'[c].start \in Starts
    <3>1. rows[c].status = "PENDING"
      BY <2>2 DEF Modify
    <3>2. QED
      BY <1>a, <2>2, <3>1 DEF Modified, Row, PendingIsFresh
  <2>3. ASSUME SameRequest(rows'[c], rows[c]), rows[c].status # "ABSENT",
               rows'[c].status \in Final,
               "confirmedAt" \in rows'[c].stamps => "confirmedAt" \in rows[c].stamps
        PROVE  /\ rows'[c].status \notin Open
               /\ rows'[c].start \in Starts
               /\ "confirmedAt" \in rows'[c].stamps /\ rows'[c].modified
                  => <<"CONFIRMED", "CLIENT">> \in events'[c]
    <3>1. Final \cap Open = {}
      BY DEF Final, Open, Cancelled
    <3>2. QED
      BY <2>a, <2>3, <3>1 DEF SameRequest, PendingIsFresh, ConsentToNewDuration
  <2>4. CASE rows'[c] = rows[c]
    BY <2>a, <2>4 DEF PendingIsFresh, ConsentToNewDuration
  <2>5. "PENDING" \in Open
    BY DEF Open
  <2>6. QED
    BY <2>a, <2>1, <2>2, <2>3, <2>4, <2>5
<1>4. QED
  BY <1>2, <1>3

\* A duration that the pro proposed is only ever confirmed by the client: the pro
\* cannot confirm what they have modified, nor modify what they have confirmed.
THEOREM ConsentHolds == Spec => []ConsentToNewDuration
<1>1. Init => TypeOK /\ PendingIsFresh /\ ConsentToNewDuration
  BY TypeInit, FreshInit
<1>2. TypeOK /\ PendingIsFresh /\ ConsentToNewDuration /\ [Next]_vars
      => (TypeOK /\ PendingIsFresh /\ ConsentToNewDuration)'
  BY TypeNext, FreshNext
<1>3. QED
  BY <1>1, <1>2, PTL DEF Spec

-----------------------------------------------------------------------------
(* Winner takes all *)

\* Clients ask for slots on the hour, the ones that getAvailableSlots shows when
\* the pro opens on the hour.
OnTheHour == \A t \in Starts : t % Hour = 0

\* Two slots on the hour are a whole number of hours apart.
LEMMA HoursApart ==
  ASSUME OnTheHour, NEW s \in Starts, NEW t \in Starts, s <= t
  PROVE  \E h \in Nat : t = s + h * Hour
<1> USE DataAssumption
<1>1. s \in Nat /\ t \in Nat /\ s % Hour = 0 /\ t % Hour = 0
  BY DEF OnTheHour
<1>0. \A n \in Nat : n % Hour = 0 => \E i \in Int : n = i * Hour
  <2>1. SUFFICES ASSUME NEW n \in Nat, n % Hour = 0
                 PROVE  n = (n \div Hour) * Hour /\ n \div Hour \in Int
    OBVIOUS
  <2>2. QED
    BY <2>1, SMTT(30)
<1>2. PICK i \in Int : s = i * Hour
  BY <1>0, <1>1
<1>3. PICK j \in Int : t = j * Hour
  BY <1>0, <1>1
<1>4. j - i \in Nat
  <2>1. CASE j < i
    <3>1. j * Hour < i * Hour
      BY <2>1
    <3>2. QED
      BY <1>2, <1>3, <3>1
  <2>2. QED
    BY <2>1
<1>5. t = s + (j - i) * Hour
  BY <1>2, <1>3
<1>6. QED
  BY <1>4, <1>5

\* A slot on the hour that begins inside a confirmed booking of its day is one of
\* the slots that the booking occupies.
LEMMA InsideIsOccupied ==
  ASSUME TypeOK, OnTheHour, NEW p \in Pros, NEW t \in Starts,
         NEW c \in OfDay(rows, p, t, {"CONFIRMED"}), rows[c].start \in Starts,
         rows[c].start <= t, t < computeEndTime(rows[c])
  PROVE  t % Day \in occupiedSlots(rows, p, t)
<1> USE DataAssumption
<1>1. PICK h \in Nat : t = rows[c].start + h * Hour
  BY HoursApart
<1>2. rows[c] \in Row
  BY DEF OfDay, TypeOK
<1>3. rows[c].duration \in Nat /\ rows[c].start \in Nat
  BY <1>2 DEF Row
<1>4. h < rows[c].duration
  <2>1. h * Hour < rows[c].duration * Hour
    BY <1>1, <1>3 DEF computeEndTime
  <2>2. CASE rows[c].duration <= h
    <3>1. rows[c].duration * Hour <= h * Hour
      BY <1>3, <2>2
    <3>2. QED
      BY <1>3, <2>1, <3>1
  <2>3. QED
    BY <1>3, <2>2
<1>5. t % Day \in {(rows[c].start + i * Hour) % Day : i \in 0..(rows[c].duration - 1)}
  BY <1>1, <1>3, <1>4
<1>6. QED
  BY <1>5 DEF occupiedSlots

\* createBooking accepts no hour that a confirmed booking of the day overlaps.
LEMMA CreateIsClear ==
  ASSUME TypeOK, OnTheHour, NEW p \in Pros, NEW t \in Starts, SlotAccepted(rows, p, t, now),
         NEW c \in OfDay(rows, p, t, {"CONFIRMED"}), rows[c].start \in Starts
  PROVE  ~overlaps(rows[c], NewRow(p, t))
<1> USE DataAssumption
<1> SUFFICES ASSUME overlaps(rows[c], NewRow(p, t)) PROVE FALSE
  OBVIOUS
<1>1. rows[c].start \in Nat /\ t \in Nat
  OBVIOUS
<1>2. rows[c].start < t + Hour /\ t < computeEndTime(rows[c])
  <2>1. computeEndTime(NewRow(p, t)) = t + 1 * Hour /\ NewRow(p, t).start = t
    BY DEF computeEndTime, NewRow
  <2>2. QED
    BY <1>1, <2>1 DEF overlaps
<1>3. rows[c].start <= t
  <2>1. SUFFICES ASSUME t < rows[c].start PROVE FALSE
    BY <1>1
  <2>0. t <= rows[c].start
    BY <1>1, <2>1
  <2>2. PICK h \in Nat : rows[c].start = t + h * Hour
    BY <2>0, HoursApart
  <2>3. h >= 1
    BY <1>1, <2>1, <2>2
  <2>4. h * Hour >= 1 * Hour
    BY <2>3
  <2>5. QED
    BY <1>1, <1>2, <2>2, <2>4
<1>4. t % Day \in occupiedSlots(rows, p, t)
  BY <1>2, <1>3, InsideIsOccupied
<1>5. QED
  BY <1>4 DEF SlotAccepted

\* updateBooking does not stretch a booking over a confirmed one that begins later,
\* and one that begins earlier overlapped it before.
LEMMA ModifyIsClear ==
  ASSUME TypeOK, PendingIsFresh, NoRivalOfConfirmed,
         NEW b \in Bookings, NEW d \in 1..MaxDuration, Modify(b, d),
         NEW c \in Bookings, c # b, rows[c].status = "CONFIRMED", SameDay(c, b)
  PROVE  ~overlaps(rows[c], Modified(rows[b], d))
<1> USE DataAssumption
<1> DEFINE s == rows[b].start
<1>1. /\ rows[b] \in Row /\ rows[c] \in Row
      /\ rows[b].status = "PENDING" /\ rows[b].duration = 1
  BY DEF TypeOK, Modify, PendingIsFresh
<1>2. /\ s \in Nat /\ rows[c].start \in Nat /\ rows[c].duration \in Nat /\ d \in Nat
      /\ computeEndTime(rows[c]) \in Nat
  BY <1>1 DEF Row, computeEndTime
<1>3. Modified(rows[b], d).start = s /\ computeEndTime(Modified(rows[b], d)) = s + d * Hour
  BY <1>1 DEF Modified, Row, computeEndTime
<1>4. ~(rows[c].start < s + 1 * Hour /\ s < computeEndTime(rows[c]))
  BY <1>1 DEF NoRivalOfConfirmed, Open, overlaps, computeEndTime
<1>5. ~(d > 1 /\ s <= rows[c].start /\ rows[c].start < s + d * Hour)
  BY DEF Modify, ModifyConflict, SameDay
<1>6. CASE d = 1
  BY <1>3, <1>4, <1>6 DEF overlaps
<1>7. CASE d > 1 /\ s <= rows[c].start
  BY <1>3, <1>5, <1>7 DEF overlaps
<1>8. CASE rows[c].start < s
  BY <1>2, <1>3, <1>4, <1>8 DEF overlaps
<1>9. QED
  BY <1>2, <1>6, <1>7, <1>8

\* A confirmation leaves no open booking that overlaps a confirmed one.
LEMMA NoRivalConfirm ==
  ASSUME TypeOK, NoRivalOfConfirmed,
         NEW b \in Bookings, NEW s \in Open, NEW role, ConfirmFrom(b, s, role)
  PROVE  NoRivalOfConfirmed'
<1>1. SUFFICES ASSUME NEW c \in Bookings, NEW d \in Bookings, SameDay(c, d)',
                      rows'[c].status = "CONFIRMED", rows'[d].status \in Open
               PROVE  ~overlaps(rows'[c], rows'[d])
  BY DEF NoRivalOfConfirmed
<1>2. /\ SameRequest(rows'[c], rows[c])
      /\ c = b \/ rows[c].status = "CONFIRMED"
      /\ d # b /\ d \notin Competing(rows, b) /\ rows'[d] = rows[d]
  BY <1>1, ConfirmEffect
<1>3. /\ SameDay(c, d)
      /\ overlaps(rows'[c], rows'[d]) <=> overlaps(rows[c], rows[d])
  BY <1>1, <1>2 DEF SameRequest, SameDay, overlaps, computeEndTime
<1>4. CASE c = b
  <2>1. d \in OfDay(rows, rows[b].pro, rows[b].start, Open)
    BY <1>1, <1>2, <1>3, <1>4 DEF OfDay, SameDay
  <2>2. QED
    BY <1>2, <1>3, <1>4, <2>1 DEF Competing
<1>5. CASE rows[c].status = "CONFIRMED"
  BY <1>1, <1>2, <1>3, <1>5 DEF NoRivalOfConfirmed
<1>6. QED
  BY <1>2, <1>4, <1>5

\* No handler leaves an open booking that overlaps a confirmed one.
LEMMA NoRivalNext ==
  OnTheHour /\ TypeOK /\ PendingIsFresh /\ NoRivalOfConfirmed /\ [Next]_vars
  => NoRivalOfConfirmed'
<1> SUFFICES ASSUME OnTheHour, TypeOK, PendingIsFresh, NoRivalOfConfirmed, [Next]_vars
             PROVE  NoRivalOfConfirmed'
  OBVIOUS
<1>1. CASE \E b \in Bookings : Confirm(b) \/ Accept(b)
  BY <1>1, NoRivalConfirm DEF Confirm, Accept, Open
<1>2. CASE ~\E b \in Bookings : Confirm(b) \/ Accept(b)
  <2>1. SUFFICES ASSUME NEW c \in Bookings, NEW d \in Bookings, SameDay(c, d)',
                        rows'[c].status = "CONFIRMED", rows'[d].status \in Open
                 PROVE  ~overlaps(rows'[c], rows'[d])
    BY DEF NoRivalOfConfirmed
  <2>a. "CONFIRMED" \notin Open /\ "CONFIRMED" \notin Final /\ Open \cap Final = {}
    BY DEF Open, Final, Cancelled
  <2>b. \A p, t : NewRow(p, t).status = "PENDING"
    BY DEF NewRow
  <2>c. \A e \in Bookings, k \in 1..MaxDuration :
          Modified(rows[e], k).status = "WAITING_FOR_CLIENT"
    BY DEF Modified, TypeOK, Row
  <2>2. rows'[c] = rows[c] /\ rows[c].status = "CONFIRMED"
    BY <1>2, <2>1, <2>a, <2>b, <2>c, OtherEffect
  <2>3. \/ \E p \in Pros, t \in Starts : Create(d, p, t) /\ rows'[d] = NewRow(p, t)
        \/ \E k \in 1..MaxDuration : Modify(d, k) /\ rows'[d] = Modified(rows[d], k)
        \/ rows'[d] = rows[d]
    BY <1>2, <2>1, <2>a, OtherEffect
  <2>4. ASSUME NEW p \in Pros, NEW t \in Starts, Create(d, p, t), rows'[d] = NewRow(p, t)
        PROVE  ~overlaps(rows'[c], rows'[d])
    <3>1. c \in OfDay(rows, p, t, {"CONFIRMED"})
      BY <2>1, <2>2, <2>4 DEF OfDay, SameDay, NewRow
    <3>2. rows[c].start \in Starts
      BY <2>2 DEF PendingIsFresh
    <3>3. QED
      BY <2>2, <2>4, <3>1, <3>2, CreateIsClear DEF Create
  <2>5. ASSUME NEW k \in 1..MaxDuration, Modify(d, k), rows'[d] = Modified(rows[d], k)
        PROVE  ~overlaps(rows'[c], rows'[d])
    <3>1. rows[d] \in Row /\ rows[d].status = "PENDING"
      BY <2>5 DEF TypeOK, Modify
    <3>2. SameDay(c, d)
      BY <2>1, <2>2, <2>5, <3>1 DEF SameDay, Modified, Row
    <3>3. QED
      BY <2>2, <2>5, <3>1, <3>2, ModifyIsClear
  <2>6. CASE rows'[d] = rows[d]
    BY <2>1, <2>2, <2>6 DEF NoRivalOfConfirmed, SameDay
  <2>7. QED
    BY <2>3, <2>4, <2>5, <2>6
<1>3. QED
  BY <1>1, <1>2

\* When slots are on the hour, no open booking overlaps a confirmed one of the same
\* pro and day: the losers are closed by the confirmation, and neither createBooking
\* nor updateBooking lets a new rival in.
THEOREM WinnerTakesAllHolds == OnTheHour => (Spec => []NoRivalOfConfirmed)
<1> SUFFICES ASSUME OnTheHour PROVE Spec => []NoRivalOfConfirmed
  OBVIOUS
<1> DEFINE I == TypeOK /\ PendingIsFresh /\ ConsentToNewDuration /\ NoRivalOfConfirmed
<1>1. Init => I
  <2>1. Init => NoRivalOfConfirmed
    BY FreshInit, AbsentInit DEF NoRivalOfConfirmed
  <2>2. QED
    BY <2>1, TypeInit, FreshInit
<1>2. I /\ [Next]_vars => I'
  BY TypeNext, FreshNext, NoRivalNext
<1>3. QED
  BY <1>1, <1>2, PTL DEF Spec

-----------------------------------------------------------------------------
(* What is offered is free *)

\* Clients ask for what getAvailableSlots shows: whole hours after the opening.
AsOffered == \A s \in Starts : \E k \in Nat : s % Day = StartMin + k * Hour

\* A time of the day is what is left of the days before it.
LEMMA TimeOfDay ==
  ASSUME NEW d \in Nat, NEW m \in 0..(Day - 1)
  PROVE  DayOf(d * Day + m) = d /\ (d * Day + m) % Day = m /\ DayOf(d * Day) = d
BY DataAssumption, SMTT(30) DEF DayOf

LEMMA DayAndTime ==
  ASSUME NEW s \in Nat
  PROVE  /\ s = DayOf(s) * Day + (s % Day)
         /\ DayOf(s) \in Nat /\ s % Day \in 0..(Day - 1)
BY DataAssumption, SMTT(30) DEF DayOf

\* Times that are whole hours after the same opening compare like these hours.
LEMMA HoursCompare ==
  ASSUME NEW i \in Nat, NEW j \in Nat
  PROVE  /\ i * Hour \in Nat /\ (i + j) * Hour = i * Hour + j * Hour
         /\ i * Hour < j * Hour => i < j
<1> USE DataAssumption
<1>1. i * Hour \in Nat /\ (i + j) * Hour = i * Hour + j * Hour
  OBVIOUS
<1>2. ASSUME j <= i
      PROVE  j * Hour <= i * Hour
  BY <1>2
<1>3. QED
  BY <1>1, <1>2

\* A slot of the day's list overlaps no confirmed booking of the day.
LEMMA OfferedIsClear ==
  ASSUME TypeOK, PendingIsFresh, AsOffered, NEW p \in Pros, NEW d \in Nat,
         NEW t \in AvailableSlots(rows, p, d, now)
  PROVE  /\ SlotAccepted(rows, p, t, now)
         /\ \A b \in OfDay(rows, p, t, {"CONFIRMED"}) : ~overlaps(rows[b], NewRow(p, t))
<1> USE DataAssumption
<1>1. PICK m \in StartMin..(EndMin - 1) :
        /\ t = d * Day + m /\ (m - StartMin) % Hour = 0
        /\ m \notin occupiedSlots(rows, p, d * Day) /\ now < t
  BY DEF AvailableSlots
<1>2. m \in 0..(Day - 1) /\ DayOf(t) = d /\ t % Day = m /\ DayOf(d * Day) = d
  BY <1>1, TimeOfDay
<1>3. OfDay(rows, p, d * Day, {"CONFIRMED"}) = OfDay(rows, p, t, {"CONFIRMED"})
  BY <1>2 DEF OfDay
<1>4. m \notin occupiedSlots(rows, p, t)
  BY <1>1, <1>3 DEF occupiedSlots
<1>5. SlotAccepted(rows, p, t, now)
  BY <1>1, <1>2, <1>4 DEF SlotAccepted
<1>6. PICK j \in Nat : m = StartMin + j * Hour
  <2>1. m - StartMin \in Nat
    BY <1>1
  <2>2. \A n \in Nat : n % Hour = 0 => n = (n \div Hour) * Hour /\ n \div Hour \in Nat
    BY SMTT(30)
  <2>3. m - StartMin = ((m - StartMin) \div Hour) * Hour /\ (m - StartMin) \div Hour \in Nat
    BY <1>1, <2>1, <2>2
  <2>4. m = StartMin + ((m - StartMin) \div Hour) * Hour
    BY <1>1, <2>1, <2>3, HoursCompare
  <2>5. QED
    BY <2>3, <2>4
<1>7. ASSUME NEW b \in OfDay(rows, p, t, {"CONFIRMED"}), overlaps(rows[b], NewRow(p, t))
      PROVE  FALSE
  <2> DEFINE s == rows[b].start
             n == rows[b].duration
  <2>1. /\ b \in Bookings /\ rows[b] \in Row /\ s \in Nat /\ n \in Nat \ {0}
        /\ DayOf(s) = d /\ s \in Starts
    BY <1>2, <1>7 DEF OfDay, TypeOK, PendingIsFresh, Row
  <2>2. PICK k \in Nat : s % Day = StartMin + k * Hour
    BY <2>1 DEF AsOffered
  <2> DEFINE base == d * Day + StartMin
  <2>3. base \in Nat /\ s = base + k * Hour /\ t = base + j * Hour
    <3>1. s = d * Day + (s % Day)
      BY <2>1, DayAndTime
    <3>2. d * Day \in Nat
      OBVIOUS
    <3>3. k * Hour \in Nat /\ j * Hour \in Nat
      BY HoursCompare
    <3> QED
      BY <1>1, <1>6, <2>2, <3>1, <3>2, <3>3
  <2>4. s < t + 1 * Hour /\ t < s + n * Hour
    BY <1>7 DEF overlaps, computeEndTime, NewRow
  <2>5. k * Hour < (j + 1) * Hour /\ j * Hour < (k + n) * Hour
    <3>1. (j + 1) * Hour = j * Hour + 1 * Hour /\ (k + n) * Hour = k * Hour + n * Hour
      BY <2>1, HoursCompare
    <3>2. {k * Hour, j * Hour, n * Hour, 1 * Hour} \subseteq Nat
      BY <2>1, HoursCompare
    <3> HIDE DEF base
    <3> QED
      BY <2>1, <2>3, <2>4, <3>1, <3>2
  <2>6. k < j + 1 /\ j < k + n
    BY <2>1, <2>5, HoursCompare
  <2>7. j - k \in 0..(n - 1) /\ t = s + (j - k) * Hour
    <3>1. j - k \in Nat
      BY <2>6
    <3>2. (k + (j - k)) * Hour = k * Hour + (j - k) * Hour
      BY <3>1, HoursCompare
    <3> QED
      BY <2>1, <2>3, <2>6, <3>1, <3>2
  <2>8. m \in {(s + h * Hour) % Day : h \in 0..(n - 1)}
    BY <1>2, <2>7
  <2>9. QED
    BY <1>4, <1>7, <2>8 DEF occupiedSlots
<1>8. QED
  BY <1>5, <1>7

\* What getAvailableSlots shows can be had, whatever durations were confirmed that day:
\* createBooking accepts it, and no confirmed booking of the day reaches into its hour.
THEOREM OfferedSlotsAreFreeHolds == AsOffered => (Spec => []OfferedSlotsAreFree)
<1> SUFFICES ASSUME AsOffered PROVE Spec => []OfferedSlotsAreFree
  OBVIOUS
<1> DEFINE I == TypeOK /\ PendingIsFresh /\ ConsentToNewDuration
<1>1. Init => I
  BY TypeInit, FreshInit
<1>2. I /\ [Next]_vars => I'
  BY TypeNext, FreshNext
<1>3. I => OfferedSlotsAreFree
  <2>1. \A s \in Starts : DayOf(s) \in Nat
    BY DayAndTime, DataAssumption
  <2>2. QED
    BY <2>1, OfferedIsClear DEF OfferedSlotsAreFree
<1>4. QED
  BY <1>1, <1>2, <1>3, PTL DEF Spec

=============================================================================
