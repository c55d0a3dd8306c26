------------------------ MODULE BookingHistoryProofs ------------------------
(***************************************************************************)
(* What the event table and the timestamps of Booking say of the past, for *)
(* every set of bookings and professionals, durations and slots.           *)
(***************************************************************************)
EXTENDS BookingProofs

-----------------------------------------------------------------------------
(* One row and the types of its events *)

Types(E) == {e[1] : e \in E}

\* HistoryMatchesStatus of one row, and that an id without a booking has no timestamp.
Agree(r, T) ==
  /\ "CONFIRMED" \in T <=> "confirmedAt" \in r.stamps
  /\ "cancelledAt" \in r.stamps <=> r.status \in Cancelled
  /\ "completedAt" \in r.stamps <=> r.status = "COMPLETED"
  /\ T \ {"CREATED", "CONFIRMED"} \subseteq
       (CASE r.status \in Cancelled -> {"CANCELLED"}
          [] r.status = "COMPLETED" -> {"COMPLETED"}
          [] r.status = "DECLINED"  -> {"DECLINED"}
          [] r.status = "EXPIRED"   -> {"EXPIRED"}
          [] OTHER                  -> {})
  /\ r.status \in Final \ {"COMPLETED"} => T \ {"CREATED", "CONFIRMED"} # {}
  /\ r.status = "ABSENT" => r.stamps = {}

\* The row of an open or confirmed booking agrees when no outcome is recorded.
LEMMA AgreeUnended ==
  ASSUME NEW r, NEW T, r.status \in Open \cup {"CONFIRMED", "ABSENT"}
  PROVE  Agree(r, T) <=> /\ "CONFIRMED" \in T <=> "confirmedAt" \in r.stamps
                         /\ "cancelledAt" \notin r.stamps /\ "completedAt" \notin r.stamps
                         /\ T \subseteq {"CREATED", "CONFIRMED"}
                         /\ r.status = "ABSENT" => r.stamps = {}
BY DEF Agree, Open, Final, Cancelled

\* The row of a closed booking agrees when its outcome, and no other, is recorded.
LEMMA AgreeEnded ==
  ASSUME NEW r, NEW T, NEW outcome,
         \/ r.status \in Cancelled /\ outcome = "CANCELLED"
         \/ r.status \in {"COMPLETED", "DECLINED", "EXPIRED"} /\ outcome = r.status,
         "CONFIRMED" \in T <=> "confirmedAt" \in r.stamps,
         "cancelledAt" \in r.stamps <=> r.status \in Cancelled,
         "completedAt" \in r.stamps <=> r.status = "COMPLETED",
         T \subseteq {"CREATED", "CONFIRMED", outcome},
         outcome \in T \/ r.status = "COMPLETED"
  PROVE  Agree(r, T)
BY DEF Agree, Final, Cancelled

\* The writes of the handlers keep the agreement, with the event they record.
LEMMA AgreeConfirmed ==
  ASSUME NEW r \in Row, NEW T, Agree(r, T), r.status \in Open
  PROVE  Agree(Stamp(r, "CONFIRMED", "confirmedAt"), T \cup {"CONFIRMED"})
<1> DEFINE s == Stamp(r, "CONFIRMED", "confirmedAt")
<1>1. s.status = "CONFIRMED" /\ s.stamps = r.stamps \cup {"confirmedAt"}
  BY DEF Stamp, Row
<1>2. Agree(r, T) <=> /\ "CONFIRMED" \in T <=> "confirmedAt" \in r.stamps
                      /\ "cancelledAt" \notin r.stamps /\ "completedAt" \notin r.stamps
                      /\ T \subseteq {"CREATED", "CONFIRMED"}
                      /\ r.status = "ABSENT" => r.stamps = {}
  BY AgreeUnended
<1> HIDE DEF s
<1> QED
  BY <1>1, <1>2, AgreeUnended DEF s

LEMMA AgreeClosed ==
  ASSUME NEW r \in Row, NEW T, Agree(r, T), r.status \in Open, NEW s \in {"DECLINED", "EXPIRED"}
  PROVE  Agree([r EXCEPT !.status = s], T \cup {s})
<1> DEFINE q == [r EXCEPT !.status = s]
<1>1. q.status = s /\ q.stamps = r.stamps
  BY DEF Row
<1>2. /\ "CONFIRMED" \in T <=> "confirmedAt" \in r.stamps
      /\ "cancelledAt" \notin r.stamps /\ "completedAt" \notin r.stamps
      /\ T \subseteq {"CREATED", "CONFIRMED"}
  BY AgreeUnended
<1>3. s \notin Cancelled /\ s # "COMPLETED" /\ s # "CONFIRMED"
  BY DEF Cancelled
<1> HIDE DEF q
<1> DEFINE U == T \cup {s}
<1>4. /\ "CONFIRMED" \in U <=> "confirmedAt" \in q.stamps
      /\ "cancelledAt" \in q.stamps <=> q.status \in Cancelled
      /\ "completedAt" \in q.stamps <=> q.status = "COMPLETED"
      /\ U \subseteq {"CREATED", "CONFIRMED", s} /\ s \in U
  BY <1>1, <1>2, <1>3
<1> HIDE DEF U
<1>5. Agree(q, U)
  BY <1>1, <1>4, AgreeEnded
<1> QED
  BY <1>5 DEF q, U

LEMMA AgreeCancelled ==
  ASSUME NEW r \in Row, NEW T, Agree(r, T), r.status \in Open \cup {"CONFIRMED"}, NEW s \in Cancelled
  PROVE  Agree(Stamp(r, s, "cancelledAt"), T \cup {"CANCELLED"})
<1> DEFINE q == Stamp(r, s, "cancelledAt")
<1>1. q.status = s /\ q.stamps = r.stamps \cup {"cancelledAt"}
  BY DEF Stamp, Row
<1>2. /\ "CONFIRMED" \in T <=> "confirmedAt" \in r.stamps
      /\ "cancelledAt" \notin r.stamps /\ "completedAt" \notin r.stamps
      /\ T \subseteq {"CREATED", "CONFIRMED"}
  BY AgreeUnended
<1>3. "COMPLETED" \notin Cancelled
  BY DEF Cancelled
<1> HIDE DEF q
<1> DEFINE U == T \cup {"CANCELLED"}
<1>4. /\ "CONFIRMED" \in U <=> "confirmedAt" \in q.stamps
      /\ "cancelledAt" \in q.stamps <=> q.status \in Cancelled
      /\ "completedAt" \in q.stamps <=> q.status = "COMPLETED"
      /\ U \subseteq {"CREATED", "CONFIRMED", "CANCELLED"} /\ "CANCELLED" \in U
  BY <1>1, <1>2, <1>3
<1> HIDE DEF U
<1>5. Agree(q, U)
  BY <1>1, <1>4, AgreeEnded
<1> QED
  BY <1>5 DEF q, U

\* A completion is recorded by completeBooking, not by the automation.
LEMMA AgreeCompleted ==
  ASSUME NEW r \in Row, NEW T, Agree(r, T), r.status = "CONFIRMED",
         NEW U, U = T \/ U = T \cup {"COMPLETED"}
  PROVE  Agree(Stamp(r, "COMPLETED", "completedAt"), U)
<1> DEFINE q == Stamp(r, "COMPLETED", "completedAt")
<1>1. q.status = "COMPLETED" /\ q.stamps = r.stamps \cup {"completedAt"}
  BY DEF Stamp, Row
<1>2. /\ "CONFIRMED" \in T <=> "confirmedAt" \in r.stamps
      /\ "cancelledAt" \notin r.stamps /\ "completedAt" \notin r.stamps
      /\ T \subseteq {"CREATED", "CONFIRMED"}
  BY AgreeUnended
<1>3. "COMPLETED" \notin Cancelled
  BY DEF Cancelled
<1> HIDE DEF q
<1>4. Agree(q, U)
  BY <1>1, <1>2, <1>3, AgreeEnded
<1> QED
  BY <1>4 DEF q

LEMMA AgreeModified ==
  ASSUME NEW r \in Row, NEW T, Agree(r, T), r.status = "PENDING", NEW d
  PROVE  Agree(Modified(r, d), T)
<1> DEFINE q == Modified(r, d)
<1>1. q.status = "WAITING_FOR_CLIENT" /\ q.stamps = r.stamps
  BY DEF Modified, Row
<1>2. /\ "CONFIRMED" \in T <=> "confirmedAt" \in r.stamps
      /\ "cancelledAt" \notin r.stamps /\ "completedAt" \notin r.stamps
      /\ T \subseteq {"CREATED", "CONFIRMED"}
  BY AgreeUnended DEF Open
<1> HIDE DEF q
<1>3. Agree(q, T)
  BY <1>1, <1>2, AgreeUnended DEF Open
<1> QED
  BY <1>3 DEF q

LEMMA AgreeCreated ==
  ASSUME NEW r, NEW T, Agree(r, T), r.status = "ABSENT", NEW p, NEW t
  PROVE  Agree(NewRow(p, t), T \cup {"CREATED"})
<1> DEFINE q == NewRow(p, t)
<1>1. q.status = "PENDING" /\ q.stamps = {}
  BY DEF NewRow
<1>2. "CONFIRMED" \notin T /\ T \subseteq {"CREATED", "CONFIRMED"}
  BY AgreeUnended
<1> HIDE DEF q
<1>3. Agree(q, T \cup {"CREATED"})
  BY <1>1, <1>2, AgreeUnended DEF Open
<1> QED
  BY <1>3 DEF q

-----------------------------------------------------------------------------
(* HistoryMatchesStatus *)

\* Each booking agrees with what is recorded of it.
HistoryInv == \A b \in Bookings : Agree(rows[b], Types(events[b]))

\* What is recorded adds its type to the types.
LEMMA TypesOfRecord ==
  ASSUME NEW E, NEW type, NEW role
  PROVE  Types(E \cup {<<type, role>>}) = Types(E) \cup {type}
<1>1. <<type, role>>[1] = type
  OBVIOUS
<1> QED
  BY <1>1 DEF Types

LEMMA RecordTypes ==
  ASSUME NEW S, NEW type, NEW role, Record(S, type, role), NEW c \in Bookings
  PROVE  Types(events'[c]) = IF c \in S THEN Types(events[c]) \cup {type} ELSE Types(events[c])
BY TypesOfRecord DEF Record

\* A confirmation keeps the agreement: of the winner, of the losers, and of the booking
\* before it, which the automation completes without an event.
LEMMA HistoryConfirm ==
  ASSUME TypeOK, HistoryInv, NEW b \in Bookings, NEW s \in Open, NEW role, ConfirmFrom(b, s, role),
         NEW c \in Bookings
  PROVE  Agree(rows'[c], Types(events'[c]))
<1> DEFINE won == WinnerTakesAll(b)
<1>1. PICK P \in BackToBack(won, b) : rows' = AutoComplete(won, P)
  BY DEF ConfirmFrom
<1>2. \A d \in P : won[d].status = "CONFIRMED"
  <2>1. \A p, t : \A d \in OfDay(won, p, t, {"CONFIRMED"}) : won[d].status = "CONFIRMED"
    BY DEF OfDay
  <2> HIDE DEF won
  <2> QED
    BY <1>1, <2>1 DEF BackToBack
<1>3. rows'[c] = IF c \in P THEN Stamp(won[c], "COMPLETED", "completedAt") ELSE won[c]
  BY <1>1 DEF AutoComplete
<1>4. rows[c] \in Row /\ Agree(rows[c], Types(events[c])) /\ rows[b].status \in Open
  BY DEF TypeOK, HistoryInv, ConfirmFrom
<1>5. Agree(won[c], Types(events'[c])) /\ won[c] \in Row
  <2>1. CASE c = b
    <3>1. won[c] = Stamp(rows[c], "CONFIRMED", "confirmedAt")
      BY <2>1 DEF WinnerTakesAll
    <3>2. Types(events'[c]) = Types(events[c]) \cup {"CONFIRMED"}
      BY <2>1, TypesOfRecord DEF ConfirmFrom
    <3> QED
      BY <1>4, <2>1, <3>1, <3>2, AgreeConfirmed, StampType DEF Status, Stamps
  <2>2. CASE c # b /\ c \in Competing(rows, b)
    <3>1. won[c] = Stamp(rows[c], "CANCELLED_AUTO_OVERLAP", "cancelledAt")
      BY <2>2 DEF WinnerTakesAll
    <3>2. Types(events'[c]) = Types(events[c]) \cup {"CANCELLED"}
      BY <2>2, TypesOfRecord DEF ConfirmFrom
    <3>3. rows[c].status \in Open
      BY <2>2 DEF Competing, OfDay
    <3> QED
      BY <1>4, <3>1, <3>2, <3>3, AgreeCancelled, StampType DEF Status, Final, Cancelled, Stamps
  <2>3. CASE c # b /\ c \notin Competing(rows, b)
    BY <1>4, <2>3 DEF WinnerTakesAll, ConfirmFrom
  <2> QED
    BY <2>1, <2>2, <2>3
<1> HIDE DEF won
<1> QED
  BY <1>2, <1>3, <1>5, AgreeCompleted

\* Every handler keeps the agreement.
LEMMA HistoryNext == TypeOK /\ HistoryInv /\ [Next]_vars => HistoryInv'
<1> SUFFICES ASSUME TypeOK, HistoryInv, [Next]_vars, NEW c \in Bookings
             PROVE  Agree(rows'[c], Types(events'[c]))
  BY DEF HistoryInv
<1>a. rows[c] \in Row /\ Agree(rows[c], Types(events[c]))
  BY DEF TypeOK, HistoryInv
<1>1. ASSUME NEW b \in Bookings, NEW p \in Pros, NEW t \in Starts, Create(b, p, t)
      PROVE  Agree(rows'[c], Types(events'[c]))
  <2>1. rows'[c] = IF c = b THEN NewRow(p, t) ELSE rows[c]
    BY <1>1 DEF Create, TypeOK
  <2>2. Types(events'[c]) = IF c = b THEN Types(events[c]) \cup {"CREATED"} ELSE Types(events[c])
    BY <1>1, RecordTypes DEF Create
  <2>3. c = b => rows[c].status = "ABSENT"
    BY <1>1 DEF Create
  <2> QED
    BY <1>a, <2>1, <2>2, <2>3, AgreeCreated
<1>2. ASSUME NEW b \in Bookings, Decline(b) \/ Refuse(b)
      PROVE  Agree(rows'[c], Types(events'[c]))
  <2>1. rows'[c] = IF c = b THEN [rows[c] EXCEPT !.status = "DECLINED"] ELSE rows[c]
    BY <1>2 DEF Decline, Refuse, TypeOK
  <2>2. Types(events'[c]) = IF c = b THEN Types(events[c]) \cup {"DECLINED"} ELSE Types(events[c])
    BY <1>2, RecordTypes DEF Decline, Refuse
  <2>3. c = b => rows[c].status \in Open
    BY <1>2 DEF Decline, Refuse, Open
  <2>4. c = b => Agree([rows[c] EXCEPT !.status = "DECLINED"], Types(events[c]) \cup {"DECLINED"})
    BY <1>a, <2>3, AgreeClosed
  <2> QED
    BY <1>a, <2>1, <2>2, <2>4
<1>3. ASSUME NEW b \in Bookings, Confirm(b) \/ Accept(b)
      PROVE  Agree(rows'[c], Types(events'[c]))
  BY <1>3, HistoryConfirm DEF Confirm, Accept, Open
<1>4. ASSUME NEW b \in Bookings, NEW d \in 1..MaxDuration, Modify(b, d)
      PROVE  Agree(rows'[c], Types(events'[c]))
  <2>1. rows'[c] = (IF c = b THEN Modified(rows[c], d) ELSE rows[c]) /\ events' = events
    BY <1>4 DEF Modify, TypeOK
  <2>2. c = b => rows[c].status = "PENDING"
    BY <1>4 DEF Modify
  <2> QED
    BY <1>a, <2>1, <2>2, AgreeModified
<1>5. ASSUME NEW b \in Bookings, Complete(b)
      PROVE  Agree(rows'[c], Types(events'[c]))
  <2>1. rows'[c] = IF c = b THEN Stamp(rows[c], "COMPLETED", "completedAt") ELSE rows[c]
    BY <1>5 DEF Complete, TypeOK
  <2>2. Types(events'[c]) = IF c = b THEN Types(events[c]) \cup {"COMPLETED"} ELSE Types(events[c])
    BY <1>5, RecordTypes DEF Complete
  <2>3. c = b => rows[c].status = "CONFIRMED"
    BY <1>5 DEF Complete
  <2>4. CASE c = b
    <3> DEFINE U == Types(events[c]) \cup {"COMPLETED"}
    <3>1. Agree(Stamp(rows[c], "COMPLETED", "completedAt"), U)
      BY <1>a, <2>3, <2>4, AgreeCompleted
    <3> QED
      BY <2>1, <2>2, <2>4, <3>1
  <2> QED
    BY <1>a, <2>1, <2>2, <2>4
<1>6. ASSUME NEW b \in Bookings, CancelByClient(b) \/ CancelByPro(b)
      PROVE  Agree(rows'[c], Types(events'[c]))
  <2>1. PICK s \in Cancelled :
          rows'[c] = IF c = b THEN Stamp(rows[c], s, "cancelledAt") ELSE rows[c]
    <3>1. /\ "CANCELLED_BY_CLIENT" \in Cancelled /\ "CANCELLED_BY_CLIENT_LATE" \in Cancelled
          /\ "CANCELLED_BY_PRO" \in Cancelled
      BY DEF Cancelled
    <3>2. CASE CancelByPro(b)
      BY <3>1, <3>2 DEF CancelByPro, TypeOK
    <3>3. CASE CancelByClient(b)
      <4>1. rows'[c] = IF c = b THEN CancelledByClient(rows[c], now) ELSE rows[c]
        BY <3>3 DEF CancelByClient, TypeOK
      <4> QED
        BY <3>1, <4>1 DEF CancelledByClient
    <3> QED
      BY <1>6, <3>2, <3>3
  <2>2. Types(events'[c]) = IF c = b THEN Types(events[c]) \cup {"CANCELLED"} ELSE Types(events[c])
    BY <1>6, RecordTypes DEF CancelByClient, CancelByPro
  <2>3. c = b => rows[c].status = "CONFIRMED"
    BY <1>6 DEF CancelByClient, CancelByPro
  <2> QED
    BY <1>a, <2>1, <2>2, <2>3, AgreeCancelled
<1>7. CASE Expire
  <2>1. rows'[c] = IF c \in Due(rows, now) THEN [rows[c] EXCEPT !.status = "EXPIRED"] ELSE rows[c]
    BY <1>7 DEF Expire
  <2>2. Types(events'[c]) = IF c \in Due(rows, now) THEN Types(events[c]) \cup {"EXPIRED"}
                                                    ELSE Types(events[c])
    BY <1>7, RecordTypes DEF Expire
  <2>3. c \in Due(rows, now) => rows[c].status \in Open
    BY DEF Due
  <2> QED
    BY <1>a, <2>1, <2>2, <2>3, AgreeClosed
<1>8. CASE Tick \/ UNCHANGED vars
  BY <1>8, <1>a DEF Tick, vars
<1> QED
  BY <1>1, <1>2, <1>3, <1>4, <1>5, <1>6, <1>7, <1>8 DEF Next

\* Nothing is booked initially, and nothing recorded.
LEMMA HistoryInit == Init => HistoryInv
<1> SUFFICES ASSUME Init, NEW b \in Bookings PROVE Agree(rows[b], Types(events[b]))
  BY DEF HistoryInv
<1>1. rows[b].status = "ABSENT" /\ rows[b].stamps = {} /\ Types(events[b]) = {}
  BY AbsentInit DEF Init, Types
<1> QED
  BY <1>1, AgreeUnended

\* Whatever the number of requests and the order of the handlers, the outcome that the
\* event table records of a booking is that of its row, with the timestamp of it.
THEOREM HistoryHolds == Spec => []HistoryMatchesStatus
<1>1. TypeOK /\ HistoryInv /\ [Next]_vars => HistoryInv'
  BY HistoryNext
<1>2. HistoryInv => HistoryMatchesStatus
  BY DEF HistoryInv, Agree, Types, HistoryMatchesStatus, EventTypes
<1> QED
  BY <1>1, <1>2, HistoryInit, TypeCorrect, PTL DEF Spec

-----------------------------------------------------------------------------
(* EarlyCompletionHasSuccessor *)

\* A booking keeps its professional and its slot, and every timestamp that it got; its
\* duration changes while it is pending only.
LEMMA Persists ==
  ASSUME TypeOK, [Next]_vars, NEW c \in Bookings, rows[c].status # "ABSENT"
  PROVE  /\ rows'[c].pro = rows[c].pro /\ rows'[c].start = rows[c].start
         /\ rows[c].stamps \subseteq rows'[c].stamps
         /\ rows[c].status # "PENDING" => rows'[c].duration = rows[c].duration
<1> DEFINE Follows(r, q) == /\ q.pro = r.pro /\ q.start = r.start
                            /\ r.stamps \subseteq q.stamps
                            /\ r.status # "PENDING" => q.duration = r.duration
           Same(r, q) == /\ q.pro = r.pro /\ q.start = r.start /\ q.duration = r.duration
                         /\ r.stamps \subseteq q.stamps
<1>a. rows[c] \in Row
  BY DEF TypeOK
<1>b. \A s, col : \A r \in Row : Same(r, Stamp(r, s, col))
  BY DEF Stamp, Row
<1>c. /\ Same(rows[c], [rows[c] EXCEPT !.status = "DECLINED"])
      /\ Same(rows[c], [rows[c] EXCEPT !.status = "EXPIRED"])
  BY <1>a DEF Row
<1> SUFFICES Follows(rows[c], rows'[c])
  OBVIOUS
<1>1. ASSUME NEW b \in Bookings, NEW p \in Pros, NEW t \in Starts, Create(b, p, t)
      PROVE  Follows(rows[c], rows'[c])
  BY <1>1 DEF Create, TypeOK
<1>2. ASSUME NEW b \in Bookings, Decline(b) \/ Refuse(b)
      PROVE  Follows(rows[c], rows'[c])
  <2>1. rows'[c] = rows[c] \/ rows'[c] = [rows[c] EXCEPT !.status = "DECLINED"]
    BY <1>2 DEF Decline, Refuse, TypeOK
  <2> QED
    BY <1>c, <2>1
<1>3. ASSUME NEW b \in Bookings, Confirm(b) \/ Accept(b)
      PROVE  Follows(rows[c], rows'[c])
  <2> DEFINE won == WinnerTakesAll(b)
  <2>1. PICK P : rows' = AutoComplete(won, P)
    BY <1>3 DEF Confirm, Accept, ConfirmFrom
  <2>2. rows'[c] = won[c] \/ rows'[c] = Stamp(won[c], "COMPLETED", "completedAt")
    BY <2>1 DEF AutoComplete
  <2>3. \/ won[c] = rows[c]
        \/ won[c] = Stamp(rows[c], "CONFIRMED", "confirmedAt")
        \/ won[c] = Stamp(rows[c], "CANCELLED_AUTO_OVERLAP", "cancelledAt")
    BY DEF WinnerTakesAll
  <2> HIDE DEF won
  <2>4. won[c] \in Row /\ Same(rows[c], won[c])
    BY <1>a, <1>b, <2>3, StampType DEF Status, Final, Cancelled, Stamps
  <2>5. Same(won[c], rows'[c])
    BY <1>b, <2>2, <2>4
  <2> QED
    BY <2>4, <2>5
<1>4. ASSUME NEW b \in Bookings, NEW d \in 1..MaxDuration, Modify(b, d)
      PROVE  Follows(rows[c], rows'[c])
  BY <1>4, <1>a DEF Modify, Modified, TypeOK, Row
<1>5. ASSUME NEW b \in Bookings, Complete(b) \/ CancelByClient(b) \/ CancelByPro(b)
      PROVE  Follows(rows[c], rows'[c])
  <2>1. c # b => rows'[c] = rows[c]
    BY <1>5 DEF Complete, CancelByClient, CancelByPro, TypeOK
  <2>2. c = b => \E s, col : rows'[c] = Stamp(rows[c], s, col)
    BY <1>5 DEF Complete, CancelByClient, CancelByPro, CancelledByClient, TypeOK
  <2> QED
    BY <1>a, <1>b, <2>1, <2>2
<1>6. CASE Expire
  <2>1. rows'[c] = rows[c] \/ rows'[c] = [rows[c] EXCEPT !.status = "EXPIRED"]
    BY <1>6 DEF Expire
  <2> QED
    BY <1>a, <1>c, <2>1
<1>7. CASE Tick \/ UNCHANGED vars
  BY <1>7 DEF Tick, vars
<1> QED
  BY <1>1, <1>2, <1>3, <1>4, <1>5, <1>6, <1>7 DEF Next

\* The booking x that was just confirmed follows b.
Succeeds(x, b) ==
  /\ rows[x].pro = rows[b].pro
  /\ rows[x].start = computeEndTime(rows[b])
  /\ "confirmedAt" \in rows[x].stamps

\* A booking is completed after its end, or because its successor is confirmed.
LEMMA BecomesCompleted ==
  ASSUME TypeOK, [Next]_vars, NEW c \in Bookings,
         rows[c].status # "COMPLETED", rows'[c].status = "COMPLETED"
  PROVE  Complete(c) \/ \E x \in Bookings : Succeeds(x, c)'
<1>a. \A b \in Bookings : rows[b] \in Row
  BY DEF TypeOK
<1>b. \A s, col : \A r \in Row : Stamp(r, s, col).status = s
  BY DEF Stamp, Row
<1>1. ASSUME NEW b \in Bookings, Confirm(b) \/ Accept(b)
      PROVE  \E x \in Bookings : Succeeds(x, c)'
  <2> DEFINE won == WinnerTakesAll(b)
  <2>1. PICK P \in BackToBack(won, b) : rows' = AutoComplete(won, P)
    BY <1>1 DEF Confirm, Accept, ConfirmFrom
  <2>2. /\ \/ won[c] = rows[c] \/ won[c] = Stamp(rows[c], "CONFIRMED", "confirmedAt")
           \/ won[c] = Stamp(rows[c], "CANCELLED_AUTO_OVERLAP", "cancelledAt")
        /\ won[b] = Stamp(rows[b], "CONFIRMED", "confirmedAt")
    BY DEF WinnerTakesAll
  <2>3. rows'[c] = IF c \in P THEN Stamp(won[c], "COMPLETED", "completedAt") ELSE won[c]
    BY <2>1 DEF AutoComplete
  <2>4. rows'[b] = won[b] \/ rows'[b] = Stamp(won[b], "COMPLETED", "completedAt")
    BY <2>1 DEF AutoComplete
  <2> HIDE DEF won
  <2>5. c \in P
    BY <1>a, <1>b, <2>2, <2>3
  <2>6. \A d \in P : /\ won[d].pro = won[b].pro /\ computeEndTime(won[d]) = won[b].start
    BY <2>1 DEF BackToBack, OfDay
  <2>7. won[c] \in Row /\ won[b] \in Row /\ "confirmedAt" \in won[b].stamps
    <3>1. "confirmedAt" \in won[b].stamps
      BY <1>a, <2>2 DEF Stamp, Row
    <3> QED
      BY <1>a, <2>2, <3>1, StampType DEF Status, Final, Cancelled, Stamps
  <2>8. /\ rows'[c].pro = won[c].pro /\ computeEndTime(rows'[c]) = computeEndTime(won[c])
        /\ rows'[b].pro = won[b].pro /\ rows'[b].start = won[b].start
        /\ won[b].stamps \subseteq rows'[b].stamps
    BY <2>3, <2>4, <2>5, <2>7 DEF Stamp, Row, computeEndTime
  <2>9. Succeeds(b, c)'
    BY <2>5, <2>6, <2>7, <2>8 DEF Succeeds, computeEndTime
  <2> QED
    BY <2>9
<1>2. ASSUME \A b \in Bookings : ~Confirm(b) /\ ~Accept(b)
      PROVE  Complete(c)
  <2>1. ASSUME NEW b \in Bookings, NEW p \in Pros, NEW t \in Starts, Create(b, p, t) PROVE FALSE
    BY <2>1 DEF Create, NewRow, TypeOK
  <2>2. ASSUME NEW b \in Bookings, Decline(b) \/ Refuse(b) PROVE FALSE
    BY <2>2, <1>a DEF Decline, Refuse, TypeOK, Row
  <2>3. ASSUME NEW b \in Bookings, NEW d \in 1..MaxDuration, Modify(b, d) PROVE FALSE
    BY <2>3, <1>a DEF Modify, Modified, TypeOK, Row
  <2>4. ASSUME NEW b \in Bookings, CancelByClient(b) \/ CancelByPro(b) PROVE FALSE
    <3>1. c # b => rows'[c] = rows[c]
      BY <2>4 DEF CancelByClient, CancelByPro, TypeOK
    <3>2. c = b => \/ rows'[c] = Stamp(rows[c], "CANCELLED_BY_PRO", "cancelledAt")
                   \/ rows'[c] = CancelledByClient(rows[c], now)
      BY <2>4 DEF CancelByClient, CancelByPro, TypeOK
    <3>3. CancelledByClient(rows[c], now).status # "COMPLETED"
      BY <1>a, <1>b DEF CancelledByClient
    <3> QED
      BY <1>a, <1>b, <3>1, <3>2, <3>3
  <2>5. ASSUME NEW b \in Bookings, Complete(b) PROVE b = c
    BY <2>5 DEF Complete, TypeOK
  <2>6. ASSUME Expire PROVE FALSE
    BY <2>6, <1>a DEF Expire, TypeOK, Row
  <2>7. ASSUME Tick \/ UNCHANGED vars PROVE FALSE
    BY <2>7 DEF Tick, vars
  <2> QED
    BY <1>2, <2>1, <2>2, <2>3, <2>4, <2>5, <2>6, <2>7 DEF Next
<1> QED
  BY <1>1, <1>2

\* Every handler keeps the successor of an early completion, or completes with one.
LEMMA SuccessorNext ==
  TypeOK /\ HistoryInv /\ EarlyCompletionHasSuccessor /\ [Next]_vars => EarlyCompletionHasSuccessor'
<1> SUFFICES ASSUME TypeOK, HistoryInv, EarlyCompletionHasSuccessor, [Next]_vars,
                    NEW b \in Bookings, rows'[b].status = "COMPLETED",
                    now' < computeEndTime(rows'[b])
             PROVE  \E c \in Bookings : Succeeds(c, b)'
  BY DEF EarlyCompletionHasSuccessor, Succeeds
<1>1. CASE rows[b].status = "COMPLETED"
  <2>1. /\ computeEndTime(rows'[b]) = computeEndTime(rows[b])
        /\ rows'[b].pro = rows[b].pro
    BY <1>1, Persists DEF computeEndTime
  <2>2. now < computeEndTime(rows[b])
    <3>1. now' = now \/ now' = now + 1
      BY DEF Next, Create, Decline, Confirm, Modify, Accept, Refuse, Complete, CancelByClient,
         CancelByPro, ConfirmFrom, Expire, Tick, vars
    <3>2. now \in Int /\ computeEndTime(rows[b]) \in Int
      BY DataAssumption DEF TypeOK, Row, computeEndTime
    <3> QED
      BY <2>1, <3>1, <3>2
  <2>3. PICK c \in Bookings : Succeeds(c, b)
    BY <1>1, <2>2 DEF EarlyCompletionHasSuccessor, Succeeds
  <2>4. rows[c].status # "ABSENT"
    BY <2>3 DEF Succeeds, HistoryInv, Agree
  <2>5. Succeeds(c, b)'
    BY <2>1, <2>3, <2>4, Persists DEF Succeeds
  <2> QED
    BY <2>5
<1>2. CASE rows[b].status # "COMPLETED"
  <2>1. ASSUME Complete(b) PROVE FALSE
    <3>1. rows'[b] = Stamp(rows[b], "COMPLETED", "completedAt") /\ now' = now
      BY <2>1 DEF Complete, TypeOK
    <3>2. computeEndTime(rows'[b]) = computeEndTime(rows[b])
      BY <3>1 DEF Stamp, Row, TypeOK, computeEndTime
    <3>3. now \in Int /\ computeEndTime(rows[b]) \in Int
      BY DataAssumption DEF TypeOK, Row, computeEndTime
    <3> QED
      BY <2>1, <3>1, <3>2, <3>3 DEF Complete
  <2> QED
    BY <1>2, <2>1, BecomesCompleted
<1> QED
  BY <1>1, <1>2

\* A booking that was completed before its end has a successor that was confirmed, for
\* the same professional and at the very end of it, whatever happened to either since.
THEOREM SuccessorHolds == Spec => []EarlyCompletionHasSuccessor
<1>1. Init => EarlyCompletionHasSuccessor
  BY AbsentInit DEF EarlyCompletionHasSuccessor
<1> DEFINE I == TypeOK /\ HistoryInv /\ EarlyCompletionHasSuccessor
<1>2. Init => I
  BY <1>1, TypeInit, HistoryInit
<1>3. I /\ [Next]_vars => I'
  BY TypeNext, HistoryNext, SuccessorNext
<1> QED
  BY <1>2, <1>3, PTL DEF Spec

=============================================================================
