---------------------------- MODULE BookingData ----------------------------
(***************************************************************************)
(* The Booking table of apps/api, and the queries that BookingService runs *)
(* on it.  A table is a function rs from booking ids to rows, so that the  *)
(* same query can be asked of the committed table, of a transaction's view *)
(* of it, or of the table a handler is about to write.                     *)
(*                                                                         *)
(* Times are natural numbers of one unit: the code's unit is the minute,   *)
(* with Hour = 60 and Day = 1440; the models scale them down.              *)
(***************************************************************************)
EXTENDS Integers

CONSTANTS
  Bookings,      \* the ids a row can get
  Pros,          \* professionals
  Hour,          \* time units in an hour
  Day,           \* time units in a day
  StartMin,      \* weekly availability, the same for every day:
  EndMin,        \*   open from StartMin (included) to EndMin (excluded)
  Starts,        \* the time slots that clients ask for
  MaxDuration,   \* longest duration a pro may propose, in hours (8)
  LateNotice,    \* a cancellation this close to the slot is late (24 hours)
  ExpiryDelay,   \* expiresAt - timeSlot (24 hours)
  MaxTime        \* bound on the clock, for model checking only

ASSUME DataAssumption ==
  /\ Hour \in Nat \ {0} /\ Day \in Nat \ {0}
  /\ StartMin \in Nat /\ EndMin \in 0..Day
  /\ Starts \subseteq Nat
  /\ MaxDuration \in Nat \ {0}
  /\ LateNotice \in Nat /\ ExpiryDelay \in Nat /\ MaxTime \in Nat

-----------------------------------------------------------------------------
Open == {"PENDING", "WAITING_FOR_CLIENT"}

Cancelled == {"CANCELLED_BY_CLIENT", "CANCELLED_BY_CLIENT_LATE",
              "CANCELLED_BY_PRO", "CANCELLED_AUTO_OVERLAP"}

Final == Cancelled \cup {"DECLINED", "EXPIRED", "COMPLETED"}

\* CANCELLED_AUTO_FIRST_CONFIRMED is declared by the schema and never written.
Status == Open \cup {"CONFIRMED"} \cup Final

\* The nullable timestamps of a row: the set of those that are not null.
Stamps == {"confirmedAt", "cancelledAt", "completedAt"}

Row == [status : Status \cup {"ABSENT"}, pro : Pros, start : Nat,
        duration : 1..MaxDuration, modified : BOOLEAN, stamps : SUBSET Stamps]

\* A row of the BookingEvent table: its type and the role of its actor.
Event == {"CREATED", "CONFIRMED", "DECLINED", "EXPIRED", "CANCELLED", "COMPLETED"}
           \X {"CLIENT", "PRO", "NONE"}

-----------------------------------------------------------------------------
DayOf(t) == t \div Day

computeEndTime(r) == r.start + r.duration * Hour

overlaps(r, s) == r.start < computeEndTime(s) /\ s.start < computeEndTime(r)

\* The bookings of p on the day of t whose status is in st: startOfDay..endOfDay.
OfDay(rs, p, t, st) ==
  {b \in Bookings : /\ rs[b].status \in st
                    /\ rs[b].pro = p
                    /\ DayOf(rs[b].start) = DayOf(t)}

\* Mutant: the duration of the bookings is forgotten.
occupiedStarts(rs, p, t) ==
  {rs[b].start % Day : b \in OfDay(rs, p, t, {"CONFIRMED"})}

\* The minutes of the day that the confirmed bookings of p occupy: the starts of
\* the hours they cover, as "HH:MM" strings, which forget the day.
occupiedSlots(rs, p, t) ==
  UNION {{(rs[b].start + h * Hour) % Day : h \in 0..(rs[b].duration - 1)} :
         b \in OfDay(rs, p, t, {"CONFIRMED"})}

\* What createBooking checks inside its transaction.
SlotAccepted(rs, p, t, now) ==
  /\ (t % Day) \notin occupiedSlots(rs, p, t)
  /\ (t % Day) \in StartMin..(EndMin - 1)
  /\ now < t

\* The slots of day d that getAvailableSlots shows, as times.
AvailableSlots(rs, p, d, now) ==
  {d * Day + m : m \in {m \in StartMin..(EndMin - 1) :
                          /\ (m - StartMin) % Hour = 0
                          /\ m \notin occupiedSlots(rs, p, d * Day)
                          /\ now < d * Day + m}}

NewRow(p, t) ==
  [status |-> "PENDING", pro |-> p, start |-> t, duration |-> 1,
   modified |-> FALSE, stamps |-> {}]

\* An id that no booking has yet.
AbsentRow(p) ==
  [status |-> "ABSENT", pro |-> p, start |-> 0, duration |-> 1,
   modified |-> FALSE, stamps |-> {}]

expiresAt(r) == r.start + ExpiryDelay

\* Mutant: two bookings conflict only when they start together.
SameStartConflict(rs, b) ==
  \E c \in OfDay(rs, rs[b].pro, rs[b].start, {"CONFIRMED"}) : rs[c].start = rs[b].start

\* The step-6 check of the two confirming handlers.  It does not leave b out:
\* when another request has already confirmed b, b conflicts with itself.
ConfirmConflict(rs, b) ==
  \E c \in OfDay(rs, rs[b].pro, rs[b].start, {"CONFIRMED"}) : overlaps(rs[b], rs[c])

\* Mutant: the bookings that wait for their client are forgotten.
CompetingPending(rs, b) ==
  {c \in OfDay(rs, rs[b].pro, rs[b].start, {"PENDING"}) : c # b /\ overlaps(rs[b], rs[c])}

\* competingBookings: the open bookings that confirming b closes.
Competing(rs, b) ==
  {c \in OfDay(rs, rs[b].pro, rs[b].start, Open) : c # b /\ overlaps(rs[b], rs[c])}

\* The check of updateBooking: bookings that START inside the longer interval.
ModifyConflict(rs, b, d) ==
  \E c \in Bookings \ {b} :
    /\ rs[c].status \in Open \cup {"CONFIRMED"}
    /\ rs[c].pro = rs[b].pro
    /\ rs[b].start <= rs[c].start
    /\ rs[c].start < rs[b].start + d * Hour

\* Mutant: any booking that ends before b starts counts as the previous one.
AnyEarlier(rs, b) ==
  LET ends == {c \in OfDay(rs, rs[b].pro, rs[b].start, {"CONFIRMED"}) :
                 computeEndTime(rs[c]) <= rs[b].start}
  IN  IF ends = {} THEN {{}} ELSE {{c} : c \in ends}

\* autoCompletePreviousBooking: the first confirmed booking, by start, that ends
\* exactly when b starts.  The result is the set of the choices: a singleton for
\* each first one, or the empty set alone when there is none.
BackToBack(rs, b) ==
  LET ends == {c \in OfDay(rs, rs[b].pro, rs[b].start, {"CONFIRMED"}) :
                 computeEndTime(rs[c]) = rs[b].start}
  IN  IF ends = {} THEN {{}}
      ELSE {{c} : c \in {c \in ends : \A e \in ends : rs[c].start <= rs[e].start}}

\* Mutants: the cron forgets the status, or the bookings that wait for a client.
DueAnyStatus(rs, t) == {b \in Bookings : rs[b].status # "ABSENT" /\ expiresAt(rs[b]) < t}
DuePending(rs, t) == {b \in Bookings : rs[b].status = "PENDING" /\ expiresAt(rs[b]) < t}

\* What the cron selects when it runs at time t.
Due(rs, t) == {b \in Bookings : rs[b].status \in Open /\ expiresAt(rs[b]) < t}

\* A row that gets a status and the timestamp written with it.
Stamp(r, status, column) ==
  [r EXCEPT !.status = status, !.stamps = @ \cup {column}]

\* Mutant: the client is not asked.
ModifiedSilently(r, d) == [r EXCEPT !.duration = d, !.modified = TRUE]

Modified(r, d) ==
  [r EXCEPT !.status = "WAITING_FOR_CLIENT", !.duration = d, !.modified = TRUE]

CancelledByClient(r, now) ==
  Stamp(r, IF r.start <= now + LateNotice THEN "CANCELLED_BY_CLIENT_LATE"
                                          ELSE "CANCELLED_BY_CLIENT", "cancelledAt")

=============================================================================
