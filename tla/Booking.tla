------------------------------ MODULE Booking ------------------------------
(***************************************************************************)
(* BookingService and BookingExpirationService when handlers run one after *)
(* the other: one action per handler, from its first query to what it does *)
(* after its transaction.  This is what the code promises to a caller, and *)
(* what its unit tests exercise.  BookingTx splits the same handlers into  *)
(* the statements they send to the database and lets requests interleave.  *)
(*                                                                         *)
(* A handler that throws leaves the tables as they were, so a refusal is a *)
(* stuttering step: an action's guard is the conjunction of the checks its *)
(* handler passes.  Role and ownership checks are folded into the actions: *)
(* "PRO" handlers are called by the row's pro, "CLIENT" ones by its client.*)
(***************************************************************************)
EXTENDS BookingData

VARIABLES
  rows,      \* the Booking table
  events,    \* the BookingEvent table: what is recorded of each booking
  now        \* the server's clock

vars == <<rows, events, now>>

Init ==
  /\ rows \in [Bookings -> {AbsentRow(p) : p \in Pros}]
  /\ events = [b \in Bookings |-> {}]
  /\ now = 0

\* createBookingEvent for every booking of S.
Record(S, type, role) ==
  events' = [b \in Bookings |-> IF b \in S THEN events[b] \cup {<<type, role>>}
                                           ELSE events[b]]

-----------------------------------------------------------------------------
\* createBooking.  The city, address, KYC and service checks that precede the
\* transaction read tables that this component never writes.
Create(b, p, t) ==
  /\ rows[b].status = "ABSENT"
  /\ SlotAccepted(rows, p, t, now)
  /\ rows' = [rows EXCEPT ![b] = NewRow(p, t)]
  /\ Record({b}, "CREATED", "CLIENT")
  /\ UNCHANGED now

\* updateBookingStatus with DECLINED.
Decline(b) ==
  /\ rows[b].status = "PENDING"
  /\ rows' = [rows EXCEPT ![b].status = "DECLINED"]
  /\ Record({b}, "DECLINED", "PRO")
  /\ UNCHANGED now

\* The table after the transaction that confirms b ("Winner-Takes-All"): b is
\* confirmed and the open bookings it overlaps are cancelled.
WinnerTakesAll(b) ==
  [c \in Bookings |->
     IF c = b THEN Stamp(rows[b], "CONFIRMED", "confirmedAt")
     ELSE IF c \in Competing(rows, b)
            THEN Stamp(rows[c], "CANCELLED_AUTO_OVERLAP", "cancelledAt")
            ELSE rows[c]]

\* autoCompletePreviousBooking on table rs: P is completed, and no event recorded.
AutoComplete(rs, P) ==
  [c \in Bookings |-> IF c \in P THEN Stamp(rs[c], "COMPLETED", "completedAt")
                                 ELSE rs[c]]

\* What updateBookingStatus with CONFIRMED and respondToModification with
\* accept share, from the check of the status on.
ConfirmFrom(b, status, role) ==
  /\ rows[b].status = status
  /\ ~ConfirmConflict(rows, b)
  /\ \E P \in BackToBack(WinnerTakesAll(b), b) :
       rows' = AutoComplete(WinnerTakesAll(b), P)
  /\ events' = [c \in Bookings |->
       IF c = b THEN events[b] \cup {<<"CONFIRMED", role>>}
       ELSE IF c \in Competing(rows, b) THEN events[c] \cup {<<"CANCELLED", "NONE">>}
       ELSE events[c]]
  /\ UNCHANGED now

Confirm(b) == ConfirmFrom(b, "PENDING", "PRO")

\* respondToModification with accept = true.
Accept(b) == ConfirmFrom(b, "WAITING_FOR_CLIENT", "CLIENT")

\* respondToModification with accept = false.
Refuse(b) ==
  /\ rows[b].status = "WAITING_FOR_CLIENT"
  /\ rows' = [rows EXCEPT ![b].status = "DECLINED"]
  /\ Record({b}, "DECLINED", "CLIENT")
  /\ UNCHANGED now

\* updateBooking: the pro proposes another duration, once; no event is recorded.
Modify(b, d) ==
  /\ rows[b].status = "PENDING" /\ ~rows[b].modified
  /\ d > 1 => ~ModifyConflict(rows, b, d)
  /\ rows' = [rows EXCEPT ![b] = Modified(@, d)]
  /\ UNCHANGED <<events, now>>

\* completeBooking.
Complete(b) ==
  /\ rows[b].status = "CONFIRMED"
  /\ computeEndTime(rows[b]) <= now
  /\ rows' = [rows EXCEPT ![b] = Stamp(@, "COMPLETED", "completedAt")]
  /\ Record({b}, "COMPLETED", "PRO")
  /\ UNCHANGED now

\* cancelBooking by the client: late when the slot is LateNotice away or less.
CancelByClient(b) ==
  /\ rows[b].status = "CONFIRMED"
  /\ rows' = [rows EXCEPT ![b] = CancelledByClient(@, now)]
  /\ Record({b}, "CANCELLED", "CLIENT")
  /\ UNCHANGED now

\* cancelBooking by the pro, who has an approved KYC and gives a reason.
CancelByPro(b) ==
  /\ rows[b].status = "CONFIRMED"
  /\ rows' = [rows EXCEPT ![b] = Stamp(@, "CANCELLED_BY_PRO", "cancelledAt")]
  /\ Record({b}, "CANCELLED", "PRO")
  /\ UNCHANGED now

\* expireBookings, the hourly cron.
Expire ==
  /\ Due(rows, now) # {}
  /\ rows' = [b \in Bookings |-> IF b \in Due(rows, now)
                                 THEN [rows[b] EXCEPT !.status = "EXPIRED"]
                                 ELSE rows[b]]
  /\ Record(Due(rows, now), "EXPIRED", "NONE")
  /\ UNCHANGED now

Tick ==
  /\ now < MaxTime
  /\ now' = now + 1
  /\ UNCHANGED <<rows, events>>

Next ==
  \/ \E b \in Bookings :
       \/ \E p \in Pros, t \in Starts : Create(b, p, t)
       \/ Decline(b) \/ Confirm(b)
       \/ \E d \in 1..MaxDuration : Modify(b, d)
       \/ Accept(b) \/ Refuse(b)
       \/ Complete(b) \/ CancelByClient(b) \/ CancelByPro(b)
  \/ Expire
  \/ Tick

Spec == Init /\ [][Next]_vars

-----------------------------------------------------------------------------
\* Every column holds a value of its type.
TypeOK ==
  /\ rows \in [Bookings -> Row]
  /\ events \in [Bookings -> SUBSET Event]
  /\ now \in Nat

SameDay(b, c) == rows[b].pro = rows[c].pro /\ DayOf(rows[b].start) = DayOf(rows[c].start)

\* No double booking: a pro never has two confirmed bookings that start the same
\* day and share a minute, whatever durations were proposed and accepted since.
NoDoubleBooking ==
  \A b, c \in Bookings :
    /\ b # c /\ SameDay(b, c)
    /\ rows[b].status = "CONFIRMED" /\ rows[c].status = "CONFIRMED"
    => ~overlaps(rows[b], rows[c])

\* Winner takes all, for good: while a booking is confirmed no open booking of
\* the same pro and day overlaps it, neither one that lost against it, nor one
\* created later, nor one made longer later.  It needs slots on the hour.
NoRivalOfConfirmed ==
  \A b, c \in Bookings :
    rows[b].status = "CONFIRMED" /\ rows[c].status \in Open /\ SameDay(b, c)
    => ~overlaps(rows[b], rows[c])

\* A booking that was confirmed with a duration its client did not ask for was
\* confirmed by the client.
ConsentToNewDuration ==
  \A b \in Bookings :
    "confirmedAt" \in rows[b].stamps /\ rows[b].modified
    => <<"CONFIRMED", "CLIENT">> \in events[b]

EventTypes(b) == {e[1] : e \in events[b]}

\* What the event table says of a booking and what its row says agree: one
\* outcome at most, with the timestamp that belongs to it.  A completion alone
\* may lack its event: the back-to-back automation records none.
HistoryMatchesStatus ==
  \A b \in Bookings :
    LET st == rows[b].status
        ended == EventTypes(b) \ {"CREATED", "CONFIRMED"}
    IN  /\ "CONFIRMED" \in EventTypes(b) <=> "confirmedAt" \in rows[b].stamps
        /\ "cancelledAt" \in rows[b].stamps <=> st \in Cancelled
        /\ "completedAt" \in rows[b].stamps <=> st = "COMPLETED"
        /\ ended \subseteq (CASE st \in Cancelled   -> {"CANCELLED"}
                              [] st = "COMPLETED"   -> {"COMPLETED"}
                              [] st = "DECLINED"    -> {"DECLINED"}
                              [] st = "EXPIRED"     -> {"EXPIRED"}
                              [] OTHER              -> {})
        /\ st \in Final \ {"COMPLETED"} => ended # {}

\* A booking completed before its end was closed by the automation: a booking of
\* the same pro that starts exactly at its end has been confirmed.
EarlyCompletionHasSuccessor ==
  \A b \in Bookings :
    rows[b].status = "COMPLETED" /\ now < computeEndTime(rows[b])
    => \E c \in Bookings : /\ rows[c].pro = rows[b].pro
                           /\ rows[c].start = computeEndTime(rows[b])
                           /\ "confirmedAt" \in rows[c].stamps

\* A slot that getAvailableSlots shows is one that createBooking accepts, and the
\* hour it offers is free of the bookings confirmed that day.
OfferedSlotsAreFree ==
  \A p \in Pros, d \in {DayOf(t) : t \in Starts} :
    \A t \in AvailableSlots(rows, p, d, now) :
      /\ SlotAccepted(rows, p, t, now)
      /\ \A b \in OfDay(rows, p, t, {"CONFIRMED"}) : ~overlaps(rows[b], NewRow(p, t))

\* Nobody waits for ever: a request that nobody answers ends up closed.
EveryRequestIsClosed ==
  \A b \in Bookings : rows[b].status \in Open ~> rows[b].status \notin Open

=============================================================================
