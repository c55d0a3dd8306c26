----------------------------- MODULE BookingTx -----------------------------
(***************************************************************************)
(* The handlers of Booking, statement by statement.  Requests run in       *)
(* parallel and the database isolates their transactions at READ           *)
(* COMMITTED, the default that no $transaction call of the code changes:   *)
(*   - a statement sees the rows committed so far and its transaction's    *)
(*     own writes, so what a transaction read may be stale when it writes; *)
(*   - a write locks its row until the transaction ends, and a writer that *)
(*     waited for a lock goes on from the row it then finds: a conditional *)
(*     updateMany checks its WHERE again, update by id checks nothing.     *)
(*                                                                         *)
(* A handler whose transaction only touches one row is one step: declining *)
(* completing and cancelling lock the row with their first statement.  The *)
(* others are a request with a program counter.                            *)
(***************************************************************************)
EXTENDS BookingData, FiniteSets

CONSTANTS
  Workers,       \* requests that the server can handle at the same time
  NoBooking,     \* what a request that names no booking yet is about
  MaxFailures,   \* bound on the requests that fail half-way
  HourMayPass    \* whether the clock runs while requests are in flight

ASSUME TxAssumption ==
  MaxFailures \in Nat /\ NoBooking \notin Bookings /\ HourMayPass \in BOOLEAN

VARIABLES
  rows, events, now,   \* the committed tables and the clock, as in Booking
  req,                 \* req[w]: what worker w is doing
  tx,                  \* tx[w]: the rows w has written and not committed
  failures,            \* requests that failed half-way so far
  raced                \* history: the bookings whose confirmations overlapped

Serial == INSTANCE Booking

tables == <<rows, events, now>>
vars == <<rows, events, now, req, tx, failures, raced>>

\* b: the booking a request is about; row: that row as the handler read it, or is
\* about to insert it; ids: what its last query returned and it still has to write.
Request(pc, b, row, ids) == [pc |-> pc, b |-> b, row |-> row, ids |-> ids]

NoRow == AbsentRow(CHOOSE p \in Pros : TRUE)
Idle == Request("idle", NoBooking, NoRow, {})
NoWrites == [b \in {} |-> NoRow]

Init ==
  /\ Serial!Init
  /\ req = [w \in Workers |-> Idle]
  /\ tx = [w \in Workers |-> NoWrites]
  /\ failures = 0 /\ raced = {}

\* No transaction but w's has locked b.
Free(w, b) == \A v \in Workers \ {w} : b \notin DOMAIN tx[v]

\* The table as a statement of w's transaction sees it.
View(w) == [b \in Bookings |-> IF b \in DOMAIN tx[w] THEN tx[w][b] ELSE rows[b]]

At(w, pc) == req[w].pc = pc

Goto(w, pc) == req' = [req EXCEPT ![w].pc = pc]

GotoWith(w, pc, ids) == req' = [req EXCEPT ![w].pc = pc, ![w].ids = ids]

Finish(w) == req' = [req EXCEPT ![w] = Idle]

\* A write inside w's transaction: locks b, is not visible to others yet.
Write(w, b, row) ==
  tx' = [tx EXCEPT ![w] = [c \in DOMAIN tx[w] \cup {b} |->
                             IF c = b THEN row ELSE tx[w][c]]]

EndTx(w) == tx' = [tx EXCEPT ![w] = NoWrites]

-----------------------------------------------------------------------------
\* updateBookingStatus with CONFIRMED, and respondToModification with accept.

Confirming(w, b) == req[w].b = b /\ req[w].pc \in {"check", "write", "compete", "sweep"}

\* findUnique, and the check of the status it returns.  The booking is not confirmed: what
\* an earlier confirmation of it has met is forgotten, unless it is still in flight.
BeginConfirm(w, b) ==
  /\ At(w, "idle")
  /\ rows[b].status \in Open
  /\ req' = [req EXCEPT ![w] = Request("check", b, rows[b], {})]
  /\ LET met == {c \in Bookings \ {b} : \E v \in Workers : Confirming(v, c)}
     IN  raced' = {s \in raced : b \in s => \E v \in Workers : Confirming(v, b)} \cup {{b, c} : c \in met}
  /\ UNCHANGED <<tables, tx, failures>>

\* The table with b's duration as the handler read it.
AsRead(w, rs) == [rs EXCEPT ![req[w].b].duration = req[w].row.duration]

\* findMany of the confirmed bookings of the day, and the conflict check.
CheckConflicts(w) ==
  /\ At(w, "check")
  /\ IF ConfirmConflict(AsRead(w, rows), req[w].b) THEN Finish(w) ELSE Goto(w, "write")
  /\ UNCHANGED <<tables, tx, failures, raced>>

\* Mutant: the update is sent outside the transaction.
WriteConfirmedAtOnce(w) ==
  /\ At(w, "write") /\ Free(w, req[w].b)
  /\ rows' = [rows EXCEPT ![req[w].b] = Stamp(@, "CONFIRMED", "confirmedAt")]
  /\ Goto(w, "compete")
  /\ UNCHANGED <<events, now, tx, failures, raced>>

\* update by id: whatever the status has become meanwhile.
WriteConfirmed(w) ==
  /\ At(w, "write") /\ Free(w, req[w].b)
  /\ Write(w, req[w].b, Stamp(rows[req[w].b], "CONFIRMED", "confirmedAt"))
  /\ Goto(w, "compete")
  /\ UNCHANGED <<tables, failures, raced>>

\* findMany of the open bookings of the day: those that overlap are to cancel.
FindCompeting(w) ==
  /\ At(w, "compete")
  /\ GotoWith(w, "sweep", Competing(AsRead(w, View(w)), req[w].b))
  /\ UNCHANGED <<tables, tx, failures, raced>>

\* update by id of one of them.
CancelCompeting(w, c) ==
  /\ At(w, "sweep") /\ c \in req[w].ids /\ Free(w, c)
  /\ Write(w, c, Stamp(rows[c], "CANCELLED_AUTO_OVERLAP", "cancelledAt"))
  /\ GotoWith(w, "sweep", req[w].ids \ {c})
  /\ UNCHANGED <<tables, failures, raced>>

\* The events are inserted by the same transaction, one per row written.
CommitConfirm(w) ==
  LET role == IF req[w].row.status = "PENDING" THEN "PRO" ELSE "CLIENT"
  IN  /\ At(w, "sweep") /\ req[w].ids = {}
      /\ rows' = View(w)
      /\ events' = [c \in Bookings |->
           IF c = req[w].b THEN events[c] \cup {<<"CONFIRMED", role>>}
           ELSE IF c \in DOMAIN tx[w] THEN events[c] \cup {<<"CANCELLED", "NONE">>}
           ELSE events[c]]
      /\ EndTx(w)
      /\ Goto(w, "domino")
      /\ UNCHANGED <<now, failures, raced>>

\* autoCompletePreviousBooking: findMany, then update by id, in no transaction.
FindPrevious(w) ==
  /\ At(w, "domino")
  /\ \E P \in BackToBack(rows, req[w].b) :
       IF P = {} THEN Finish(w) ELSE GotoWith(w, "previous", P)
  /\ UNCHANGED <<tables, tx, failures, raced>>

CompletePrevious(w) ==
  /\ At(w, "previous") /\ \A c \in req[w].ids : Free(w, c)
  /\ rows' = Serial!AutoComplete(rows, req[w].ids)
  /\ Finish(w)
  /\ UNCHANGED <<events, now, tx, failures, raced>>

-----------------------------------------------------------------------------
\* respondToModification with accept = false: three statements, no transaction.
BeginRefuse(w, b) ==
  /\ At(w, "idle")
  /\ rows[b].status = "WAITING_FOR_CLIENT"
  /\ req' = [req EXCEPT ![w] = Request("refuse", b, rows[b], {})]
  /\ UNCHANGED <<tables, tx, failures, raced>>

WriteRefusal(w) ==
  /\ At(w, "refuse") /\ Free(w, req[w].b)
  /\ rows' = [rows EXCEPT ![req[w].b].status = "DECLINED"]
  /\ Goto(w, "refused")
  /\ UNCHANGED <<events, now, tx, failures, raced>>

RecordRefusal(w) ==
  /\ At(w, "refused")
  /\ Serial!Record({req[w].b}, "DECLINED", "CLIENT")
  /\ Finish(w)
  /\ UNCHANGED <<rows, now, tx, failures, raced>>

\* createBooking: the availability check, then the insertion.  Bookings bounds the
\* insertions: the last guard keeps an id for each one in flight.
BeginCreate(w, p, t) ==
  /\ At(w, "idle")
  /\ Cardinality({v \in Workers : At(v, "insert")})
       < Cardinality({b \in Bookings : rows[b].status = "ABSENT"})
  /\ SlotAccepted(rows, p, t, now)
  /\ req' = [req EXCEPT ![w] = Request("insert", NoBooking, NewRow(p, t), {})]
  /\ UNCHANGED <<tables, tx, failures, raced>>

Insert(w, b) ==
  /\ At(w, "insert")
  /\ rows[b].status = "ABSENT"
  /\ rows' = [rows EXCEPT ![b] = req[w].row]
  /\ Serial!Record({b}, "CREATED", "CLIENT")
  /\ Finish(w)
  /\ UNCHANGED <<now, tx, failures, raced>>

\* Mutant: the WHERE of updateMany forgets the status.
BeginModifyAny(w, b, d) ==
  /\ At(w, "idle") /\ Free(w, b)
  /\ rows[b].status # "ABSENT" /\ ~rows[b].modified
  /\ Write(w, b, Modified(rows[b], d))
  /\ req' = [req EXCEPT ![w] = Request("modify", b, rows[b], {})]
  /\ UNCHANGED <<tables, failures, raced>>

\* updateBooking: a conditional updateMany, which re-checks its WHERE on the row
\* it locks, then the check of the consecutive slots, which commits or throws.
BeginModify(w, b, d) ==
  /\ At(w, "idle") /\ Free(w, b)
  /\ rows[b].status = "PENDING" /\ ~rows[b].modified
  /\ Write(w, b, Modified(rows[b], d))
  /\ req' = [req EXCEPT ![w] = Request("modify", b, rows[b], {})]
  /\ UNCHANGED <<tables, failures, raced>>

\* Mutant: the transaction is left open.
EndModifyLeaks(w) ==
  /\ At(w, "modify")
  /\ Finish(w)
  /\ UNCHANGED <<tables, tx, failures, raced>>

\* Mutant: the check of the consecutive slots is left to the confirmation.
EndModifyUnchecked(w) ==
  /\ At(w, "modify")
  /\ rows' = View(w)
  /\ EndTx(w)
  /\ Finish(w)
  /\ UNCHANGED <<events, now, failures, raced>>

EndModify(w) ==
  LET b == req[w].b
      d == tx[w][b].duration
  IN  /\ At(w, "modify")
      /\ rows' = IF d > 1 /\ ModifyConflict(rows, b, d) THEN rows ELSE View(w)
      /\ EndTx(w)
      /\ Finish(w)
      /\ UNCHANGED <<events, now, failures, raced>>

\* expireBookings: a query outside the transaction, then updateMany by ids.
BeginExpire(w) ==
  /\ At(w, "idle")
  /\ Due(rows, now) # {}
  /\ req' = [req EXCEPT ![w] = Request("expire", NoBooking, NoRow, Due(rows, now))]
  /\ UNCHANGED <<tables, tx, failures, raced>>

WriteExpired(w) ==
  /\ At(w, "expire") /\ \A b \in req[w].ids : Free(w, b)
  /\ rows' = [b \in Bookings |-> IF b \in req[w].ids
                                 THEN [rows[b] EXCEPT !.status = "EXPIRED"]
                                 ELSE rows[b]]
  /\ Serial!Record(req[w].ids, "EXPIRED", "NONE")
  /\ Finish(w)
  /\ UNCHANGED <<now, tx, failures, raced>>

-----------------------------------------------------------------------------
\* updateBookingStatus with DECLINED, completeBooking and cancelBooking.
OneRowHandler(b) ==
  /\ \E w \in Workers : At(w, "idle") /\ Free(w, b)
  /\ Serial!Decline(b) \/ Serial!Complete(b)
       \/ Serial!CancelByClient(b) \/ Serial!CancelByPro(b)
  /\ UNCHANGED <<req, tx, failures, raced>>

\* The rows that w's next statement writes, and the workers that hold them.
Wants(w) ==
  CASE req[w].pc \in {"write", "refuse"} -> {req[w].b}
    [] req[w].pc \in {"sweep", "previous", "expire"} -> req[w].ids
    [] OTHER -> {}

WaitsFor(w) == {v \in Workers \ {w} : Wants(w) \cap DOMAIN tx[v] # {}}

\* The database finds a cycle of transactions that wait for each other and
\* aborts one of them: its handler throws.
DeadlockVictim(w) ==
  /\ DOMAIN tx[w] # {}
  /\ \E S \in SUBSET Workers : w \in S /\ \A v \in S : WaitsFor(v) \cap S # {}
  /\ EndTx(w) /\ Finish(w)
  /\ UNCHANGED <<tables, failures, raced>>

\* A request fails between two statements: the server stops, the connection is
\* lost, or the transaction outlives Prisma's timeout.  What it has not
\* committed is rolled back, what it has not done yet is never done.
Fail(w) ==
  /\ ~At(w, "idle") /\ failures < MaxFailures
  /\ EndTx(w) /\ Finish(w)
  /\ failures' = failures + 1
  /\ UNCHANGED <<tables, raced>>

Tick ==
  /\ HourMayPass \/ \A w \in Workers : At(w, "idle")
  /\ Serial!Tick
  /\ UNCHANGED <<req, tx, failures, raced>>

\* The next statement of a request in flight.
Step(w) ==
  \/ CheckConflicts(w) \/ WriteConfirmed(w) \/ FindCompeting(w)
  \/ (\E c \in Bookings : CancelCompeting(w, c))
  \/ CommitConfirm(w) \/ FindPrevious(w) \/ CompletePrevious(w)
  \/ WriteRefusal(w) \/ RecordRefusal(w)
  \/ (\E b \in Bookings : Insert(w, b))
  \/ EndModify(w) \/ WriteExpired(w) \/ DeadlockVictim(w)

Begin(w) ==
  \/ \E b \in Bookings :
       \/ BeginConfirm(w, b) \/ BeginRefuse(w, b)
       \/ \E d \in 1..MaxDuration : BeginModify(w, b, d)
  \/ \E p \in Pros, t \in Starts : BeginCreate(w, p, t)
  \/ BeginExpire(w)

Next ==
  \/ \E w \in Workers : Begin(w) \/ Step(w) \/ Fail(w)
  \/ \E b \in Bookings : OneRowHandler(b)
  \/ Tick

Spec == Init /\ [][Next]_vars

\* The server goes on with what it has begun, the database serves the waiters of
\* a lock in turn, the clock and the cron run.  Fairness is strong where a lock
\* that others take again and again, or a worker that is given other requests
\* again and again, is not free all the time.
FairSpec ==
  /\ Spec
  /\ \A w \in Workers : SF_vars(Step(w))
  /\ SF_vars(\E w \in Workers : BeginExpire(w))
  /\ WF_vars(Tick)

-----------------------------------------------------------------------------
\* Whatever the interleaving and the failures, what a transaction writes and the
\* event it inserts are committed together or not at all.
StampsMatchEvents ==
  \A b \in Bookings :
    /\ "confirmedAt" \in rows[b].stamps <=> "CONFIRMED" \in Serial!EventTypes(b)
    /\ "cancelledAt" \in rows[b].stamps <=> "CANCELLED" \in Serial!EventTypes(b)
    /\ "COMPLETED" \in Serial!EventTypes(b) => "completedAt" \in rows[b].stamps

\* A booking that has left the open statuses never becomes open again, and its
\* duration is settled once the pro has proposed one or the request is answered:
\* the transaction that reverts a modification never uncovers an older row.
NothingReopens ==
  [][\A b \in Bookings :
       /\ rows[b].status \notin Open \cup {"ABSENT"} => rows'[b].status \notin Open
       /\ rows[b].status \notin {"PENDING", "ABSENT"}
          => /\ rows'[b].duration = rows[b].duration
             /\ rows'[b].modified = rows[b].modified]_vars

\* No request hangs: neither on a lock nor on another request that waits for it.
EveryRequestReturns == \A w \in Workers : ~At(w, "idle") ~> At(w, "idle")

\* A request that nobody answers ends up closed, also when requests interleave.
EveryBookingIsClosed == Serial!EveryRequestIsClosed

\* A professional is booked twice only when the confirmations of the two bookings
\* overlapped: a duration that is proposed, a request that is cancelled and a confirmation
\* that is repeated while one is in flight do not suffice.
DoubleBookingOnlyByOverlap ==
  \A b, c \in Bookings :
    /\ b # c /\ rows[b].status = "CONFIRMED" /\ rows[c].status = "CONFIRMED"
    /\ rows[b].pro = rows[c].pro /\ DayOf(rows[b].start) = DayOf(rows[c].start)
    /\ overlaps(rows[b], rows[c])
    => {b, c} \in raced

-----------------------------------------------------------------------------
\* What Booking promises of one request at a time, asked of concurrent ones.

\* PRD.md, aims of the MVP: no double booking.
NoDoubleBooking == Serial!NoDoubleBooking

-----------------------------------------------------------------------------
\* One request at a time, none of which fails, implements Booking: the whole
\* handler of Booking happens when its first write is committed, so the
\* mapping adds what the request in flight has still to write.
RowsAhead ==
  IF \E w \in Workers : At(w, "domino") \/ At(w, "previous")
  THEN LET w == CHOOSE w \in Workers : At(w, "domino") \/ At(w, "previous")
       IN  Serial!AutoComplete(rows, IF At(w, "previous") THEN req[w].ids
                                     ELSE UNION BackToBack(rows, req[w].b))
  ELSE rows

EventsAhead ==
  [b \in Bookings |->
     IF \E w \in Workers : At(w, "refused") /\ req[w].b = b
     THEN events[b] \cup {<<"DECLINED", "CLIENT">>}
     ELSE events[b]]

Abstract == INSTANCE Booking WITH rows <- RowsAhead, events <- EventsAhead

ImplementsBooking == Abstract!Spec

=============================================================================
