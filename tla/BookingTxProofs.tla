-------------------------- MODULE BookingTxProofs --------------------------
(***************************************************************************)
(* Theorems about BookingTx, for every number of bookings, professionals   *)
(* and requests in flight, every failure, and a clock that runs meanwhile. *)
(***************************************************************************)
EXTENDS BookingTx, TLAPS

-----------------------------------------------------------------------------
(* The inductive invariant *)

\* Where a request is about one booking.
AboutOne == {"check", "write", "compete", "sweep", "domino", "previous",
             "refuse", "refused", "modify"}

Pcs == AboutOne \cup {"idle", "insert", "expire"}

Requests == [pc : Pcs, b : Bookings \cup {NoBooking}, row : Row \cup {NoRow},
             ids : SUBSET Bookings]

TxTypeOK ==
  /\ rows \in [Bookings -> Row]
  /\ events \in [Bookings -> SUBSET Event]
  /\ now \in Nat
  /\ req \in [Workers -> Requests]
  /\ DOMAIN tx = Workers
  /\ \A w \in Workers : /\ DOMAIN tx[w] \subseteq Bookings
                        /\ \A b \in DOMAIN tx[w] : tx[w][b] \in Row
  /\ failures \in 0..MaxFailures

\* The bookings that a request knows exist, and what it inserts is new.
Knows(w) ==
  /\ req[w].pc \in AboutOne
     => req[w].b \in Bookings /\ rows[req[w].b].status # "ABSENT"
  /\ req[w].pc \notin {"sweep", "previous", "expire"} => req[w].ids = {}
  /\ \A c \in req[w].ids : rows[c].status # "ABSENT"
  /\ At(w, "insert") => /\ req[w].row \in Row
                        /\ req[w].row.status = "PENDING" /\ req[w].row.stamps = {}

\* What a transaction has written of a row is its next state: the row is locked, so
\* the committed one is still the row that the transaction wrote from.
Holds(w) ==
  /\ \A c \in DOMAIN tx[w] : rows[c].status # "ABSENT"
  /\ req[w].pc \in {"compete", "sweep"} =>
       /\ req[w].b \in DOMAIN tx[w] /\ req[w].b \notin req[w].ids
       /\ \A c \in DOMAIN tx[w] :
            tx[w][c] = IF c = req[w].b
                         THEN Stamp(rows[c], "CONFIRMED", "confirmedAt")
                         ELSE Stamp(rows[c], "CANCELLED_AUTO_OVERLAP", "cancelledAt")
  /\ At(w, "modify") =>
       /\ DOMAIN tx[w] = {req[w].b}
       /\ rows[req[w].b].status = "PENDING" /\ ~rows[req[w].b].modified
       /\ \E d \in 1..MaxDuration : tx[w][req[w].b] = Modified(rows[req[w].b], d)
  /\ req[w].pc \notin {"compete", "sweep", "modify"} => DOMAIN tx[w] = {}

\* A row is locked by one transaction at most.
Exclusive == \A v, w \in Workers : v # w => DOMAIN tx[v] \cap DOMAIN tx[w] = {}

\* A row agrees with the types of its events: StampsMatchEvents of one booking, and
\* an id without a booking has no timestamp.
Match(r, T) ==
  /\ "confirmedAt" \in r.stamps <=> "CONFIRMED" \in T
  /\ "cancelledAt" \in r.stamps <=> "CANCELLED" \in T
  /\ "COMPLETED" \in T => "completedAt" \in r.stamps
  /\ r.status = "ABSENT" => r.stamps = {}

Matching == \A b \in Bookings : Match(rows[b], Serial!EventTypes(b))

TxInv ==
  /\ TxTypeOK
  /\ \A w \in Workers : Knows(w) /\ Holds(w)
  /\ Exclusive

-----------------------------------------------------------------------------
(* Rows and statements *)

\* A row keeps its type, its slot and its duration when a status and a timestamp are
\* written to it.
LEMMA StampRow ==
  ASSUME NEW r \in Row, NEW s \in Status, NEW col \in Stamps
  PROVE  LET q == Stamp(r, s, col)
         IN  /\ q \in Row /\ q.status = s /\ q.stamps = r.stamps \cup {col}
             /\ q.duration = r.duration /\ q.modified = r.modified
BY DEF Stamp, Row, Status

\* The definitions of BookingData, as the handlers of Booking use them.
LEMMA SerialData ==
  /\ \A r, s, col : Serial!Stamp(r, s, col) = Stamp(r, s, col)
  /\ \A r, t : Serial!CancelledByClient(r, t) = CancelledByClient(r, t)
  /\ \A p : Serial!AbsentRow(p) = AbsentRow(p)
BY DEF Serial!Stamp, Stamp, Serial!CancelledByClient, CancelledByClient, Serial!AbsentRow,
   AbsentRow

\* The two stamps of a confirmation, and the one of a completion.
LEMMA Stamped ==
  ASSUME NEW r \in Row
  PROVE  /\ Stamp(r, "CONFIRMED", "confirmedAt") \in Row
         /\ Stamp(r, "CANCELLED_AUTO_OVERLAP", "cancelledAt") \in Row
         /\ Stamp(r, "COMPLETED", "completedAt") \in Row
BY StampRow DEF Status, Final, Cancelled, Stamps

LEMMA ModifiedRow ==
  ASSUME NEW r \in Row, NEW d \in 1..MaxDuration
  PROVE  /\ Modified(r, d) \in Row /\ Modified(r, d).status = "WAITING_FOR_CLIENT"
         /\ Modified(r, d).stamps = r.stamps
BY DEF Modified, Row, Status, Open

LEMMA NewRowType ==
  ASSUME NEW p \in Pros, NEW t \in Starts
  PROVE  /\ NewRow(p, t) \in Row /\ NewRow(p, t).status = "PENDING"
         /\ NewRow(p, t).stamps = {}
BY DataAssumption DEF NewRow, Row, Status, Open

\* A row whose status alone is written.
LEMMA StatusRow ==
  ASSUME NEW r \in Row, NEW s \in {"DECLINED", "EXPIRED"}
  PROVE  LET q == [r EXCEPT !.status = s]
         IN  /\ q \in Row /\ q.status = s /\ q.stamps = r.stamps
             /\ q.duration = r.duration /\ q.modified = r.modified
BY DEF Row, Status, Final

\* What the queries return are bookings.
LEMMA Queries ==
  ASSUME NEW rs, NEW b
  PROVE  /\ Competing(rs, b) \subseteq Bookings \ {b}
         /\ \A c \in Competing(rs, b) : rs[c].status \in Open
         /\ \A P \in BackToBack(rs, b) :
              P \subseteq Bookings /\ \A c \in P : rs[c].status = "CONFIRMED"
<1>1. \A p, t, st : \A c \in OfDay(rs, p, t, st) : c \in Bookings /\ rs[c].status \in st
  BY DEF OfDay
<1>2. \A P \in BackToBack(rs, b) :
        P \subseteq Bookings /\ \A c \in P : rs[c].status = "CONFIRMED"
  <2> DEFINE ends == {c \in OfDay(rs, rs[b].pro, rs[b].start, {"CONFIRMED"}) :
                        computeEndTime(rs[c]) = rs[b].start}
  <2>1. \A P \in BackToBack(rs, b) : P \subseteq ends
    BY DEF BackToBack
  <2> QED
    BY <1>1, <2>1
<1>3. /\ Competing(rs, b) \subseteq Bookings \ {b}
      /\ \A c \in Competing(rs, b) : rs[c].status \in Open
  BY <1>1 DEF Competing
<1> QED
  BY <1>2, <1>3

LEMMA DueAreOpen ==
  ASSUME NEW rs, NEW t
  PROVE  Due(rs, t) \subseteq Bookings /\ \A c \in Due(rs, t) : rs[c].status \in Open
BY DEF Due

\* The event table stays well typed when events are recorded.
LEMMA Recorded ==
  ASSUME TxTypeOK, NEW S, NEW type, NEW role, <<type, role>> \in Event,
         Serial!Record(S, type, role)
  PROVE  events' \in [Bookings -> SUBSET Event]
BY DEF Serial!Record, TxTypeOK

-----------------------------------------------------------------------------
(* What a statement of one request does to the others *)

\* A statement of w leaves the other requests and their transactions alone.
OnlyMoves(w) ==
  /\ DOMAIN tx' = Workers
  /\ \A v \in Workers \ {w} : req'[v] = req[v] /\ tx'[v] = tx[v]

\* It does not write a row that another transaction holds, and no row disappears.
Respects(w) ==
  /\ \A v \in Workers \ {w} : \A b \in DOMAIN tx[v] : rows'[b] = rows[b]
  /\ \A b \in Bookings : rows[b].status # "ABSENT" => rows'[b].status # "ABSENT"

\* Then what the others know and hold stays true.
LEMMA OthersUndisturbed ==
  ASSUME TxInv, TxTypeOK', NEW w \in Workers, OnlyMoves(w), Respects(w),
         \A v \in Workers \ {w} : DOMAIN tx'[w] \cap DOMAIN tx[v] = {},
         (Knows(w) /\ Holds(w))'
  PROVE  TxInv'
<1>1. ASSUME NEW v \in Workers \ {w} PROVE (Knows(v) /\ Holds(v))'
  <2>1. req'[v] = req[v] /\ tx'[v] = tx[v]
    BY DEF OnlyMoves
  <2>2. Knows(v) /\ Holds(v) /\ req[v] \in Requests /\ DOMAIN tx[v] \subseteq Bookings
    BY DEF TxInv, TxTypeOK
  <2>3. Knows(v)'
    BY <2>1, <2>2 DEF Knows, At, Respects, Requests
  <2>4. \A b \in DOMAIN tx[v] : rows'[b] = rows[b]
    BY DEF Respects
  <2>5. Holds(v)'
    <3>1. \A c \in DOMAIN tx[v] : rows'[c].status # "ABSENT"
      BY <2>2, <2>4 DEF Holds
    <3>2. ASSUME req[v].pc \in {"compete", "sweep"}
          PROVE  /\ req[v].b \in DOMAIN tx[v] /\ req[v].b \notin req[v].ids
                 /\ \A c \in DOMAIN tx[v] :
                      tx[v][c] = IF c = req[v].b
                         THEN Stamp(rows'[c], "CONFIRMED", "confirmedAt")
                         ELSE Stamp(rows'[c], "CANCELLED_AUTO_OVERLAP", "cancelledAt")
      BY <2>2, <2>4, <3>2 DEF Holds
    <3>3. ASSUME At(v, "modify")
          PROVE  /\ DOMAIN tx[v] = {req[v].b} /\ rows'[req[v].b] = rows[req[v].b]
      BY <2>2, <2>4, <3>3 DEF Holds
    <3> QED
      BY <2>1, <2>2, <3>1, <3>2, <3>3 DEF Holds, At
  <2> QED
    BY <2>3, <2>5
<1>2. Exclusive'
  BY DEF OnlyMoves, TxInv, Exclusive
<1> QED
  BY <1>1, <1>2 DEF TxInv

-----------------------------------------------------------------------------
(* The invariant, statement by statement *)

\* A write adds one row to those that the transaction holds.
LEMMA Written ==
  ASSUME TxTypeOK, NEW w \in Workers, NEW b \in Bookings, NEW r \in Row, Write(w, b, r)
  PROVE  /\ DOMAIN tx' = Workers
         /\ \A v \in Workers \ {w} : tx'[v] = tx[v]
         /\ DOMAIN tx'[w] = DOMAIN tx[w] \cup {b}
         /\ \A c \in DOMAIN tx'[w] : tx'[w][c] = IF c = b THEN r ELSE tx[w][c]
         /\ \A v \in Workers : /\ DOMAIN tx'[v] \subseteq Bookings
                               /\ \A c \in DOMAIN tx'[v] : tx'[v][c] \in Row
<1>1. /\ DOMAIN tx' = Workers
      /\ \A v \in Workers \ {w} : tx'[v] = tx[v]
      /\ tx'[w] = [c \in DOMAIN tx[w] \cup {b} |-> IF c = b THEN r ELSE tx[w][c]]
  BY DEF Write, TxTypeOK
<1>2. /\ DOMAIN tx'[w] = DOMAIN tx[w] \cup {b}
      /\ \A c \in DOMAIN tx'[w] : tx'[w][c] = IF c = b THEN r ELSE tx[w][c]
  BY <1>1
<1>3. ASSUME NEW v \in Workers
      PROVE  /\ DOMAIN tx'[v] \subseteq Bookings
             /\ \A c \in DOMAIN tx'[v] : tx'[v][c] \in Row
  <2>1. CASE v = w
    BY <1>2, <2>1 DEF TxTypeOK
  <2>2. CASE v # w
    BY <1>1, <2>2 DEF TxTypeOK
  <2> QED
    BY <2>1, <2>2
<1> QED
  BY <1>1, <1>2, <1>3

\* A transaction that ends, committed or not, holds nothing any more.
LEMMA Ended ==
  ASSUME TxTypeOK, NEW w \in Workers, EndTx(w)
  PROVE  /\ DOMAIN tx' = Workers
         /\ \A v \in Workers \ {w} : tx'[v] = tx[v]
         /\ DOMAIN tx'[w] = {}
         /\ \A v \in Workers : /\ DOMAIN tx'[v] \subseteq Bookings
                               /\ \A c \in DOMAIN tx'[v] : tx'[v][c] \in Row
<1>1. /\ DOMAIN tx' = Workers
      /\ \A v \in Workers \ {w} : tx'[v] = tx[v]
      /\ tx'[w] = NoWrites
  BY DEF EndTx, TxTypeOK
<1>2. DOMAIN NoWrites = {}
  BY DEF NoWrites
<1>3. ASSUME NEW v \in Workers
      PROVE  /\ DOMAIN tx'[v] \subseteq Bookings
             /\ \A c \in DOMAIN tx'[v] : tx'[v][c] \in Row
  <2>1. CASE v = w
    BY <1>1, <1>2, <2>1
  <2>2. CASE v # w
    BY <1>1, <2>2 DEF TxTypeOK
  <2> QED
    BY <2>1, <2>2
<1> QED
  BY <1>1, <1>2, <1>3

\* An idle request is about nothing.
LEMMA IdleRequest ==
  /\ Idle \in Requests /\ Idle.pc = "idle" /\ Idle.ids = {}
BY DEF Idle, Request, Requests, Pcs

\* The view of a transaction.
LEMMA ViewType ==
  ASSUME TxTypeOK, NEW w \in Workers
  PROVE  View(w) \in [Bookings -> Row]
BY DEF TxTypeOK, View

\* A statement that writes no row: queries, and the insertion of an event.
LEMMA ReadStep ==
  ASSUME TxInv, NEW w \in Workers, NEW r \in Requests, req' = [req EXCEPT ![w] = r],
         UNCHANGED <<rows, now, tx, failures>>, events' \in [Bookings -> SUBSET Event],
         r.pc \in AboutOne => r.b \in Bookings /\ rows[r.b].status # "ABSENT",
         r.ids = {} \/ r.pc \in {"sweep", "previous", "expire"},
         \A c \in r.ids : rows[c].status # "ABSENT",
         r.pc = "insert" => /\ r.row \in Row
                            /\ r.row.status = "PENDING" /\ r.row.stamps = {},
         \/ r.pc \in {"compete", "sweep"} /\ req[w].pc \in {"compete", "sweep"}
            /\ r.b = req[w].b /\ r.b \notin r.ids
         \/ r.pc \notin {"compete", "sweep", "modify"} /\ DOMAIN tx[w] = {}
  PROVE  TxInv'
<1>1. req'[w] = r /\ TxTypeOK' /\ OnlyMoves(w) /\ Respects(w)
  BY DEF TxInv, TxTypeOK, OnlyMoves, Respects
<1>2. Knows(w)'
  BY <1>1 DEF Knows, At
<1>3. Holds(w)'
  BY <1>1 DEF TxInv, Holds, At
<1>4. \A v \in Workers \ {w} : DOMAIN tx'[w] \cap DOMAIN tx[v] = {}
  BY DEF TxInv, Exclusive
<1> QED
  BY <1>1, <1>2, <1>3, <1>4, OthersUndisturbed

\* A statement outside a transaction, and the one that ends it: it writes rows that no
\* other transaction holds, and holds none any more.
LEMMA DirectWrite ==
  ASSUME TxInv, NEW w \in Workers, NEW r \in Requests, req' = [req EXCEPT ![w] = r],
         rows' \in [Bookings -> Row], events' \in [Bookings -> SUBSET Event],
         UNCHANGED now, failures' \in 0..MaxFailures,
         EndTx(w) \/ (tx' = tx /\ DOMAIN tx[w] = {}),
         Respects(w), r.ids = {}, r.pc \in {"idle", "domino", "refused"},
         r.pc # "idle" => r.b \in Bookings /\ rows[r.b].status # "ABSENT"
  PROVE  TxInv'
<1>1. /\ DOMAIN tx' = Workers /\ DOMAIN tx'[w] = {}
      /\ \A v \in Workers \ {w} : tx'[v] = tx[v]
      /\ \A v \in Workers : /\ DOMAIN tx'[v] \subseteq Bookings
                            /\ \A c \in DOMAIN tx'[v] : tx'[v][c] \in Row
  BY Ended DEF TxInv, TxTypeOK
<1>2. req'[w] = r /\ OnlyMoves(w)
  BY <1>1 DEF TxInv, TxTypeOK, OnlyMoves
<1>3. TxTypeOK'
  BY <1>1 DEF TxInv, TxTypeOK
<1>4. (Knows(w) /\ Holds(w))'
  BY <1>1, <1>2 DEF Knows, Holds, At, AboutOne, Respects
<1> QED
  BY <1>1, <1>2, <1>3, <1>4, OthersUndisturbed

\* The queries of a request, and its decisions.
LEMMA ReadsKeep ==
  ASSUME TxInv, NEW w \in Workers,
         \/ \E b \in Bookings : BeginConfirm(w, b) \/ BeginRefuse(w, b)
         \/ \E p \in Pros, t \in Starts : BeginCreate(w, p, t)
         \/ BeginExpire(w) \/ CheckConflicts(w) \/ FindCompeting(w) \/ FindPrevious(w)
         \/ RecordRefusal(w)
  PROVE  TxInv'
<1>a. /\ req[w] \in Requests /\ rows \in [Bookings -> Row] /\ events \in [Bookings -> SUBSET Event]
      /\ Knows(w) /\ Holds(w)
  BY DEF TxInv, TxTypeOK
<1>b. "ABSENT" \notin Open
  BY DEF Open
<1>1. ASSUME NEW b \in Bookings, BeginConfirm(w, b) \/ BeginRefuse(w, b) PROVE TxInv'
  <2>1. PICK pc \in {"check", "refuse"} : req' = [req EXCEPT ![w] = Request(pc, b, rows[b], {})]
    BY <1>1 DEF BeginConfirm, BeginRefuse
  <2> DEFINE r == Request(pc, b, rows[b], {})
  <2>2. r \in Requests /\ r.pc = pc /\ r.b = b /\ r.ids = {}
    BY <1>a DEF Request, Requests, Pcs, AboutOne
  <2>3. rows[b].status # "ABSENT" /\ DOMAIN tx[w] = {} /\ UNCHANGED <<rows, events, now, tx, failures>>
    BY <1>1, <1>a, <1>b DEF BeginConfirm, BeginRefuse, tables, Holds, At, Open
  <2> HIDE DEF r
  <2> QED
    BY <1>a, <2>1, <2>2, <2>3, ReadStep DEF r
<1>2. ASSUME NEW p \in Pros, NEW t \in Starts, BeginCreate(w, p, t) PROVE TxInv'
  <2> DEFINE r == Request("insert", NoBooking, NewRow(p, t), {})
  <2>1. r \in Requests /\ r.pc = "insert" /\ r.row = NewRow(p, t) /\ r.ids = {}
    BY NewRowType DEF Request, Requests, Pcs
  <2>2. /\ req' = [req EXCEPT ![w] = r] /\ DOMAIN tx[w] = {}
        /\ UNCHANGED <<rows, events, now, tx, failures>>
    BY <1>2, <1>a DEF BeginCreate, tables, Holds, At
  <2> HIDE DEF r
  <2> QED
    BY <1>a, <2>1, <2>2, NewRowType, ReadStep DEF AboutOne
<1>3. CASE BeginExpire(w)
  <2> DEFINE r == Request("expire", NoBooking, NoRow, Due(rows, now))
  <2>1. r \in Requests /\ r.pc = "expire" /\ r.ids = Due(rows, now)
    BY DueAreOpen DEF Request, Requests, Pcs
  <2>2. /\ req' = [req EXCEPT ![w] = r] /\ DOMAIN tx[w] = {}
        /\ UNCHANGED <<rows, events, now, tx, failures>>
    BY <1>3, <1>a DEF BeginExpire, tables, Holds, At
  <2>3. \A c \in Due(rows, now) : rows[c].status # "ABSENT"
    BY <1>b, DueAreOpen
  <2> HIDE DEF r
  <2> QED
    BY <1>a, <2>1, <2>2, <2>3, ReadStep DEF AboutOne
<1>4. CASE CheckConflicts(w)
  <2> DEFINE q == [req[w] EXCEPT !.pc = "write"]
  <2>1. q \in Requests /\ q.pc = "write" /\ q.b = req[w].b /\ q.ids = req[w].ids
    BY <1>a DEF Requests, Pcs, AboutOne
  <2>2. /\ req' = [req EXCEPT ![w] = Idle] \/ req' = [req EXCEPT ![w] = q]
        /\ DOMAIN tx[w] = {} /\ At(w, "check")
        /\ UNCHANGED <<rows, events, now, tx, failures>>
    BY <1>4, <1>a DEF CheckConflicts, tables, Holds, At, Goto, Finish, TxInv, TxTypeOK
  <2> HIDE DEF q
  <2>3. CASE req' = [req EXCEPT ![w] = Idle]
    BY <1>a, <2>2, <2>3, IdleRequest, ReadStep DEF AboutOne
  <2>4. CASE req' = [req EXCEPT ![w] = q]
    BY <1>a, <2>1, <2>2, <2>4, ReadStep DEF AboutOne, Knows, At
  <2> QED
    BY <2>2, <2>3, <2>4
<1>5. CASE FindCompeting(w)
  <2> DEFINE C == Competing(AsRead(w, View(w)), req[w].b)
             q == [req[w] EXCEPT !.pc = "sweep", !.ids = C]
  <2>1. C \subseteq Bookings \ {req[w].b}
    BY Queries
  <2>2. \A c \in C : rows[c].status # "ABSENT"
    <3> SUFFICES ASSUME NEW c \in C PROVE rows[c].status # "ABSENT"
      OBVIOUS
    <3>1. AsRead(w, View(w))[c].status \in Open
      BY Queries
    <3>2. AsRead(w, View(w))[c].status = View(w)[c].status
      BY <2>1, ViewType, <1>a DEF AsRead, TxInv, Row
    <3>3. View(w)[c] = rows[c] \/ c \in DOMAIN tx[w]
      BY <2>1 DEF View
    <3> QED
      BY <1>a, <1>b, <3>1, <3>2, <3>3 DEF Holds
  <2>3. q \in Requests /\ q.pc = "sweep" /\ q.b = req[w].b /\ q.ids = C
    BY <1>a, <2>1 DEF Requests, Pcs, AboutOne
  <2>4. /\ req' = [req EXCEPT ![w] = q] /\ At(w, "compete")
        /\ UNCHANGED <<rows, events, now, tx, failures>>
    BY <1>5, <1>a DEF FindCompeting, tables, At, GotoWith, TxInv, TxTypeOK
  <2> HIDE DEF q, C
  <2> QED
    BY <1>a, <2>1, <2>2, <2>3, <2>4, ReadStep DEF AboutOne, Knows, At
<1>6. CASE FindPrevious(w)
  <2>1. PICK P \in BackToBack(rows, req[w].b) :
          IF P = {} THEN Finish(w) ELSE GotoWith(w, "previous", P)
    BY <1>6 DEF FindPrevious
  <2> DEFINE q == [req[w] EXCEPT !.pc = "previous", !.ids = P]
  <2>2. P \subseteq Bookings /\ \A c \in P : rows[c].status = "CONFIRMED"
    BY Queries
  <2>3. q \in Requests /\ q.pc = "previous" /\ q.b = req[w].b /\ q.ids = P
    BY <1>a, <2>2 DEF Requests, Pcs, AboutOne
  <2>4. /\ req' = [req EXCEPT ![w] = Idle] \/ req' = [req EXCEPT ![w] = q]
        /\ DOMAIN tx[w] = {} /\ At(w, "domino")
        /\ UNCHANGED <<rows, events, now, tx, failures>>
    BY <1>6, <1>a, <2>1 DEF FindPrevious, tables, Holds, At, GotoWith, Finish, TxInv, TxTypeOK
  <2> HIDE DEF q
  <2>5. CASE req' = [req EXCEPT ![w] = Idle]
    BY <1>a, <2>4, <2>5, IdleRequest, ReadStep DEF AboutOne
  <2>6. CASE req' = [req EXCEPT ![w] = q]
    BY <1>a, <2>2, <2>3, <2>4, <2>6, ReadStep DEF AboutOne, Knows, At
  <2> QED
    BY <2>4, <2>5, <2>6
<1>7. CASE RecordRefusal(w)
  <2>1. events' \in [Bookings -> SUBSET Event]
    BY <1>7, Recorded DEF RecordRefusal, Event, TxInv
  <2>2. /\ req' = [req EXCEPT ![w] = Idle] /\ DOMAIN tx[w] = {}
        /\ UNCHANGED <<rows, now, tx, failures>>
    BY <1>7, <1>a DEF RecordRefusal, Finish, Holds, At
  <2> QED
    BY <2>1, <2>2, IdleRequest, ReadStep DEF AboutOne
<1> QED
  BY <1>1, <1>2, <1>3, <1>4, <1>5, <1>6, <1>7

\* A write inside a transaction, of a row that no other one holds.
LEMMA WriteStep ==
  ASSUME TxInv, NEW w \in Workers, NEW r \in Requests, req' = [req EXCEPT ![w] = r],
         NEW b \in Bookings, Free(w, b), rows[b].status # "ABSENT",
         NEW q \in Row, Write(w, b, q), UNCHANGED <<tables, failures>>,
         r.pc \in {"compete", "sweep", "modify"},
         r.b \in DOMAIN tx[w] \cup {b}, r.b \notin r.ids, r.ids = {} \/ r.pc = "sweep",
         \A c \in r.ids : rows[c].status # "ABSENT",
         \/ DOMAIN tx[w] = {}
         \/ At(w, "sweep") /\ r.pc = "sweep" /\ r.b = req[w].b,
         \/ /\ r.pc = "modify" /\ DOMAIN tx[w] = {}
            /\ rows[b].status = "PENDING" /\ ~rows[b].modified
            /\ \E d \in 1..MaxDuration : q = Modified(rows[b], d)
         \/ /\ r.pc # "modify"
            /\ q = IF b = r.b THEN Stamp(rows[b], "CONFIRMED", "confirmedAt")
                   ELSE Stamp(rows[b], "CANCELLED_AUTO_OVERLAP", "cancelledAt")
  PROVE  TxInv'
<1>1. /\ DOMAIN tx' = Workers
      /\ \A v \in Workers \ {w} : tx'[v] = tx[v]
      /\ DOMAIN tx'[w] = DOMAIN tx[w] \cup {b}
      /\ \A c \in DOMAIN tx'[w] : tx'[w][c] = IF c = b THEN q ELSE tx[w][c]
      /\ \A v \in Workers : /\ DOMAIN tx'[v] \subseteq Bookings
                            /\ \A c \in DOMAIN tx'[v] : tx'[v][c] \in Row
  BY Written DEF TxInv
<1>2. req'[w] = r /\ TxTypeOK' /\ OnlyMoves(w) /\ Respects(w)
  BY <1>1 DEF TxInv, TxTypeOK, OnlyMoves, Respects, tables
<1>3. \A v \in Workers \ {w} : DOMAIN tx'[w] \cap DOMAIN tx[v] = {}
  BY <1>1 DEF TxInv, Exclusive, Free
<1>4. r.b \in Bookings /\ rows[r.b].status # "ABSENT"
  BY DEF TxInv, TxTypeOK, Holds
<1>5. Knows(w)'
  BY <1>2, <1>4 DEF Knows, At, tables
<1>6. Holds(w)'
  <2>a. Holds(w) /\ rows' = rows
    BY DEF TxInv, tables
  <2>1. \A c \in DOMAIN tx'[w] : rows[c].status # "ABSENT"
    BY <1>1, <2>a DEF Holds
  <2>2. CASE r.pc = "modify"
    BY <1>1, <1>2, <2>a, <2>1, <2>2 DEF Holds, At
  <2>3. CASE r.pc # "modify"
    <3> SUFFICES ASSUME NEW c \in DOMAIN tx'[w]
                 PROVE  tx'[w][c] = IF c = r.b
                         THEN Stamp(rows[c], "CONFIRMED", "confirmedAt")
                         ELSE Stamp(rows[c], "CANCELLED_AUTO_OVERLAP", "cancelledAt")
      BY <1>1, <1>2, <2>a, <2>1, <2>3 DEF Holds, At
    <3>1. CASE c = b
      BY <1>1, <2>3, <3>1
    <3>2. CASE c # b
      BY <1>1, <2>a, <3>2 DEF Holds, At
    <3> QED
      BY <3>1, <3>2
  <2> QED
    BY <2>2, <2>3
<1> QED
  BY <1>2, <1>3, <1>5, <1>6, OthersUndisturbed

\* The writes of a confirmation and of a modification.
LEMMA WritesKeep ==
  ASSUME TxInv, NEW w \in Workers,
         \/ WriteConfirmed(w)
         \/ \E c \in Bookings : CancelCompeting(w, c)
         \/ \E b \in Bookings, d \in 1..MaxDuration : BeginModify(w, b, d)
  PROVE  TxInv'
<1>a. /\ req[w] \in Requests /\ Knows(w) /\ Holds(w)
      /\ \A b \in Bookings : rows[b] \in Row
  BY DEF TxInv, TxTypeOK
<1>1. CASE WriteConfirmed(w)
  <2> DEFINE b == req[w].b
             q == Stamp(rows[b], "CONFIRMED", "confirmedAt")
             r == [req[w] EXCEPT !.pc = "compete"]
  <2>1. b \in Bookings /\ q \in Row /\ rows[b].status # "ABSENT" /\ DOMAIN tx[w] = {}
    BY <1>a, <1>1, Stamped DEF WriteConfirmed, Knows, Holds, At, AboutOne
  <2>2. r \in Requests /\ r.pc = "compete" /\ r.b = b /\ r.ids = {}
    BY <1>a, <1>1 DEF WriteConfirmed, At, Knows, Requests, Pcs, AboutOne
  <2>3. /\ req' = [req EXCEPT ![w] = r] /\ Write(w, b, q) /\ Free(w, b)
        /\ UNCHANGED <<tables, failures>>
    BY <1>1 DEF WriteConfirmed, Goto, TxInv, TxTypeOK
  <2> HIDE DEF b, r
  <2> QED
    BY <2>1, <2>2, <2>3, WriteStep
<1>2. ASSUME NEW c \in Bookings, CancelCompeting(w, c) PROVE TxInv'
  <2> DEFINE q == Stamp(rows[c], "CANCELLED_AUTO_OVERLAP", "cancelledAt")
             r == [req[w] EXCEPT !.pc = "sweep", !.ids = req[w].ids \ {c}]
  <2>1. /\ q \in Row /\ rows[c].status # "ABSENT" /\ c # req[w].b
        /\ req[w].b \in DOMAIN tx[w] /\ req[w].b \notin req[w].ids /\ At(w, "sweep")
    BY <1>a, <1>2, Stamped DEF CancelCompeting, Knows, Holds, At, AboutOne
  <2>2. r \in Requests /\ r.pc = "sweep" /\ r.b = req[w].b /\ r.ids = req[w].ids \ {c}
    BY <1>a DEF Requests, Pcs, AboutOne
  <2>3. /\ req' = [req EXCEPT ![w] = r] /\ Write(w, c, q) /\ Free(w, c)
        /\ UNCHANGED <<tables, failures>>
    BY <1>2 DEF CancelCompeting, GotoWith, TxInv, TxTypeOK
  <2> HIDE DEF r
  <2> QED
    BY <1>a, <2>1, <2>2, <2>3, WriteStep DEF Knows
<1>3. ASSUME NEW b \in Bookings, NEW d \in 1..MaxDuration, BeginModify(w, b, d) PROVE TxInv'
  <2> DEFINE q == Modified(rows[b], d)
             r == Request("modify", b, rows[b], {})
  <2>1. q \in Row /\ DOMAIN tx[w] = {} /\ rows[b].status = "PENDING" /\ ~rows[b].modified
    BY <1>a, <1>3, ModifiedRow DEF BeginModify, Holds, At
  <2>2. r \in Requests /\ r.pc = "modify" /\ r.b = b /\ r.ids = {}
    BY <1>a DEF Request, Requests, Pcs, AboutOne
  <2>3. /\ req' = [req EXCEPT ![w] = r] /\ Write(w, b, q) /\ Free(w, b)
        /\ UNCHANGED <<tables, failures>>
    BY <1>3 DEF BeginModify
  <2> HIDE DEF r
  <2> QED
    BY <2>1, <2>2, <2>3, WriteStep
<1> QED
  BY <1>1, <1>2, <1>3

\* A commit shows the rows that no other transaction holds, and no row disappears.
LEMMA CommitRespects ==
  ASSUME TxInv, NEW w \in Workers, rows' = View(w)
  PROVE  rows' \in [Bookings -> Row] /\ Respects(w)
<1>1. rows' \in [Bookings -> Row]
  BY ViewType DEF TxInv
<1>2. \A v \in Workers \ {w} : \A b \in DOMAIN tx[v] : rows'[b] = rows[b]
  BY DEF TxInv, TxTypeOK, Exclusive, View
<1>3. ASSUME NEW b \in Bookings, rows[b].status # "ABSENT" PROVE rows'[b].status # "ABSENT"
  <2>1. Holds(w) /\ rows[b] \in Row
    BY DEF TxInv, TxTypeOK
  <2>2. CASE b \notin DOMAIN tx[w]
    BY <1>3, <2>2 DEF View
  <2>3. CASE b \in DOMAIN tx[w] /\ req[w].pc \in {"compete", "sweep"}
    <3>1. \/ tx[w][b] = Stamp(rows[b], "CONFIRMED", "confirmedAt")
          \/ tx[w][b] = Stamp(rows[b], "CANCELLED_AUTO_OVERLAP", "cancelledAt")
      BY <2>1, <2>3 DEF Holds
    <3>2. tx[w][b].status # "ABSENT"
      BY <2>1, <3>1, StampRow DEF Status, Final, Cancelled, Stamps
    <3> QED
      BY <2>3, <3>2 DEF View
  <2>4. CASE b \in DOMAIN tx[w] /\ At(w, "modify")
    <3>1. tx[w][b].status = "WAITING_FOR_CLIENT"
      BY <2>1, <2>4, ModifiedRow DEF Holds
    <3> QED
      BY <2>4, <3>1 DEF View
  <2> QED
    BY <2>1, <2>2, <2>3, <2>4 DEF Holds, At
<1> QED
  BY <1>1, <1>2, <1>3 DEF Respects

\* The statements outside a transaction, and those that end one.
LEMMA EndsKeep ==
  ASSUME TxInv, NEW w \in Workers,
         \/ CommitConfirm(w) \/ EndModify(w) \/ CompletePrevious(w)
         \/ WriteRefusal(w) \/ WriteExpired(w)
         \/ \E b \in Bookings : Insert(w, b)
         \/ DeadlockVictim(w) \/ Fail(w)
  PROVE  TxInv'
<1>a. /\ req[w] \in Requests /\ Knows(w) /\ Holds(w) /\ rows \in [Bookings -> Row]
      /\ \A b \in Bookings : rows[b] \in Row
      /\ events \in [Bookings -> SUBSET Event] /\ failures \in 0..MaxFailures
  BY DEF TxInv, TxTypeOK
<1>b. \A b \in Bookings : Free(w, b) => \A v \in Workers \ {w} : b \notin DOMAIN tx[v]
  BY DEF Free
<1>1. CASE CommitConfirm(w)
  <2> DEFINE r == [req[w] EXCEPT !.pc = "domino"]
  <2>1. r \in Requests /\ r.pc = "domino" /\ r.b = req[w].b /\ r.ids = {}
    BY <1>1, <1>a DEF CommitConfirm, Requests, Pcs, AboutOne
  <2>2. req' = [req EXCEPT ![w] = r] /\ EndTx(w) /\ UNCHANGED <<now, failures>>
    BY <1>1 DEF CommitConfirm, Goto, TxInv, TxTypeOK
  <2>3. req[w].b \in Bookings /\ rows[req[w].b].status # "ABSENT"
    BY <1>1, <1>a DEF CommitConfirm, Knows, At, AboutOne
  <2>4. events' \in [Bookings -> SUBSET Event]
    BY <1>1, <1>a DEF CommitConfirm, Event
  <2>5. rows' \in [Bookings -> Row] /\ Respects(w)
    BY <1>1, CommitRespects DEF CommitConfirm
  <2> HIDE DEF r
  <2> QED
    BY <1>a, <2>1, <2>2, <2>3, <2>4, <2>5, DirectWrite
<1>2. CASE EndModify(w)
  <2>1. rows' \in [Bookings -> Row] /\ Respects(w)
    <3>1. CASE rows' = rows
      BY <1>a, <3>1 DEF Respects
    <3>2. CASE rows' = View(w)
      BY <3>2, CommitRespects
    <3> QED
      BY <1>2, <3>1, <3>2 DEF EndModify
  <2>2. req' = [req EXCEPT ![w] = Idle] /\ EndTx(w) /\ UNCHANGED <<events, now, failures>>
    BY <1>2 DEF EndModify, Finish
  <2> QED
    BY <1>a, <2>1, <2>2, IdleRequest, DirectWrite
<1>3. CASE CompletePrevious(w)
  <2>1. rows' = [c \in Bookings |-> IF c \in req[w].ids
                                 THEN Stamp(rows[c], "COMPLETED", "completedAt") ELSE rows[c]]
    BY <1>3, SerialData DEF CompletePrevious, Serial!AutoComplete
  <2>2. \A c \in Bookings : /\ Stamp(rows[c], "COMPLETED", "completedAt") \in Row
                            /\ Stamp(rows[c], "COMPLETED", "completedAt").status = "COMPLETED"
    BY <1>a, Stamped DEF Stamp, Row
  <2>3. rows' \in [Bookings -> Row]
    BY <1>a, <2>1, <2>2
  <2>4. Respects(w)
    BY <1>3, <1>b, <2>1, <2>2 DEF CompletePrevious, Respects, TxInv, TxTypeOK
  <2>5. /\ req' = [req EXCEPT ![w] = Idle] /\ tx' = tx /\ DOMAIN tx[w] = {}
        /\ UNCHANGED <<events, now, failures>>
    BY <1>3, <1>a DEF CompletePrevious, Finish, Holds, At
  <2> QED
    BY <1>a, <2>3, <2>4, <2>5, IdleRequest, DirectWrite
<1>4. CASE WriteRefusal(w)
  <2> DEFINE r == [req[w] EXCEPT !.pc = "refused"]
  <2>1. /\ r \in Requests /\ r.pc = "refused" /\ r.b = req[w].b /\ r.ids = {}
        /\ DOMAIN tx[w] = {} /\ req[w].b \in Bookings /\ rows[req[w].b].status # "ABSENT"
    BY <1>4, <1>a DEF WriteRefusal, At, Knows, Holds, Requests, Pcs, AboutOne
  <2>2. req' = [req EXCEPT ![w] = r] /\ tx' = tx /\ UNCHANGED <<events, now, failures>>
    BY <1>4 DEF WriteRefusal, Goto, TxInv, TxTypeOK
  <2>3. [rows[req[w].b] EXCEPT !.status = "DECLINED"] \in Row
    BY <1>a, <2>1, StatusRow
  <2>4. rows' \in [Bookings -> Row]
    BY <1>4, <1>a, <2>3 DEF WriteRefusal
  <2>5. Respects(w)
    BY <1>4, <1>a, <1>b, <2>1 DEF WriteRefusal, Respects, Row
  <2> HIDE DEF r
  <2> QED
    BY <1>a, <2>1, <2>2, <2>4, <2>5, DirectWrite
<1>5. CASE WriteExpired(w)
  <2>1. \A c \in Bookings : rows'[c] = IF c \in req[w].ids
                              THEN [rows[c] EXCEPT !.status = "EXPIRED"] ELSE rows[c]
    BY <1>5 DEF WriteExpired
  <2>2. \A c \in Bookings : /\ [rows[c] EXCEPT !.status = "EXPIRED"] \in Row
                            /\ [rows[c] EXCEPT !.status = "EXPIRED"].status = "EXPIRED"
    BY <1>a, StatusRow
  <2>3. rows' \in [Bookings -> Row]
    BY <1>5, <1>a, <2>2 DEF WriteExpired
  <2>4. Respects(w)
    BY <1>5, <1>b, <2>1, <2>2 DEF WriteExpired, Respects, TxInv, TxTypeOK
  <2>5. /\ req' = [req EXCEPT ![w] = Idle] /\ tx' = tx /\ DOMAIN tx[w] = {}
        /\ UNCHANGED <<now, failures>>
    BY <1>5, <1>a DEF WriteExpired, Finish, Holds, At
  <2>6. events' \in [Bookings -> SUBSET Event]
    BY <1>5, Recorded DEF WriteExpired, Event, TxInv
  <2> QED
    BY <1>a, <2>3, <2>4, <2>5, <2>6, IdleRequest, DirectWrite
<1>6. ASSUME NEW b \in Bookings, Insert(w, b) PROVE TxInv'
  <2>1. /\ req[w].row \in Row /\ req[w].row.status = "PENDING"
        /\ DOMAIN tx[w] = {} /\ rows[b].status = "ABSENT"
        /\ rows' = [rows EXCEPT ![b] = req[w].row]
    BY <1>6, <1>a DEF Insert, Knows, Holds, At
  <2>2. rows' \in [Bookings -> Row]
    BY <1>a, <2>1
  <2>3. Respects(w)
    <3>1. \A v \in Workers : b \notin DOMAIN tx[v]
      BY <2>1 DEF TxInv, Holds
    <3> QED
      BY <1>a, <2>1, <3>1 DEF Respects
  <2>4. /\ req' = [req EXCEPT ![w] = Idle] /\ tx' = tx /\ UNCHANGED <<now, failures>>
    BY <1>6 DEF Insert, Finish
  <2>5. events' \in [Bookings -> SUBSET Event]
    BY <1>6, Recorded DEF Insert, Event, TxInv
  <2> QED
    BY <1>a, <2>1, <2>2, <2>3, <2>4, <2>5, IdleRequest, DirectWrite
<1>7. CASE DeadlockVictim(w) \/ Fail(w)
  <2>1. /\ req' = [req EXCEPT ![w] = Idle] /\ EndTx(w)
        /\ UNCHANGED <<rows, events, now>> /\ failures' \in 0..MaxFailures
    BY <1>7, <1>a, TxAssumption DEF DeadlockVictim, Fail, Finish, tables
  <2>2. Respects(w)
    BY <2>1 DEF Respects
  <2> QED
    BY <1>a, <2>1, <2>2, IdleRequest, DirectWrite
<1> QED
  BY <1>1, <1>2, <1>3, <1>4, <1>5, <1>6, <1>7

\* The handlers that touch one row, which no transaction holds.
LEMMA OneRowKeeps ==
  ASSUME TxInv, NEW b \in Bookings, OneRowHandler(b)
  PROVE  /\ TxInv' /\ \A w \in Workers : b \notin DOMAIN tx[w]
         /\ \A c \in Bookings \ {b} : rows'[c] = rows[c]
<1>a. /\ rows \in [Bookings -> Row] /\ rows[b] \in Row
      /\ events \in [Bookings -> SUBSET Event]
  BY DEF TxInv, TxTypeOK
<1>1. \A w \in Workers : b \notin DOMAIN tx[w]
  <2>1. PICK w \in Workers : At(w, "idle") /\ Free(w, b)
    BY DEF OneRowHandler
  <2>2. DOMAIN tx[w] = {}
    BY <2>1 DEF TxInv, Holds, At
  <2> QED
    BY <2>1, <2>2 DEF Free
<1>2. PICK q \in Row : rows' = [rows EXCEPT ![b] = q] /\ q.status # "ABSENT"
  <2>1. CASE Serial!Decline(b)
    BY <1>a, <2>1, StatusRow DEF Serial!Decline
  <2>2. ASSUME NEW s \in Final, NEW col \in Stamps
        PROVE  Stamp(rows[b], s, col) \in Row /\ Stamp(rows[b], s, col).status # "ABSENT"
    BY <1>a, StampRow DEF Status, Final, Cancelled
  <2>3. CASE Serial!Complete(b)
    <3>1. rows' = [rows EXCEPT ![b] = Stamp(rows[b], "COMPLETED", "completedAt")]
      BY <2>3, SerialData DEF Serial!Complete
    <3> QED
      BY <2>2, <3>1 DEF Final, Stamps
  <2>4. CASE Serial!CancelByPro(b)
    <3>1. rows' = [rows EXCEPT ![b] = Stamp(rows[b], "CANCELLED_BY_PRO", "cancelledAt")]
      BY <2>4, SerialData DEF Serial!CancelByPro
    <3> QED
      BY <2>2, <3>1 DEF Final, Cancelled, Stamps
  <2>5. CASE Serial!CancelByClient(b)
    <3>1. rows' = [rows EXCEPT ![b] = CancelledByClient(rows[b], now)]
      BY <2>5, SerialData DEF Serial!CancelByClient
    <3>2. PICK s \in Final : CancelledByClient(rows[b], now) = Stamp(rows[b], s, "cancelledAt")
      BY DEF CancelledByClient, Final, Cancelled
    <3> QED
      BY <2>2, <3>1, <3>2 DEF Stamps
  <2> QED
    BY <2>1, <2>3, <2>4, <2>5 DEF OneRowHandler
<1>3. events' \in [Bookings -> SUBSET Event]
  BY Recorded DEF TxInv, OneRowHandler, Serial!Decline, Serial!Complete, Serial!CancelByClient,
     Serial!CancelByPro, Event
<1>4. UNCHANGED <<now, req, tx, failures>>
  BY DEF OneRowHandler, Serial!Decline, Serial!Complete, Serial!CancelByClient,
     Serial!CancelByPro
<1>5. TxTypeOK'
  BY <1>2, <1>3, <1>4 DEF TxInv, TxTypeOK
<1>6. ASSUME NEW w \in Workers PROVE (Knows(w) /\ Holds(w))'
  <2>1. Knows(w) /\ Holds(w) /\ req[w] \in Requests /\ DOMAIN tx[w] \subseteq Bookings
    BY DEF TxInv, TxTypeOK
  <2>2. \A c \in Bookings : c # b => rows'[c] = rows[c]
    BY <1>a, <1>2
  <2>3. \A c \in Bookings : rows[c].status # "ABSENT" => rows'[c].status # "ABSENT"
    BY <1>a, <1>2
  <2>4. Knows(w)'
    BY <1>4, <2>1, <2>3 DEF Knows, At, Requests
  <2>5. \A c \in DOMAIN tx[w] : rows'[c] = rows[c]
    BY <1>1, <2>1, <2>2
  <2>6. Holds(w)'
    BY <1>4, <2>1, <2>5 DEF Holds, At
  <2> QED
    BY <2>4, <2>6
<1> QED
  BY <1>1, <1>2, <1>4, <1>5, <1>6, <1>a DEF TxInv, Exclusive

LEMMA TxInvInit == Init => TxInv
<1> SUFFICES ASSUME Init PROVE TxInv
  OBVIOUS
<1>1. \A p \in Pros : AbsentRow(p) \in Row
  BY DataAssumption DEF AbsentRow, Row
<1>2. DOMAIN NoWrites = {}
  BY DEF NoWrites
<1>3. TxTypeOK
  <2>1. /\ rows \in [Bookings -> Row] /\ events \in [Bookings -> SUBSET Event]
        /\ now \in Nat
    BY <1>1, SerialData DEF Init, Serial!Init
  <2>2. /\ req \in [Workers -> Requests] /\ failures \in 0..MaxFailures
        /\ DOMAIN tx = Workers /\ \A w \in Workers : DOMAIN tx[w] = {}
    BY <1>2, IdleRequest, TxAssumption DEF Init
  <2> QED
    BY <2>1, <2>2 DEF TxTypeOK
<1>4. \A w \in Workers : req[w] = Idle /\ DOMAIN tx[w] = {}
  BY <1>2 DEF Init
<1> QED
  BY <1>3, <1>4, IdleRequest DEF TxInv, Knows, Holds, Exclusive, At, AboutOne

LEMMA TxInvNext == TxInv /\ [Next]_vars => TxInv'
<1> SUFFICES ASSUME TxInv, [Next]_vars PROVE TxInv'
  OBVIOUS
<1>1. ASSUME NEW w \in Workers, Begin(w) \/ Step(w) \/ Fail(w) PROVE TxInv'
  BY <1>1, ReadsKeep, WritesKeep, EndsKeep DEF Begin, Step
<1>2. ASSUME NEW b \in Bookings, OneRowHandler(b) PROVE TxInv'
  BY <1>2, OneRowKeeps
<1>3. CASE Tick
  BY <1>3 DEF Tick, Serial!Tick, TxInv, TxTypeOK, Knows, Holds, Exclusive, At
<1>4. CASE UNCHANGED vars
  BY <1>4 DEF vars, TxInv, TxTypeOK, Knows, Holds, Exclusive, At
<1> QED
  BY <1>1, <1>2, <1>3, <1>4 DEF Next

\* The tables, the requests in flight and the rows they have locked keep their types,
\* and a row is locked by one transaction at most, which wrote from the committed row.
THEOREM LockingCorrect == Spec => []TxInv
BY TxInvInit, TxInvNext, PTL DEF Spec

-----------------------------------------------------------------------------
(* What a step does to one booking *)

Types(E) == {e[1] : e \in E}

\* Row r with events of types T becomes q with U: one write of a handler other than a
\* confirmation, and the event of the same transaction.
Settle(r, q, T, U) ==
  \/ q = r /\ (U = T \/ U = T \cup {"DECLINED"})
  \/ /\ r.status = "ABSENT"
     /\ q.status = "PENDING" /\ q.stamps = {} /\ U = T \cup {"CREATED"}
  \/ /\ r.status # "ABSENT"
     /\ (\E s \in Cancelled : q = Stamp(r, s, "cancelledAt")) /\ U = T \cup {"CANCELLED"}
  \/ /\ r.status # "ABSENT"
     /\ q = Stamp(r, "COMPLETED", "completedAt") /\ (U = T \/ U = T \cup {"COMPLETED"})
  \/ /\ r.status # "ABSENT"
     /\ \E s \in {"DECLINED", "EXPIRED"} :
          q = [r EXCEPT !.status = s] /\ (U = T \/ U = T \cup {s})
  \/ /\ r.status = "PENDING" /\ (\E d \in 1..MaxDuration : q = Modified(r, d)) /\ U = T

\* The same, or a confirmation.
Change(r, q, T, U) ==
  \/ Settle(r, q, T, U)
  \/ /\ r.status # "ABSENT"
     /\ q = Stamp(r, "CONFIRMED", "confirmedAt") /\ U = T \cup {"CONFIRMED"}

Settles(c) == Settle(rows[c], rows'[c], Types(events[c]), Types(events'[c]))

Changes(c) == Change(rows[c], rows'[c], Types(events[c]), Types(events'[c]))

\* An event adds its type to the types.
LEMMA TypesOfEvent ==
  ASSUME NEW E, NEW type, NEW role
  PROVE  Types(E \cup {<<type, role>>}) = Types(E) \cup {type}
<1>1. <<type, role>>[1] = type
  OBVIOUS
<1> QED
  BY <1>1 DEF Types

LEMMA TypesRecorded ==
  ASSUME NEW S, NEW type, NEW role, Serial!Record(S, type, role), NEW c \in Bookings
  PROVE  Types(events'[c]) = IF c \in S THEN Types(events[c]) \cup {type} ELSE Types(events[c])
BY TypesOfEvent DEF Serial!Record

\* The commit of a confirmation: the winner, the losers, and the event of each.
LEMMA CommitChanges ==
  ASSUME TxInv, NEW w \in Workers, CommitConfirm(w), NEW c \in Bookings
  PROVE  Changes(c)
<1>1. /\ rows'[c] = IF c \in DOMAIN tx[w] THEN tx[w][c] ELSE rows[c]
      /\ req[w].pc = "sweep" /\ Holds(w)
  BY DEF CommitConfirm, View, At, TxInv
<1>2. PICK role :
        events'[c] = IF c = req[w].b THEN events[c] \cup {<<"CONFIRMED", role>>}
                     ELSE IF c \in DOMAIN tx[w] THEN events[c] \cup {<<"CANCELLED", "NONE">>}
                     ELSE events[c]
  BY DEF CommitConfirm
<1>3. CASE c = req[w].b
  <2>1. /\ rows'[c] = Stamp(rows[c], "CONFIRMED", "confirmedAt") /\ rows[c].status # "ABSENT"
    BY <1>1, <1>3 DEF Holds
  <2>2. Types(events'[c]) = Types(events[c]) \cup {"CONFIRMED"}
    <3>1. events'[c] = events[c] \cup {<<"CONFIRMED", role>>}
      BY <1>2, <1>3
    <3>2. Types(events[c] \cup {<<"CONFIRMED", role>>}) = Types(events[c]) \cup {"CONFIRMED"}
      BY TypesOfEvent
    <3> QED
      BY <3>1, <3>2
  <2> QED
    BY <2>1, <2>2 DEF Changes, Change, Settle
<1>4. CASE c # req[w].b /\ c \in DOMAIN tx[w]
  <2>1. /\ rows'[c] = Stamp(rows[c], "CANCELLED_AUTO_OVERLAP", "cancelledAt")
        /\ rows[c].status # "ABSENT"
    BY <1>1, <1>4 DEF Holds
  <2>2. Types(events'[c]) = Types(events[c]) \cup {"CANCELLED"}
    <3>1. events'[c] = events[c] \cup {<<"CANCELLED", "NONE">>}
      BY <1>2, <1>4
    <3>2. Types(events[c] \cup {<<"CANCELLED", "NONE">>}) = Types(events[c]) \cup {"CANCELLED"}
      BY TypesOfEvent
    <3> QED
      BY <3>1, <3>2
  <2>3. "CANCELLED_AUTO_OVERLAP" \in Cancelled
    BY DEF Cancelled
  <2> QED
    BY <2>1, <2>2, <2>3 DEF Changes, Change, Settle
<1>5. CASE c # req[w].b /\ c \notin DOMAIN tx[w]
  BY <1>1, <1>2, <1>5 DEF Changes, Change, Settle
<1> QED
  BY <1>3, <1>4, <1>5

\* The other statements that a request commits.
LEMMA EndChanges ==
  ASSUME TxInv, NEW w \in Workers,
         \/ EndModify(w) \/ CompletePrevious(w) \/ WriteRefusal(w) \/ RecordRefusal(w)
         \/ WriteExpired(w) \/ \E b \in Bookings : Insert(w, b),
         NEW c \in Bookings
  PROVE  Settles(c)
<1>a. /\ req[w] \in Requests /\ Knows(w) /\ Holds(w) /\ rows \in [Bookings -> Row]
  BY DEF TxInv, TxTypeOK
<1>1. CASE EndModify(w)
  <2>1. events' = events /\ (rows' = rows \/ rows' = View(w))
    BY <1>1 DEF EndModify
  <2>2. rows'[c] = rows[c] \/ (c \in DOMAIN tx[w] /\ rows'[c] = tx[w][c])
    BY <2>1 DEF View
  <2>3. c \in DOMAIN tx[w] => /\ rows[c].status = "PENDING"
                              /\ \E d \in 1..MaxDuration : tx[w][c] = Modified(rows[c], d)
    BY <1>1, <1>a DEF EndModify, Holds, At
  <2> QED
    BY <2>1, <2>2, <2>3 DEF Settles, Settle
<1>2. CASE CompletePrevious(w)
  <2>1. rows'[c] = IF c \in req[w].ids THEN Stamp(rows[c], "COMPLETED", "completedAt")
                                       ELSE rows[c]
    BY <1>2, SerialData DEF CompletePrevious, Serial!AutoComplete
  <2>2. c \in req[w].ids => rows[c].status # "ABSENT"
    BY <1>a DEF Knows
  <2>3. events' = events
    BY <1>2 DEF CompletePrevious
  <2> QED
    BY <2>1, <2>2, <2>3 DEF Settles, Settle
<1>3. CASE WriteRefusal(w)
  <2>1. rows'[c] = IF c = req[w].b THEN [rows[c] EXCEPT !.status = "DECLINED"] ELSE rows[c]
    BY <1>3, <1>a DEF WriteRefusal
  <2>2. rows[req[w].b].status # "ABSENT" /\ events' = events
    BY <1>3, <1>a DEF WriteRefusal, Knows, At, AboutOne
  <2> QED
    BY <2>1, <2>2 DEF Settles, Settle
<1>4. CASE RecordRefusal(w)
  <2>1. Types(events'[c]) = IF c \in {req[w].b} THEN Types(events[c]) \cup {"DECLINED"}
                                               ELSE Types(events[c])
    BY <1>4, TypesRecorded DEF RecordRefusal
  <2>2. rows' = rows
    BY <1>4 DEF RecordRefusal
  <2> QED
    BY <2>1, <2>2 DEF Settles, Settle
<1>5. CASE WriteExpired(w)
  <2>1. rows'[c] = IF c \in req[w].ids THEN [rows[c] EXCEPT !.status = "EXPIRED"] ELSE rows[c]
    BY <1>5 DEF WriteExpired
  <2>2. Types(events'[c]) = IF c \in req[w].ids THEN Types(events[c]) \cup {"EXPIRED"}
                                               ELSE Types(events[c])
    BY <1>5, TypesRecorded DEF WriteExpired
  <2>3. c \in req[w].ids => rows[c].status # "ABSENT"
    BY <1>a DEF Knows
  <2> QED
    BY <2>1, <2>2, <2>3 DEF Settles, Settle
<1>6. ASSUME NEW b \in Bookings, Insert(w, b) PROVE Settles(c)
  <2>1. /\ rows'[c] = IF c = b THEN req[w].row ELSE rows[c]
        /\ rows[b].status = "ABSENT" /\ req[w].row.status = "PENDING" /\ req[w].row.stamps = {}
    BY <1>6, <1>a DEF Insert, Knows
  <2>2. Types(events'[c]) = IF c \in {b} THEN Types(events[c]) \cup {"CREATED"}
                                        ELSE Types(events[c])
    BY <1>6, TypesRecorded DEF Insert
  <2> QED
    BY <2>1, <2>2 DEF Settles, Settle
<1> QED
  BY <1>1, <1>2, <1>3, <1>4, <1>5, <1>6

\* The handlers that touch one row.
LEMMA OneRowChanges ==
  ASSUME TxInv, NEW b \in Bookings, OneRowHandler(b), NEW c \in Bookings
  PROVE  Settles(c)
<1>a. rows \in [Bookings -> Row]
  BY DEF TxInv, TxTypeOK
<1>1. CASE Serial!Decline(b)
  <2>1. rows'[c] = IF c = b THEN [rows[c] EXCEPT !.status = "DECLINED"] ELSE rows[c]
    BY <1>a, <1>1 DEF Serial!Decline
  <2>2. Types(events'[c]) = IF c \in {b} THEN Types(events[c]) \cup {"DECLINED"}
                                        ELSE Types(events[c])
    BY <1>1, TypesRecorded DEF Serial!Decline
  <2>3. rows[b].status # "ABSENT"
    BY <1>1 DEF Serial!Decline
  <2> QED
    BY <2>1, <2>2, <2>3 DEF Settles, Settle
<1>2. CASE Serial!Complete(b)
  <2>1. rows'[c] = IF c = b THEN Stamp(rows[c], "COMPLETED", "completedAt") ELSE rows[c]
    BY <1>a, <1>2, SerialData DEF Serial!Complete
  <2>2. Types(events'[c]) = IF c \in {b} THEN Types(events[c]) \cup {"COMPLETED"}
                                        ELSE Types(events[c])
    BY <1>2, TypesRecorded DEF Serial!Complete
  <2>3. rows[b].status # "ABSENT"
    BY <1>2 DEF Serial!Complete
  <2> QED
    BY <2>1, <2>2, <2>3 DEF Settles, Settle
<1>3. CASE Serial!CancelByClient(b) \/ Serial!CancelByPro(b)
  <2>1. PICK s \in Cancelled :
          rows'[c] = IF c = b THEN Stamp(rows[c], s, "cancelledAt") ELSE rows[c]
    <3>1. CASE Serial!CancelByPro(b)
      BY <1>a, <3>1, SerialData DEF Serial!CancelByPro, Cancelled
    <3>2. CASE Serial!CancelByClient(b)
      <4>1. rows'[c] = IF c = b THEN CancelledByClient(rows[c], now) ELSE rows[c]
        BY <1>a, <3>2, SerialData DEF Serial!CancelByClient
      <4> QED
        BY <4>1 DEF CancelledByClient, Cancelled
    <3> QED
      BY <1>3, <3>1, <3>2
  <2>2. Types(events'[c]) = IF c \in {b} THEN Types(events[c]) \cup {"CANCELLED"}
                                        ELSE Types(events[c])
    BY <1>3, TypesRecorded DEF Serial!CancelByClient, Serial!CancelByPro
  <2>3. rows[b].status # "ABSENT"
    BY <1>3 DEF Serial!CancelByClient, Serial!CancelByPro
  <2> QED
    BY <2>1, <2>2, <2>3 DEF Settles, Settle
<1> QED
  BY <1>1, <1>2, <1>3 DEF OneRowHandler

\* Every other step than the commit of a confirmation confirms nothing.
LEMMA NextSettles ==
  ASSUME TxInv, [Next]_vars, \A w \in Workers : ~CommitConfirm(w), NEW c \in Bookings
  PROVE  Settles(c)
<1>1. ASSUME UNCHANGED <<rows, events>> PROVE Settles(c)
  BY <1>1 DEF Settles, Settle
<1>2. ASSUME NEW w \in Workers, Begin(w) PROVE Settles(c)
  BY <1>1, <1>2 DEF Begin, BeginConfirm, BeginRefuse, BeginModify, BeginCreate, BeginExpire,
     tables
<1>3. ASSUME NEW w \in Workers, Step(w) PROVE Settles(c)
  BY <1>1, <1>3, EndChanges DEF Step, CheckConflicts, WriteConfirmed,
     FindCompeting, CancelCompeting, FindPrevious, DeadlockVictim, tables
<1>4. ASSUME NEW w \in Workers, Fail(w) PROVE Settles(c)
  BY <1>1, <1>4 DEF Fail, tables
<1>5. CASE Tick
  BY <1>1, <1>5 DEF Tick, Serial!Tick
<1>6. CASE UNCHANGED vars
  BY <1>1, <1>6 DEF vars
<1> QED
  BY <1>2, <1>3, <1>4, <1>5, <1>6, OneRowChanges DEF Next

LEMMA NextChanges ==
  ASSUME TxInv, [Next]_vars, NEW c \in Bookings
  PROVE  Changes(c)
BY CommitChanges, NextSettles DEF Changes, Change, Settles

-----------------------------------------------------------------------------
(* StampsMatchEvents *)

LEMMA ChangeMatches ==
  ASSUME NEW r \in Row, NEW q, NEW T, NEW U, Match(r, T), Change(r, q, T, U)
  PROVE  Match(q, U)
<1>a. Cancelled \subseteq Status /\ "ABSENT" \notin Status
  BY DEF Status, Final, Cancelled, Open
<1>1. CASE q = r /\ (U = T \/ U = T \cup {"DECLINED"})
  BY <1>1 DEF Match
<1>2. CASE r.status = "ABSENT" /\ q.status = "PENDING" /\ q.stamps = {} /\ U = T \cup {"CREATED"}
  BY <1>2 DEF Match
<1>3. ASSUME NEW s \in Status, NEW col \in Stamps, q = Stamp(r, s, col)
      PROVE  q.stamps = r.stamps \cup {col} /\ q.status # "ABSENT"
  BY <1>a, <1>3, StampRow
<1>4. CASE q = Stamp(r, "CONFIRMED", "confirmedAt") /\ U = T \cup {"CONFIRMED"}
  BY <1>3, <1>4 DEF Match, Status, Stamps
<1>5. CASE (\E s \in Cancelled : q = Stamp(r, s, "cancelledAt")) /\ U = T \cup {"CANCELLED"}
  BY <1>a, <1>3, <1>5 DEF Match, Stamps
<1>6. CASE q = Stamp(r, "COMPLETED", "completedAt") /\ (U = T \/ U = T \cup {"COMPLETED"})
  BY <1>3, <1>6 DEF Match, Status, Final, Stamps
<1>7. ASSUME NEW s \in {"DECLINED", "EXPIRED"}, q = [r EXCEPT !.status = s],
             U = T \/ U = T \cup {s}
      PROVE  Match(q, U)
  <2>1. q.status # "ABSENT" /\ q.stamps = r.stamps
    BY <1>7, StatusRow
  <2> QED
    BY <1>7, <2>1 DEF Match
<1>8. ASSUME NEW d \in 1..MaxDuration, q = Modified(r, d), U = T PROVE Match(q, U)
  BY <1>8, ModifiedRow DEF Match
<1> QED
  BY <1>1, <1>2, <1>4, <1>5, <1>6, <1>7, <1>8 DEF Change, Settle

\* Whatever the number of requests, where they interleave, where they fail and which of
\* them the database aborts: a timestamp is committed with its event or not at all.
THEOREM StampsMatchEventsHolds == Spec => []StampsMatchEvents
<1>a. \A b : Serial!EventTypes(b) = Types(events[b])
  BY DEF Serial!EventTypes, Types
<1>1. Init => Matching
  <2>1. \A p : AbsentRow(p).stamps = {}
    BY DEF AbsentRow
  <2>2. ASSUME Init, NEW b \in Bookings PROVE rows[b].stamps = {} /\ events[b] = {}
    BY <2>1, <2>2, SerialData DEF Init, Serial!Init
  <2> QED
    BY <1>a, <2>2 DEF Matching, Match, Types
<1>2. TxInv /\ Matching /\ [Next]_vars => Matching'
  <2> SUFFICES ASSUME TxInv, Matching, [Next]_vars, NEW b \in Bookings
               PROVE  Match(rows'[b], Types(events'[b]))
    BY <1>a DEF Matching, Serial!EventTypes, Types
  <2>1. rows[b] \in Row /\ Match(rows[b], Types(events[b]))
    BY <1>a DEF TxInv, TxTypeOK, Matching
  <2> QED
    BY <2>1, NextChanges, ChangeMatches DEF Changes
<1>3. Matching => StampsMatchEvents
  BY DEF Matching, Match, StampsMatchEvents
<1> QED
  BY <1>1, <1>2, <1>3, LockingCorrect, PTL DEF Spec

-----------------------------------------------------------------------------
(* NothingReopens *)

\* No write reopens a closed booking or changes a duration that is settled.
LEMMA ChangeCloses ==
  ASSUME NEW r \in Row, NEW q, NEW T, NEW U, Change(r, q, T, U)
  PROVE  /\ r.status \notin Open \cup {"ABSENT"} => q.status \notin Open
         /\ r.status \notin {"PENDING", "ABSENT"}
            => q.duration = r.duration /\ q.modified = r.modified
<1>a. Final \cup {"CONFIRMED"} \subseteq Status /\ (Final \cup {"CONFIRMED"}) \cap Open = {}
  BY DEF Status, Final, Cancelled, Open
<1>1. ASSUME NEW s \in Final \cup {"CONFIRMED"}, NEW col \in Stamps, q = Stamp(r, s, col)
      PROVE  q.status \notin Open /\ q.duration = r.duration /\ q.modified = r.modified
  BY <1>a, <1>1, StampRow
<1>2. ASSUME NEW s \in {"DECLINED", "EXPIRED"}, q = [r EXCEPT !.status = s]
      PROVE  q.status \notin Open /\ q.duration = r.duration /\ q.modified = r.modified
  BY <1>2, StatusRow DEF Open
<1> QED
  BY <1>1, <1>2 DEF Change, Settle, Final, Stamps, Open

\* Whatever interleaves, fails or is aborted, no transaction uncovers an older row: what
\* a handler writes after another one has closed the booking does not reopen it.
THEOREM NothingReopensHolds == Spec => NothingReopens
<1>1. TxInv /\ [Next]_vars
      => [\A b \in Bookings :
            /\ rows[b].status \notin Open \cup {"ABSENT"} => rows'[b].status \notin Open
            /\ rows[b].status \notin {"PENDING", "ABSENT"}
               => /\ rows'[b].duration = rows[b].duration
                  /\ rows'[b].modified = rows[b].modified]_vars
  BY NextChanges, ChangeCloses DEF Changes, TxInv, TxTypeOK
<1> QED
  BY <1>1, LockingCorrect, PTL DEF Spec, NothingReopens

=============================================================================
