------------------------ MODULE DoubleBookingProofs ------------------------
(***************************************************************************)
(* When BookingTx books a professional twice, for every number of          *)
(* bookings, professionals and requests in flight, every failure, and a    *)
(* clock that runs meanwhile: only when two confirmations overlap.  What   *)
(* a confirmation has read may also be stale because the duration of its   *)
(* own booking was changed: the check that the longer interval is free     *)
(* then stands for the one that the confirmation makes.                    *)
(***************************************************************************)
EXTENDS BookingTxProofs

-----------------------------------------------------------------------------
(* The inductive invariant *)

\* Two rows of one professional and day whose intervals overlap.
Clash(r, s) == r.pro = s.pro /\ DayOf(r.start) = DayOf(s.start) /\ overlaps(r, s)

Judged == {"write", "compete", "sweep"}
InFlight(w) == req[w].pc \in {"check"} \cup Judged

\* The row of its booking, as a confirmation has it: the duration is the one it read.
AsSeen(w) == [rows[req[w].b] EXCEPT !.duration = req[w].row.duration]

\* Confirmed: a booking whose interval clashes with the one w confirms.
Rival(w, c) ==
  c # req[w].b /\ rows[c].status = "CONFIRMED" /\ Clash(rows[req[w].b], rows[c])

\* Confirmations in flight at once have met.  One that has still to check sees every rival
\* that it has not met, whatever the duration has become since it read its booking, and
\* one that has checked has none.
RaceInv ==
  /\ \A v, w \in Workers :
       InFlight(v) /\ InFlight(w) /\ req[v].b # req[w].b => {req[v].b, req[w].b} \in raced
  /\ \A w \in Workers, c \in Bookings :
       At(w, "check") /\ Rival(w, c) => {req[w].b, c} \in raced \/ Clash(AsSeen(w), rows[c])
  /\ \A w \in Workers, c \in Bookings :
       req[w].pc \in Judged /\ Rival(w, c) => {req[w].b, c} \in raced
  /\ DoubleBookingOnlyByOverlap

DoubleInv == TxInv /\ RaceInv

-----------------------------------------------------------------------------
(* Rows that clash *)

SameSlot(r, q) == q.pro = r.pro /\ q.start = r.start /\ q.duration = r.duration

LEMMA ClashSame ==
  ASSUME NEW r, NEW s, NEW q, NEW u, SameSlot(r, q), SameSlot(s, u)
  PROVE  Clash(q, u) <=> Clash(r, s)
BY DEF Clash, SameSlot, overlaps, computeEndTime

LEMMA ClashSymmetric ==
  ASSUME NEW r, NEW s, Clash(r, s)
  PROVE  Clash(s, r)
BY DEF Clash, overlaps

LEMMA Hours ==
  ASSUME NEW n \in Nat \ {0}
  PROVE  n * Hour \in Nat /\ Hour <= n * Hour
<1>1. Hour \in Nat
  BY DataAssumption
<1>2. PICK m \in Nat : n = m + 1
  <2>1. n - 1 \in Nat /\ n = (n - 1) + 1
    OBVIOUS
  <2> QED
    BY <2>1
<1>3. n * Hour = m * Hour + Hour /\ m * Hour \in Nat
  BY <1>1, <1>2
<1> QED
  BY <1>1, <1>3

\* A longer duration that is proposed clashes with no confirmed booking with which the
\* shorter one did not.
LEMMA ProposalClashesNoMore ==
  ASSUME TxTypeOK, NEW b \in Bookings, NEW d \in 1..MaxDuration, NEW c \in Bookings, c # b,
         rows[c].status = "CONFIRMED", ~(d > 1 /\ ModifyConflict(rows, b, d)),
         NEW q, q.pro = rows[b].pro, q.start = rows[b].start, q.duration = d, Clash(q, rows[c])
  PROVE  Clash(rows[b], rows[c])
<1>1. rows[b] \in Row /\ rows[c] \in Row
  BY DEF TxTypeOK
<1> DEFINE s == rows[b].start
           t == rows[c].start
           n == rows[b].duration
<1>2. s \in Nat /\ t \in Nat /\ n \in Nat \ {0} /\ d \in Nat \ {0}
  BY <1>1, DataAssumption DEF Row
<1>3. n * Hour \in Nat /\ Hour <= n * Hour /\ d * Hour \in Nat /\ Hour \in Nat \ {0}
  BY <1>2, Hours, DataAssumption
<1>4. s < computeEndTime(rows[c]) /\ t < s + d * Hour /\ rows[b].pro = rows[c].pro
      /\ DayOf(s) = DayOf(t)
  BY DEF Clash, overlaps, computeEndTime
<1>5. t < s + n * Hour
  <2>1. CASE d > 1
    <3>1. ~ModifyConflict(rows, b, d)
      BY <2>1
    <3>2. ~(s <= t /\ t < s + d * Hour)
      BY <1>4, <3>1 DEF ModifyConflict
    <3> HIDE DEF s, t, n
    <3> QED
      BY <1>2, <1>3, <1>4, <3>2
  <2>2. CASE ~(d > 1)
    <3>1. d = 1
      BY <1>2, <2>2
    <3> HIDE DEF s, t, n
    <3>2. 1 * Hour = Hour
      BY <1>3
    <3> QED
      BY <1>2, <1>3, <1>4, <3>1, <3>2
  <2> QED
    BY <2>1, <2>2
<1> QED
  BY <1>4, <1>5 DEF Clash, overlaps, computeEndTime

-----------------------------------------------------------------------------
(* The invariant, step by step *)

\* A step that confirms nothing, moves no interval into a confirmed one, and starts and
\* judges no confirmation.
LEMMA QuietStep ==
  ASSUME DoubleInv, TxInv', raced' = raced,
         \A c \in Bookings : rows'[c].status = "CONFIRMED" => rows'[c] = rows[c],
         \A c \in Bookings : rows[c].status # "ABSENT" =>
           rows'[c].pro = rows[c].pro /\ rows'[c].start = rows[c].start,
         \A b, c \in Bookings :
           /\ b # c /\ rows[b].status # "ABSENT" /\ rows'[c].status = "CONFIRMED"
           /\ Clash(rows'[b], rows'[c])
           => Clash(rows[b], rows[c]),
         \A w \in Workers : InFlight(w)' =>
           /\ InFlight(w) /\ req'[w].b = req[w].b /\ req'[w].row = req[w].row
           /\ At(w, "check")' <=> At(w, "check")
  PROVE  DoubleInv'
<1>1. \A w \in Workers : InFlight(w) => req[w].b \in Bookings /\ rows[req[w].b].status # "ABSENT"
  BY DEF DoubleInv, TxInv, Knows, InFlight, Judged, AboutOne
<1>2. ASSUME NEW w \in Workers, NEW c \in Bookings, InFlight(w)', Rival(w, c)'
      PROVE  InFlight(w) /\ Rival(w, c) /\ req'[w].b = req[w].b /\ rows'[c] = rows[c]
  BY <1>1, <1>2 DEF Rival
<1>3. ASSUME NEW v \in Workers, NEW w \in Workers, InFlight(v)', InFlight(w)', req'[v].b # req'[w].b
      PROVE  {req'[v].b, req'[w].b} \in raced'
  BY <1>3 DEF DoubleInv, RaceInv
<1>4. ASSUME NEW w \in Workers, NEW c \in Bookings, At(w, "check")', Rival(w, c)'
      PROVE  {req'[w].b, c} \in raced' \/ Clash(AsSeen(w)', rows'[c])
  <2>1. InFlight(w)'
    BY <1>4 DEF InFlight, At
  <2>2. /\ At(w, "check") /\ Rival(w, c) /\ req'[w].b = req[w].b /\ rows'[c] = rows[c]
        /\ req'[w].row = req[w].row
    BY <1>2, <1>4, <2>1
  <2>3. {req[w].b, c} \in raced \/ Clash(AsSeen(w), rows[c])
    BY <2>2 DEF DoubleInv, RaceInv
  <2>4. SameSlot(AsSeen(w), AsSeen(w)')
    <3>1. req[w].b \in Bookings /\ rows[req[w].b].status # "ABSENT"
      BY <1>1, <1>2, <1>4, <2>1
    <3>2. rows[req[w].b] \in Row /\ rows'[req[w].b] \in Row
      BY <3>1 DEF DoubleInv, TxInv, TxTypeOK
    <3>3. rows'[req[w].b].pro = rows[req[w].b].pro /\ rows'[req[w].b].start = rows[req[w].b].start
      BY <3>1
    <3> QED
      BY <2>2, <3>2, <3>3 DEF AsSeen, SameSlot, Row
  <2> QED
    BY <2>2, <2>3, <2>4, ClashSame DEF SameSlot
<1>5. ASSUME NEW w \in Workers, NEW c \in Bookings, req'[w].pc \in Judged, Rival(w, c)'
      PROVE  {req'[w].b, c} \in raced'
  <2>1. InFlight(w)' /\ ~At(w, "check")'
    BY <1>5 DEF InFlight, At, Judged
  <2>2. req[w].pc \in Judged /\ Rival(w, c) /\ req'[w].b = req[w].b
    BY <1>2, <1>5, <2>1 DEF InFlight, At
  <2> QED
    BY <2>2 DEF DoubleInv, RaceInv
<1>6. DoubleBookingOnlyByOverlap'
  BY DEF DoubleInv, RaceInv, DoubleBookingOnlyByOverlap
<1> QED
  BY <1>3, <1>4, <1>5, <1>6 DEF DoubleInv, RaceInv

\* A confirmation begins: its booking is not confirmed, and it meets those in flight.
LEMMA BeginRaces ==
  ASSUME DoubleInv, TxInv', NEW w \in Workers, NEW b \in Bookings, BeginConfirm(w, b)
  PROVE  DoubleInv'
<1>1. /\ rows' = rows /\ rows[b].status \in Open /\ At(w, "idle")
      /\ req' = [req EXCEPT ![w] = Request("check", b, rows[b], {})]
  BY DEF BeginConfirm, tables
<1>2. /\ req'[w].pc = "check" /\ req'[w].b = b /\ req'[w].row = rows[b]
      /\ \A v \in Workers \ {w} : req'[v] = req[v]
  BY <1>1 DEF Request, DoubleInv, TxInv, TxTypeOK
<1>3. rows[b].status # "CONFIRMED" /\ rows[b] \in Row
  BY <1>1 DEF Open, DoubleInv, TxInv, TxTypeOK
<1>4. \A s \in raced : b \notin s \/ (\E v \in Workers : Confirming(v, b)) => s \in raced'
  BY DEF BeginConfirm
<1>5. \A v \in Workers, c \in Bookings : Confirming(v, c) /\ c # b => {b, c} \in raced'
  BY DEF BeginConfirm
<1>6. \A v \in Workers : InFlight(v) <=> Confirming(v, req[v].b)
  BY DEF InFlight, Confirming, Judged
<1>7. \A v \in Workers : InFlight(v) => req[v].b \in Bookings
  BY DEF DoubleInv, TxInv, Knows, InFlight, Judged, AboutOne
<1>8. \A v \in Workers : InFlight(v)' <=> v = w \/ InFlight(v)
  BY <1>1, <1>2 DEF InFlight, At, Judged
<1>9. ASSUME NEW u \in Workers, NEW v \in Workers, InFlight(u)', InFlight(v)', req'[u].b # req'[v].b
      PROVE  {req'[u].b, req'[v].b} \in raced'
  <2>1. CASE u # w /\ v # w
    <3>1. {req[u].b, req[v].b} \in raced /\ InFlight(u) /\ InFlight(v)
      BY <1>2, <1>8, <1>9, <2>1 DEF DoubleInv, RaceInv
    <3>2. b \in {req[u].b, req[v].b} => \E x \in Workers : Confirming(x, b)
      BY <1>6, <3>1
    <3> QED
      BY <1>2, <1>4, <2>1, <3>1, <3>2
  <2>2. CASE u = w
    <3>1. v # w /\ InFlight(v) /\ req'[v].b = req[v].b /\ req[v].b # b
      BY <1>2, <1>8, <1>9, <2>2
    <3> QED
      BY <1>2, <1>5, <1>6, <1>7, <2>2, <3>1
  <2>3. CASE v = w
    <3>1. u # w /\ InFlight(u) /\ req'[u].b = req[u].b /\ req[u].b # b
      BY <1>2, <1>8, <1>9, <2>3
    <3>2. {b, req[u].b} \in raced' /\ {b, req[u].b} = {req[u].b, b}
      BY <1>5, <1>6, <1>7, <3>1
    <3> QED
      BY <1>2, <2>3, <3>1, <3>2
  <2> QED
    BY <2>1, <2>2, <2>3
\* What another confirmation has met is not forgotten.
<1>10. ASSUME NEW v \in Workers, v # w, InFlight(v), NEW c \in Bookings, rows[c].status = "CONFIRMED",
              {req[v].b, c} \in raced
       PROVE  {req[v].b, c} \in raced'
  <2>1. c # b
    BY <1>3, <1>10
  <2>2. req[v].b = b => Confirming(v, b)
    BY <1>6, <1>10
  <2> QED
    BY <1>4, <1>10, <2>1, <2>2
<1>11. ASSUME NEW v \in Workers, v # w, NEW c \in Bookings
       PROVE  (Rival(v, c)' <=> Rival(v, c)) /\ AsSeen(v)' = AsSeen(v)
  BY <1>1, <1>2, <1>11 DEF Rival, AsSeen
<1>12. ASSUME NEW v \in Workers, NEW c \in Bookings, At(v, "check")', Rival(v, c)'
       PROVE  {req'[v].b, c} \in raced' \/ Clash(AsSeen(v)', rows'[c])
  <2>1. CASE v = w
    <3>1. AsSeen(w)' = [rows[b] EXCEPT !.duration = rows[b].duration] /\ Clash(rows[b], rows'[c])
      BY <1>1, <1>2, <1>12, <2>1 DEF AsSeen, Rival
    <3>2. AsSeen(w)' = rows[b]
      BY <1>3, <3>1 DEF Row
    <3> QED
      BY <2>1, <3>1, <3>2
  <2>2. CASE v # w
    <3>1. At(v, "check") /\ InFlight(v) /\ Rival(v, c) /\ req'[v].b = req[v].b
      BY <1>2, <1>11, <1>12, <2>2 DEF At, InFlight
    <3>2. {req[v].b, c} \in raced \/ Clash(AsSeen(v), rows[c])
      BY <3>1 DEF DoubleInv, RaceInv
    <3>3. rows[c].status = "CONFIRMED"
      BY <3>1 DEF Rival
    <3> QED
      BY <1>1, <1>10, <1>11, <2>2, <3>1, <3>2, <3>3
  <2> QED
    BY <2>1, <2>2
<1>13. ASSUME NEW v \in Workers, NEW c \in Bookings, req'[v].pc \in Judged, Rival(v, c)'
       PROVE  {req'[v].b, c} \in raced'
  <2>1. v # w
    BY <1>2, <1>13 DEF Judged
  <2>2. req[v].pc \in Judged /\ InFlight(v) /\ Rival(v, c) /\ req'[v].b = req[v].b
    BY <1>2, <1>11, <1>13, <2>1 DEF InFlight
  <2>3. {req[v].b, c} \in raced /\ rows[c].status = "CONFIRMED"
    BY <2>2 DEF DoubleInv, RaceInv, Rival
  <2> QED
    BY <1>10, <2>1, <2>2, <2>3
<1>14. DoubleBookingOnlyByOverlap'
  <2> SUFFICES ASSUME NEW c \in Bookings, NEW e \in Bookings, c # e,
                      rows[c].status = "CONFIRMED", rows[e].status = "CONFIRMED",
                      rows[c].pro = rows[e].pro, DayOf(rows[c].start) = DayOf(rows[e].start),
                      overlaps(rows[c], rows[e])
               PROVE  {c, e} \in raced'
    BY <1>1 DEF DoubleBookingOnlyByOverlap
  <2>1. {c, e} \in raced
    BY DEF DoubleInv, RaceInv, DoubleBookingOnlyByOverlap
  <2> QED
    BY <1>3, <1>4, <2>1
<1> QED
  BY <1>9, <1>12, <1>13, <1>14 DEF DoubleInv, RaceInv

\* The check lets a confirmation pass that has met all its rivals.
LEMMA CheckRaces ==
  ASSUME DoubleInv, TxInv', NEW w \in Workers, CheckConflicts(w)
  PROVE  DoubleInv'
<1> DEFINE b == req[w].b
<1>1. /\ rows' = rows /\ raced' = raced /\ At(w, "check") /\ b \in Bookings /\ rows[b] \in Row
      /\ \A v \in Workers \ {w} : req'[v] = req[v]
      /\ req[w] \in Requests
  BY DEF CheckConflicts, tables, DoubleInv, TxInv, TxTypeOK, Knows, At, AboutOne, Finish, Goto
<1>2. CASE ConfirmConflict(AsRead(w, rows), b)
  <2>1. req'[w].pc = "idle"
    BY <1>1, <1>2, IdleRequest DEF CheckConflicts, Finish, DoubleInv, TxInv, TxTypeOK
  <2>2. \A v \in Workers : InFlight(v)' =>
          /\ InFlight(v) /\ req'[v].b = req[v].b /\ req'[v].row = req[v].row
          /\ At(v, "check")' <=> At(v, "check")
    BY <1>1, <2>1 DEF InFlight, At, Judged
  <2> QED
    BY <1>1, <2>2, QuietStep
<1>3. CASE ~ConfirmConflict(AsRead(w, rows), b)
  <2>1. req'[w].pc = "write" /\ req'[w].b = b
    BY <1>1, <1>3 DEF CheckConflicts, Goto, DoubleInv, TxInv, TxTypeOK, Requests
  <2>2. ASSUME NEW c \in Bookings, Rival(w, c) PROVE {b, c} \in raced
    <3> DEFINE rs == AsRead(w, rows)
    <3>1. rs[b] = AsSeen(w) /\ rs[c] = rows[c]
      BY <1>1, <2>2 DEF AsRead, AsSeen, Rival, DoubleInv, TxInv, TxTypeOK
    <3>2. ~Clash(AsSeen(w), rows[c])
      <4>1. rs[c].status = "CONFIRMED"
        BY <2>2, <3>1 DEF Rival
      <4> HIDE DEF rs, b
      <4>2. ~(rs[c].pro = rs[b].pro /\ DayOf(rs[c].start) = DayOf(rs[b].start) /\ overlaps(rs[b], rs[c]))
        BY <1>3, <4>1 DEF ConfirmConflict, OfDay, rs
      <4> QED
        BY <3>1, <4>2 DEF Clash
    <3> QED
      BY <1>1, <2>2, <3>2 DEF DoubleInv, RaceInv
  <2>3. \A v \in Workers : (InFlight(v)' <=> InFlight(v)) /\ req'[v].b = req[v].b
    BY <1>1, <2>1 DEF InFlight, At, Judged
  <2>4. \A v \in Workers, c \in Bookings : Rival(v, c)' <=> Rival(v, c)
    BY <1>1, <2>3 DEF Rival
  <2>5. \A v \in Workers \ {w} : AsSeen(v)' = AsSeen(v) /\ (At(v, "check")' <=> At(v, "check"))
    BY <1>1 DEF AsSeen, At
  <2>6. ~At(w, "check")'
    BY <2>1 DEF At
  <2>7. DoubleBookingOnlyByOverlap'
    BY <1>1 DEF DoubleInv, RaceInv, DoubleBookingOnlyByOverlap
  <2>8. ASSUME NEW v \in Workers, NEW c \in Bookings, req'[v].pc \in Judged, Rival(v, c)'
        PROVE  {req'[v].b, c} \in raced'
    <3>1. CASE v = w
      BY <1>1, <2>1, <2>2, <2>4, <2>8, <3>1
    <3>2. CASE v # w
      BY <1>1, <2>4, <2>8, <3>2 DEF DoubleInv, RaceInv
    <3> QED
      BY <3>1, <3>2
  <2>9. ASSUME NEW v \in Workers, NEW c \in Bookings, At(v, "check")', Rival(v, c)'
        PROVE  {req'[v].b, c} \in raced' \/ Clash(AsSeen(v)', rows'[c])
    <3>1. v # w
      BY <2>6, <2>9
    <3>2. At(v, "check") /\ Rival(v, c) /\ AsSeen(v)' = AsSeen(v)
      BY <2>4, <2>5, <2>9, <3>1
    <3> QED
      BY <1>1, <2>3, <3>2 DEF DoubleInv, RaceInv
  <2>10. ASSUME NEW u \in Workers, NEW v \in Workers, InFlight(u)', InFlight(v)', req'[u].b # req'[v].b
         PROVE  {req'[u].b, req'[v].b} \in raced'
    BY <1>1, <2>3, <2>10 DEF DoubleInv, RaceInv
  <2> QED
    BY <2>7, <2>8, <2>9, <2>10 DEF DoubleInv, RaceInv
<1> QED
  BY <1>2, <1>3

\* The commit of a confirmation: it has met its rivals, and whoever is in flight has met it.
LEMMA CommitRaces ==
  ASSUME DoubleInv, TxInv', NEW w \in Workers, CommitConfirm(w)
  PROVE  DoubleInv'
<1> DEFINE b == req[w].b
<1>1. /\ raced' = raced /\ At(w, "sweep") /\ b \in Bookings /\ b \in DOMAIN tx[w] /\ Holds(w)
      /\ \A c \in Bookings : rows[c] \in Row
      /\ \A v \in Workers \ {w} : req'[v] = req[v]
      /\ req[w] \in Requests
  BY DEF CommitConfirm, DoubleInv, TxInv, TxTypeOK, Knows, Holds, At, AboutOne, Goto
<1>2. req'[w].pc = "domino"
  BY <1>1 DEF CommitConfirm, Goto, DoubleInv, TxInv, TxTypeOK, Requests
<1>3. \A c \in Bookings : /\ SameSlot(rows[c], rows'[c])
                          /\ rows'[c].status = "CONFIRMED" => c = b \/ rows'[c] = rows[c]
  <2> SUFFICES ASSUME NEW c \in Bookings
               PROVE  /\ SameSlot(rows[c], rows'[c])
                      /\ rows'[c].status = "CONFIRMED" => c = b \/ rows'[c] = rows[c]
    OBVIOUS
  <2>1. rows'[c] = IF c \in DOMAIN tx[w] THEN tx[w][c] ELSE rows[c]
    BY DEF CommitConfirm, View
  <2>2. c \in DOMAIN tx[w] =>
          tx[w][c] = IF c = b THEN Stamp(rows[c], "CONFIRMED", "confirmedAt")
                     ELSE Stamp(rows[c], "CANCELLED_AUTO_OVERLAP", "cancelledAt")
    BY <1>1 DEF Holds, At
  <2>3. \A s, col : LET q == Stamp(rows[c], s, col)
                    IN  SameSlot(rows[c], q) /\ q.status = s
    BY <1>1 DEF Stamp, Row, SameSlot
  <2>4. SameSlot(rows[c], rows[c])
    BY DEF SameSlot
  <2> QED
    BY <2>1, <2>2, <2>3, <2>4
<1>4. \A c, e \in Bookings : Clash(rows'[c], rows'[e]) <=> Clash(rows[c], rows[e])
  BY <1>3, ClashSame
<1>5. \A v \in Workers : InFlight(v)' => v # w /\ InFlight(v) /\ req'[v] = req[v]
  BY <1>1, <1>2 DEF InFlight, Judged
<1>6. InFlight(w)
  BY <1>1 DEF InFlight, At, Judged
<1>7. \A v \in Workers : InFlight(v) => req[v].b \in Bookings
  BY DEF DoubleInv, TxInv, Knows, InFlight, Judged, AboutOne
\* A rival of a confirmation in flight was there before, or is the booking just confirmed.
<1>8. ASSUME NEW v \in Workers, NEW c \in Bookings, InFlight(v)', Rival(v, c)'
      PROVE  {req[v].b, c} \in raced \/ (Rival(v, c) /\ rows'[c] = rows[c])
  <2>1. v # w /\ InFlight(v) /\ req'[v] = req[v] /\ c # req[v].b /\ rows'[c].status = "CONFIRMED"
        /\ Clash(rows'[req[v].b], rows'[c])
    BY <1>5, <1>8 DEF Rival
  <2>2. CASE c = b
    BY <1>6, <2>1, <2>2 DEF DoubleInv, RaceInv
  <2>3. CASE c # b
    <3>1. rows'[c] = rows[c] /\ rows[c].status = "CONFIRMED"
      BY <1>3, <2>1, <2>3
    <3> QED
      BY <1>4, <1>7, <2>1, <3>1 DEF Rival
  <2> QED
    BY <2>2, <2>3
<1>9. ASSUME NEW v \in Workers, NEW c \in Bookings, At(v, "check")', Rival(v, c)'
      PROVE  {req'[v].b, c} \in raced' \/ Clash(AsSeen(v)', rows'[c])
  <2>1. InFlight(v)'
    BY <1>9 DEF InFlight, At
  <2>2. req'[v] = req[v] /\ At(v, "check") /\ req[v].b \in Bookings
    BY <1>5, <1>7, <1>9, <2>1 DEF At
  <2>3. SameSlot(AsSeen(v), AsSeen(v)')
    <3>1. rows[req[v].b] \in Row /\ rows'[req[v].b] \in Row /\ SameSlot(rows[req[v].b], rows'[req[v].b])
      BY <1>3, <2>2 DEF DoubleInv, TxInv, TxTypeOK
    <3> QED
      BY <2>2, <3>1 DEF AsSeen, SameSlot, Row
  <2>4. CASE {req[v].b, c} \in raced
    BY <1>1, <2>2, <2>4
  <2>5. CASE Rival(v, c) /\ rows'[c] = rows[c]
    <3>1. {req[v].b, c} \in raced \/ Clash(AsSeen(v), rows[c])
      BY <2>2, <2>5 DEF DoubleInv, RaceInv
    <3>2. SameSlot(rows[c], rows'[c])
      BY <1>3
    <3> QED
      BY <1>1, <2>2, <2>3, <3>1, <3>2, ClashSame
  <2> QED
    BY <1>8, <1>9, <2>1, <2>4, <2>5
<1>10. ASSUME NEW v \in Workers, NEW c \in Bookings, req'[v].pc \in Judged, Rival(v, c)'
       PROVE  {req'[v].b, c} \in raced'
  <2>1. InFlight(v)'
    BY <1>10 DEF InFlight
  <2>2. req'[v] = req[v]
    BY <1>5, <2>1
  <2> QED
    BY <1>1, <1>8, <1>10, <2>1, <2>2 DEF DoubleInv, RaceInv
<1>11. ASSUME NEW u \in Workers, NEW v \in Workers, InFlight(u)', InFlight(v)', req'[u].b # req'[v].b
       PROVE  {req'[u].b, req'[v].b} \in raced'
  BY <1>1, <1>5, <1>11 DEF DoubleInv, RaceInv
<1>12. ASSUME NEW c \in Bookings, c # b, rows'[c].status = "CONFIRMED", Clash(rows'[b], rows'[c])
       PROVE  {b, c} \in raced
  <2>1. Rival(w, c)
    BY <1>1, <1>3, <1>4, <1>12 DEF Rival
  <2> QED
    BY <1>1, <2>1 DEF DoubleInv, RaceInv, At, Judged
<1>13. DoubleBookingOnlyByOverlap'
  <2> SUFFICES ASSUME NEW c \in Bookings, NEW e \in Bookings, c # e,
                      rows'[c].status = "CONFIRMED", rows'[e].status = "CONFIRMED",
                      Clash(rows'[c], rows'[e])
               PROVE  {c, e} \in raced
    BY <1>1 DEF DoubleBookingOnlyByOverlap, Clash
  <2>1. CASE c = b
    BY <1>12, <2>1
  <2>2. CASE e = b
    <3>1. {b, c} \in raced
      BY <1>12, <2>2, ClashSymmetric
    <3>2. {b, c} = {c, e}
      BY <2>2
    <3> QED
      BY <3>1, <3>2
  <2>3. CASE c # b /\ e # b
    <3>1. rows'[c] = rows[c] /\ rows'[e] = rows[e]
      BY <1>3, <2>3
    <3> QED
      BY <3>1 DEF DoubleInv, RaceInv, DoubleBookingOnlyByOverlap, Clash
  <2> QED
    BY <2>1, <2>2, <2>3
<1> QED
  BY <1>9, <1>10, <1>11, <1>13 DEF DoubleInv, RaceInv

\* No step but the commit of a confirmation confirms a booking, and none but a proposal
\* changes the slot of one.
LEMMA SettleKeeps ==
  ASSUME NEW r \in Row, NEW q, NEW T, NEW U, Settle(r, q, T, U)
  PROVE  /\ q.status = "CONFIRMED" => q = r
         /\ r.status # "ABSENT" => \/ SameSlot(r, q)
                                   \/ r.status = "PENDING" /\ \E d \in 1..MaxDuration : q = Modified(r, d)
<1>1. \A s \in Cancelled \cup {"COMPLETED"}, col \in Stamps : Stamp(r, s, col).status # "CONFIRMED"
  <2>1. Cancelled \cup {"COMPLETED"} \subseteq Status \ {"CONFIRMED"}
    BY DEF Status, Final, Cancelled
  <2> QED
    BY <2>1, StampRow
<1>2. \A s \in {"DECLINED", "EXPIRED"} : [r EXCEPT !.status = s].status # "CONFIRMED"
  BY StatusRow
<1>3. \A d \in 1..MaxDuration : Modified(r, d).status # "CONFIRMED"
  BY ModifiedRow
<1>4. \A s, col : SameSlot(r, Stamp(r, s, col))
  BY DEF Stamp, Row, SameSlot
<1>5. \A s : SameSlot(r, [r EXCEPT !.status = s])
  BY DEF Row, SameSlot
<1>6. SameSlot(r, r)
  BY DEF SameSlot
<1> QED
  BY <1>1, <1>2, <1>3, <1>4, <1>5, <1>6 DEF Settle, Stamps

\* A proposal that is committed is clear of the confirmed bookings.
LEMMA ModifyRaces ==
  ASSUME DoubleInv, TxInv', NEW w \in Workers, EndModify(w)
  PROVE  DoubleInv'
<1> DEFINE b == req[w].b
           d == tx[w][b].duration
<1>1. /\ raced' = raced /\ At(w, "modify") /\ b \in Bookings /\ Holds(w)
      /\ \A c \in Bookings : rows[c] \in Row
      /\ \A v \in Workers \ {w} : req'[v] = req[v]
  BY DEF EndModify, DoubleInv, TxInv, TxTypeOK, Knows, At, AboutOne, Finish
<1>2. req'[w].pc = "idle"
  BY IdleRequest DEF EndModify, Finish, DoubleInv, TxInv, TxTypeOK
<1>3. \A v \in Workers : InFlight(v)' =>
        /\ InFlight(v) /\ req'[v].b = req[v].b /\ req'[v].row = req[v].row
        /\ At(v, "check")' <=> At(v, "check")
  BY <1>1, <1>2 DEF InFlight, At, Judged
<1>4. CASE rows' = rows
  BY <1>1, <1>3, <1>4, QuietStep
<1>5. CASE rows' # rows
  <2>1. rows' = View(w) /\ ~(d > 1 /\ ModifyConflict(rows, b, d))
    BY <1>5 DEF EndModify
  <2>2. DOMAIN tx[w] = {b} /\ \E x \in 1..MaxDuration : tx[w][b] = Modified(rows[b], x)
    BY <1>1 DEF Holds, At
  <2>3. \A c \in Bookings \ {b} : rows'[c] = rows[c]
    BY <2>1, <2>2 DEF View
  <2>4. PICK x \in 1..MaxDuration : rows'[b] = Modified(rows[b], x) /\ tx[w][b] = Modified(rows[b], x)
    BY <1>1, <2>1, <2>2 DEF View
  <2>5. /\ rows'[b].pro = rows[b].pro /\ rows'[b].start = rows[b].start /\ rows'[b].duration = x /\ d = x
        /\ rows'[b].status = "WAITING_FOR_CLIENT"
    BY <1>1, <2>4 DEF Modified, Row
  <2>6. ASSUME NEW a \in Bookings, NEW c \in Bookings, a # c, rows'[c].status = "CONFIRMED",
               Clash(rows'[a], rows'[c])
        PROVE  Clash(rows[a], rows[c])
    <3>1. c # b /\ rows'[c] = rows[c]
      BY <2>3, <2>5, <2>6
    <3>2. CASE a # b
      BY <2>3, <2>6, <3>1, <3>2
    <3>3. CASE a = b
      <4>1. ~(x > 1 /\ ModifyConflict(rows, b, x))
        BY <2>1, <2>5
      <4> HIDE DEF b, d
      <4>2. Clash(rows[b], rows[c])
        BY <1>1, <2>5, <2>6, <3>1, <3>3, <4>1, ProposalClashesNoMore DEF DoubleInv, TxInv
      <4> QED
        BY <3>3, <4>2
    <3> QED
      BY <3>2, <3>3
  <2>7. \A c \in Bookings : rows'[c].status = "CONFIRMED" => rows'[c] = rows[c]
    BY <2>3, <2>5
  <2>8. \A c \in Bookings : rows'[c].pro = rows[c].pro /\ rows'[c].start = rows[c].start
    BY <2>3, <2>5
  <2> HIDE DEF b, d
  <2> QED
    BY <1>1, <1>3, <2>6, <2>7, <2>8, QuietStep
<1> QED
  BY <1>4, <1>5

\* What the other statements do to the request that sends them.
LEMMA Moves ==
  ASSUME TxInv, NEW w \in Workers, Begin(w) \/ Step(w) \/ Fail(w),
         \A b \in Bookings : ~BeginConfirm(w, b), ~CheckConflicts(w), ~CommitConfirm(w)
  PROVE  /\ raced' = raced
         /\ \A v \in Workers : InFlight(v)' =>
              /\ InFlight(v) /\ req'[v].b = req[v].b /\ req'[v].row = req[v].row
              /\ At(v, "check")' <=> At(v, "check")
<1>a. req \in [Workers -> Requests]
  BY DEF TxInv, TxTypeOK
<1>b. ASSUME req'[w].pc \notin {"check"} \cup Judged, \A v \in Workers \ {w} : req'[v] = req[v]
      PROVE  \A v \in Workers : InFlight(v)' =>
               /\ InFlight(v) /\ req'[v].b = req[v].b /\ req'[v].row = req[v].row
               /\ At(v, "check")' <=> At(v, "check")
  BY <1>b DEF InFlight, At
<1>1. CASE Begin(w)
  <2>1. ASSUME NEW pc \in {"refuse", "modify", "insert", "expire"}, NEW b, NEW row, NEW ids,
               req' = [req EXCEPT ![w] = Request(pc, b, row, ids)]
        PROVE  req'[w].pc \notin {"check"} \cup Judged /\ \A v \in Workers \ {w} : req'[v] = req[v]
    BY <1>a, <2>1 DEF Request, Judged
  <2>2. ASSUME NEW b \in Bookings, BeginRefuse(w, b)
        PROVE  req'[w].pc \notin {"check"} \cup Judged /\ \A v \in Workers \ {w} : req'[v] = req[v]
    BY <2>1, <2>2 DEF BeginRefuse
  <2>3. ASSUME NEW b \in Bookings, NEW d \in 1..MaxDuration, BeginModify(w, b, d)
        PROVE  req'[w].pc \notin {"check"} \cup Judged /\ \A v \in Workers \ {w} : req'[v] = req[v]
    BY <2>1, <2>3 DEF BeginModify
  <2>4. ASSUME NEW p \in Pros, NEW t \in Starts, BeginCreate(w, p, t)
        PROVE  req'[w].pc \notin {"check"} \cup Judged /\ \A v \in Workers \ {w} : req'[v] = req[v]
    BY <2>1, <2>4 DEF BeginCreate
  <2>5. ASSUME BeginExpire(w)
        PROVE  req'[w].pc \notin {"check"} \cup Judged /\ \A v \in Workers \ {w} : req'[v] = req[v]
    BY <2>1, <2>5 DEF BeginExpire
  <2>6. raced' = raced
    BY <1>1 DEF Begin, BeginRefuse, BeginModify, BeginCreate, BeginExpire
  <2>7. req'[w].pc \notin {"check"} \cup Judged /\ \A v \in Workers \ {w} : req'[v] = req[v]
    BY <1>1, <2>2, <2>3, <2>4, <2>5 DEF Begin
  <2> QED
    BY <1>b, <2>6, <2>7
<1>2. CASE WriteConfirmed(w) \/ FindCompeting(w) \/ \E c \in Bookings : CancelCompeting(w, c)
  <2>1. /\ raced' = raced /\ req[w].pc \in Judged /\ req'[w].pc \in Judged
        /\ req'[w].b = req[w].b /\ req'[w].row = req[w].row /\ \A v \in Workers \ {w} : req'[v] = req[v]
    BY <1>a, <1>2 DEF WriteConfirmed, FindCompeting, CancelCompeting, Goto, GotoWith, At, Judged, Requests
  <2> QED
    BY <2>1 DEF InFlight, At, Judged
<1>3. CASE FindPrevious(w) \/ WriteRefusal(w)
  <2>1. /\ raced' = raced /\ req'[w].pc \notin {"check"} \cup Judged
        /\ \A v \in Workers \ {w} : req'[v] = req[v]
    BY <1>a, <1>3, IdleRequest DEF FindPrevious, WriteRefusal, Goto, GotoWith, Finish, Judged, Requests
  <2> QED
    BY <1>b, <2>1
<1>4. CASE \/ CompletePrevious(w) \/ RecordRefusal(w) \/ EndModify(w) \/ WriteExpired(w)
           \/ DeadlockVictim(w) \/ Fail(w) \/ \E b \in Bookings : Insert(w, b)
  <2>1. Finish(w) /\ raced' = raced
    BY <1>4 DEF CompletePrevious, RecordRefusal, EndModify, WriteExpired, DeadlockVictim, Fail, Insert
  <2>2. req'[w].pc = "idle" /\ \A v \in Workers \ {w} : req'[v] = req[v]
    BY <1>a, <2>1, IdleRequest DEF Finish
  <2>3. req'[w].pc \notin {"check"} \cup Judged
    BY <2>2 DEF Judged
  <2> QED
    BY <1>b, <2>1, <2>2, <2>3
<1>5. CASE Step(w)
  BY <1>5, <1>2, <1>3, <1>4 DEF Step
<1> QED
  BY <1>1, <1>4, <1>5

\* No step but those two changes the slot of a booking.
LEMMA SlotStays ==
  ASSUME TxInv, [Next]_vars, \A w \in Workers : ~CommitConfirm(w) /\ ~EndModify(w),
         NEW c \in Bookings, rows[c].status # "ABSENT"
  PROVE  SameSlot(rows[c], rows'[c])
<1>a. rows \in [Bookings -> Row] /\ rows[c] \in Row
  BY DEF TxInv, TxTypeOK
<1>b. /\ SameSlot(rows[c], rows[c])
      /\ \A s, col : SameSlot(rows[c], Stamp(rows[c], s, col))
      /\ \A s : SameSlot(rows[c], [rows[c] EXCEPT !.status = s])
  BY <1>a DEF Stamp, Row, SameSlot
<1>1. CASE rows' = rows
  BY <1>b, <1>1
<1>2. ASSUME NEW w \in Workers, CompletePrevious(w) PROVE SameSlot(rows[c], rows'[c])
  <2>1. rows'[c] = IF c \in req[w].ids THEN Stamp(rows[c], "COMPLETED", "completedAt") ELSE rows[c]
    BY <1>2, SerialData DEF CompletePrevious, Serial!AutoComplete
  <2> QED
    BY <1>b, <2>1
<1>3. ASSUME NEW w \in Workers, WriteRefusal(w) PROVE SameSlot(rows[c], rows'[c])
  <2>1. rows'[c] = rows[c] \/ rows'[c] = [rows[c] EXCEPT !.status = "DECLINED"]
    BY <1>3, <1>a DEF WriteRefusal
  <2> QED
    BY <1>b, <2>1
<1>4. ASSUME NEW w \in Workers, WriteExpired(w) PROVE SameSlot(rows[c], rows'[c])
  <2>1. rows'[c] = rows[c] \/ rows'[c] = [rows[c] EXCEPT !.status = "EXPIRED"]
    BY <1>4 DEF WriteExpired
  <2> QED
    BY <1>b, <2>1
<1>5. ASSUME NEW w \in Workers, NEW b \in Bookings, Insert(w, b) PROVE SameSlot(rows[c], rows'[c])
  <2>1. rows'[c] = rows[c]
    BY <1>5, <1>a DEF Insert
  <2> QED
    BY <1>b, <2>1
<1>6. ASSUME NEW b \in Bookings, OneRowHandler(b) PROVE SameSlot(rows[c], rows'[c])
  <2>1. CASE Serial!Decline(b)
    <3>1. rows'[c] = rows[c] \/ rows'[c] = [rows[c] EXCEPT !.status = "DECLINED"]
      BY <1>a, <2>1 DEF Serial!Decline
    <3> QED
      BY <1>b, <3>1
  <2>2. CASE Serial!Complete(b) \/ Serial!CancelByPro(b)
    <3>1. rows'[c] = rows[c] \/ \E s, col : rows'[c] = Stamp(rows[c], s, col)
      BY <1>a, <2>2, SerialData DEF Serial!Complete, Serial!CancelByPro
    <3> QED
      BY <1>b, <3>1
  <2>3. CASE Serial!CancelByClient(b)
    <3>1. rows'[c] = rows[c] \/ rows'[c] = CancelledByClient(rows[c], now)
      BY <1>a, <2>3, SerialData DEF Serial!CancelByClient
    <3> QED
      BY <1>b, <3>1 DEF CancelledByClient
  <2> QED
    BY <1>6, <2>1, <2>2, <2>3 DEF OneRowHandler
<1>7. ASSUME NEW w \in Workers, Begin(w) \/ Step(w) \/ Fail(w) PROVE SameSlot(rows[c], rows'[c])
  <2>1. Begin(w) \/ Fail(w) => rows' = rows
    BY DEF Begin, BeginConfirm, BeginRefuse, BeginModify, BeginCreate, BeginExpire, Fail, tables
  <2>2. CheckConflicts(w) \/ WriteConfirmed(w) \/ FindCompeting(w) \/ FindPrevious(w)
        \/ RecordRefusal(w) \/ DeadlockVictim(w) \/ (\E e \in Bookings : CancelCompeting(w, e))
        => rows' = rows
    BY DEF CheckConflicts, WriteConfirmed, FindCompeting, FindPrevious, RecordRefusal, DeadlockVictim,
       CancelCompeting, tables
  <2> QED
    BY <1>1, <1>2, <1>3, <1>4, <1>5, <1>7, <2>1, <2>2 DEF Step
<1>8. CASE Tick \/ UNCHANGED vars
  <2>1. rows' = rows
    BY <1>8 DEF Tick, Serial!Tick, vars
  <2> QED
    BY <1>1, <2>1
<1> QED
  BY <1>6, <1>7, <1>8 DEF Next

LEMMA DoubleInvNext == DoubleInv /\ [Next]_vars => DoubleInv'
<1> SUFFICES ASSUME DoubleInv, [Next]_vars PROVE DoubleInv'
  OBVIOUS
<1>1. TxInv /\ TxInv' /\ \A c \in Bookings : rows[c] \in Row
  BY TxInvNext DEF DoubleInv, TxInv, TxTypeOK
\* A step that commits neither a confirmation nor a proposal.
<1>2. ASSUME \A w \in Workers : ~CommitConfirm(w), \A w \in Workers : ~EndModify(w),
             raced' = raced,
             \A v \in Workers : InFlight(v)' =>
               /\ InFlight(v) /\ req'[v].b = req[v].b /\ req'[v].row = req[v].row
               /\ At(v, "check")' <=> At(v, "check")
      PROVE  DoubleInv'
  <2>1. \A c \in Bookings : rows'[c].status = "CONFIRMED" => rows'[c] = rows[c]
    BY <1>1, <1>2, NextSettles, SettleKeeps DEF Settles
  <2>2. \A c \in Bookings : rows[c].status # "ABSENT" => SameSlot(rows[c], rows'[c])
    BY <1>1, <1>2, SlotStays
  <2>3. ASSUME NEW b \in Bookings, NEW c \in Bookings, rows[b].status # "ABSENT",
               rows'[c].status = "CONFIRMED", Clash(rows'[b], rows'[c])
        PROVE  Clash(rows[b], rows[c])
    BY <2>1, <2>2, <2>3, ClashSame DEF SameSlot
  <2> QED
    BY <1>1, <1>2, <2>1, <2>2, <2>3, QuietStep DEF SameSlot
<1>3. ASSUME NEW w \in Workers, Begin(w) \/ Step(w) \/ Fail(w) PROVE DoubleInv'
  <2>1. CASE CommitConfirm(w)
    BY <1>1, <2>1, CommitRaces
  <2>2. CASE EndModify(w)
    BY <1>1, <2>2, ModifyRaces
  <2>3. CASE CheckConflicts(w)
    BY <1>1, <2>3, CheckRaces
  <2>4. CASE \E b \in Bookings : BeginConfirm(w, b)
    BY <1>1, <2>4, BeginRaces
  <2>5. CASE /\ ~CommitConfirm(w) /\ ~EndModify(w) /\ ~CheckConflicts(w)
             /\ \A b \in Bookings : ~BeginConfirm(w, b)
    <3>1. /\ raced' = raced
          /\ \A v \in Workers : InFlight(v)' =>
               /\ InFlight(v) /\ req'[v].b = req[v].b /\ req'[v].row = req[v].row
               /\ At(v, "check")' <=> At(v, "check")
      BY <1>1, <1>3, <2>5, Moves
    <3>2. CASE \E v \in Workers : CommitConfirm(v)
      BY <1>1, <3>2, CommitRaces
    <3>3. CASE \E v \in Workers : EndModify(v)
      BY <1>1, <3>3, ModifyRaces
    <3> QED
      BY <1>2, <3>1, <3>2, <3>3
  <2> QED
    BY <2>1, <2>2, <2>3, <2>4, <2>5
<1>4. CASE (\E b \in Bookings : OneRowHandler(b)) \/ Tick \/ UNCHANGED vars
  <2>1. raced' = raced /\ req' = req
    BY <1>4 DEF OneRowHandler, Tick, vars
  <2>2. \A v \in Workers : InFlight(v)' =>
          /\ InFlight(v) /\ req'[v].b = req[v].b /\ req'[v].row = req[v].row
          /\ At(v, "check")' <=> At(v, "check")
    BY <2>1 DEF InFlight, At
  <2>3. CASE \E v \in Workers : CommitConfirm(v)
    BY <1>1, <2>3, CommitRaces
  <2>4. CASE \E v \in Workers : EndModify(v)
    BY <1>1, <2>4, ModifyRaces
  <2> QED
    BY <1>2, <2>1, <2>2, <2>3, <2>4
<1> QED
  BY <1>3, <1>4 DEF Next

LEMMA DoubleInvInit == Init => DoubleInv
<1> SUFFICES ASSUME Init PROVE DoubleInv
  OBVIOUS
<1>1. \A p : AbsentRow(p).status = "ABSENT"
  BY DEF AbsentRow
<1>2. \A b \in Bookings : rows[b].status = "ABSENT"
  BY <1>1, SerialData DEF Init, Serial!Init
<1>3. \A w \in Workers : req[w].pc = "idle"
  BY IdleRequest DEF Init
<1> QED
  BY <1>2, <1>3, TxInvInit DEF DoubleInv, RaceInv, InFlight, Judged, At, DoubleBookingOnlyByOverlap

\* However many requests are in flight, whatever they have read before others wrote, and
\* whichever of them fail, are repeated or are cancelled by the database, a professional is
\* booked twice only by two confirmations that overlapped.
THEOREM DoubleBookingOnlyByOverlapHolds == Spec => []DoubleBookingOnlyByOverlap
<1>1. DoubleInv /\ [Next]_vars => DoubleInv'
  BY DoubleInvNext
<1>2. DoubleInv => DoubleBookingOnlyByOverlap
  BY DEF DoubleInv, RaceInv
<1> QED
  BY <1>1, <1>2, DoubleInvInit, PTL DEF Spec

=============================================================================
