---------------------------- MODULE BookingPages ----------------------------
(***************************************************************************)
(* The two pages on which a booking is answered, open at the same time:    *)
(* the list of the professional (dashboard/bookings) and the list of the   *)
(* client (client/bookings), over the rows of the server.  Each page works *)
(* on a copy that was true when it was served.  Nothing cancels a call of  *)
(* a page, so two of them may be answered in either order; a button is     *)
(* disabled only while updatingBooking names its booking, and              *)
(* updatingBooking names one booking.                                      *)
(*                                                                         *)
(* The bookings are at different times and on one page of the list: what   *)
(* an answer does to its rivals is in Booking.                             *)
(***************************************************************************)
EXTENDS Naturals, FiniteSets

CONSTANTS
  Bookings,
  Nobody,     \* no booking
  Calls,      \* bound: calls of the two pages in flight at once
  Durations,  \* the durations the professional may propose
  MaxPresses  \* bound: buttons pressed, lists loaded

VARIABLES
  row,        \* the server: status and duration of a booking
  list,       \* bookings of each page: a copy of row, or Empty
  loading, error, updating, dialog,
  call,       \* the calls in flight
  agreed,     \* history: the duration on the screen when the client accepted
  last,       \* history: who changed the booking last
  crossed,    \* history: the page had two calls in flight at once
  failed,     \* history: an answer to the page was lost
  presses

pageVars == <<list, loading, error, updating, dialog>>
historyVars == <<agreed, last, crossed, failed, presses>>
vars == <<row, pageVars, call, historyVars>>

Sides == {"pro", "client"}
OPEN == {"PENDING", "WAITING_FOR_CLIENT", "CONFIRMED"}
CLOSED == {"DECLINED", "CANCELLED_BY_CLIENT", "CANCELLED_BY_CLIENT_LATE", "CANCELLED_BY_PRO", "EXPIRED"}
Row == [status : OPEN \cup CLOSED \cup {"COMPLETED"}, duration : Durations \cup {1}, isModifiedByPro : BOOLEAN]

NoRow == [status |-> "none", duration |-> 0, isModifiedByPro |-> FALSE]
Empty == [b \in Bookings |-> NoRow]
Idle == [at |-> "idle"]
Closed == [kind |-> "closed", booking |-> Nobody]
Fetch(s) == [at |-> "fetch", side |-> s, op |-> "load", booking |-> Nobody, duration |-> 0, rows |-> Empty]
InFlight(s) == {c \in Calls : call[c].at # "idle" /\ call[c].side = s}

\* Both pages have just been opened: their lists are on their way.
Init ==
  /\ row \in [Bookings -> [status : {"PENDING", "CONFIRMED"}, duration : {1}, isModifiedByPro : {FALSE}]]
  /\ list = [s \in Sides |-> Empty] /\ loading = [s \in Sides |-> TRUE]
  /\ error = [s \in Sides |-> FALSE] /\ updating = [s \in Sides |-> Nobody]
  /\ dialog = [s \in Sides |-> Closed]
  /\ LET c == CHOOSE c \in Calls : TRUE  d == CHOOSE d \in Calls : d # c IN
     call = [e \in Calls |-> IF e = c THEN Fetch("pro") ELSE IF e = d THEN Fetch("client") ELSE Idle]
  /\ agreed = [b \in Bookings |-> 0] /\ last = [b \in Bookings |-> "nobody"]
  /\ crossed = [s \in Sides |-> FALSE] /\ failed = [s \in Sides |-> FALSE] /\ presses = 0

-----------------------------------------------------------------------------
(* The server, as in Booking: the statuses an operation starts from. *)
From(op) ==
  CASE op \in {"confirm", "decline", "modify"} -> {"PENDING"}
    [] op \in {"accept", "refuse"} -> {"WAITING_FOR_CLIENT"}
    [] op \in {"complete", "cancel"} -> {"CONFIRMED"}

\* Mutant: a duration may be proposed again while the client thinks it over.
AllowedAgain(op, r) == r.status \in From(op) \cup (IF op = "modify" THEN {"WAITING_FOR_CLIENT"} ELSE {})

Allowed(op, r) == r.status \in From(op) /\ (op = "modify" => ~r.isModifiedByPro)

Cancelled(s) == IF s = "pro" THEN {"CANCELLED_BY_PRO"} ELSE {"CANCELLED_BY_CLIENT", "CANCELLED_BY_CLIENT_LATE"}

To(c, r) ==
  CASE c.op = "modify" -> {[status |-> "WAITING_FOR_CLIENT", duration |-> c.duration, isModifiedByPro |-> TRUE]}
    [] c.op \in {"confirm", "accept"} -> {[r EXCEPT !.status = "CONFIRMED"]}
    [] c.op \in {"decline", "refuse"} -> {[r EXCEPT !.status = "DECLINED"]}
    [] c.op = "complete" -> {[r EXCEPT !.status = "COMPLETED"]}
    [] c.op = "cancel" -> {[r EXCEPT !.status = t] : t \in Cancelled(c.side)}

Serve(c) ==
  /\ call[c].at = "sent"
  /\ IF Allowed(call[c].op, row[call[c].booking])
     THEN /\ \E r \in To(call[c], row[call[c].booking]) : row' = [row EXCEPT ![call[c].booking] = r]
          /\ last' = [last EXCEPT ![call[c].booking] = call[c].side]
          /\ call' = [call EXCEPT ![c].at = "applied"]
     ELSE /\ call' = [call EXCEPT ![c].at = "refused"]
          /\ UNCHANGED <<row, last>>
  /\ UNCHANGED <<pageVars, agreed, crossed, failed, presses>>

\* getMyBookings, which answers with the rows of the moment.
ServeList(c) ==
  /\ call[c].at = "fetch"
  /\ call' = [call EXCEPT ![c] = [@ EXCEPT !.at = "list", !.rows = row]]
  /\ UNCHANGED <<row, pageVars, historyVars>>

\* The cron closes what nobody answered.
Expire(b) ==
  /\ row[b].status \in {"PENDING", "WAITING_FOR_CLIENT"}
  /\ row' = [row EXCEPT ![b].status = "EXPIRED"] /\ last' = [last EXCEPT ![b] = "cron"]
  /\ UNCHANGED <<pageVars, call, agreed, crossed, failed, presses>>

-----------------------------------------------------------------------------
(* What the pages offer. *)
Shown(s, b) == ~loading[s] /\ ~error[s] /\ list[s] # Empty /\ updating[s] # b

ProButtons(b) ==
  IF ~Shown("pro", b) THEN {}
  ELSE CASE list["pro"][b].status = "PENDING" ->
              {"confirm", "decline"} \cup (IF list["pro"][b].isModifiedByPro THEN {} ELSE {"modify"})
         [] list["pro"][b].status = "CONFIRMED" -> {"complete", "cancel"}
         [] OTHER -> {}

ClientButtons(b) ==
  IF ~Shown("client", b) THEN {}
  ELSE CASE list["client"][b].status = "WAITING_FOR_CLIENT" -> {"accept", "refuse"}
         [] list["client"][b].status = "CONFIRMED" -> {"cancel"}
         [] OTHER -> {}

Buttons(s, b) == IF s = "pro" THEN ProButtons(b) ELSE ClientButtons(b)

\* These open a dialog; the others are sent at once.
InDialog(s) == IF s = "pro" THEN {"modify", "complete", "cancel"} ELSE {"cancel"}

\* The two dialogs with a field wait until no call is answered; ConfirmDialog
\* does not, and stays open, so it can be confirmed twice.
CustomDialog(s) == dialog[s].kind \in {"modify"} \cup (IF s = "pro" THEN {"cancel"} ELSE {})
Confirmable(s) == dialog[s] # Closed /\ (CustomDialog(s) => updating[s] = Nobody)

Send(s, record) ==
  /\ presses < MaxPresses /\ presses' = presses + 1
  /\ \E c \in Calls : call[c] = Idle
  /\ call' = [call EXCEPT ![CHOOSE c \in Calls : call[c] = Idle] = record]
  /\ crossed' = [crossed EXCEPT ![s] = @ \/ InFlight(s) # {}]

Request(s, op, b, d) == [at |-> "sent", side |-> s, op |-> op, booking |-> b, duration |-> d, rows |-> Empty]

\* fetchBookings, loadBookings: at the mount, on a change of page, on a retry;
\* the client also has a button for it.  None of them can be pressed while the
\* list is loading.
Load(s) ==
  /\ ~loading[s]
  /\ Send(s, Fetch(s))
  /\ loading' = [loading EXCEPT ![s] = TRUE] /\ error' = [error EXCEPT ![s] = FALSE]
  /\ UNCHANGED <<row, list, updating, dialog, agreed, last, failed>>

Press(s, b) ==
  \E op \in Buttons(s, b) \ InDialog(s) :
    /\ dialog[s] = Closed
    /\ Send(s, Request(s, op, b, 0))
    /\ updating' = [updating EXCEPT ![s] = b]
    /\ agreed' = IF op = "accept" THEN [agreed EXCEPT ![b] = list[s][b].duration] ELSE agreed
    /\ UNCHANGED <<row, list, loading, error, dialog, last, failed>>

OpenDialog(s, b) ==
  /\ dialog[s] = Closed
  /\ \E op \in Buttons(s, b) \cap InDialog(s) : dialog' = [dialog EXCEPT ![s] = [kind |-> op, booking |-> b]]
  /\ UNCHANGED <<row, list, loading, error, updating, call, historyVars>>

CancelDialog(s) ==
  /\ dialog[s] # Closed /\ dialog' = [dialog EXCEPT ![s] = Closed]
  /\ UNCHANGED <<row, list, loading, error, updating, call, historyVars>>

Confirm(s) ==
  /\ Confirmable(s)
  /\ \E d \in IF dialog[s].kind = "modify" THEN Durations ELSE {0} :
       Send(s, Request(s, dialog[s].kind, dialog[s].booking, d))
  /\ updating' = [updating EXCEPT ![s] = dialog[s].booking]
  /\ UNCHANGED <<row, list, loading, error, dialog, agreed, last, failed>>

-----------------------------------------------------------------------------
(* The answers. *)

\* finally: the buttons come back, and ConfirmDialog closes whatever the answer.
Finally(c, done) ==
  LET s == call[c].side
      closes == call[c].op = "complete" \/ (call[c].op = "cancel" /\ (s = "client" \/ done))
                  \/ (call[c].op = "modify" /\ done)
  IN /\ updating' = [updating EXCEPT ![s] = Nobody]
     /\ dialog' = [dialog EXCEPT ![s] = IF closes THEN Closed ELSE @]

\* Mutant: a change that was accepted ends there, with the list of before.
ApplyAnsweredOnly(c) ==
  /\ call[c].at = "applied"
  /\ call' = [call EXCEPT ![c] = Idle] /\ Finally(c, TRUE)
  /\ UNCHANGED <<row, list, loading, error, historyVars>>

\* A change that was accepted is followed by a load of the list; the
\* professional's shows that it loads.
ApplyAnswered(c) ==
  /\ call[c].at = "applied"
  /\ call' = [call EXCEPT ![c].at = "fetch"]
  /\ loading' = [loading EXCEPT ![call[c].side] = @ \/ call[c].side = "pro"]
  /\ error' = [error EXCEPT ![call[c].side] = @ /\ call[c].side # "pro"]
  /\ UNCHANGED <<row, list, updating, dialog, historyVars>>

RefusalAnswered(c) ==
  /\ call[c].at = "refused"
  /\ call' = [call EXCEPT ![c] = Idle] /\ Finally(c, FALSE)
  /\ UNCHANGED <<row, list, loading, error, historyVars>>

ListAnswered(c) ==
  LET s == call[c].side IN
  /\ call[c].at = "list"
  /\ call' = [call EXCEPT ![c] = Idle]
  /\ list' = [list EXCEPT ![s] = call[c].rows]
  /\ loading' = [loading EXCEPT ![s] = @ /\ s = "client" /\ call[c].op # "load"]
  /\ IF call[c].op = "load" THEN UNCHANGED <<updating, dialog>> ELSE Finally(c, TRUE)
  /\ UNCHANGED <<row, error, historyVars>>

\* A call that is lost, on its way or on its way back.  The professional's list
\* is emptied, the client's is kept behind the error.
Lost(c) ==
  LET s == call[c].side
      loads == call[c].at \in {"fetch", "list"} /\ (s = "pro" \/ call[c].op = "load") IN
  /\ call[c].at # "idle" /\ \A t \in Sides : ~failed[t]
  /\ call' = [call EXCEPT ![c] = Idle] /\ failed' = [failed EXCEPT ![s] = TRUE]
  /\ list' = IF loads /\ s = "pro" THEN [list EXCEPT ![s] = Empty] ELSE list
  /\ loading' = [loading EXCEPT ![s] = @ /\ ~loads]
  /\ error' = [error EXCEPT ![s] = @ \/ loads]
  /\ IF call[c].op = "load" THEN UNCHANGED <<updating, dialog>> ELSE Finally(c, loads)
  /\ UNCHANGED <<row, agreed, last, crossed, presses>>

User ==
  \E s \in Sides :
    \/ Load(s) \/ Confirm(s) \/ CancelDialog(s)
    \/ \E b \in Bookings : Press(s, b) \/ OpenDialog(s, b)

Answers(c) ==
  Serve(c) \/ ServeList(c) \/ ApplyAnswered(c) \/ RefusalAnswered(c) \/ ListAnswered(c)

Next ==
  \/ User
  \/ \E b \in Bookings : Expire(b)
  \/ \E c \in Calls : Answers(c) \/ Lost(c)

-----------------------------------------------------------------------------
\* A booking confirmed by its client has the duration that was on his screen when
\* he accepted, however old his list was: a duration is proposed once.
AcceptedAsShown ==
  \A b \in Bookings :
    row[b].isModifiedByPro /\ row[b].status = "CONFIRMED" => row[b].duration = agreed[b]

\* When nothing is in flight, a user who changed a booking last, and who made one
\* call at a time, sees what he made of it.  (With two calls at once the older
\* list may arrive last and stay.)
OwnChangesShown ==
  \A s \in Sides, b \in Bookings :
    InFlight(s) = {} /\ ~crossed[s] /\ ~failed[s] /\ last[b] = s => list[s][b] = row[b]

\* The buttons of a booking come back, whatever the server answers and in
\* whatever order.
ButtonsReturn ==
  \A s \in Sides : (updating[s] # Nobody) ~> (updating[s] = Nobody)

=============================================================================
