------------------------------ MODULE BookPage ------------------------------
(***************************************************************************)
(* The page on which a client asks for a slot (book/[proId]): a date, the  *)
(* list of its free slots, the slot chosen, the request.  Every change of  *)
(* the date calls for its slots; no call is cancelled, so the answer for   *)
(* an earlier date may arrive last and be taken for the one selected.      *)
(***************************************************************************)
EXTENDS Naturals, FiniteSets

CONSTANTS
  Dates,     \* the days the calendar offers
  Slots,     \* the hours of a day
  NoDate,    \* the calendar was emptied
  NoSlot,
  Calls,     \* bound: lists asked for at once
  MaxClicks, \* bound: what the client does
  MaxFails   \* bound: answers that are lost

VARIABLES
  free,                             \* the server: the free slots of each day
  made,                             \*   and the requests of this client
  pro,                              \* the profile on the page: loading, shown, error
  selectedDate, slots, loadingSlots, selectedSlot,
  submitting, bookingError, success,
  leaving,                          \* no, soon (a timer runs), gone to the profile of the client
  call, post,
  served,                           \* history: the slots that were offered for each day
  overlapped,                       \* history: two lists were asked for at once
  clicks, fails

listVars == <<slots, loadingSlots, call, served>>
submitVars == <<submitting, bookingError, success, leaving, post>>
boundVars == <<clicks, fails>>
vars == <<free, made, pro, selectedDate, selectedSlot, listVars, submitVars, overlapped, boundVars>>

NoPost == [at |-> "none"]
Idle == [at |-> "idle"]
Waiting == {c \in Calls : call[c] # Idle}

Init ==
  /\ free \in [Dates -> SUBSET Slots] /\ made = {}
  /\ pro = "loading"
  /\ selectedDate \in Dates /\ slots = {} /\ loadingSlots = TRUE /\ selectedSlot = NoSlot
  /\ submitting = FALSE /\ bookingError = "none" /\ success = FALSE /\ leaving = "no"
  /\ \E c \in Calls : call = [d \in Calls |-> IF d = c THEN [at |-> "sent", date |-> selectedDate, slots |-> {}] ELSE Idle]
  /\ post = NoPost /\ served = [d \in Dates |-> {}] /\ overlapped = FALSE /\ clicks = 0 /\ fails = 0

\* Another client's request is confirmed, or a confirmed one is cancelled.
Elsewhere ==
  /\ \E d \in Dates, s \in Slots :
       free' = [free EXCEPT ![d] = IF s \in @ THEN @ \ {s} ELSE @ \cup {s}]
  /\ UNCHANGED <<made, pro, selectedDate, selectedSlot, listVars, submitVars, overlapped, boundVars>>

\* The profile of the professional: its error replaces the page for good.
ProAnswered(found) ==
  /\ pro = "loading" /\ pro' = IF found THEN "shown" ELSE "error"
  /\ UNCHANGED <<free, made, selectedDate, selectedSlot, listVars, submitVars, overlapped, boundVars>>

FormShown == pro = "shown" /\ ~success /\ leaving # "gone"
Click == clicks < MaxClicks /\ clicks' = clicks + 1

\* What a change of the date does: the effect forgets the slot and asks for the
\* list of the day; an empty date runs nothing.
Ask(d) ==
  /\ \E c \in Calls : call[c] = Idle /\ call' = [call EXCEPT ![c] = [at |-> "sent", date |-> d, slots |-> {}]]
  /\ loadingSlots' = TRUE /\ overlapped' = (overlapped \/ Waiting # {})

\* Mutant: the slot chosen for another day stays.
SelectDateKeeps(d) ==
  /\ FormShown /\ d # selectedDate /\ Click /\ selectedDate' = d
  /\ IF d = NoDate THEN UNCHANGED <<call, loadingSlots, overlapped>> ELSE Ask(d)
  /\ UNCHANGED <<free, made, pro, selectedSlot, slots, served, submitVars, fails>>

SelectDate(d) ==
  /\ FormShown /\ d # selectedDate /\ Click /\ selectedDate' = d
  /\ IF d = NoDate THEN UNCHANGED <<call, loadingSlots, overlapped, selectedSlot>>
     ELSE Ask(d) /\ selectedSlot' = NoSlot
  /\ UNCHANGED <<free, made, pro, slots, served, submitVars, fails>>

SelectSlot(s) ==
  /\ FormShown /\ ~loadingSlots /\ s \in slots /\ s # selectedSlot /\ Click /\ selectedSlot' = s
  /\ UNCHANGED <<free, made, pro, selectedDate, listVars, submitVars, overlapped, fails>>

\* getAvailableSlots, for a day of the calendar.
ListServed(c) ==
  /\ call[c].at = "sent"
  /\ call' = [call EXCEPT ![c] = [@ EXCEPT !.at = "answered", !.slots = free[call[c].date]]]
  /\ UNCHANGED <<free, made, pro, selectedDate, selectedSlot, slots, loadingSlots, served, submitVars, overlapped, boundVars>>

ListAnswered(c) ==
  /\ call[c].at = "answered" /\ call' = [call EXCEPT ![c] = Idle]
  /\ slots' = call[c].slots /\ loadingSlots' = FALSE
  /\ served' = [served EXCEPT ![call[c].date] = @ \cup call[c].slots]
  /\ UNCHANGED <<free, made, pro, selectedDate, selectedSlot, submitVars, overlapped, boundVars>>

ListLost(c) ==
  /\ call[c] # Idle /\ call' = [call EXCEPT ![c] = Idle]
  /\ fails < MaxFails /\ fails' = fails + 1
  /\ slots' = {} /\ loadingSlots' = FALSE
  /\ UNCHANGED <<free, made, pro, selectedDate, selectedSlot, served, submitVars, overlapped, clicks>>

-----------------------------------------------------------------------------
\* Mutant: the button does not wait for the answer.
handleBookingAgain ==
  /\ FormShown /\ selectedSlot # NoSlot /\ Click
  /\ submitting' = TRUE /\ bookingError' = "none"
  /\ post' = [at |-> "sent", date |-> selectedDate, slot |-> selectedSlot]
  /\ UNCHANGED <<free, made, pro, selectedDate, selectedSlot, listVars, success, leaving, overlapped, fails>>

handleBooking ==
  /\ FormShown /\ selectedSlot # NoSlot /\ ~submitting /\ Click
  /\ submitting' = TRUE /\ bookingError' = "none"
  /\ post' = [at |-> "sent", date |-> selectedDate, slot |-> selectedSlot]
  /\ UNCHANGED <<free, made, pro, selectedDate, selectedSlot, listVars, success, leaving, overlapped, fails>>

\* createBooking: it looks at the slot again, and not at this client's earlier
\* requests for it.
PostServed ==
  /\ post.at = "sent"
  /\ IF post.date = NoDate THEN post' = [post EXCEPT !.at = "refused"] /\ made' = made
     ELSE IF post.slot \notin free[post.date] THEN post' = [post EXCEPT !.at = "conflict"] /\ made' = made
     ELSE /\ post' = [post EXCEPT !.at = "created"]
          /\ made' = made \cup {[request |-> Cardinality(made) + 1, date |-> post.date, slot |-> post.slot]}
  /\ UNCHANGED <<free, pro, selectedDate, selectedSlot, listVars, submitting, bookingError, success, leaving, overlapped, boundVars>>

\* The other refusals: no city or no address, a professional of another city,
\* one who may not be booked.
PostRefused ==
  /\ post.at = "sent" /\ \E r \in {"no address", "mismatch", "refused"} : post' = [post EXCEPT !.at = r]
  /\ UNCHANGED <<free, made, pro, selectedDate, selectedSlot, listVars, submitting, bookingError, success, leaving, overlapped, boundVars>>

\* Where a refusal sends the client: to his profile, at once or in 3 seconds.
Leaves(r) == CASE r = "no address" -> "gone" [] r = "mismatch" /\ leaving = "no" -> "soon" [] OTHER -> leaving

\* The answer of the request; when it was created, the profile is read again
\* first, and the answer of that is not needed.  Nothing reads the list of the
\* slots again: one that is gone can be asked for once more.
PostAnswered ==
  /\ post.at \notin {"none", "sent"} /\ post' = NoPost /\ submitting' = FALSE
  /\ success' = (post.at = "created") /\ leaving' = Leaves(post.at)
  /\ bookingError' = IF post.at \in {"created", "no address"} THEN bookingError ELSE post.at
  /\ UNCHANGED <<free, made, pro, selectedDate, selectedSlot, listVars, overlapped, boundVars>>

\* The timer, which nothing clears.
Redirect ==
  /\ leaving = "soon" /\ leaving' = "gone"
  /\ UNCHANGED <<free, made, pro, selectedDate, selectedSlot, listVars, submitting, bookingError, success, post, overlapped, boundVars>>

PostLost ==
  /\ post # NoPost /\ post' = NoPost /\ submitting' = FALSE /\ bookingError' = "lost"
  /\ fails < MaxFails /\ fails' = fails + 1
  /\ UNCHANGED <<free, made, pro, selectedDate, selectedSlot, listVars, success, leaving, overlapped, clicks>>

Client ==
  \/ \E d \in Dates \cup {NoDate} : SelectDate(d)
  \/ \E s \in Slots : SelectSlot(s)
  \/ handleBooking

Answers ==
  \/ \E c \in Calls : ListServed(c) \/ ListAnswered(c)
  \/ PostServed \/ PostRefused \/ PostAnswered

Next ==
  \/ Client \/ Answers \/ Elsewhere \/ PostLost \/ Redirect
  \/ \E found \in BOOLEAN : ProAnswered(found)
  \/ \E c \in Calls : ListLost(c)

Submission == PostServed \/ PostRefused \/ PostAnswered

-----------------------------------------------------------------------------
\* A client who waits for each list before he changes the date again only asks
\* for slots that were offered for the day of his request: what he chose for one
\* day is never sent with another.  (Lists that overlap may be swapped.)
AsksForOfferedSlots ==
  post # NoPost /\ post.date # NoDate /\ ~overlapped => post.slot \in served[post.date]

\* One visit makes one request, unless an answer was lost: the form is gone when
\* the first is known to exist.
OneRequestPerVisit == Cardinality(made) <= 1 + fails

\* The button comes back whatever the answer.
SubmissionEnds == submitting ~> ~submitting

=============================================================================
