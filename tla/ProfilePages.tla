----------------------------- MODULE ProfilePages -----------------------------
(***************************************************************************)
(* The two profile pages: a client edits a copy of the user in the store   *)
(* (profile), a professional what he reads from the server, with the       *)
(* pictures of his portfolio (dashboard/profile).  Both write the answer   *)
(* of a save to the store, also when its page has been left: the next      *)
(* visit of the page may then have a save of its own in flight.  The       *)
(* server reads before it writes, and a page what is there at that time.   *)
(***************************************************************************)
EXTENDS Naturals, FiniteSets

CONSTANTS
  Values,       \* of the photograph and of the telephone or name
  Pictures,
  PORTFOLIO_MAX,
  Calls,        \* bound: calls in flight
  MaxClicks,    \* bound: what the user does, and how often his plan changes
  MaxFails      \* bound: answers that are lost or refuse

VARIABLES
  who, user, pictures,              \* the server: the user, his portfolio,
  approved, premiumPro,             \*   the status of his file, and his plan
  store,                            \* authStore's copy of the user
  known,                            \* the photograph the layout knows
  form, shown, isEditing, isSaving, \* the page: its form, and what it read
  call,
  unsure,                           \* history: what a page may know no more
  clicks, fails

serverVars == <<who, user, pictures, approved, premiumPro>>
pageVars == <<form, shown, isEditing, isSaving>>
boundVars == <<clicks, fails>>
vars == <<serverVars, store, known, pageVars, call, unsure, boundVars>>

None == "none"
Idle == [at |-> "idle"]
InFlight == {c \in Calls : call[c] # Idle}
NotRead == [at |-> "none", approved |-> FALSE, premium |-> FALSE, pictures |-> {}, hidden |-> {}, row |-> None]

\* A call that left, for the visit that is on the screen.
Send(what, sent) ==
  \E c \in Calls \ InFlight :
    call' = [call EXCEPT ![c] = [at |-> "sent", what |-> what, sent |-> sent, here |-> TRUE]]

Init ==
  /\ who \in {"CLIENT", "PRO"} /\ approved \in BOOLEAN /\ premiumPro \in BOOLEAN
  /\ who = "CLIENT" => approved /\ ~premiumPro
  /\ \E v \in Values : user = [avatar |-> v, phone |-> v]
  /\ pictures = {} /\ store = user /\ known = None
  /\ form = user /\ shown = NotRead /\ isEditing = FALSE /\ isSaving = FALSE
  /\ call = [c \in Calls |-> Idle] /\ unsure = {}
  /\ clicks = 0 /\ fails = 0

Click == clicks < MaxClicks /\ clicks' = clicks + 1
Fail == fails < MaxFails /\ fails' = fails + 1

-----------------------------------------------------------------------------
\* The page is left and opened again.
Reopen ==
  /\ Click
  /\ call' = [c \in Calls |-> IF call[c] = Idle THEN Idle ELSE [call[c] EXCEPT !.here = FALSE]]
  /\ form' = store /\ shown' = NotRead /\ isEditing' = FALSE /\ isSaving' = FALSE /\ known' = None
  /\ UNCHANGED <<serverVars, store, unsure, fails>>

\* /pro/me: the row, and as many pictures as a portfolio may have, the newest first
\* (which those are is left open).
Unserved == {c \in InFlight : call[c].what # "save" /\ call[c].at \in {"sent", "count", "create"}}

ServeRead ==
  /\ who = "PRO" /\ shown.at = "none"
  /\ \E taken \in SUBSET pictures :
       /\ IF Cardinality(pictures) <= PORTFOLIO_MAX THEN taken = pictures
          ELSE Cardinality(taken) = PORTFOLIO_MAX
       /\ shown' = [at |-> "served", approved |-> approved, premium |-> premiumPro,
                    pictures |-> taken, hidden |-> pictures \ taken, row |-> user]
  /\ unsure' = IF Unserved = {} THEN unsure \ {"pictures"} ELSE unsure \cup {"pictures"}
  /\ UNCHANGED <<serverVars, store, known, form, isEditing, isSaving, call, boundVars>>

\* It arrives, for the page and for its layout, which copies the photograph to the store.
Read ==
  /\ shown.at = "served"
  /\ shown' = [shown EXCEPT !.at = "read", !.row = None]
  /\ form' = shown.row /\ known' = shown.row.avatar /\ store' = [store EXCEPT !.avatar = shown.row.avatar]
  /\ UNCHANGED <<serverVars, isEditing, isSaving, call, unsure, boundVars>>

\* A client opens and leaves the form, whose fields then are those of the store.
Editing ==
  /\ who = "CLIENT" /\ ~isSaving /\ Click
  /\ isEditing' = ~isEditing /\ form' = IF isEditing THEN store ELSE form
  /\ UNCHANGED <<serverVars, store, known, shown, isSaving, call, unsure, fails>>

FormShown == isEditing \/ shown.at = "read"

\* The fields stay open while the form is being saved.
Type ==
  /\ FormShown /\ Click
  /\ \E f \in DOMAIN form, v \in Values : form[f] # v /\ form' = [form EXCEPT ![f] = v]
  /\ UNCHANGED <<serverVars, store, known, shown, isEditing, isSaving, call, unsure, fails>>

-----------------------------------------------------------------------------
\* handleSave, handleSubmit: of a file that is not approved the photograph only.
Submit ==
  /\ FormShown /\ ~isSaving /\ Click
  /\ isSaving' = TRUE
  /\ Send("save", IF who = "CLIENT" \/ shown.approved THEN form ELSE [form EXCEPT !.phone = None])
  /\ unsure' = IF \E c \in InFlight : call[c].what = "save" THEN unsure \cup {"profile"} ELSE unsure
  /\ UNCHANGED <<serverVars, store, known, form, shown, isEditing, fails>>

\* updateProfile of either service: what is not sent stays.
Updated(sent) == [f \in DOMAIN user |-> IF sent[f] = None THEN user[f] ELSE sent[f]]

\* The answer is the row, with the status of the file and the plan.
ServeSave(c) ==
  /\ call[c].at = "sent" /\ call[c].what = "save"
  /\ user' = Updated(call[c].sent)
  /\ call' = [call EXCEPT ![c] = [at |-> "done", what |-> "save", here |-> @.here,
                                 sent |-> user', approved |-> approved, premium |-> premiumPro]]
  /\ UNCHANGED <<who, pictures, approved, premiumPro, store, known, pageVars, unsure, boundVars>>

\* setUser: the layout puts back the photograph it knows, and the form of a client
\* is filled again from the store, whose user is a new object also when nothing changed.
SetUser(u) ==
  /\ store' = IF known = None THEN u ELSE [u EXCEPT !.avatar = known]
  /\ form' = IF who = "CLIENT" THEN store' ELSE form

\* Mutant: the store takes what is in the form.
SavedAsTyped(c) ==
  /\ call[c].at = "done" /\ call[c].what = "save"
  /\ call' = [call EXCEPT ![c] = Idle] /\ SetUser(form)
  /\ isSaving' = (isSaving /\ ~call[c].here) /\ isEditing' = (isEditing /\ ~call[c].here)
  /\ UNCHANGED <<serverVars, known, shown, unsure, boundVars>>

Saved(c) ==
  /\ call[c].at = "done" /\ call[c].what = "save"
  /\ call' = [call EXCEPT ![c] = Idle] /\ SetUser(call[c].sent)
  /\ isSaving' = (isSaving /\ ~call[c].here) /\ isEditing' = (isEditing /\ ~call[c].here)
  /\ shown' = IF call[c].here /\ shown.at = "read"
              THEN [shown EXCEPT !.approved = call[c].approved, !.premium = call[c].premium] ELSE shown
  /\ UNCHANGED <<serverVars, known, unsure, boundVars>>

-----------------------------------------------------------------------------
(* The portfolio, whose buttons wait for nothing.  A picture that is inserted *)
(* has an identifier that nobody knows.                                       *)
Underway == {call[c].sent : c \in {d \in InFlight : call[d].what # "save"}}

handleAddPortfolio ==
  /\ shown.at = "read" /\ shown.premium /\ Cardinality(shown.pictures) < PORTFOLIO_MAX /\ Click
  /\ \E p \in Pictures \ (pictures \cup shown.pictures \cup shown.hidden \cup Underway) : Send("add", p)
  /\ UNCHANGED <<serverVars, store, known, pageVars, unsure, fails>>

handleDeletePortfolio ==
  /\ shown.at = "read" /\ shown.premium /\ Click
  /\ \E p \in shown.pictures : Send("delete", p)
  /\ UNCHANGED <<serverVars, store, known, pageVars, unsure, fails>>

\* addPortfolioImage: the file and the plan, then the count, then the row.
Goes(c, what, from, to) ==
  /\ call[c].at = from /\ call[c].what = what
  /\ call' = [call EXCEPT ![c].at = to]

CheckPlan(c) ==
  /\ Goes(c, "add", "sent", IF approved /\ premiumPro THEN "count" ELSE "refused")
  /\ UNCHANGED <<serverVars, store, known, pageVars, unsure, boundVars>>

Count(c) ==
  /\ Goes(c, "add", "count", IF Cardinality(pictures) < PORTFOLIO_MAX THEN "create" ELSE "refused")
  /\ UNCHANGED <<serverVars, store, known, pageVars, unsure, boundVars>>

Create(c) ==
  /\ Goes(c, "add", "create", "done")
  /\ pictures' = pictures \cup {call[c].sent}
  /\ UNCHANGED <<who, user, approved, premiumPro, store, known, pageVars, unsure, boundVars>>

\* deletePortfolioImage refuses what is gone, whatever the plan.
Delete(c) ==
  /\ LET allowed == approved /\ call[c].sent \in pictures
     IN  /\ Goes(c, "delete", "sent", IF allowed THEN "done" ELSE "refused")
         /\ pictures' = IF allowed THEN pictures \ {call[c].sent} ELSE pictures
  /\ UNCHANGED <<who, user, approved, premiumPro, store, known, pageVars, unsure, boundVars>>

PictureAnswered(c) ==
  /\ call[c].at = "done" /\ call[c].what \in {"add", "delete"}
  /\ call' = [call EXCEPT ![c] = Idle]
  /\ shown' = [shown EXCEPT !.pictures =
                 IF ~call[c].here THEN @
                 ELSE IF call[c].what = "add" THEN @ \cup {call[c].sent} ELSE @ \ {call[c].sent}]
  /\ UNCHANGED <<serverVars, store, known, form, isEditing, isSaving, unsure, boundVars>>

\* An error leaves the form as it is.
Refused(c) ==
  /\ call[c].at = "refused"
  /\ call' = [call EXCEPT ![c] = Idle] /\ isSaving' = (isSaving /\ ~(call[c].here /\ call[c].what = "save"))
  /\ UNCHANGED <<serverVars, store, known, form, shown, isEditing, unsure, boundVars>>

\* A refusal, or an answer that does not arrive.
Lose(c) ==
  /\ call[c] # Idle /\ call[c].at # "refused" /\ Fail
  /\ call' = [call EXCEPT ![c].at = "refused"]
  /\ unsure' = IF call[c].at # "done" THEN unsure
               ELSE unsure \cup {IF call[c].what = "save" THEN "profile" ELSE "pictures"}
  /\ UNCHANGED <<serverVars, store, known, pageVars, clicks>>

\* The administrator approves the file.
Approve ==
  /\ ~approved /\ approved' = TRUE
  /\ UNCHANGED <<who, user, pictures, premiumPro, store, known, pageVars, call, unsure, boundVars>>

\* A plan is activated, or ends.
ChangePlan ==
  /\ who = "PRO" /\ premiumPro' = ~premiumPro /\ Click
  /\ UNCHANGED <<who, user, pictures, approved, store, known, pageVars, call, unsure, fails>>

Next ==
  \/ Reopen \/ ServeRead \/ Read \/ Editing \/ Type \/ Submit
  \/ handleAddPortfolio \/ handleDeletePortfolio \/ Approve \/ ChangePlan
  \/ \E c \in Calls :
       \/ ServeSave(c) \/ Saved(c) \/ Refused(c) \/ Lose(c)
       \/ CheckPlan(c) \/ Count(c) \/ Create(c) \/ Delete(c) \/ PictureAnswered(c)

-----------------------------------------------------------------------------
\* Who waits for his answers sees his profile.  The store has what the server has,
\* whatever was typed while a save was running, whatever the status of the file kept from
\* being sent, and also when the page was left with a save in flight, unless that met a
\* save of the next visit, or its answer was lost.  The portfolio on the screen is the
\* stored one, unless an answer was lost since it was read or it was read while a request
\* of an earlier visit was served, and but for the pictures that additions at once put
\* past the limit, of which the page shows none.
\* (The photograph of a professional is the one his layout knows.)
ProfileShown ==
  InFlight = {} =>
    /\ "profile" \notin unsure =>
         /\ store.phone = user.phone
         /\ who = "CLIENT" => store = user /\ (~isEditing => form = user)
    /\ "pictures" \notin unsure /\ shown.at # "none" => shown.pictures = pictures \ shown.hidden

=============================================================================
