------------------------------ MODULE EditPages -------------------------------
(***************************************************************************)
(* The two pages of the dashboard that save a whole table at once: the     *)
(* services and their prices, and the week of a professional.  A row is a  *)
(* category or a day; a value is a price or a pair of hours, Bad one that  *)
(* the page refuses to send.  A save is a PUT of the rows that are on,     *)
(* followed by a read of what was stored; either may fail.  The pages      *)
(* differ in what they check, in what hides their form, and in what they   *)
(* make of the answer.                                                     *)
(***************************************************************************)
EXTENDS Naturals, FiniteSets

CONSTANTS
  Rows,
  Good, Bad,   \* values
  FreeMax,     \* services of a professional without a premium plan
  MaxEdits,    \* bound: what is typed
  MaxFails     \* bound: answers that are lost or refuse

VARIABLES
  kind,               \* the page: services, availability
  saved, isApproved, premium,  \* the server: the rows that are stored, the file, the plan
  form, isPremium,    \* the page: what it shows,
  dayErrors,          \*   the days it has marked,
  error, success,     \*   its messages
  at, sent,           \* load, put, reload or idle; the form that was sent
  edits, fails

serverVars == <<saved, isApproved, premium>>
pageVars == <<form, isPremium, dayErrors>>
messageVars == <<error, success>>
vars == <<kind, serverVars, pageVars, messageVars, at, sent, edits, fails>>

Absent == "absent"
Default == CHOOSE v \in Good : TRUE
Row(on, value) == [on |-> on, value |-> value]

\* A row that is not stored is off: a day has its usual hours, a service no price.
Blank == Row(FALSE, IF kind = "services" THEN Bad ELSE Default)
Shown(r) == IF saved[r] = Absent THEN Blank ELSE Row(TRUE, saved[r])

enabledCount(f) == Cardinality({r \in Rows : f[r].on})
maxServices(p) == IF p THEN Cardinality(Rows) ELSE FreeMax

Init ==
  /\ kind \in {"services", "availability"}
  /\ saved \in [Rows -> {Absent, Default}]
  /\ isApproved \in BOOLEAN /\ premium \in BOOLEAN
  /\ form = [r \in Rows |-> Row(FALSE, Bad)] /\ isPremium = FALSE /\ dayErrors = {}
  /\ error = FALSE /\ success = FALSE
  /\ at = "load" /\ sent = form /\ edits = 0 /\ fails = 0

Fail == fails < MaxFails /\ fails' = fails + 1

\* The form gives way to the loader and to an error.
FormShown == at \notin {"load", "gone"} /\ ~error

-----------------------------------------------------------------------------
\* fetchData, loadData.
Loaded ==
  /\ at = "load" /\ at' = "idle"
  /\ form' = [r \in Rows |-> Shown(r)] /\ isPremium' = premium
  /\ UNCHANGED <<kind, serverVars, dayErrors, messageVars, sent, edits, fails>>

LoadFails ==
  /\ at = "load" /\ Fail /\ at' = "idle" /\ error' = TRUE
  /\ UNCHANGED <<kind, serverVars, pageVars, success, sent, edits>>

\* The button of the error, which the services hide as long as they announce a success.
Retry ==
  /\ error /\ at = "idle" /\ (kind = "services" => ~success)
  /\ at' = "load" /\ error' = FALSE
  /\ UNCHANGED <<kind, serverVars, pageVars, success, sent, edits, fails>>

\* Mutant: the success is dismissed where it is shown.
DismissShown ==
  /\ success /\ FormShown /\ success' = FALSE
  /\ UNCHANGED <<kind, serverVars, pageVars, error, at, sent, edits, fails>>

\* The timer of the success, whatever is on the screen.
Dismiss ==
  /\ success /\ at # "gone" /\ success' = FALSE
  /\ UNCHANGED <<kind, serverVars, pageVars, error, at, sent, edits, fails>>

-----------------------------------------------------------------------------
(* What the professional types.  A service is switched while nothing is saved *)
(* and while the plan has room; the rest stays open to changes during a save.  *)
Type(r, row) ==
  /\ FormShown /\ edits < MaxEdits /\ edits' = edits + 1
  /\ form' = [form EXCEPT ![r] = row]
  /\ dayErrors' = dayErrors \ {r}
  /\ UNCHANGED <<kind, serverVars, isPremium, messageVars, at, sent, fails>>

handleToggle(r) ==
  /\ kind = "services" => at = "idle" /\ (form[r].on \/ enabledCount(form) < maxServices(isPremium))
  /\ Type(r, Row(~form[r].on, form[r].value))

handleChange(r, v) == form[r].on /\ form[r].value # v /\ Type(r, Row(TRUE, v))

Wrong == {r \in Rows : form[r].on /\ form[r].value = Bad}

\* A form with a value that cannot be sent: an error takes its place.
SubmitWrong ==
  /\ FormShown /\ at = "idle" /\ dayErrors = {} /\ Wrong # {}
  /\ error' = TRUE /\ success' = FALSE
  /\ dayErrors' = IF kind = "availability" THEN Wrong ELSE {}
  /\ UNCHANGED <<kind, serverVars, form, isPremium, at, sent, edits, fails>>

Submit ==
  /\ FormShown /\ at = "idle" /\ dayErrors = {} /\ Wrong = {}
  /\ at' = "put" /\ sent' = form /\ success' = FALSE
  /\ UNCHANGED <<kind, serverVars, pageVars, error, edits, fails>>

-----------------------------------------------------------------------------
(* updateServices, updateAvailability: what is stored is what was sent.       *)
Fits == kind = "services" => enabledCount(sent) <= maxServices(premium)
Store == saved' = [r \in Rows |-> IF sent[r].on THEN sent[r].value ELSE Absent]

Stored ==
  /\ at = "put" /\ isApproved /\ Fits
  /\ Store /\ at' = "reload" /\ success' = TRUE
  /\ UNCHANGED <<kind, isApproved, premium, pageVars, error, sent, edits, fails>>

\* More services than the plan allows by now.
LimitReached ==
  /\ at = "put" /\ isApproved /\ ~Fits
  /\ at' = "idle" /\ error' = TRUE
  /\ UNCHANGED <<kind, serverVars, pageVars, success, sent, edits, fails>>

\* The professional of a file that is not approved is sent to his file.
Forbidden ==
  /\ at = "put" /\ ~isApproved /\ at' = "gone"
  /\ UNCHANGED <<kind, serverVars, pageVars, messageVars, sent, edits, fails>>

PutLost ==
  /\ at = "put" /\ Fail /\ at' = "idle" /\ error' = TRUE
  /\ (isApproved /\ Fits /\ Store) \/ UNCHANGED saved
  /\ UNCHANGED <<kind, isApproved, premium, pageVars, success, sent, edits>>

\* The answer takes the place of what was typed meanwhile; a service that is not
\* stored goes back to the form that was sent.
Reloaded ==
  /\ at = "reload" /\ at' = "idle" /\ isPremium' = IF kind = "services" THEN premium ELSE isPremium
  /\ form' = [r \in Rows |-> IF kind = "services" /\ saved[r] = Absent THEN sent[r] ELSE Shown(r)]
  /\ UNCHANGED <<kind, serverVars, dayErrors, messageVars, sent, edits, fails>>

ReloadFails ==
  /\ at = "reload" /\ Fail /\ at' = "idle" /\ error' = TRUE
  /\ UNCHANGED <<kind, serverVars, pageVars, success, sent, edits>>

\* The plan ends; a file is approved.
ServerMoves ==
  /\ \/ premium' = FALSE /\ premium /\ UNCHANGED isApproved
     \/ isApproved' = TRUE /\ ~isApproved /\ UNCHANGED premium
  /\ UNCHANGED <<kind, saved, pageVars, messageVars, at, sent, edits, fails>>

Answers == Loaded \/ Stored \/ LimitReached \/ Forbidden \/ Reloaded

Next ==
  \/ Answers \/ LoadFails \/ PutLost \/ ReloadFails \/ Dismiss
  \/ Retry \/ SubmitWrong \/ Submit \/ ServerMoves
  \/ \E r \in Rows : handleToggle(r) \/ \E v \in Good \cup {Bad} : handleChange(r, v)

-----------------------------------------------------------------------------
\* The form comes back: whatever fails after a save, and whichever messages are left
\* on the page, the professional who tries again gets his form, or is sent to his file.
FormComesBack == (at # "gone" /\ ~FormShown) ~> (at = "gone" \/ FormShown)

=============================================================================
