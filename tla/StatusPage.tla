----------------------------- MODULE StatusPage -----------------------------
(***************************************************************************)
(* The page a payment ends on (dashboard/subscription/success), inside     *)
(* DashboardLayout.  It asks for the status of its order, and when the     *)
(* order is paid has the layout read the profile again.  refresh is a new  *)
(* function whenever the context of the layout changes, the call of the    *)
(* page depends on it and the effect on the call: so what the page does    *)
(* once its order is paid runs the effect again.                           *)
(***************************************************************************)
EXTENDS Naturals

CONSTANTS
  Calls,     \* bound: calls for the status in flight
  MaxFails   \* bound: answers that are lost

VARIABLES
  order,                          \* the server: PENDING, PAID or FAILED
  loading, error, paymentStatus,  \* the page
  profileLoading, profileError,   \* the context of the layout
  changed,                        \* the context changed: the effect is to run
  call, fails

pageVars == <<loading, error, paymentStatus>>
contextVars == <<profileLoading, profileError, changed>>
vars == <<order, pageVars, contextVars, call, fails>>

NotYet == "none"

Init ==
  /\ order = "PENDING" /\ loading = TRUE /\ error = FALSE /\ paymentStatus = NotYet
  /\ profileLoading = FALSE /\ profileError = FALSE /\ changed = TRUE
  /\ call = [c \in Calls |-> "idle"] /\ fails = 0

\* confirmPayment, rejectPayment.
Decide ==
  /\ order = "PENDING" /\ order' \in {"PAID", "FAILED"}
  /\ UNCHANGED <<pageVars, contextVars, call, fails>>

\* verifyPaymentStatus, up to its call.
Start == /\ \E c \in Calls : call[c] = "idle" /\ call' = [call EXCEPT ![c] = "sent"]
         /\ loading' = TRUE /\ error' = FALSE

RunEffect ==
  /\ changed /\ changed' = FALSE /\ Start
  /\ UNCHANGED <<order, paymentStatus, profileLoading, profileError, fails>>

\* What is on the screen, in the order of the page.
Screen ==
  IF loading THEN "loading" ELSE IF error THEN "error"
  ELSE IF paymentStatus \in {"PENDING", "FAILED"} THEN paymentStatus ELSE "paid"

\* The error has a button; a pending order has none.
handleRetry ==
  /\ Screen = "error" /\ Start /\ paymentStatus' = NotYet
  /\ UNCHANGED <<order, contextVars, fails>>

Served(c) ==
  /\ call[c] = "sent" /\ call' = [call EXCEPT ![c] = order]
  /\ UNCHANGED <<order, pageVars, contextVars, fails>>

\* Mutant: an order that is not paid is shown behind the loader.
AnsweredBehind(c) ==
  /\ call[c] \in {"PENDING", "FAILED"} /\ call' = [call EXCEPT ![c] = "idle"]
  /\ paymentStatus' = call[c]
  /\ UNCHANGED <<order, loading, error, contextVars, fails>>

\* An order that is not paid is shown at once.
Answered(c) ==
  /\ call[c] \in {"PENDING", "FAILED"} /\ call' = [call EXCEPT ![c] = "idle"]
  /\ paymentStatus' = call[c] /\ loading' = FALSE
  /\ UNCHANGED <<order, error, contextVars, fails>>

\* One that is paid waits for the profile, whose loading changes the context.
AnsweredPaid(c) ==
  /\ call[c] = "PAID" /\ call' = [call EXCEPT ![c] = "refresh"]
  /\ paymentStatus' = "PAID"
  /\ profileLoading' = TRUE /\ profileError' = FALSE
  /\ changed' = (changed \/ ~profileLoading \/ profileError)
  /\ UNCHANGED <<order, loading, error, fails>>

\* The profile, which is a new object, or the error of its call, which the
\* layout keeps to itself.
Refreshed(c, found) ==
  /\ call[c] = "refresh" /\ call' = [call EXCEPT ![c] = "idle"]
  /\ found \/ fails < MaxFails
  /\ fails' = IF found THEN fails ELSE fails + 1
  /\ loading' = FALSE /\ profileLoading' = FALSE /\ profileError' = (profileError \/ ~found)
  /\ changed' = TRUE
  /\ UNCHANGED <<order, error, paymentStatus>>

Lost(c) ==
  /\ call[c] \in {"sent", "PENDING", "PAID", "FAILED"} /\ call' = [call EXCEPT ![c] = "idle"]
  /\ fails < MaxFails /\ fails' = fails + 1
  /\ error' = TRUE /\ loading' = FALSE
  /\ UNCHANGED <<order, paymentStatus, contextVars>>

\* The retry button of the layout above the page.
RetryProfile ==
  /\ profileError /\ ~profileLoading
  /\ profileLoading' = TRUE /\ profileError' = FALSE /\ changed' = TRUE
  /\ UNCHANGED <<order, pageVars, call, fails>>

ProfileAnswered ==
  /\ profileLoading /\ \A c \in Calls : call[c] # "refresh"
  /\ profileLoading' = FALSE /\ changed' = TRUE
  /\ UNCHANGED <<order, pageVars, profileError, call, fails>>

Answers ==
  \/ \E c \in Calls : Served(c) \/ Answered(c) \/ AnsweredPaid(c) \/ \E found \in BOOLEAN : Refreshed(c, found)
  \/ RunEffect

Next ==
  \/ Answers \/ Decide \/ handleRetry \/ RetryProfile \/ ProfileAnswered
  \/ \E c \in Calls : Lost(c)

FairSpec == Init /\ [][Next]_vars /\ WF_vars(Answers)

-----------------------------------------------------------------------------
\* As long as the order is not paid, a load comes to an end.
LoadingEnds == loading ~> (~loading \/ order = "PAID")

\* "l'ecran succes reste affiche" (success/page.tsx:41): whatever the refresh of
\* the profile answers, the success screen stays.
SuccessStays == [][Screen = "paid" => Screen' = "paid"]_vars

=============================================================================
