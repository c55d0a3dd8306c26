---------------------------- MODULE DossierPages -----------------------------
(***************************************************************************)
(* How a professional hands in his file: the registration form (register), *)
(* the page of the identity check (dashboard/kyc), and the gates of        *)
(* DashboardLayout around it: the waiting room of a file under review, the *)
(* photograph that every page but the profile asks for, and the            *)
(* redirection of a rejected file.  A card stands for the number and the   *)
(* two pictures; the server is AuthService.register and KycService, whose  *)
(* statements are in Registration.                                         *)
(***************************************************************************)
EXTENDS Naturals

CONSTANT MaxFails  \* bound: answers that are lost or refuse a valid file

VARIABLES
  account,           \* the server: role, status of the file, photograph
  store,             \* authStore's copy of status and photograph
  path,              \* register, home, kyc, profile
  role,              \* the registration: the role that was chosen,
  card,              \*   and the card in the form of either page
  proMe, mine,       \* the layout: its profile and its call
  kycStatus, asking, \* the page: the status it shows, and its call for it
  call,              \* the form that was sent
  fails

layoutVars == <<proMe, mine>>
statusVars == <<kycStatus, asking>>
vars == <<account, store, path, role, card, layoutVars, statusVars, call, fails>>

NoRole == "none"
NoFile == "none"
Account(r, kyc, avatar) == [role |-> r, kyc |-> kyc, avatar |-> avatar]
Copy == [kyc |-> account.kyc, avatar |-> account.avatar]
NoProfile == [kyc |-> NoFile, avatar |-> FALSE]
Idle == [at |-> "idle"]
Form(at, kind, r, c) == [at |-> at, kind |-> kind, role |-> r, card |-> c]

\* A visitor, or a professional of before the identity check.
Init ==
  /\ account \in {Account(NoRole, NoFile, FALSE)} \cup {Account("PRO", "NOT_SUBMITTED", a) : a \in BOOLEAN}
  /\ store = NoProfile /\ path = "register" /\ role = NoRole /\ card = FALSE
  /\ proMe = NoProfile /\ mine = "none" /\ kycStatus = NoFile /\ asking = FALSE
  /\ call = Idle /\ fails = 0

Fail == fails < MaxFails /\ fails' = fails + 1

\* A page is mounted: its layout and the page ask for what they show.
Arrive(p) ==
  /\ path' = p /\ role' = NoRole /\ card' = FALSE
  /\ proMe' = NoProfile /\ mine' = IF p \in {"kyc", "profile"} THEN "sent" ELSE "none"
  /\ kycStatus' = NoFile /\ asking' = (p = "kyc")

\* A load of the application, or a login; a page that loads is waited for.
Open(p) ==
  /\ account.role = "PRO" /\ call = Idle /\ mine # "sent" /\ ~asking
  /\ Arrive(p) /\ store' = Copy
  /\ UNCHANGED <<account, call, fails>>

-----------------------------------------------------------------------------
(* The registration.  Going back to the choice of the role keeps the card,   *)
(* and is possible while the form is on its way.                              *)
handleRoleSelect ==
  /\ path = "register"
  /\ role' \in IF role = NoRole THEN {"CLIENT", "PRO"} ELSE {NoRole}
  /\ UNCHANGED <<account, store, path, card, layoutVars, statusVars, call, fails>>

\* A form that is not filled in stays where it is.
Register ==
  /\ path = "register" /\ role # NoRole /\ call = Idle
  /\ role = "PRO" => card
  /\ call' = Form("sent", "register", role, role = "PRO")
  /\ UNCHANGED <<account, store, path, role, card, layoutVars, statusVars, fails>>

\* AuthController and AuthService: a client has no card, a professional has one.
ServeRegister ==
  /\ call.at = "sent" /\ call.kind = "register"
  /\ IF account.role = NoRole /\ (call.role = "PRO") = call.card
     THEN /\ call' = [call EXCEPT !.at = "done"]
          /\ account' = Account(call.role, IF call.role = "PRO" THEN "PENDING" ELSE NoFile, FALSE)
     ELSE call' = Idle /\ UNCHANGED account
  /\ UNCHANGED <<store, path, role, card, layoutVars, statusVars, fails>>

Registered ==
  /\ call.at = "done" /\ call.kind = "register"
  /\ call' = Idle /\ store' = Copy
  /\ Arrive(IF call.role = "PRO" THEN "kyc" ELSE "home")
  /\ UNCHANGED <<account, fails>>

-----------------------------------------------------------------------------
(* DashboardLayout. *)
effectiveKycStatus == IF proMe # NoProfile THEN proMe.kyc ELSE store.kyc
effectiveHasAvatar == IF proMe # NoProfile THEN proMe.avatar ELSE store.avatar
showSetupGate == ~effectiveHasAvatar /\ path # "profile"

\* What the page of the identity check shows, once its layout lets it.
KycScreen == IF kycStatus \in {"NOT_SUBMITTED", "REJECTED"} THEN "form" ELSE "status"

\* What is on the screen of a page of the dashboard.
Screen ==
  IF path \notin {"kyc", "profile"} THEN path
  ELSE IF proMe = NoProfile /\ mine = "sent" THEN "loader"
  ELSE IF path = "profile" THEN (IF effectiveKycStatus = "REJECTED" THEN "loader" ELSE "profile")
  ELSE IF effectiveKycStatus = "PENDING" THEN "waiting"
  ELSE IF showSetupGate THEN "gate" ELSE KycScreen

\* The profile of the layout, which it copies to the store.
LayoutAnswered(found) ==
  /\ mine = "sent"
  /\ IF found THEN proMe' = Copy /\ store' = Copy /\ mine' = "none" /\ UNCHANGED fails
     ELSE Fail /\ mine' = "failed" /\ UNCHANGED <<proMe, store>>
  /\ UNCHANGED <<account, path, role, card, statusVars, call>>

\* The button of its error, and its poll while the file is under review.
refreshProMe ==
  /\ mine = "failed" \/ (mine = "none" /\ path \in {"kyc", "profile"} /\ effectiveKycStatus = "PENDING" /\ account.kyc # "PENDING")
  /\ mine' = "sent"
  /\ UNCHANGED <<account, store, path, role, card, proMe, statusVars, call, fails>>

RejectedRedirect ==
  /\ path = "profile" /\ effectiveKycStatus = "REJECTED"
  /\ Arrive("kyc")
  /\ UNCHANGED <<account, store, call, fails>>

\* The link of the gate and of the waiting room, and the sidebar, which a rejected
\* professional has not got.
FollowLink ==
  /\ call = Idle
  /\ \/ Screen \in {"gate", "waiting"} /\ Arrive("profile")
     \/ Screen \in {"form", "status"} /\ effectiveKycStatus # "REJECTED" /\ Arrive("profile")
     \/ Screen = "profile" /\ Arrive("kyc")
  /\ UNCHANGED <<account, store, call, fails>>

\* The form of the profile saves a photograph whatever the status; the layout then
\* puts back the one it knows.
SavePhoto ==
  /\ Screen = "profile" /\ \E a \in BOOLEAN :
       /\ account' = [account EXCEPT !.avatar = a]
       /\ store' = [store EXCEPT !.avatar = IF proMe # NoProfile THEN proMe.avatar ELSE a]
  /\ UNCHANGED <<path, role, card, layoutVars, statusVars, call, fails>>

-----------------------------------------------------------------------------
(* The page of the identity check. *)
StatusAnswered(found) ==
  /\ asking /\ asking' = FALSE
  /\ IF found THEN kycStatus' = account.kyc /\ UNCHANGED fails ELSE Fail /\ UNCHANGED kycStatus
  /\ UNCHANGED <<account, store, path, role, card, layoutVars, call>>

\* The forms that ask for a card.
CardAsked == (path = "register" /\ role = "PRO") \/ Screen = "form"

\* A card that is too large takes the place of the one before.
ChooseCard(ok) ==
  /\ card # ok /\ CardAsked
  /\ card' = ok
  /\ UNCHANGED <<account, store, path, role, layoutVars, statusVars, call, fails>>

\* Mutant: the endpoint of a first submission, whatever was decided.
handleSubmitFirst ==
  /\ Screen = "form" /\ card /\ call = Idle
  /\ call' = Form("sent", "submit", "PRO", TRUE)
  /\ UNCHANGED <<account, store, path, role, card, layoutVars, statusVars, fails>>

\* The endpoint follows the status on the page.
handleSubmit ==
  /\ Screen = "form" /\ card /\ call = Idle
  /\ call' = Form("sent", IF kycStatus = "REJECTED" THEN "resubmit" ELSE "submit", "PRO", TRUE)
  /\ UNCHANGED <<account, store, path, role, card, layoutVars, statusVars, fails>>

\* submitKyc, resubmitKyc: each takes a file in one status.
ServeKyc ==
  /\ call.at = "sent" /\ call.kind # "register"
  /\ IF account.kyc = (IF call.kind = "submit" THEN "NOT_SUBMITTED" ELSE "REJECTED")
     THEN account' = [account EXCEPT !.kyc = "PENDING"] /\ call' = [call EXCEPT !.at = "done"]
     ELSE call' = Idle /\ UNCHANGED account
  /\ UNCHANGED <<store, path, role, card, layoutVars, statusVars, fails>>

\* Then the page reads the status again and empties the form.
KycAnswered ==
  /\ call.at = "done" /\ call.kind # "register"
  /\ call' = Idle /\ kycStatus' = account.kyc /\ card' = FALSE
  /\ UNCHANGED <<account, store, path, role, layoutVars, asking, fails>>

\* A form that is refused for its contents, or whose answer is lost, or whose status
\* cannot be read again: the page keeps what it had.
Lost ==
  /\ call # Idle /\ Fail /\ call' = Idle
  /\ UNCHANGED <<account, store, path, role, card, layoutVars, statusVars>>

\* The administrator decides outside the application.
Decide ==
  /\ account.kyc = "PENDING"
  /\ \E verdict \in {"APPROVED", "REJECTED"} : account' = [account EXCEPT !.kyc = verdict]
  /\ UNCHANGED <<store, path, role, card, layoutVars, statusVars, call, fails>>

Browser ==
  \/ ServeRegister \/ Registered \/ ServeKyc \/ KycAnswered
  \/ LayoutAnswered(TRUE) \/ StatusAnswered(TRUE) \/ RejectedRedirect

Next ==
  \/ Browser \/ Lost \/ Decide \/ LayoutAnswered(FALSE) \/ StatusAnswered(FALSE) \/ refreshProMe
  \/ \E p \in {"kyc", "profile"} : Open(p)
  \/ handleRoleSelect \/ Register \/ FollowLink \/ SavePhoto \/ handleSubmit
  \/ \E ok \in BOOLEAN : ChooseCard(ok)

\* A professional who is asked for his file comes back to the page, follows its
\* links, and sends the form whenever he can.
FairSpec ==
  /\ Init /\ [][Next]_vars
  /\ WF_vars(Browser) /\ SF_vars(Open("kyc")) /\ SF_vars(FollowLink) /\ SF_vars(SavePhoto)
  /\ SF_vars(ChooseCard(TRUE)) /\ SF_vars(handleSubmit)

-----------------------------------------------------------------------------
\* A rejected professional who keeps his photograph gets his file back under review:
\* the page, which may show an older status, and the endpoints agree in the end.
RejectedResubmits ==
  (account.kyc = "REJECTED" /\ account.avatar) ~> (account.kyc # "REJECTED" \/ ~account.avatar)

\* "Vous devez le soumettre a nouveau pour acceder au dashboard" (kyc/page.tsx:217):
\* a rejected professional can.
RejectedCanResubmit == (account.kyc = "REJECTED") ~> (account.kyc # "REJECTED")

=============================================================================
