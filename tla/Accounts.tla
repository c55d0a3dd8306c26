------------------------------ MODULE Accounts ------------------------------
(***************************************************************************)
(* What surrounds the booking core and shares no table, no page and no     *)
(* lock with it: registration with the identity check, the lockout of the  *)
(* login, the limits of a professional's plan, reviews with the            *)
(* newsletter, and the pages on which a professional or a client writes    *)
(* about himself.  Their steps commute, so each is explored by itself:     *)
(* part says which one a behaviour is about.                               *)
(***************************************************************************)
EXTENDS Naturals, FiniteSets

CONSTANTS
  People, Phones, Cins, Files, Null, Requests,                         \* Registration
  Attempts, MAX_ATTEMPTS, LOCKOUT,                                     \* Lockout
  Categories, Saves, Uploads, FREE_SERVICES_MAX, PREMIUM_SERVICES_MAX, PORTFOLIO_MAX,  \* ProLimits
  Links, NoLink,                                                       \* Engagement
  Rows, Good, Bad, FreeMax, MaxEdits,                                  \* EditPages
  Values, Pictures, Calls, MaxClicks,                                  \* ProfilePages
  MaxFails                                                             \* the pages

ASSUME AccountsAssumption ==
  /\ Null \notin People \cup Phones \cup Cins \cup Files /\ NoLink \notin Links
  /\ {MAX_ATTEMPTS, LOCKOUT, PORTFOLIO_MAX} \subseteq Nat \ {0} /\ IsFiniteSet(Attempts)
  /\ {FREE_SERVICES_MAX, PREMIUM_SERVICES_MAX} \subseteq Nat /\ IsFiniteSet(Categories)
  /\ FREE_SERVICES_MAX <= PREMIUM_SERVICES_MAX /\ IsFiniteSet(Uploads)
  /\ IsFiniteSet(Rows) /\ Good # {} /\ Bad \notin Good /\ {FreeMax, MaxEdits, MaxClicks, MaxFails} \subseteq Nat

VARIABLES
  part,
  account, disk, uploaded, form, overlapped,
  entry, attempt, wrong,
  premium, services, saving, portfolio, upload, lapses, mixed,
  booking, reviews, subscriber, mailed, unsent, expired, request,
  kind, saved, isApproved, plan, rows, isPremium, dayErrors, error, success, at, sent, edits, editFails,
  who, user, pictures, approved, premiumPro, store, known, fields, shown, isEditing, isSaving, call,
  unsure, clicks, profileFails,
  holder, copy, path, role, card, proMe, mine, kycStatus, asking, handedIn, dossierFails

Register == INSTANCE Registration
Login == INSTANCE Lockout
Limits == INSTANCE ProLimits
Engage == INSTANCE Engagement
Edit == INSTANCE EditPages WITH premium <- plan, form <- rows, fails <- editFails
Profile == INSTANCE ProfilePages WITH form <- fields, fails <- profileFails
Dossier == INSTANCE DossierPages WITH
  account <- holder, store <- copy, call <- handedIn, fails <- dossierFails

registerVars == <<account, disk, uploaded, form, overlapped>>
loginVars == <<entry, attempt, wrong>>
limitsVars == <<premium, services, saving, portfolio, upload, lapses, mixed>>
engageVars == <<booking, reviews, subscriber, mailed, unsent, expired, request>>
editVars == <<kind, saved, isApproved, plan, rows, isPremium, dayErrors, error, success, at, sent, edits, editFails>>
profileVars == <<who, user, pictures, approved, premiumPro, store, known, fields, shown, isEditing, isSaving, call,
                 unsure, clicks, profileFails>>
dossierVars == <<holder, copy, path, role, card, proMe, mine, kycStatus, asking, handedIn, dossierFails>>
vars == <<part, registerVars, loginVars, limitsVars, engageVars, editVars, profileVars, dossierVars>>

\* What is not explored stays in one of its initial states.
Init ==
  /\ part \in {"register", "login", "services", "portfolio", "engage", "edit", "profile", "dossier"}
  /\ Register!Init /\ (part # "register" => account = [p \in People |-> Register!NoAccount])
  /\ Login!Init /\ Engage!Init
  /\ Limits!Init /\ (part \notin {"services", "portfolio"} => ~premium)
  /\ Edit!Init /\ (part # "edit" => kind = "services" /\ ~isApproved /\ ~plan /\ \A r \in Rows : saved[r] = "absent")
  /\ Profile!Init /\ (part # "profile" => who = "CLIENT" /\ user.phone = CHOOSE v \in Values : TRUE)
  /\ Dossier!Init /\ (part # "dossier" => holder.role # "PRO")

Others(p) ==
  /\ UNCHANGED part
  /\ p # "register" => UNCHANGED registerVars
  /\ p # "login" => UNCHANGED loginVars
  /\ p \notin {"services", "portfolio"} => UNCHANGED limitsVars
  /\ p # "engage" => UNCHANGED engageVars
  /\ p # "edit" => UNCHANGED editVars
  /\ p # "profile" => UNCHANGED profileVars
  /\ p # "dossier" => UNCHANGED dossierVars

Next ==
  \/ part = "register" /\ Register!Next /\ Others("register")
  \/ part = "login" /\ Login!Next /\ Others("login")
  \/ part = "services" /\ Limits!ServicesNext /\ Others("services")
  \/ part = "portfolio" /\ Limits!PortfolioNext /\ Others("portfolio")
  \/ part = "engage" /\ Engage!Next /\ Others("engage")
  \/ part = "edit" /\ Edit!Next /\ Others("edit")
  \/ part = "profile" /\ Profile!Next /\ Others("profile")
  \/ part = "dossier" /\ Dossier!Next /\ Others("dossier")

\* A login that is being served goes on, and the clock runs; calls are answered, timers
\* fire, and a user who is asked to try again or to hand in his file does so.
Spec ==
  /\ Init /\ [][Next]_vars
  /\ \A w \in Attempts : WF_vars(part = "login" /\ Login!Login(w) /\ Others("login"))
  /\ WF_vars(part = "login" /\ Login!Tick /\ Others("login"))
  /\ WF_vars(part = "edit" /\ Edit!Answers /\ Others("edit"))
  /\ WF_vars(part = "edit" /\ Edit!Dismiss /\ Others("edit"))
  /\ WF_vars(part = "edit" /\ Edit!Retry /\ Others("edit"))
  /\ WF_vars(part = "dossier" /\ Dossier!Browser /\ Others("dossier"))
  /\ SF_vars(part = "dossier" /\ Dossier!Open("kyc") /\ Others("dossier"))
  /\ SF_vars(part = "dossier" /\ Dossier!FollowLink /\ Others("dossier"))
  /\ SF_vars(part = "dossier" /\ Dossier!ChooseCard(TRUE) /\ Others("dossier"))
  /\ SF_vars(part = "dossier" /\ Dossier!handleSubmit /\ Others("dossier"))

-----------------------------------------------------------------------------
\* The properties of the services, where they are stated.

\* Two accounts share a CIN only when their requests overlapped.
CinSharedOnlyByOverlap == Register!CinSharedOnlyByOverlap

\* The files of a committed dossier are on disk.
DossierOnDisk == Register!DossierOnDisk

\* A dossier under review or decided is complete.
DossierComplete == Register!DossierComplete

\* Wrong passwords stay below the limit plus the logins in flight.
AttemptsBounded == Login!AttemptsBounded

\* A lockout ends.
LockEnds == Login!LockEnds

\* More services than the plan allows are left over from a plan that ended, or from two
\* saves that met.
ServicesFollowPlan == Limits!ServicesFollowPlan

\* Uploads at once pass the limit by as many as they are, less one.
PortfolioBounded == Limits!PortfolioBounded

\* A letter was written for the token of a pending address.
PendingCanConfirm == Engage!PendingCanConfirm

\* A form that gave way to an error comes back.
FormComesBack == part = "edit" => Edit!FormComesBack

\* The profile in the store and on the screen is the one the server has.
ProfileShown == Profile!ProfileShown

\* A rejected file comes back under review.
RejectedResubmits == part = "dossier" => Dossier!RejectedResubmits

=============================================================================
