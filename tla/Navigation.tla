----------------------------- MODULE Navigation -----------------------------
(***************************************************************************)
(* Where the web application takes its user: the middleware on every       *)
(* navigation, the session check at every load of the application          *)
(* (AuthBootstrap, authStore), the guards the pages run as React effects,  *)
(* the gates of DashboardLayout, the redirections after a login, a         *)
(* registration and a logout.  Answers of the server arrive in any order   *)
(* or never, and the user moves on without waiting for them.               *)
(*                                                                         *)
(* An effect runs when its page is mounted and when the state it depends   *)
(* on changes: fresh says that the effects of the page are still to run.   *)
(* goto is the last push or replace that the router has not carried out.   *)
(***************************************************************************)
EXTENDS Naturals

CONSTANTS
  MaxMoves,   \* bound: what the user does
  MaxTroubles \* bound: cookies that expire, sessions that end, answers that are lost

VARIABLES
  account,    \* the row of the user: role, kyc, premium
  live,       \* the session: its refresh token can be exchanged
  cookie,     \* the browser holds an access cookie
  store,      \* authStore
  path, goto, fresh, next,
  me,         \* the call of init: none, sent, then what it will answer
  proMe, mine,\* the layout's profile and its call
  overview,   \* the call of the overview page, which outlives the page
  login, logout,
  asked,      \* history: the page the user last asked for,
  steady,     \* and that nothing has gone wrong since
  moves, troubles

sessionVars == <<account, live, cookie>>
callVars == <<me, proMe, mine, overview, login, logout>>
pageVars == <<path, goto, fresh, next>>
historyVars == <<asked, steady, moves, troubles>>
vars == <<sessionVars, store, pageVars, callVars, historyVars>>

Nowhere == "nowhere"
Anonymous == [user |-> "none", kyc |-> "none", isAuthenticated |-> FALSE, loading |-> FALSE]
Booting == [Anonymous EXCEPT !.loading = TRUE]
UserOf == [user |-> account.role, kyc |-> account.kyc, isAuthenticated |-> TRUE, loading |-> FALSE]

KycStatus == {"NOT_SUBMITTED", "PENDING", "APPROVED", "REJECTED"}
Accounts ==
  [role : {"CLIENT"}, kyc : {"none"}, premium : {FALSE}]
    \cup [role : {"PRO"}, kyc : KycStatus, premium : BOOLEAN]
NoProfile == [kyc |-> "none", premium |-> FALSE]

\* Pages that wait for the session before they guard, and pages that do not.
InLayout ==
  {"/dashboard", "/dashboard/kyc", "/dashboard/profile", "/dashboard/services",
   "/dashboard/availability", "/dashboard/subscription", "/dashboard/bookings", "/dashboard/history"}
PROTECTED == InLayout \cup {"/book", "/client/bookings", "/profile", "/plans"}
AUTH_PAGES == {"/auth/login", "/auth/register"}
Pages == PROTECTED \cup AUTH_PAGES \cup {"/"}

-----------------------------------------------------------------------------
(* The middleware, which sees the cookie and nothing else. *)
isProtectedRoute(p) == p \in PROTECTED
isAuthPage(p) == p \in AUTH_PAGES

\* Mutant: a visitor with a session is sent to his profile.
middlewareProfile(p) ==
  IF isProtectedRoute(p) /\ ~cookie THEN "/auth/login"
  ELSE IF isAuthPage(p) /\ cookie THEN "/profile"
  ELSE p

middleware(p) ==
  IF isProtectedRoute(p) /\ ~cookie THEN "/auth/login"
  ELSE IF isAuthPage(p) /\ cookie THEN "/"
  ELSE p

(* The guards of the pages: where each wants its visitor, its own path when   *)
(* he may stay.                                                               *)
ProfileGuard ==
  IF ~store.isAuthenticated THEN "/auth/login"
  ELSE IF store.user = "PRO" THEN "/dashboard/profile" ELSE "/profile"

\* Mutant: the offers ask for a session only.
PlansGuardAny == IF ~store.isAuthenticated THEN "/auth/login" ELSE "/plans"

PlansGuard ==
  IF ~store.isAuthenticated THEN "/auth/login"
  ELSE IF store.user # "PRO" THEN "/" ELSE "/plans"

ClientBookingsGuard ==
  IF ~store.isAuthenticated THEN "/auth/login"
  ELSE IF store.user # "CLIENT" THEN "/dashboard" ELSE "/client/bookings"

ProBookingsGuard ==
  IF ~store.isAuthenticated THEN "/auth/login"
  ELSE IF store.user # "PRO" THEN "/client/bookings" ELSE "/dashboard/bookings"

HistoryGuard ==
  IF ~store.isAuthenticated \/ store.user # "PRO" THEN "/auth/login" ELSE "/dashboard/history"

KycGuard == IF store.user \notin {"none", "PRO"} THEN "/" ELSE "/dashboard/kyc"

\* Mutant: the booking page does not wait for the session check.
BookGuardAtOnce == IF ~store.isAuthenticated THEN "/auth/login" ELSE "/book"

BookGuard == IF ~store.loading /\ ~store.isAuthenticated THEN "/auth/login" ELSE "/book"

PageGuard ==
  CASE path = "/profile" -> ProfileGuard
    [] path = "/plans" -> PlansGuard
    [] path = "/client/bookings" -> ClientBookingsGuard
    [] path = "/dashboard/bookings" -> ProBookingsGuard
    [] path = "/dashboard/history" -> HistoryGuard
    [] path = "/dashboard/kyc" -> KycGuard
    [] path = "/book" -> BookGuard
    [] OTHER -> path

(* DashboardLayout: its guard, and the redirection of a rejected file. *)
IsPro == store.isAuthenticated /\ store.user = "PRO"
effectiveKycStatus == IF proMe # NoProfile THEN proMe.kyc ELSE store.kyc

LayoutGuard == IF path \in InLayout /\ ~store.loading /\ ~IsPro THEN "/" ELSE path
RejectedGuard ==
  IF path \in InLayout /\ ~store.loading /\ IsPro /\ effectiveKycStatus = "REJECTED"
  THEN "/dashboard/kyc" ELSE path

\* The waiting room replaces the page while the file is under review.
isPendingAllowedPath == path \in {"/dashboard/profile", "/dashboard/subscription"}
showPendingState == path \in InLayout /\ effectiveKycStatus = "PENDING" /\ ~isPendingAllowedPath

Wanted == {PageGuard, LayoutGuard, RejectedGuard} \ {path}

-----------------------------------------------------------------------------
\* Nothing is left to run, to answer or to navigate.
Settled ==
  /\ goto = Nowhere /\ ~fresh /\ me = "none" /\ mine = "none" /\ overview = "none"
  /\ login = "none" /\ logout = "none"

Init ==
  /\ account \in Accounts
  /\ live \in BOOLEAN /\ cookie = live
  /\ store = Booting /\ me = "sent"
  /\ path = "/" /\ goto = Nowhere /\ fresh = TRUE /\ next = Nowhere
  /\ proMe = NoProfile /\ mine = "none" /\ overview = "none"
  /\ login = "none" /\ logout = "none"
  /\ asked = "/" /\ steady = TRUE /\ moves = 0 /\ troubles = 0

\* The router arrives at a page: its layout is mounted anew and its calls leave.
Arrive(p) ==
  /\ path' = p /\ fresh' = TRUE /\ goto' = Nowhere
  /\ proMe' = NoProfile /\ mine' = "none"
  /\ overview' = IF p = "/dashboard" THEN "sent" ELSE overview

Navigate ==
  /\ goto # Nowhere
  /\ Arrive(middleware(goto))
  /\ next' = IF isProtectedRoute(goto) /\ ~cookie THEN goto
             ELSE IF goto = "/auth/login" /\ path = "/book" THEN "/book" ELSE Nowhere
  /\ UNCHANGED <<sessionVars, store, me, login, logout, historyVars>>

\* The effects of the page: a redirection, or the layout's call for its profile.
RunEffects ==
  /\ fresh /\ fresh' = FALSE
  /\ IF Wanted = {} THEN goto' = goto ELSE goto' \in Wanted
  /\ mine' = IF path \in InLayout /\ ~store.loading /\ IsPro /\ proMe = NoProfile /\ mine = "none"
             THEN "sent" ELSE mine
  /\ UNCHANGED <<sessionVars, store, path, next, me, proMe, overview, login, logout, historyVars>>

-----------------------------------------------------------------------------
(* What the user does.  asked and steady are for KeepsPlace: a load abandons  *)
(* the calls of the page, a click does not.                                   *)
Ask(p, calm) ==
  /\ moves < MaxMoves /\ moves' = moves + 1
  /\ asked' = p /\ steady' = (calm /\ live /\ cookie /\ troubles = 0)
  /\ UNCHANGED troubles

\* A load of the whole application: the store is empty and init is called.
Open(p) ==
  /\ Ask(p, logout = "none")
  /\ path' = middleware(p) /\ fresh' = TRUE /\ goto' = Nowhere
  /\ next' = IF isProtectedRoute(p) /\ ~cookie THEN p ELSE Nowhere
  /\ store' = Booting /\ me' = "sent"
  /\ proMe' = NoProfile /\ mine' = "none" /\ login' = "none" /\ logout' = "none"
  /\ overview' = IF path' = "/dashboard" THEN "sent" ELSE "none"
  /\ live' \in {live, live /\ logout = "none"}
  /\ UNCHANGED <<account, cookie>>

\* The links of Navbar and Header, by what the store says of the visitor.
NavbarLinks ==
  {"/"} \cup (IF ~store.isAuthenticated THEN {"/plans", "/auth/login", "/auth/register"}
              ELSE {"/profile"} \cup (IF store.user = "PRO" THEN {"/plans", "/dashboard"} ELSE {"/client/bookings"}))

HeaderLinks ==
  {"/"} \cup (IF ~store.isAuthenticated THEN {"/auth/login", "/auth/register"}
              ELSE {"/profile"} \cup (IF store.user = "PRO" THEN {"/plans", "/dashboard"} ELSE {"/client/bookings"}))

\* The sidebar has the overview for a premium plan only.
menuItems == (InLayout \ (IF proMe.premium THEN {} ELSE {"/dashboard"})) \cup {"/"}

KycPendingLinks == {"/dashboard/profile"}

Links ==
  IF path = "/" THEN NavbarLinks
  ELSE IF path \in {"/profile", "/book", "/client/bookings"} THEN HeaderLinks
  ELSE IF showPendingState THEN KycPendingLinks
  ELSE IF path \in InLayout THEN (IF IsPro /\ mine = "none" THEN menuItems ELSE {})
  ELSE IF path \in AUTH_PAGES THEN AUTH_PAGES \cup {"/"} ELSE {}

Click(p) ==
  /\ p \in Links /\ Ask(p, Settled) /\ goto' = p
  /\ UNCHANGED <<sessionVars, store, path, fresh, next, callVars>>

SubmitLogin ==
  /\ path = "/auth/login" /\ login = "none" /\ moves < MaxMoves
  /\ login' = "sent" /\ moves' = moves + 1
  /\ UNCHANGED <<sessionVars, store, pageVars, me, proMe, mine, overview, logout, asked, steady, troubles>>

SubmitRegister ==
  /\ path = "/auth/register" /\ login = "none" /\ moves < MaxMoves
  /\ login' = "registered" /\ moves' = moves + 1
  /\ UNCHANGED <<sessionVars, store, pageVars, me, proMe, mine, overview, logout, asked, steady, troubles>>

\* Navbar and the sidebar wait for the answer, Header, the waiting room, the
\* profile and the booking page go to the home page at once.
LogoutAwaited ==
  /\ store.isAuthenticated
  /\ path \in {"/"} \cup (IF showPendingState THEN {} ELSE InLayout)
  /\ logout = "none" /\ moves < MaxMoves
  /\ logout' = "awaited" /\ moves' = moves + 1 /\ steady' = FALSE
  /\ UNCHANGED <<sessionVars, store, pageVars, me, proMe, mine, overview, login, asked, troubles>>

LogoutAtOnce ==
  /\ store.isAuthenticated
  /\ path \in {"/profile", "/book", "/client/bookings"} \/ showPendingState
  /\ logout = "none" /\ moves < MaxMoves
  /\ logout' = "sent" /\ goto' = "/" /\ moves' = moves + 1 /\ steady' = FALSE
  /\ UNCHANGED <<sessionVars, store, path, fresh, next, me, proMe, mine, overview, login, asked, troubles>>

-----------------------------------------------------------------------------
(* The answers.  What the server says is fixed when it serves the call. *)
InitServed ==
  /\ me = "sent"
  /\ me' = IF live \/ cookie THEN "yes" ELSE "no"
  /\ UNCHANGED <<sessionVars, store, pageVars, proMe, mine, overview, login, logout, historyVars>>

\* A call without an access cookie is repeated after a refresh, which sets one.
InitAnswered ==
  /\ me \in {"yes", "no"} /\ me' = "none"
  /\ store' = IF me = "yes" THEN UserOf ELSE Anonymous
  /\ cookie' = (cookie \/ (me = "yes" /\ live))
  /\ fresh' = TRUE
  /\ UNCHANGED <<account, live, path, goto, next, proMe, mine, overview, login, logout, historyVars>>

\* /pro/me for the layout: its error leaves the page to the status in the store.
ProfileAnswered ==
  /\ mine = "sent" /\ mine' = "none"
  /\ IF live \/ cookie THEN proMe' = [kyc |-> account.kyc, premium |-> account.premium]
     ELSE proMe' = proMe
  /\ store' = IF proMe' # NoProfile /\ store.isAuthenticated
              THEN [store EXCEPT !.kyc = proMe'.kyc] ELSE store
  /\ cookie' = (cookie \/ live) /\ fresh' = (fresh \/ proMe' # proMe)
  /\ UNCHANGED <<account, live, path, goto, next, me, overview, login, logout, historyVars>>

\* The layout polls while the file is under review.
Poll ==
  /\ path \in InLayout /\ IsPro /\ effectiveKycStatus = "PENDING" /\ mine = "none"
  /\ account.kyc # "PENDING"
  /\ mine' = "sent"
  /\ UNCHANGED <<sessionVars, store, pageVars, me, proMe, overview, login, logout, historyVars>>

\* The overview sends a professional without a premium plan to his bookings,
\* wherever he is by then.
OverviewAnswered ==
  /\ overview = "sent" /\ overview' = "none"
  /\ cookie' = (cookie \/ live)
  /\ goto' = IF (live \/ cookie) /\ account.role = "PRO" /\ ~account.premium
             THEN "/dashboard/bookings" ELSE goto
  /\ UNCHANGED <<account, live, store, path, fresh, next, me, proMe, mine, login, logout, historyVars>>

\* Where a login leads: the page asked for before it, or the home of the role.
AfterLogin ==
  IF next # Nowhere THEN next ELSE IF account.role = "PRO" THEN "/dashboard" ELSE "/"

LoginAnswered ==
  /\ login = "sent" /\ login' = "none"
  /\ live' = TRUE /\ cookie' = TRUE /\ store' = UserOf /\ fresh' = TRUE
  /\ goto' = AfterLogin
  /\ UNCHANGED <<account, path, next, me, proMe, mine, overview, logout, historyVars>>

LoginRefused ==
  /\ login \in {"sent", "registered"} /\ login' = "none"
  /\ UNCHANGED <<sessionVars, store, pageVars, me, proMe, mine, overview, logout, historyVars>>

RegisterAnswered ==
  /\ login = "registered" /\ login' = "none"
  /\ live' = TRUE /\ cookie' = TRUE /\ store' = UserOf /\ fresh' = TRUE
  /\ goto' = IF account.role = "PRO" THEN "/dashboard/kyc" ELSE "/"
  /\ UNCHANGED <<account, path, next, me, proMe, mine, overview, logout, historyVars>>

\* A logout empties the store whatever its answer; a lost one leaves the cookie.
LogoutAnswered(lost) ==
  /\ logout # "none" /\ logout' = "none"
  /\ lost => troubles < MaxTroubles
  /\ troubles' = IF lost THEN troubles + 1 ELSE troubles
  /\ live' \in IF lost THEN {live, FALSE} ELSE {FALSE}
  /\ cookie' = (cookie /\ lost)
  /\ store' = Anonymous /\ fresh' = TRUE
  /\ goto' = IF logout = "awaited" THEN "/" ELSE goto
  /\ UNCHANGED <<account, path, next, me, proMe, mine, overview, login, asked, steady, moves>>

-----------------------------------------------------------------------------
(* What goes wrong, and what the administrator decides. *)
Trouble == troubles < MaxTroubles /\ troubles' = troubles + 1

CookieExpires ==
  /\ cookie /\ Trouble /\ cookie' = FALSE /\ steady' = FALSE
  /\ UNCHANGED <<account, live, store, pageVars, callVars, asked, moves>>

SessionEnds ==
  /\ live /\ Trouble /\ live' = FALSE /\ cookie' = FALSE /\ steady' = FALSE
  /\ UNCHANGED <<account, store, pageVars, callVars, asked, moves>>

InitLost ==
  /\ me # "none" /\ Trouble /\ me' = "none" /\ store' = Anonymous /\ fresh' = TRUE /\ steady' = FALSE
  /\ UNCHANGED <<sessionVars, path, goto, next, proMe, mine, overview, login, logout, asked, moves>>

Decide ==
  /\ account.kyc = "PENDING"
  /\ \E k \in {"APPROVED", "REJECTED"} : account' = [account EXCEPT !.kyc = k]
  /\ UNCHANGED <<live, cookie, store, pageVars, callVars, historyVars>>

User ==
  \/ \E p \in Pages : Open(p) \/ Click(p)
  \/ SubmitLogin \/ SubmitRegister \/ LogoutAwaited \/ LogoutAtOnce

Browser ==
  \/ Navigate \/ RunEffects \/ InitServed \/ InitAnswered \/ ProfileAnswered \/ Poll
  \/ OverviewAnswered \/ LoginAnswered \/ LoginRefused \/ RegisterAnswered
  \/ \E lost \in BOOLEAN : LogoutAnswered(lost)

Next == User \/ Browser \/ CookieExpires \/ SessionEnds \/ InitLost \/ Decide

-----------------------------------------------------------------------------
\* Whatever the order in which the session, the profile and the user's own
\* moves arrive, when everything is answered the page on the screen is one that
\* the visitor of the store may see: the guards, the layout and the middleware
\* leave nobody on a page of the other role, and no visitor without a session on
\* a private page.
PageFitsUser ==
  Settled =>
    /\ store.user = "none" => path \in AUTH_PAGES \cup {"/"}
    /\ store.user = "CLIENT" => path \notin InLayout \cup {"/plans"}
    /\ store.user = "PRO" => path \notin {"/profile", "/client/bookings"}
    /\ path \in InLayout /\ effectiveKycStatus = "REJECTED" => path = "/dashboard/kyc"

\* A user with a session that nothing disturbs stays on the page he asked for
\* when that page waits for the session check: a reload does not send him to the
\* login form or to the home page.  A rejected file sends its owner to the
\* verification page.
Waiting ==
  IF account.role = "CLIENT" THEN {"/book"}
  ELSE {"/book", "/dashboard/services", "/dashboard/availability", "/dashboard/profile",
        "/dashboard/subscription", "/dashboard/kyc"}
         \cup (IF account.premium THEN {"/dashboard"} ELSE {})
KeepsPlace ==
  steady /\ Settled /\ asked \in Waiting =>
    path \in {asked} \cup (IF account.kyc = "REJECTED" THEN {"/dashboard/kyc"} ELSE {})

\* Redirections come to an end: the guards, the layout and the middleware never
\* send a visitor in circles.  (The waiting room may poll for ever.)
Settles == <>[](goto = Nowhere)

=============================================================================
