------------------------------- MODULE Pages -------------------------------
(***************************************************************************)
(* The pages of the web application, each with the part of the server it   *)
(* talks to: the navigation, the lists of bookings, the page that asks for *)
(* one, the pages that start a payment, the status of a payment.  A page   *)
(* keeps its state to itself and loses it when it is left, so each is      *)
(* explored by itself: part says which one a behaviour is about.           *)
(***************************************************************************)
EXTENDS Naturals, FiniteSets

CONSTANTS
  MaxMoves, MaxTroubles,                        \* Navigation
  Bookings, Nobody, ListCalls, Durations, MaxPresses,   \* BookingPages
  Dates, Slots, NoDate, NoSlot,                 \* BookPage
  Orders, NoOrder, OfferClicks,                 \* PlanPages
  Calls, MaxClicks, MaxFails,                   \* BookPage, PlanPages
  StatusCalls, StatusFails                      \* StatusPage

ASSUME PagesAssumption == NoOrder \notin Orders

VARIABLES
  part,
  account, live, cookie, store, path, goto, fresh, next, me, proMe, mine, overview,
  login, logout, asked, steady, moves, troubles,
  row, list, listLoading, listError, updating, dialog, listCall, agreed, last, crossed,
  failed, presses,
  free, made, pro, selectedDate, slots, loadingSlots, selectedSlot, submitting,
  bookingError, success, leaving, slotCall, post, served, overlapped, bookClicks, bookFails,
  order, page, isAnnual, target, isLoading, cooling, timer, modal, hub, planCall, seen,
  lost, planClicks, planFails,
  paid, loading, error, paymentStatus, profileLoading, profileError, changed, statusCall,
  statusFails

Nav == INSTANCE Navigation

Lists == INSTANCE BookingPages
  WITH Calls <- ListCalls, loading <- listLoading, error <- listError, call <- listCall

Book == INSTANCE BookPage
  WITH call <- slotCall, clicks <- bookClicks, fails <- bookFails

Offers == INSTANCE PlanPages
  WITH MaxClicks <- OfferClicks, call <- planCall, clicks <- planClicks, fails <- planFails

Status == INSTANCE StatusPage
  WITH Calls <- StatusCalls, MaxFails <- StatusFails, order <- paid, call <- statusCall,
       fails <- statusFails

navVars == <<account, live, cookie, store, path, goto, fresh, next, me, proMe, mine,
  overview, login, logout, asked, steady, moves, troubles>>
listsVars == <<row, list, listLoading, listError, updating, dialog, listCall, agreed, last,
  crossed, failed, presses>>
bookVars == <<free, made, pro, selectedDate, slots, loadingSlots, selectedSlot, submitting,
  bookingError, success, leaving, slotCall, post, served, overlapped, bookClicks, bookFails>>
offersVars == <<order, page, isAnnual, target, isLoading, cooling, timer, modal, hub,
  planCall, seen, lost, planClicks, planFails>>
statusVars == <<paid, loading, error, paymentStatus, profileLoading, profileError, changed,
  statusCall, statusFails>>
vars == <<part, navVars, listsVars, bookVars, offersVars, statusVars>>

\* The parts that do not run have one initial state, which one does not matter.
Init ==
  /\ part \in {"nav", "lists", "book", "offers", "status"}
  /\ Nav!Init /\ (part # "nav" => account.role = "CLIENT" /\ live)
  /\ Lists!Init
  /\ part # "lists" => \A b \in Bookings : row[b].status = "PENDING"
  /\ Book!Init
  /\ part # "book" => /\ free = [d \in Dates |-> Slots] /\ selectedDate = CHOOSE d \in Dates : TRUE
                      /\ slotCall[CHOOSE c \in Calls : TRUE] # Book!Idle
  /\ Offers!Init /\ Status!Init

Others(p) ==
  /\ UNCHANGED part
  /\ p # "nav" => UNCHANGED navVars
  /\ p # "lists" => UNCHANGED listsVars
  /\ p # "book" => UNCHANGED bookVars
  /\ p # "offers" => UNCHANGED offersVars
  /\ p # "status" => UNCHANGED statusVars

Next ==
  \/ part = "nav" /\ Nav!Next /\ Others("nav")
  \/ part = "lists" /\ Lists!Next /\ Others("lists")
  \/ part = "book" /\ Book!Next /\ Others("book")
  \/ part = "offers" /\ Offers!Next /\ Others("offers")
  \/ part = "status" /\ Status!Next /\ Others("status")

\* The router carries out its last navigation, the server answers what it is
\* asked, an effect runs when its dependencies changed, a timer fires.  Nobody is
\* obliged to click.
Spec ==
  /\ Init /\ [][Next]_vars
  /\ WF_vars(part = "nav" /\ Nav!Navigate /\ Others("nav"))
  /\ \A c \in ListCalls : WF_vars(part = "lists" /\ Lists!Answers(c) /\ Others("lists"))
  /\ WF_vars(part = "book" /\ Book!Submission /\ Others("book"))
  /\ WF_vars(part = "offers" /\ Offers!Answers /\ Others("offers"))
  /\ WF_vars(part = "status" /\ Status!Answers /\ Others("status"))

-----------------------------------------------------------------------------
\* The properties of the pages, where they are stated.

\* A page that has come to rest is one its visitor may see.
PageFitsUser == Nav!PageFitsUser

\* A reload leaves a user with a session on the page he asked for.
KeepsPlace == Nav!KeepsPlace

\* Redirections come to an end.
Settles == Nav!Settles

\* A client has agreed to the duration that was on his screen.
AcceptedAsShown == Lists!AcceptedAsShown

\* Who made one call at a time sees what he made of a booking.
OwnChangesShown == Lists!OwnChangesShown

\* A request is for a slot that was offered for its day.
AsksForOfferedSlots == Book!AsksForOfferedSlots

\* A visit makes one request.
OneRequestPerVisit == Book!OneRequestPerVisit

\* The reference of an order reaches the one who is to pay it.
OrdersAreShown == Offers!OrdersAreShown

\* A page that waits does not wait for ever: its buttons come back whatever is
\* answered and in whatever order.
WaitingEnds ==
  /\ Lists!ButtonsReturn /\ Book!SubmissionEnds /\ Offers!CheckoutButtonsReturn
  /\ part = "status" => Status!LoadingEnds

=============================================================================
