# Khadamat: TLA+ models of its server and of its pages

Khadamat is a marketplace: clients ask professionals for slots, who confirm, decline or
propose a longer duration; professionals pay for a premium plan or a boost and have their
identity checked. `apps/api` is a NestJS server that keeps its state in PostgreSQL through
Prisma; `apps/web` is a Next.js client. This directory models both, checks the models with
TLC and proves the invariants and action properties of the passing runs with TLAPS. Source
paths are relative to the repository.

## 1. Inventory

Everything the server remembers is in the database, except the failed-login counters, the
catalog cache and the notification events in flight, which are in memory. Handlers are
asynchronous: at every `await` of a query other requests run. `$transaction` is used
without an isolation level, so PostgreSQL's default, READ COMMITTED, applies. A page of
the web client keeps its state in React hooks and loses it when it is left; no call is
cancelled when its page is left, and nothing orders the answers of two calls.

| Component | State | What is hard | What makes it correct |
|---|---|---|---|
| Booking lifecycle (`booking/booking.service.ts`) | `Booking`, `BookingEvent` | check-then-act on other rows, sweep of rivals, revert inside a transaction, work after the commit | no double booking, consent to a new duration, rows agree with events |
| Booking expiration (`booking-expiration.service.ts`) | the same | selects outside the transaction that writes | every request is closed |
| Slot availability (`getAvailableSlots`, `createBooking`) | reads bookings, `WeeklyAvailability` | "HH:MM" arithmetic, day boundaries | a slot that is offered is free |
| Payment, subscription cron (`payment/`, `pro/subscription-expiration.service.ts`) | `PaymentOrder`, `ProSubscription`, `ProBoost`, flags of `ProProfile` | parallel checkouts, paid but not activated, cron against activation | one pending order per plan, one activation per order, entitlements end |
| Sessions, password reset (`auth/auth.service.ts`), API client (`web/src/lib/api.ts`) | `RefreshToken`, `PasswordResetToken`, cookies, `refreshPromise` | rotation against parallel calls, lost answers, logout, reset | a session continues until it is ended, and then stays ended |
| Lockout (`auth/failed-login.service.ts`) | counters in memory | read before `bcrypt`, written after | attempts are bounded, a lock ends |
| Registration, KYC (`auth`, `kyc`) | `User`, `ProProfile`, files on disk | uniqueness without an index, files before the transaction | complete dossiers, files that exist |
| Professionals (`pro/pro.service.ts`) | services, week, portfolio | limits checked before the write | the limits of the plan |
| Reviews, newsletter, users | one table each | double submission, two writers of a token | one review, a link that works |
| Client session (`authStore`, `middleware`, guards, `DashboardLayout`) | cookie, store, profile | three copies of one session | right page, no circles |
| Booking, plan, profile pages (`web/src/app`) | React state | late and reordered answers, timers | what is shown and sent is what was meant |

Components meet in the database, through HTTP and through the session cookies. Where two
of them share state, one module holds both sides: Sessions has the server's tables and the
browser's promise, BookingPages the rows and both lists. `PROJECT.json` lists all
components with their status, and the hazards of the code, each at its line.

## 2. Modules

```
BookingData --- Booking <--- refines --- BookingTx        MCBooking, MCBookingTx
                   |                        |-- BookingTxProofs --- DoubleBookingProofs
                   |-- BookingProofs --- BookingHistoryProofs
Payment ------- PaymentProofs                             MCPayment
Sessions ------ SessionProofs                             MCSessions
Registration, Lockout, ProLimits, Engagement,
EditPages, ProfilePages, DossierPages  --- Accounts       MCAccounts
                                              |-- AccountsProofs
Navigation, BookingPages, BookPage,
PlanPages, StatusPage                  --- Pages          MCPages
                                             |-- PagesProofs
```

**BookingData** has the tables and queries as operators over a table `rs`, so that the
same query can be asked of the committed rows or of a transaction's view. A row keeps the
status, professional, start, duration, `isModifiedByPro` and which of `confirmedAt`,
`cancelledAt`, `completedAt` are set; `Hour` and `Day` scale the code's minutes down.
**Booking** is what the code promises to one caller at a time: one action per handler, with
all its checks as guard and everything it writes as effect, the work after its transaction
included. **BookingTx** splits the handlers that touch several rows, or read before they
write, at every statement where another request can interfere. Its state adds for each
worker a program counter with its locals (`req`) and the rows its transaction has written
and not committed (`tx`), which are locked. A conditional `updateMany` is judged on the row
it locks, an update by id on nothing. `Fail` ends a request between two statements,
`DeadlockVictim` is PostgreSQL's answer to a cycle of waiting transactions. `raced` is a
history variable: the pairs of bookings whose confirmations were in flight at once.

**Payment** has one professional's orders (with their pending key), subscription rows and
flags. `BeginInitiate`, `CheckCooldown`, `Lookup`, `Adopt`, `Create` are the statements of
`initiatePayment`; `BeginConfirm`, `Pay` and `ActivateBoost` / `FindSubscription`,
`ActivatePremium` those of `confirmPayment` with `activatePlan`; then `rejectPayment` and
the two `updateMany` of the cron. `granted` is a history variable.

**Sessions** has the token rows, the cookie jar, the calls of a tab and its one refresh. A
call of any kind, a login too, leaves whenever the user or a page sends it: nothing in the
code waits for another. `LoginCheck` reads the user and compares the password, `LoginCreate`
inserts the token later. `RefreshFind` to `RefreshCreate` are the statements of
`refreshTokens`, with the replay and expiry branches; `Renewed`, `NotRenewed`, `LoseRefresh`
what becomes of the answer; `Unauthorized`, `Resume` the 401 that joins a refresh and the
single retry; the access token may be past its fifteen minutes whenever a call is judged.
Logout, the reset link and the purge complete it. Two histories name logins: `raced` those
that an end of all sessions no longer stopped, `crossed` those that lost the answer of a
refresh or that the replay of an older cookie ended.

**Accounts** instances the modules about accounts. They share no row that either writes, so
each is explored by itself: `part` is chosen by `Init` and never changes, and what is not
explored stays in one initial state.

- Registration: `register`, `submitKyc`, `resubmitKyc` from multer's write of the files to
  the automatic login and the deletion of files after an error; `Review` is the administrator.
- Lockout: `isLocked`, the awaited comparison, `recordFailure`, the cleanup, `Restart`.
- ProLimits: `updateServices` and the portfolio against a plan that starts or ends. Saves run
  beside each other: the check, the deletion of the rows that are committed then, and the
  insertion, which stops at the unique key of a row inserted since, are steps of their own.
- Engagement: `createReview`; `subscribe`, `confirm`, `unsubscribe` and the letters, each of
  which is sent or fails and is swallowed (`unsent`).
- EditPages: the pages of services and week with `PUT`, reload, messages, timer and retry.
- ProfilePages: both profile pages, the store, the portfolio buttons with the plan, count and
  insertion behind them, the read of at most `PORTFOLIO_MAX` pictures, saves of pages that were
  left. `unsure` is a history: what a page may know no more, since an answer was lost, two
  saves met, or it was read while an earlier request was served.
- DossierPages: registration form, KYC page and the layout's gates around them.

**Pages** does the same with the other pages.

- Navigation: middleware, `AuthBootstrap` and `authStore.init`, one guard per page that has
  one, the redirections of `DashboardLayout`, login, registration, the logouts of both bars.
  `fresh` says that the effects of a page are still to run, `goto` is the router's last order.
- BookingPages: the list of the professional and of the client with their buttons and
  dialogs, the calls and lists in flight, over the rows and guards of the server.
- BookPage: calendar, lists of slots in flight, the request and what follows each answer.
- PlanPages: the offers with their `PaymentButton`s, and the subscription page.
- StatusPage: the page that follows an order, inside the layout's context.

External, modelled from how the code uses it: PostgreSQL (locks, visibility, deadlock
detection), the clock, failures, React's scheduling of effects, the router, the mailbox,
the administrator's decisions. `PROJECT.json` marks these definitions.

## 3. Runs

All configurations set `CHECK_DEADLOCK FALSE`: clocks stop at their bound, ids and clicks run
out, so the bounded systems may stop.

| Run | Bounds | What it shows |
|---|---|---|
| `booking` | 3 bookings, 1 pro, 2 days of 4 hours, durations to 3 | `NoRivalOfConfirmed`, `ConsentToNewDuration`, `HistoryMatchesStatus`, `EarlyCompletionHasSuccessor`, `OfferedSlotsAreFree` |
| `tx` | 2 bookings, 2 workers, 1 failure, the clock runs during requests | `StampsMatchEvents`, `NothingReopens`, `DoubleBookingOnlyByOverlap` |
| `tx_one` | 1 worker, overlapping slots, no failure, the clock waits | `ImplementsBooking`: the statements implement the atomic handlers |
| `tx_live` | 2 workers on one slot, no failure | `EveryRequestReturns`, `EveryBookingIsClosed` |
| `payment` | 2 orders, 3 plans, 2 checkouts and 1 administrator in flight, 1 failure | `OnePendingPerPlan`, `GrantedOnce`, `PremiumMatchesSubscription` |
| `payment_live` | 2 orders, a month of premium (1 day of the model) and a boost, 4 days, 1 of each caller, 1 failure | `PaidIsActivated`, `EntitlementsEnd` |
| `session` | 1 browser, 1 tab, 2 calls, 3 tokens, 2 logins, 1 logout or reset | `SessionContinues`, `OneLiveTokenPerLogin`, `EndedForGood`, `EveryCallReturns` |
| `accounts` | eight parts: 2 accounts, phones, cards and files with 2 requests; 3 logins; 2 categories and 2 saves; 2 uploads; 3 links; 2 rows, 2 edits; 2 pictures, 2 calls, 4 clicks; 2 failed answers | `CinSharedOnlyByOverlap`, `DossierOnDisk`, `DossierComplete`, `AttemptsBounded`, `LockEnds`, `ServicesFollowPlan`, `PortfolioBounded`, `PendingCanConfirm`, `FormComesBack`, `ProfileShown`, `RejectedResubmits` |
| `pages` | five parts: 2 moves and 1 trouble; 1 booking, 2 calls, 3 presses; 2 days, 2 lists, 4 clicks, 1 failure; 2 orders, 2 checkouts, 4 clicks; 3 calls, 2 failures | `PageFitsUser`, `KeepsPlace`, `Settles`, `AcceptedAsShown`, `OwnChangesShown`, `AsksForOfferedSlots`, `OneRequestPerVisit`, `OrdersAreShown`, `WaitingEnds` |
| `tx_double` | 2 workers | violated: `NoDoubleBooking` |
| `success` | 3 calls | violated: `SuccessStays` |
| `rejected` | 2 failures | violated: `RejectedCanResubmit` |

Why the bounds are enough to be interesting. Three bookings are a confirmed one, a rival
and a back-to-back neighbour; durations to 3 in a 4-hour day give overlaps, containment,
adjacency and intervals past midnight; `MaxTime` lies after the last expiry. Two workers make
each race, which is between two handlers, and each cycle of two locks. Two orders of one
plan are a rejected and a renewed one. Three tokens are a login, its rotation and a second
login; two calls share a refresh. Two answers can be swapped, and one lost answer or one
failure between any two steps is what the code has branches for. Two saves are what leaves
the union of two lists, two uploads what passes a limit of one picture. Days 0 to
3 let a premium, its renewal and a boost run out and be ended by the cron. `FREE_SERVICES_MAX`,
`PORTFOLIO_MAX`, `MAX_ATTEMPTS` and `LOCKOUT` are constants with smaller values: what matters
is to reach and to pass them. Bounds on clicks, moves and failures only cut behaviours off.

On the hour `NoRivalOfConfirmed` leaves nothing for the conflict check to refuse; with slots
at any minute, which the API accepts, creation lets a rival in and the check is all there
is. So the refinement is checked with overlapping slots. What two requests at once still
guarantee is `DoubleBookingOnlyByOverlap`: a professional is booked twice only by two
confirmations in flight at once (`tx_double` finds them), never by a duration that changed
under a confirmation, nor by a sweep, a failure or a repetition.

Symmetry: bookings and workers in the safety runs of bookings, orders and callers in
`payment`, tokens in `session`, and files, phones, cards and calls in `accounts`. The runs
with liveness that use it permute only what no liveness property and no fairness condition
names: `EveryCallReturns` is about calls, not tokens; the liveness of `accounts` is about the
login, edit and dossier parts, in which the permuted sets do not occur.

### What the code does against its documents

Three runs end in a violation of what the repository says.

- `tx_double`: two confirmations check before either commits, and both are confirmed
  (`booking.service.ts:570`), against "First-confirmed-wins transactionnel" (PRD.md:155).
- `success`: the refresh the success page calls is a new function whenever the layout's
  `profileLoading` changes (`DashboardLayout.tsx:248`), so its effect runs again and replaces
  the success screen by the loader, again and again; `success/page.tsx:41` says that it stays.
- `rejected`: a rejected professional without a photograph is shown the setup gate in place
  of the form (`DashboardLayout.tsx:287`), and the profile to which the gate leads sends him
  back (`DashboardLayout.tsx:211`), although `kyc/page.tsx:217` asks him to submit again.
  `RejectedResubmits` holds of professionals who keep their photograph.

Met while modelling, and outside what the passing properties claim:

- Bookings: a long evening booking and one of the next morning can both be confirmed, since
  checks compare one calendar day; a slot on the half hour hides no generated hour;
  confirming the next hour completes the previous mission, begun or not; a confirmation may
  write over a duration that changed after its status check; the cron writes ids it read
  earlier, without their status; a refusal may overwrite an automatic cancellation and keep
  its `cancelledAt`; the event of a refusal can be lost.
- Payments: two administrators can activate one order twice; an order paid and not activated
  stays so; a rejected order can be confirmed later; premium and boost, which exclude each
  other at checkout, can be reached by two pending orders (PRD.md:227).
- Sessions: a refresh that has found its token valid when a logout or reset revokes them all
  still inserts a valid one, and so does a login that has compared the old password when a
  reset changes it (`raced`, which `EndedForGood` excepts); a lost refresh answer makes the
  next exchange a replay; the refresh of an ended session that is under way beside a login
  (the session check of the login page) is a replay too, and revokes the row of that login
  as well (`crossed`, which `SessionContinues` excepts); two uses of one reset link at once
  both succeed; a 401 of a login triggers a refresh and a second login, which counts twice
  towards the lockout; `logout` says it ends one device and ends all; two tabs that refresh
  at once can leave two valid tokens of one login; a browser that comes back with a cookie
  of before the last end is taken for a replay, and ends the sessions of the others.
- Accounts: two requests at once may use one card number; two saves of the services at once
  may leave the lists of both, past the limit of the plan; uploads at once pass the limit of
  the portfolio, and no page shows the pictures beyond it; an address whose confirmation letter
  failed is answered that it was sent; files of a registration refused
  before the transaction stay on disk; a link of an earlier letter re-activates an
  unsubscribed address; a second review at once is answered by a server error; a
  registration whose answer is lost is refused as a conflict when it is sent again.
- Pages: a session check from before a login may clear the store; a reload of `/profile`,
  `/plans`, `/client/bookings`, `/dashboard/bookings` or `/dashboard/history` ends elsewhere,
  for these guards do not wait for the check; older lists of slots or bookings may overwrite
  newer ones; `updatingBooking` names one booking only; a success and an error hide the form
  of the services until a timer fires; what is typed during a save is overwritten by the
  reload; the layout writes the photograph it read at its mount over a new one; a profile
  whose file was approved meanwhile silently sends its photograph only.

### Fairness

`booking` and all safety runs of bookings and payments need none. `tx_live`: the clock and
the cron go on (`@Cron(EVERY_HOUR)`), and a request in flight goes on, strongly, for its
next statement may wait for a row that others lock again and again, and PostgreSQL serves
waiters in turn. No failure there, so `EveryRequestReturns` is about locks. `payment_live`:
requests in flight, the cron and the days go on; `PaidIsActivated` excepts the order whose own
request failed, and no other.
`session`: the steps of a refresh and of a call in flight, and the purge; the insertion of a
login's token strongly, since only the bound `Tokens` ever makes it wait; nothing obliges a
user. `accounts`: logins go on and time passes; in the edit pages answers arrive, the
three-second timer fires and a professional who is shown a retry button presses it; in the
dossier the browser goes on (weakly) and a professional comes back to the KYC page, follows
the link he is shown, chooses a valid card and submits (strongly, since answers and
decisions keep disabling it): without him nothing could be submitted. `pages`: the router
carries out its order, answers arrive, effects run, timers fire; nobody is obliged to click.

## 4. Proofs

**BookingProofs**, for any number of bookings, pros, hours and durations, from
`DataAssumption`:

- `TypeCorrect`: `Spec => []TypeOK`.
- `NoDoubleBookingHolds`: inductive with `TypeOK`. Only the confirming actions make a booking
  CONFIRMED, they refuse an overlap within the day (`DoubleBookingConfirm`), and no other
  step moves or lengthens a confirmed one (`NoNewConfirmed`).
- `ConsentHolds`: not inductive alone; `PendingIsFresh` adds that a PENDING booking has its
  original hour and an open one was never confirmed, so only `Accept` confirms a modified one.
- `WinnerTakesAllHolds`: `OnTheHour => (Spec => []NoRivalOfConfirmed)`. Creation is the
  delicate step: `createBooking` compares hours, not intervals, and two slots on the hour
  are a whole number of hours apart (`HoursApart`, `InsideIsOccupied`). Without the
  hypothesis it fails: see the half hour above.
- `OfferedSlotsAreFreeHolds`: under `AsOffered` (clients ask for what `getAvailableSlots`
  shows, whole hours after the opening, wherever in the hour that is). The list and the
  bookings of a day are then on one grid, so a slot inside a confirmed booking is one of the
  hours that the booking hides; `PendingIsFresh` says that bookings begin at such slots.

**BookingHistoryProofs**, on the same assumption, about what the tables say of the past:

- `HistoryHolds`: inductive is `HistoryInv`, row by row: `Agree` states the property of one row
  and its events, and that an id without a booking has no timestamp; one lemma per kind of
  write shows that the row and the event it leaves agree again.
- `SuccessorHolds`: inductive with `HistoryInv`. `Persists` (a booking keeps its place and its
  timestamps) carries the successor along, `BecomesCompleted` provides it.

**PaymentProofs**, for any number of orders, callers, days and failures, from
`PaymentAssumption`:

- `TypeCorrect`, one lemma per action.
- `OnePendingPerPlanHolds`: inductive is `PendingInv`, which adds that only pending orders hold
  a key and that two never hold the key of one plan; then what `Create` and `Adopt` meet
  decides, not what the requests read before.
- `GrantedOnceHolds`: under `OneAdmin`, inductive is `GrantInv`: an order that is not paid was
  never activated, one that the administrator's request is about to activate was activated
  not more often than before it, and only one such request exists.
- `PremiumMatchesHolds`: for any number of administrators. `FoundStays` adds that a
  subscription that was found is still there when it is renewed.

**BookingTxProofs**, for any number of requests in flight, wherever they fail and whichever
of them the database aborts, from `DataAssumption` and BookingTx's assumption:

- `LockingCorrect`: `TxInv`, which the others rest on. What a transaction has written of a row
  is the next state of the row as it is committed (`Holds`), for the row is locked, by one
  transaction at most (`Exclusive`), and what a handler has read or listed exists (`Knows`).
- `StampsMatchEventsHolds`: `Matching`, row by row. A commit writes row and event together
  (`Change`, `Settle`), and by `Holds` it adds its timestamp to the committed row.
- `NothingReopensHolds`, an action property, from `TxInv`: what is written late into a closed
  row closes it again.

**DoubleBookingProofs**, on `TxInv`, with the same freedom: any number of requests at once.
That no double booking occurs is false there (`tx_double`); what holds, and is proved, is
where it can come from.

- `DoubleBookingOnlyByOverlapHolds`: inductive is `RaceInv`. Confirmations in flight at once have
  met. One that has checked has no confirmed rival that it has not met; one that has still to
  check sees every such rival, although it checks with the duration it read and its row may
  have a longer one by then. That is the delicate point: what `CheckConflicts` misses because
  its duration is stale, the check of `updateBooking` has refused (`ProposalClashesNoMore`).

**SessionProofs**, for any number of calls, tokens, logins and ends, from `SessionAssumption`:

- `TypeCorrect`, which includes that a refresh past its lookup names a row of the table.
- `EndedForGoodHolds`: inductive with `Refs` (what a cookie, a call or a refresh names is in
  the table, so the purge takes none of it and an insertion does not meet it) and `EndInv`,
  which says of a token about to be replaced what `EndedForGood` says of a valid one. A login
  whose password was checked before an end enters `raced` when it inserts its token.
- `OneLiveTokenOneTab`: under `OneTab`, for any number of browsers. `FamilyInv`: what descends
  from a login is named by one browser, has one valid token at most, and none when a refresh
  is about to insert the next. Two tabs share a cookie and not the promise: both can exchange
  the token, and with two `TabIds` TLC finds the two that result.
- `SessionContinuesOneBrowser`: under `OneBrowser` and `OneTab`. `ContinuesInv`: a
  refresh that calls its token replayed or expired is right (`Judged`), what is or will be in
  the cookie can be exchanged (`CookieSound`), and the row of a login whose answer is under way
  is no other call's and no refresh's (`Apart`), whatever runs beside it.
  Another browser with a cookie of before the last end is taken for a replay, which ends all
  sessions, which TLC finds with two `Browsers`.

**AccountsProofs**, one inductive invariant to a part, from `AccountsAssumption`:

- `RegistrationCorrect`: `RegisterInv`, from which follow `CinSharedOnlyByOverlapHolds`,
  `DossierOnDiskHolds` and `DossierCompleteHolds`. Not inductive without what a request in
  flight has in hand: `Filled` (what a resubmission leaves out, the account has), `OwnFile`
  (its file is on disk and nobody else's), `OwnCin` (its card number is nobody else's, unless
  the searches overlapped).
- `AttemptsBoundedHolds`: `LoginInv` counts the logins in flight, which are still to be counted
  after a lockout, so the bound falls with each answer.
- `ServicesFollowPlanHolds`: `LimitsInv` says of every list in flight what the property says of
  the stored one, and that a save which met no other commit deletes all that is stored.
- `PortfolioBoundedHolds`: `UploadsInv` adds the uploads past their count.
- `PendingCanConfirmHolds`: `EngageInv`; the letter of a pending address was written, or
  there is a request that is about to write it, and no other request writes a token without
  becoming that one.
- `ProfileShownHolds`: `ProfileInv`. `SaveAwaited`: one save is in flight, of this visit or of an
  earlier one, and the row is what that save was answered or else what the store has.
  `PicturesAwaited`: the portfolio is what the read left out and what the page shows after the
  answers still to be read; a picture that is being added is known to its call only, a deletion
  may be asked for twice.

**PagesProofs**, one to a part again, from `PagesAssumption` (`NoOrder` is not an order):

- `PageFitsUserHolds`, `KeepsPlaceHolds`: `NavInv`. `Guarded`: when no effect is still to
  run, each guard has judged what the page, the store and the profile are now. `Truthful`:
  only an account whose file was rejected is shown as such. `Calm`: nobody sends an
  undisturbed visitor away from where he asked to be.
- `AcceptedAsShownHolds`, `OwnChangesShownHolds`: `ListsInv`. `Proposed`: a duration is proposed
  once, so every old copy of a booking that waits for its client shows it. `Coming`: of a side
  with one call at a time, the last change is on the screen or in an answer under way.
- `AsksForOfferedSlotsHolds`, `OneRequestPerVisitHolds`: `BookInv`, with `OneList` (the list that
  is awaited is of the selected day) and `OnePost` (requests are at most the lost answers, and
  one more as soon as one is known or its answer on its way).
- `OrdersAreShownHolds`: inductive with the types.

What stays with TLC: the liveness properties (`EveryRequestReturns`, `EveryBookingIsClosed`,
`PaidIsActivated`, `EntitlementsEnd`, `EveryCallReturns`, `LockEnds`, `FormComesBack`,
`RejectedResubmits`, `Settles`, `WaitingEnds`), for liveness under fairness and ENABLED are
out of the prover's reach. No theorem needs induction over data, which is out of it too.
The refinement `ImplementsBooking` is model-checked with one request at a time, where it holds:
with more, stale reads do what no action of Booking does. Every invariant and action property
of a passing run has its theorem; of EditPages,
DossierPages and StatusPage, whose properties are all liveness, nothing is proved. The
inductive invariants were checked with TLC on the instances of the runs before they were
proved. The hypotheses on the constants (`OnTheHour`, `AsOffered`, `OneAdmin`, `OneTab`,
`OneBrowser`) hold in the runs of the properties they are for;
where the program does not grant them, section 3 says what then happens.

## 5. Abstractions and bounds

- Bookings: KYC, city, address and service checks precede the booking transaction and read
  tables this component never writes; one weekly availability for all days; one time zone,
  no daylight saving; roles and ownership are folded into the actions.
- Payment: one professional, for orders and flags of two share nothing; days as dates.
- Sessions: one user; a tab has one refresh. `TabIds` and `Browsers` are sets of one in the
  run: tabs that share a cookie do not share the promise and do replay each other.
- Registration: a file stands for both sides of a card, a CIN for its hash.
- Engagement: one booking, one address. ProLimits: services and portfolio meet in the plan
  only and are explored apart; a service that is not active is left out.
- EditPages: a value is good or the bad one that the page refuses; times and prices have no
  other meaning. ProfilePages: one value stands for name and telephone.
- BookingPages: bookings at different times on one page of the list; rivals are in Booking.
- `Max...`, `Calls`, `Tokens`, `Links`, `Orders`, `Bookings`, `Workers` bound what is
  unbounded in the program. They only occur in guards that cut behaviours off.

## 6. Not modelled

Notifications (mails after a commit, whose errors are swallowed and whose results nothing
reads), favorites (one upsert on a unique key), catalog, dashboard aggregates and search
(read only), guards, pipes and health (stateless; the KYC gate is part of the actions),
contracts (they give inputs their ranges), seed and generated database client, the mobile
placeholder, static pages and texts. Of modelled components: the role and status checks of
the JWT strategy, the download of identity files, and the formats of the registration's
text fields, which only keep a form where it is.
