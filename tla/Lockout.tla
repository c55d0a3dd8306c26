------------------------------- MODULE Lockout -------------------------------
(***************************************************************************)
(* FailedLoginService and its use by AuthService.login, for one            *)
(* identifier.  The store is in memory, so a restart forgets it.  isLocked *)
(* and recordFailure run to completion, but a login waits for the database *)
(* and for bcrypt between them.  Time is what is left of a lockout.        *)
(***************************************************************************)
EXTENDS Naturals, FiniteSets

CONSTANTS Attempts,       \* logins with this identifier in flight at once
          MAX_ATTEMPTS,
          LOCKOUT         \* LOCKOUT_MS, in steps of the clock

VARIABLES
  entry,    \* LoginAttempt: failures, and what is left of the lockout, 0 for none or past
  attempt,  \* attempt[w]: "idle", "comparing" (past isLocked), "wrong" or "right"
  wrong     \* history: wrong passwords compared since the last success, lock end or restart

lockoutVars == <<entry, attempt, wrong>>

NoEntry == [count |-> 0, locked |-> FALSE, left |-> 0]

Init == entry = NoEntry /\ attempt = [w \in Attempts |-> "idle"] /\ wrong = 0

Step(w, from, to) == attempt[w] = from /\ attempt' = [attempt EXCEPT ![w] = to]

\* Mutant: a login that is refused starts the lockout again.
isLockedRenews(w) ==
  IF entry.locked /\ entry.left > 0
  THEN /\ attempt[w] = "idle"
       /\ entry' = [entry EXCEPT !.left = LOCKOUT]
       /\ UNCHANGED <<attempt, wrong>>
  ELSE /\ Step(w, "idle", "comparing")
       /\ entry' = IF entry.locked THEN NoEntry ELSE entry
       /\ wrong' = IF entry.locked THEN 0 ELSE wrong

\* isLocked lets a login pass, and drops a lockout that is over.
isLocked(w) ==
  /\ ~(entry.locked /\ entry.left > 0)
  /\ Step(w, "idle", "comparing")
  /\ entry' = IF entry.locked THEN NoEntry ELSE entry
  /\ wrong' = IF entry.locked THEN 0 ELSE wrong

\* findFirst and bcrypt.compare
Compare(w) ==
  /\ \E verdict \in {"wrong", "right"} : Step(w, "comparing", verdict)
  /\ UNCHANGED <<entry, wrong>>

\* Mutant: each failure starts a new count.
recordFailureOnce(w) ==
  /\ Step(w, "wrong", "idle")
  /\ wrong' = wrong + 1
  /\ entry' = [count |-> 1, locked |-> FALSE, left |-> 0]

recordFailure(w) ==
  /\ Step(w, "wrong", "idle")
  /\ wrong' = wrong + 1
  /\ entry' = IF entry.count + 1 >= MAX_ATTEMPTS
              THEN [count |-> entry.count + 1, locked |-> TRUE, left |-> LOCKOUT]
              ELSE [entry EXCEPT !.count = @ + 1]

resetAttempts(w) ==
  /\ Step(w, "right", "idle")
  /\ entry' = NoEntry /\ wrong' = 0

\* The clock, and the cleanup that drops a lockout that is over.
Tick ==
  /\ entry.locked /\ entry.left \in 1..LOCKOUT
  /\ entry' = [entry EXCEPT !.left = @ - 1]
  /\ UNCHANGED <<attempt, wrong>>

cleanup ==
  /\ entry.locked /\ entry.left = 0
  /\ entry' = NoEntry /\ wrong' = 0
  /\ UNCHANGED attempt

Restart ==
  /\ entry' = NoEntry /\ wrong' = 0
  /\ attempt' = [w \in Attempts |-> "idle"]

Login(w) == Compare(w) \/ recordFailure(w) \/ resetAttempts(w)

Next == (\E w \in Attempts : isLocked(w) \/ Login(w)) \/ Tick \/ cleanup \/ Restart

-----------------------------------------------------------------------------
\* Logins in flight slip past the check, but no more of them than run at once: the
\* wrong passwords between two resets stay below the limit plus the logins in flight.
AttemptsBounded == wrong <= MAX_ATTEMPTS - 1 + Cardinality(Attempts)

\* A lockout ends: the logins that were in flight may restart it, and no later one.
LockEnds == (entry.locked /\ entry.left > 0) ~> ~(entry.locked /\ entry.left > 0)

=============================================================================
