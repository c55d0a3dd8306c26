--------------------------- MODULE AccountsProofs ---------------------------
(***************************************************************************)
(* Proofs about the safety properties of Accounts, for every value of the  *)
(* constants: registration with the identity check, the lockout, the       *)
(* limits of a professional's plan, the newsletter, and the profile pages. *)
(* The parts share no variable, so each has its own inductive invariant,   *)
(* and a step of another part leaves it alone.                             *)
(***************************************************************************)
EXTENDS Accounts, FiniteSetTheorems, TLAPS

-----------------------------------------------------------------------------
(* Registration.                                                           *)
Dossiers == [phone : Phones \cup {Null}, cin : Cins \cup {Null}, file : Files \cup {Null},
             kyc : {"NONE", "NOT_SUBMITTED", "PENDING", "APPROVED", "REJECTED"}]
Forms == [pc : {"idle", "phone", "submit", "resubmit", "cin", "insert", "update", "login"},
          who : People \cup {Null}, phone : Phones \cup {Null}, cin : Cins \cup {Null},
          file : Files \cup {Null}]

RegisterTypeOK ==
  /\ account \in [People -> Dossiers] /\ form \in [Requests -> Forms]
  /\ disk \subseteq uploaded /\ uploaded \subseteq Files /\ overlapped \subseteq Cins

\* Whom a request is for, and what it was sent: a registration is for nobody yet and has
\* everything; what a resubmission leaves out, the account has.
Filled(w) ==
  /\ form[w].pc \in {"phone", "insert"} => form[w].who = Null
  /\ form[w].pc \in {"submit", "resubmit", "update"} => form[w].who # Null
  /\ \/ form[w].cin # Null /\ form[w].file # Null
     \/ form[w].pc \in {"idle", "resubmit", "login"}
     \/ /\ form[w].pc \in {"cin", "update"} /\ form[w].who # Null
        /\ account[form[w].who].cin # Null /\ account[form[w].who].file # Null

\* The file of a request that is not over is on disk, and it is nobody else's.
OwnFile(w) ==
  form[w].file # Null =>
    /\ form[w].file \in uploaded
    /\ form[w].pc # "login" =>
         /\ form[w].file \in disk
         /\ \A p \in People : account[p].file # form[w].file
         /\ \A v \in Requests \ {w} : form[v].file # form[w].file

\* A request that is about to write has a CIN of its own, unless another one was about to
\* write the same when the search for it was made.
OwnCin(w) ==
  Register!Writing(w) /\ form[w].cin \notin overlapped \cup {Null} =>
    /\ \A p \in People : p # form[w].who => account[p].cin # form[w].cin
    /\ \A v \in Requests \ {w} : Register!Writing(v) => form[v].cin # form[w].cin

RegisterInv ==
  /\ RegisterTypeOK
  /\ \A w \in Requests : Filled(w) /\ OwnFile(w) /\ OwnCin(w)
  /\ Register!CinSharedOnlyByOverlap /\ Register!DossierOnDisk /\ Register!DossierComplete

-----------------------------------------------------------------------------
(* The lockout.                                                            *)
InFlight == {w \in Attempts : attempt[w] # "idle"}

\* Before a lockout every wrong password is counted; after it, those of the logins that
\* were in flight are still to come.
LoginInv ==
  /\ entry \in [count : Nat, locked : BOOLEAN, left : Nat]
  /\ attempt \in [Attempts -> {"idle", "comparing", "wrong", "right"}]
  /\ wrong \in Nat
  /\ ~entry.locked => wrong = entry.count /\ wrong < MAX_ATTEMPTS
  /\ entry.locked => wrong + Cardinality(InFlight) < MAX_ATTEMPTS + Cardinality(Attempts)

-----------------------------------------------------------------------------
(* The limits of the plan.                                                 *)
Creating == {w \in Uploads : upload[w] = "create"}

SaveRecords == [pc : {"idle", "delete", "create"}, list : SUBSET Categories, gone : SUBSET Categories,
                lapsed : BOOLEAN, met : BOOLEAN]

\* A list fits the plan until a plan ends; a save that nothing has met deletes all rows.
LimitsInv ==
  /\ premium \in BOOLEAN /\ services \subseteq Categories /\ saving \in [Saves -> SaveRecords]
  /\ \A w \in Saves : saving[w].lapsed \/ Cardinality(saving[w].list) <= Limits!maxServices
  /\ \A w \in Saves : saving[w].pc = "create" => saving[w].met \/ saving[w].gone = services
  /\ ServicesFollowPlan

UploadsInv ==
  /\ upload \in [Uploads -> {"idle", "count", "create"}]
  /\ portfolio \in Nat
  /\ portfolio + Cardinality(Creating) < PORTFOLIO_MAX + Cardinality(Uploads)

-----------------------------------------------------------------------------
(* The newsletter.                                                         *)
\* The letter of a pending address was written, or a request is about to write it.
EngageInv ==
  /\ request \in [Requests -> [pc : {"idle", "existing", "review", "create", "renew", "mail", "confirm", "leave"},
                               token : Links \cup {NoLink}]]
  /\ subscriber.token \in Links \cup {NoLink}
  /\ subscriber.status = "PENDING" =>
       \/ subscriber.token \in mailed \cup unsent
       \/ \E w \in Requests : request[w].pc = "mail" /\ request[w].token = subscriber.token

-----------------------------------------------------------------------------
(* The profile pages.                                                      *)
Profiles == [avatar : Values \cup {"none"}, phone : Values \cup {"none"}]
SaveCalls == [at : {"sent", "refused"}, what : {"save"}, sent : Profiles, here : BOOLEAN]
AnsweredSaves == [at : {"done", "refused"}, what : {"save"}, here : BOOLEAN, sent : Profiles,
                  approved : BOOLEAN, premium : BOOLEAN]
PictureCalls == [at : {"sent", "count", "create", "done", "refused"}, what : {"add", "delete"},
                 sent : Pictures, here : BOOLEAN]
ProfileCalls == {[at |-> "idle"]} \cup SaveCalls \cup AnsweredSaves \cup PictureCalls
Views == [at : {"none", "served", "read"}, approved : BOOLEAN, premium : BOOLEAN,
          pictures : SUBSET Pictures, hidden : SUBSET Pictures, row : Profiles \cup {"none"}]

ProfileTypeOK ==
  /\ who \in {"CLIENT", "PRO"} /\ user \in Profiles /\ store \in Profiles /\ fields \in Profiles
  /\ known \in Values \cup {"none"} /\ call \in [Calls -> ProfileCalls]
  /\ shown \in Views /\ (shown.at = "served" => shown.row \in Profiles)
  /\ approved \in BOOLEAN /\ premiumPro \in BOOLEAN /\ isEditing \in BOOLEAN /\ isSaving \in BOOLEAN
  /\ pictures \subseteq Pictures

Saving(c) == call[c].at # "idle" /\ call[c].what = "save"
Drawing(c) == call[c].at # "idle" /\ call[c].what # "save"

\* A call about a picture that the page on the screen has sent.
Mine(c) == Drawing(c) /\ call[c].here

\* A call of this kind about picture p is answered, and the page has not read the answer.
Unread(what, p) ==
  \E c \in Calls : Mine(c) /\ call[c].at = "done" /\ call[c].what = what /\ call[c].sent = p

\* Of a client's page: the layout of professionals plays no part in it, and the form he
\* does not edit is the store.
ClientPage ==
  who = "CLIENT" => known = "none" /\ shown.at = "none" /\ (~isEditing => fields = store)

\* One save runs at a time, and the row is what that save was answered, or else what the
\* store has.
SaveAwaited ==
  /\ \A c \in Calls : Saving(c) => \A d \in Calls \ {c} : ~Saving(d)
  /\ \A c \in Calls : Saving(c) /\ call[c].at = "done" => call[c].sent = user
  /\ (\A c \in Calls : Saving(c) => call[c].at # "done") =>
       store.phone = user.phone /\ (who = "CLIENT" => store = user)

\* Nobody but its call knows a picture that the page adds.
PageCalls ==
  /\ shown.at # "read" => \A c \in Calls : ~Mine(c)
  /\ \A p \in shown.pictures : p \notin shown.hidden
  /\ \A c \in Calls : Mine(c) => call[c].sent \notin shown.hidden
  /\ \A c \in Calls : Mine(c) /\ call[c].what = "add" =>
       /\ call[c].sent \notin shown.pictures
       /\ \A d \in Calls \ {c} : Mine(d) => call[d].sent # call[c].sent

\* What earlier visits have sent is served, and the portfolio is what the page left out
\* and what it shows after the answers that are still to be read.
PicturesAwaited ==
  /\ \A c \in Calls : Drawing(c) => call[c].here \/ call[c].at \in {"done", "refused"}
  /\ \A p \in Pictures : p \in pictures <=> \/ p \in shown.hidden \/ Unread("add", p)
                                            \/ p \in shown.pictures /\ ~Unread("delete", p)

ProfileInv ==
  /\ ProfileTypeOK /\ ClientPage /\ PageCalls
  /\ "profile" \notin unsure => SaveAwaited
  /\ "pictures" \notin unsure /\ shown.at # "none" => PicturesAwaited

-----------------------------------------------------------------------------
(* The proofs.  Fairness plays no part in them.                            *)
LEMMA SafetyPart == Spec => Init /\ [][Next]_vars
BY PTL DEF Spec

LEMMA RegisterSteps ==
  ASSUME [Next]_vars
  PROVE  Register!Next \/ UNCHANGED registerVars
BY DEF Next, Others, vars

LEMMA LoginSteps ==
  ASSUME [Next]_vars
  PROVE  Login!Next \/ UNCHANGED loginVars
BY DEF Next, Others, vars

LEMMA LimitsSteps ==
  ASSUME [Next]_vars
  PROVE  Limits!ServicesNext \/ Limits!PortfolioNext \/ UNCHANGED limitsVars
BY DEF Next, Others, vars

LEMMA EngageSteps ==
  ASSUME [Next]_vars
  PROVE  Engage!Next \/ UNCHANGED engageVars
BY DEF Next, Others, vars

\* The cardinality that an instance counts with is the one of the library's theorems.
LEMMA OneCardinality ==
  \A S : Login!Cardinality(S) = Cardinality(S) /\ Limits!Cardinality(S) = Cardinality(S)
BY DEF Login!Cardinality, Login!IsFiniteSet, Limits!Cardinality, Limits!IsFiniteSet,
       Cardinality, IsFiniteSet

LEMMA LoginInit == Init => LoginInv
<1> SUFFICES ASSUME Init PROVE LoginInv
  OBVIOUS
<1>1. entry = [count |-> 0, locked |-> FALSE, left |-> 0] /\ attempt = [w \in Attempts |-> "idle"] /\ wrong = 0
  BY DEF Init, Login!Init, Login!NoEntry
<1>2. ~entry.locked /\ entry.count = 0
  BY <1>1
<1> QED
  BY <1>1, <1>2, AccountsAssumption DEF LoginInv

LEMMA InFlightFinite ==
  /\ IsFiniteSet(InFlight) /\ Cardinality(InFlight) \in Nat /\ Cardinality(Attempts) \in Nat
  /\ Cardinality(InFlight) <= Cardinality(Attempts)
<1>1. IsFiniteSet(Attempts) /\ InFlight \in SUBSET Attempts
  BY AccountsAssumption DEF InFlight
<1> QED
  BY <1>1, FS_Subset, FS_CardinalityType

\* A login that is answered is one less in flight.
LEMMA Answered ==
  ASSUME NEW w \in Attempts, attempt \in [Attempts -> {"idle", "comparing", "wrong", "right"}],
         attempt[w] # "idle", attempt' = [attempt EXCEPT ![w] = "idle"]
  PROVE  Cardinality(InFlight') = Cardinality(InFlight) - 1
<1>1. InFlight' = InFlight \ {w} /\ w \in InFlight
  BY DEF InFlight
<1> QED
  BY <1>1, InFlightFinite, FS_RemoveElement

\* Whatever else a step does, at most all logins are in flight.
LEMMA InFlightFiniteNext ==
  /\ Cardinality(InFlight') \in Nat /\ Cardinality(Attempts) \in Nat
  /\ Cardinality(InFlight') <= Cardinality(Attempts)
<1>1. IsFiniteSet(Attempts) /\ InFlight' \in SUBSET Attempts
  BY AccountsAssumption DEF InFlight
<1> QED
  BY <1>1, FS_Subset, FS_CardinalityType

LEMMA LoginKeeps ==
  ASSUME LoginInv, [Next]_vars
  PROVE  LoginInv'
<1> USE DEF LoginInv
<1>0. MAX_ATTEMPTS \in Nat \ {0} /\ LOCKOUT \in Nat
  BY AccountsAssumption
<1>1. ASSUME entry' = Login!NoEntry, wrong' = 0,
             attempt' \in [Attempts -> {"idle", "comparing", "wrong", "right"}]
      PROVE  LoginInv'
  <2>1. ~entry'.locked
    BY <1>1, Zenon DEF Login!NoEntry
  <2>2. entry' \in [count : Nat, locked : BOOLEAN, left : Nat] /\ entry'.count = 0
    BY <1>1 DEF Login!NoEntry
  <2> QED
    BY <1>0, <1>1, <2>1, <2>2
<1>2. ASSUME NEW w \in Attempts, Login!Compare(w)
      PROVE  LoginInv'
  <2>1. entry' = entry /\ wrong' = wrong
    BY <1>2 DEF Login!Compare
  <2>2. InFlight' = InFlight /\ attempt' \in [Attempts -> {"idle", "comparing", "wrong", "right"}]
    BY <1>2 DEF Login!Compare, Login!Step, InFlight
  <2> QED
    BY <2>1, <2>2
<1>3. ASSUME NEW w \in Attempts, Login!recordFailure(w)
      PROVE  LoginInv'
  <2>1. /\ attempt' \in [Attempts -> {"idle", "comparing", "wrong", "right"}]
        /\ Cardinality(InFlight') = Cardinality(InFlight) - 1
    BY <1>3, Answered DEF Login!recordFailure, Login!Step
  <2>2. wrong' = wrong + 1 /\ entry' = IF entry.count + 1 >= MAX_ATTEMPTS
                THEN [count |-> entry.count + 1, locked |-> TRUE, left |-> LOCKOUT]
                ELSE [entry EXCEPT !.count = @ + 1]
    BY <1>3 DEF Login!recordFailure
  <2>3. CASE entry.count + 1 >= MAX_ATTEMPTS
    <3>1. entry'.locked /\ entry' \in [count : Nat, locked : BOOLEAN, left : Nat]
      BY <1>0, <2>2, <2>3
    <3>2. wrong' + Cardinality(InFlight') < MAX_ATTEMPTS + Cardinality(Attempts)
      BY <1>0, <2>1, <2>2, InFlightFinite
    <3> QED
      BY <2>1, <2>2, <3>1, <3>2
  <2>4. CASE ~(entry.count + 1 >= MAX_ATTEMPTS)
    <3>1. entry'.locked = entry.locked /\ entry'.count = entry.count + 1
      BY <2>2, <2>4, Zenon
    <3>2. entry' \in [count : Nat, locked : BOOLEAN, left : Nat]
      BY <2>2, <2>4
    <3>3. ~entry.locked => wrong' = entry'.count /\ wrong' < MAX_ATTEMPTS
      BY <1>0, <2>2, <2>4, <3>1
    <3>4. entry.locked => wrong' + Cardinality(InFlight') < MAX_ATTEMPTS + Cardinality(Attempts)
      BY <1>0, <2>1, <2>2, InFlightFinite
    <3>5. wrong' \in Nat
      BY <2>2
    <3> QED
      BY <2>1, <3>1, <3>2, <3>3, <3>4, <3>5, Zenon
  <2> QED
    BY <2>3, <2>4
<1>4. ASSUME NEW w \in Attempts, Login!isLocked(w)
      PROVE  LoginInv'
  <2>1. \/ ~entry.locked /\ entry' = entry /\ wrong' = wrong
        \/ entry' = Login!NoEntry /\ wrong' = 0
    BY <1>4, Zenon DEF Login!isLocked
  <2>2. attempt' \in [Attempts -> {"idle", "comparing", "wrong", "right"}]
    BY <1>4 DEF Login!isLocked, Login!Step
  <2>3. CASE ~entry.locked /\ entry' = entry /\ wrong' = wrong
    BY <2>2, <2>3
  <2> QED
    BY <1>1, <2>1, <2>2, <2>3
<1>5. ASSUME NEW w \in Attempts, Login!resetAttempts(w)
      PROVE  LoginInv'
  BY <1>1, <1>5 DEF Login!resetAttempts, Login!Step
<1>6. ASSUME Login!Tick
      PROVE  LoginInv'
  <2>1. entry'.locked = entry.locked /\ entry.locked
    BY <1>6, Zenon DEF Login!Tick
  <2>3. entry' \in [count : Nat, locked : BOOLEAN, left : Nat]
    BY <1>0, <1>6 DEF Login!Tick
  <2>2. InFlight' = InFlight /\ attempt' = attempt /\ wrong' = wrong
    BY <1>6 DEF Login!Tick, InFlight
  <2> QED
    BY <2>1, <2>2, <2>3
<1>7. ASSUME Login!cleanup \/ Login!Restart
      PROVE  LoginInv'
  BY <1>1, <1>7 DEF Login!cleanup, Login!Restart
<1>8. ASSUME UNCHANGED loginVars
      PROVE  LoginInv'
  BY <1>8 DEF loginVars, InFlight
<1> QED
  BY <1>2, <1>3, <1>4, <1>5, <1>6, <1>7, <1>8, LoginSteps DEF Login!Next, Login!Login

LEMMA LoginCorrect == Spec => []LoginInv
<1>1. LoginInv /\ [Next]_vars => LoginInv'
  BY LoginKeeps
<1> QED
  BY <1>1, LoginInit, SafetyPart, PTL

\* Logins that are in flight when the lockout starts slip past the check, but no more of
\* them than run at once, whatever the limit and however often the lockout is renewed.
THEOREM AttemptsBoundedHolds == Spec => []AttemptsBounded
<1>1. ASSUME LoginInv
      PROVE  AttemptsBounded
  <2>1. MAX_ATTEMPTS \in Nat \ {0}
    BY AccountsAssumption
  <2>2. /\ wrong \in Nat
        /\ wrong < MAX_ATTEMPTS \/ wrong + Cardinality(InFlight) < MAX_ATTEMPTS + Cardinality(Attempts)
    BY <1>1, Zenon DEF LoginInv
  <2>3. wrong <= MAX_ATTEMPTS - 1 + Cardinality(Attempts)
    BY <2>1, <2>2, InFlightFinite
  <2> QED
    BY <2>3, OneCardinality DEF AttemptsBounded, Login!AttemptsBounded
<1> QED
  BY <1>1, LoginCorrect, PTL

-----------------------------------------------------------------------------
LEMMA PlanLimits ==
  /\ PORTFOLIO_MAX \in Nat \ {0}
  /\ Limits!maxServices \in Nat
  /\ Cardinality(Uploads) \in Nat
  /\ \A list \in SUBSET Categories : Cardinality(list) \in Nat
<1>1. /\ PORTFOLIO_MAX \in Nat \ {0} /\ Limits!maxServices \in Nat
      /\ IsFiniteSet(Uploads) /\ IsFiniteSet(Categories)
  BY AccountsAssumption DEF Limits!maxServices
<1>2. ASSUME NEW list \in SUBSET Categories
      PROVE  Cardinality(list) \in Nat
  BY <1>1, FS_Subset, FS_CardinalityType
<1> QED
  BY <1>1, <1>2, FS_CardinalityType

LEMMA CreatingFinite ==
  IsFiniteSet(Creating) /\ Cardinality(Creating) \in Nat /\ Cardinality(Creating) <= Cardinality(Uploads)
<1>1. IsFiniteSet(Uploads) /\ Creating \in SUBSET Uploads
  BY AccountsAssumption DEF Creating
<1> QED
  BY <1>1, FS_Subset, FS_CardinalityType

\* An upload that has found room is one more that will insert; one that has inserted, one less.
LEMMA CreatingMoves ==
  ASSUME NEW w \in Uploads, upload \in [Uploads -> {"idle", "count", "create"}],
         NEW to \in {"idle", "count", "create"}, upload' = [upload EXCEPT ![w] = to]
  PROVE  /\ Cardinality(Creating') \in Nat
         /\ Cardinality(Creating') <= Cardinality(Uploads)
         /\ upload[w] = "create" /\ to # "create" => Cardinality(Creating') = Cardinality(Creating) - 1
         /\ upload[w] # "create" /\ to # "create" => Creating' = Creating
<1>1. IsFiniteSet(Uploads) /\ Creating' \in SUBSET Uploads
  BY AccountsAssumption DEF Creating
<1>2. upload[w] # "create" /\ to # "create" => Creating' = Creating
  BY DEF Creating
<1>3. upload[w] = "create" /\ to # "create" => Creating' = Creating \ {w} /\ w \in Creating
  BY DEF Creating
<1> QED
  BY <1>1, <1>2, <1>3, CreatingFinite, FS_RemoveElement, FS_Subset, FS_CardinalityType

LEMMA LimitsInit == Init => LimitsInv
<1> SUFFICES ASSUME Init PROVE LimitsInv
  OBVIOUS
<1>1. /\ premium \in BOOLEAN /\ services = {}
      /\ saving = [w \in Saves |-> [pc |-> "idle", list |-> {}, gone |-> {}, lapsed |-> FALSE, met |-> FALSE]]
  BY DEF Init, Limits!Init, Limits!NotSaving, Limits!Save
<1>2. Cardinality({}) = 0
  BY FS_EmptySet
<1>3. ServicesFollowPlan
  BY <1>1, <1>2, PlanLimits, OneCardinality DEF ServicesFollowPlan, Limits!ServicesFollowPlan
<1>4. saving \in [Saves -> SaveRecords]
  BY <1>1 DEF SaveRecords
<1>5. \A w \in Saves : saving[w].pc = "idle" /\ saving[w].list = {}
  BY <1>1
<1> QED
  BY <1>1, <1>2, <1>3, <1>4, <1>5, PlanLimits DEF LimitsInv

\* A save that moves keeps the others, and the plan.
LEMMA SavingMoves ==
  ASSUME LimitsInv, NEW w \in Saves, NEW r \in SaveRecords, saving' = [saving EXCEPT ![w] = r],
         UNCHANGED <<premium, services, lapses, mixed>>,
         r.lapsed \/ Cardinality(r.list) <= Limits!maxServices,
         r.pc = "create" => r.met \/ r.gone = services
  PROVE  LimitsInv'
<1>1. Limits!maxServices' = Limits!maxServices
  BY DEF Limits!maxServices
<1>2. ServicesFollowPlan'
  BY <1>1 DEF LimitsInv, ServicesFollowPlan, Limits!ServicesFollowPlan
<1>3. saving' \in [Saves -> SaveRecords]
  BY DEF LimitsInv
<1>4. \A x \in Saves : saving'[x] = IF x = w THEN r ELSE saving[x]
  BY DEF LimitsInv
<1> QED
  BY <1>1, <1>2, <1>3, <1>4 DEF LimitsInv

\* The list that is committed alone is the one that was checked.
LEMMA CommitKeeps ==
  ASSUME LimitsInv, NEW w \in Saves, Limits!ReplaceServices(w)
  PROVE  LimitsInv'
<1> DEFINE kept == (services \ saving[w].gone) \cup saving[w].list
<1>1. /\ saving[w].pc = "create" /\ services' = kept
      /\ saving' = [x \in Saves |->
                      IF x = w THEN Limits!NotSaving
                      ELSE IF saving[x].pc = "create"
                      THEN [saving[x] EXCEPT !.gone = @ \ saving[w].gone, !.met = TRUE]
                      ELSE saving[x]]
      /\ lapses' = saving[w].lapsed /\ mixed' = saving[w].met /\ premium' = premium
  BY DEF Limits!ReplaceServices, Limits!Commit
<1>2. Limits!maxServices' = Limits!maxServices
  BY <1>1 DEF Limits!maxServices
<1>3. services' \subseteq Categories
  BY <1>1 DEF LimitsInv, SaveRecords
<1>4. ServicesFollowPlan'
  <2>1. saving[w].met \/ services' = saving[w].list
    BY <1>1 DEF LimitsInv
  <2>2. saving[w].lapsed \/ Cardinality(saving[w].list) <= Limits!maxServices
    BY DEF LimitsInv
  <2>3. saving[w].list \in SUBSET Categories
    BY DEF LimitsInv, SaveRecords
  <2>4. CASE saving[w].met
    BY <1>1, <2>4, Zenon DEF ServicesFollowPlan, Limits!ServicesFollowPlan
  <2>5. CASE saving[w].lapsed
    BY <1>1, <2>5, Zenon DEF ServicesFollowPlan, Limits!ServicesFollowPlan
  <2>6. CASE services' = saving[w].list /\ Cardinality(saving[w].list) <= Limits!maxServices
    BY <1>2, <2>3, <2>6, PlanLimits, OneCardinality DEF ServicesFollowPlan, Limits!ServicesFollowPlan
  <2> QED
    BY <2>1, <2>2, <2>4, <2>5, <2>6
<1>5. ASSUME NEW x \in Saves
      PROVE  /\ saving'[x] \in SaveRecords
             /\ saving'[x].lapsed \/ Cardinality(saving'[x].list) <= Limits!maxServices
             /\ saving'[x].pc = "create" => saving'[x].met
  <2>1. saving[x] \in SaveRecords /\ saving[w] \in SaveRecords
    BY DEF LimitsInv
  <2>2. CASE x = w
    <3>1. saving'[x] = [pc |-> "idle", list |-> {}, gone |-> {}, lapsed |-> FALSE, met |-> FALSE]
      BY <1>1, <2>2 DEF Limits!NotSaving, Limits!Save
    <3>2. Cardinality({}) <= Limits!maxServices
      BY FS_EmptySet, PlanLimits
    <3> QED
      BY <3>1, <3>2 DEF SaveRecords
  <2>3. CASE x # w /\ saving[x].pc = "create"
    <3>1. saving'[x] = [saving[x] EXCEPT !.gone = @ \ saving[w].gone, !.met = TRUE]
      BY <1>1, <2>3
    <3>2. saving'[x] \in SaveRecords /\ saving'[x].met
      BY <2>1, <3>1 DEF SaveRecords
    <3>3. saving'[x].list = saving[x].list
      BY <2>1, <3>1 DEF SaveRecords
    <3>4. saving'[x].lapsed \/ ~saving[x].lapsed
      BY <2>1, <3>1, Zenon DEF SaveRecords
    <3> QED
      BY <3>2, <3>3, <3>4 DEF LimitsInv
  <2>4. CASE x # w /\ saving[x].pc # "create"
    <3>1. saving'[x] = saving[x]
      BY <1>1, <2>4
    <3> QED
      BY <2>1, <2>4, <3>1 DEF LimitsInv
  <2> QED
    BY <2>2, <2>3, <2>4
<1>6. saving' \in [Saves -> SaveRecords]
  BY <1>1, <1>5
<1> QED
  BY <1>1, <1>2, <1>3, <1>4, <1>5, <1>6 DEF LimitsInv

\* A plan that starts only makes room; one that ends is remembered by every save.
LEMMA PlanKeeps ==
  ASSUME LimitsInv, Limits!ChangePlan
  PROVE  LimitsInv'
<1>1. /\ premium' = ~premium /\ lapses' = (lapses \/ premium)
      /\ UNCHANGED <<services, mixed>>
      /\ saving' = [w \in Saves |-> IF saving[w].pc = "idle" THEN Limits!NotSaving
                                    ELSE [saving[w] EXCEPT !.lapsed = @ \/ premium]]
  BY DEF Limits!ChangePlan
<1>2. /\ Limits!maxServices \in Nat /\ Limits!maxServices' \in Nat
      /\ premium \/ Limits!maxServices <= Limits!maxServices'
  BY <1>1, AccountsAssumption DEF Limits!maxServices
<1>3. ServicesFollowPlan'
  <2>1. CASE premium
    BY <1>1, <2>1, Zenon DEF ServicesFollowPlan, Limits!ServicesFollowPlan
  <2>2. CASE lapses \/ mixed
    BY <1>1, <2>2, Zenon DEF ServicesFollowPlan, Limits!ServicesFollowPlan
  <2>3. CASE ~premium /\ ~(lapses \/ mixed)
    <3>1. ~(Cardinality(services) > Limits!maxServices)
      BY <2>3, OneCardinality DEF LimitsInv, ServicesFollowPlan, Limits!ServicesFollowPlan
    <3>2. Cardinality(services) \in Nat
      BY PlanLimits DEF LimitsInv
    <3>3. ~(Cardinality(services') > Limits!maxServices')
      BY <1>1, <1>2, <2>3, <3>1, <3>2
    <3> QED
      BY <3>3, OneCardinality DEF ServicesFollowPlan, Limits!ServicesFollowPlan
  <2> QED
    BY <2>1, <2>2, <2>3
<1>4. ASSUME NEW x \in Saves
      PROVE  /\ saving'[x] \in SaveRecords
             /\ saving'[x].lapsed \/ Cardinality(saving'[x].list) <= Limits!maxServices'
             /\ saving'[x].pc = "create" => saving'[x].met \/ saving'[x].gone = services'
  <2>1. saving[x] \in SaveRecords /\ premium \in BOOLEAN
    BY DEF LimitsInv
  <2>2. CASE saving[x].pc = "idle"
    <3>1. saving'[x] = [pc |-> "idle", list |-> {}, gone |-> {}, lapsed |-> FALSE, met |-> FALSE]
      BY <1>1, <2>2 DEF Limits!NotSaving, Limits!Save
    <3>2. Cardinality({}) <= Limits!maxServices'
      BY <1>2, FS_EmptySet
    <3> QED
      BY <3>1, <3>2 DEF SaveRecords
  <2>3. CASE saving[x].pc # "idle"
    <3>1. saving'[x] = [saving[x] EXCEPT !.lapsed = saving[x].lapsed \/ premium]
      BY <1>1, <2>3
    <3>2. /\ saving'[x].pc = saving[x].pc /\ saving'[x].list = saving[x].list
          /\ saving'[x].gone = saving[x].gone
      BY <2>1, <3>1 DEF SaveRecords
    <3>3. saving'[x].met = saving[x].met /\ saving'[x].lapsed = (saving[x].lapsed \/ premium)
      BY <2>1, <3>1, Zenon DEF SaveRecords
    <3>4. saving'[x] \in SaveRecords
      <4>1. (saving[x].lapsed \/ premium) \in BOOLEAN
        BY <2>1, Zenon DEF SaveRecords
      <4> QED
        BY <2>1, <3>1, <4>1 DEF SaveRecords
    <3>5. saving'[x].lapsed \/ Cardinality(saving'[x].list) <= Limits!maxServices'
      <4>1. CASE saving[x].lapsed \/ premium
        BY <3>3, <4>1, Zenon
      <4>2. CASE ~(saving[x].lapsed \/ premium)
        <5>1. Cardinality(saving[x].list) <= Limits!maxServices
          BY <4>2 DEF LimitsInv
        <5>2. Cardinality(saving[x].list) \in Nat
          BY <2>1, PlanLimits DEF SaveRecords
        <5> QED
          BY <1>2, <3>2, <4>2, <5>1, <5>2
      <4> QED
        BY <4>1, <4>2, Zenon
    <3>6. saving'[x].pc = "create" => saving'[x].met \/ saving'[x].gone = services'
      <4>1. saving[x].pc = "create" => saving[x].met \/ saving[x].gone = services
        BY DEF LimitsInv
      <4> QED
        BY <1>1, <3>2, <3>3, <4>1, Zenon
    <3> QED
      BY <3>4, <3>5, <3>6
  <2> QED
    BY <2>2, <2>3
<1>5. saving' \in [Saves -> SaveRecords] /\ premium' \in BOOLEAN
  BY <1>1, <1>4
<1> QED
  BY <1>1, <1>3, <1>4, <1>5 DEF LimitsInv

LEMMA LimitsKeeps ==
  ASSUME LimitsInv, [Next]_vars
  PROVE  LimitsInv'
<1>1. ASSUME NEW w \in Saves, NEW list \in SUBSET Categories, Limits!CheckServices(w, list)
      PROVE  LimitsInv'
  <2> DEFINE r == [pc |-> "delete", list |-> list, gone |-> {}, lapsed |-> FALSE, met |-> FALSE]
  <2>1. saving' = [saving EXCEPT ![w] = r] /\ UNCHANGED <<premium, services, lapses, mixed>>
    BY <1>1 DEF Limits!CheckServices, Limits!Save
  <2>2. r \in SaveRecords /\ r.pc = "delete" /\ r.list = list
    BY DEF SaveRecords
  <2>3. Cardinality(list) <= Limits!maxServices
    BY <1>1, OneCardinality DEF Limits!CheckServices
  <2> HIDE DEF r
  <2> QED
    BY <2>1, <2>2, <2>3, SavingMoves
<1>2. ASSUME NEW w \in Saves, Limits!DeleteServices(w)
      PROVE  LimitsInv'
  <2> DEFINE r == [saving[w] EXCEPT !.pc = "create", !.gone = services]
  <2>1. saving[w] \in SaveRecords /\ services \subseteq Categories
    BY DEF LimitsInv
  <2>2. saving' = [saving EXCEPT ![w] = r] /\ UNCHANGED <<premium, services, lapses, mixed>>
    BY <1>2 DEF Limits!DeleteServices, LimitsInv
  <2>3. r \in SaveRecords /\ r.gone = services /\ r.list = saving[w].list
    BY <2>1 DEF SaveRecords
  <2>4. r.lapsed = saving[w].lapsed
    BY <2>1 DEF SaveRecords
  <2> HIDE DEF r
  <2>5. r.lapsed \/ Cardinality(r.list) <= Limits!maxServices
    BY <2>3, <2>4 DEF LimitsInv
  <2> QED
    BY <2>2, <2>3, <2>5, SavingMoves
<1>3. ASSUME NEW w \in Saves, Limits!Rollback(w)
      PROVE  LimitsInv'
  <2> DEFINE r == Limits!NotSaving
  <2>1. saving' = [saving EXCEPT ![w] = r] /\ UNCHANGED <<premium, services, lapses, mixed>>
    BY <1>3 DEF Limits!Rollback
  <2>2. r \in SaveRecords /\ r.pc = "idle" /\ r.list = {}
    BY DEF SaveRecords, Limits!NotSaving, Limits!Save
  <2>3. Cardinality({}) <= Limits!maxServices
    BY FS_EmptySet, PlanLimits
  <2> HIDE DEF r
  <2> QED
    BY <2>1, <2>2, <2>3, SavingMoves
<1>4. ASSUME UNCHANGED <<premium, services, saving, lapses, mixed>>
      PROVE  LimitsInv'
  <2>1. Limits!maxServices' = Limits!maxServices
    BY <1>4 DEF Limits!maxServices
  <2> QED
    BY <1>4, <2>1 DEF LimitsInv, ServicesFollowPlan, Limits!ServicesFollowPlan
<1>5. CASE Limits!ServicesNext
  BY <1>1, <1>2, <1>3, <1>5, CommitKeeps, PlanKeeps DEF Limits!ServicesNext
<1>6. CASE Limits!PortfolioNext \/ UNCHANGED limitsVars
  <2>1. CASE Limits!ChangePlan
    BY <2>1, PlanKeeps
  <2>2. CASE ~Limits!ChangePlan
    <3>1. UNCHANGED <<premium, services, saving, lapses, mixed>>
      BY <1>6, <2>2 DEF Limits!PortfolioNext, Limits!CheckPlan, Limits!Count, Limits!Create,
         Limits!deletePortfolioImage, Limits!Keeps, limitsVars
    <3> QED
      BY <1>4, <3>1
  <2> QED
    BY <2>1, <2>2
<1> QED
  BY <1>5, <1>6, LimitsSteps

LEMMA LimitsCorrect == Spec => []LimitsInv
<1>1. LimitsInv /\ [Next]_vars => LimitsInv'
  BY LimitsKeeps
<1> QED
  BY <1>1, LimitsInit, SafetyPart, PTL

\* However many saves read the plan, delete and insert in any order, a professional shows
\* more services than the plan has only after a plan has ended, or when the last save met
\* the commit of another one; never after a save that ran alone under the plan of its check.
THEOREM ServicesFollowPlanHolds == Spec => []ServicesFollowPlan
<1>1. LimitsInv => ServicesFollowPlan
  BY DEF LimitsInv
<1> QED
  BY <1>1, LimitsCorrect, PTL

-----------------------------------------------------------------------------
LEMMA UploadsInit == Init => UploadsInv
<1> SUFFICES ASSUME Init PROVE UploadsInv
  OBVIOUS
<1>1. portfolio = 0 /\ upload = [w \in Uploads |-> "idle"]
  BY DEF Init, Limits!Init
<1>2. Creating = {} /\ Cardinality(Creating) = 0
  BY <1>1, FS_EmptySet DEF Creating
<1>3. portfolio \in Nat /\ portfolio + Cardinality(Creating) < PORTFOLIO_MAX + Cardinality(Uploads)
  BY <1>1, <1>2, PlanLimits
<1> QED
  BY <1>1, <1>3 DEF UploadsInv

LEMMA UploadsKeep ==
  ASSUME UploadsInv, [Next]_vars
  PROVE  UploadsInv'
<1> DEFINE Room == portfolio + Cardinality(Creating) < PORTFOLIO_MAX + Cardinality(Uploads)
<1>1. upload \in [Uploads -> {"idle", "count", "create"}] /\ portfolio \in Nat /\ Room
  BY DEF UploadsInv
<1>2. ASSUME NEW w \in Uploads, Limits!CheckPlan(w) \/ Limits!Count(w) \/ Limits!Create(w)
      PROVE  UploadsInv'
  <2>1. CASE \E to \in {"idle", "count"} :
               upload[w] # "create" /\ upload' = [upload EXCEPT ![w] = to] /\ portfolio' = portfolio
    <3>1. Creating' = Creating /\ upload' \in [Uploads -> {"idle", "count", "create"}]
      BY <1>1, <2>1, CreatingMoves
    <3> QED
      BY <1>1, <2>1, <3>1 DEF UploadsInv
  <2>2. CASE portfolio < PORTFOLIO_MAX /\ upload' = [upload EXCEPT ![w] = "create"] /\ portfolio' = portfolio
    <3>1. Cardinality(Creating') \in Nat /\ Cardinality(Creating') <= Cardinality(Uploads)
      BY <1>1, <2>2, CreatingMoves
    <3>2. Room'
      BY <1>1, <2>2, <3>1, PlanLimits
    <3>3. upload' \in [Uploads -> {"idle", "count", "create"}]
      BY <1>1, <2>2
    <3> QED
      BY <1>1, <2>2, <3>2, <3>3 DEF UploadsInv
  <2>3. CASE upload[w] = "create" /\ upload' = [upload EXCEPT ![w] = "idle"] /\ portfolio' = portfolio + 1
    <3>1. Cardinality(Creating') = Cardinality(Creating) - 1
      BY <1>1, <2>3, CreatingMoves
    <3>2. Room' /\ portfolio' \in Nat
      BY <1>1, <2>3, <3>1, CreatingFinite, PlanLimits
    <3>3. upload' \in [Uploads -> {"idle", "count", "create"}]
      BY <1>1, <2>3
    <3> QED
      BY <3>2, <3>3 DEF UploadsInv
  <2>4. portfolio >= PORTFOLIO_MAX \/ portfolio < PORTFOLIO_MAX
    BY <1>1, PlanLimits
  <2> QED
    BY <1>2, <2>1, <2>2, <2>3, <2>4 DEF Limits!CheckPlan, Limits!Count, Limits!Create, Limits!Goto
<1>3. ASSUME Limits!deletePortfolioImage
      PROVE  UploadsInv'
  <2>1. portfolio > 0 /\ portfolio' = portfolio - 1 /\ upload' = upload
    BY <1>3 DEF Limits!deletePortfolioImage
  <2>2. Creating' = Creating
    BY <2>1 DEF Creating
  <2>3. portfolio' \in Nat /\ Room'
    BY <1>1, <2>1, <2>2, PlanLimits, CreatingFinite
  <2> QED
    BY <1>1, <2>1, <2>3 DEF UploadsInv
<1>4. ASSUME UNCHANGED <<portfolio, upload>>
      PROVE  UploadsInv'
  <2>1. Creating' = Creating
    BY <1>4 DEF Creating
  <2> QED
    BY <1>4, <2>1 DEF UploadsInv
<1>5. CASE Limits!ServicesNext \/ Limits!ChangePlan \/ UNCHANGED limitsVars
  BY <1>4, <1>5 DEF Limits!ServicesNext, Limits!CheckServices, Limits!DeleteServices, Limits!ReplaceServices,
     Limits!Commit, Limits!Rollback, Limits!ChangePlan, limitsVars
<1> QED
  BY <1>2, <1>3, <1>5, LimitsSteps DEF Limits!PortfolioNext

LEMMA UploadsCorrect == Spec => []UploadsInv
<1>1. UploadsInv /\ [Next]_vars => UploadsInv'
  BY UploadsKeep
<1> QED
  BY <1>1, UploadsInit, SafetyPart, PTL

\* However many uploads have counted before any of them inserts, the portfolio has fewer
\* images than the limit and the uploads together.
THEOREM PortfolioBoundedHolds == Spec => []PortfolioBounded
<1>1. ASSUME UploadsInv
      PROVE  PortfolioBounded
  <2>1. portfolio < PORTFOLIO_MAX + Cardinality(Uploads)
    BY <1>1, CreatingFinite, PlanLimits DEF UploadsInv
  <2> QED
    BY <2>1, OneCardinality DEF PortfolioBounded, Limits!PortfolioBounded
<1> QED
  BY <1>1, UploadsCorrect, PTL

-----------------------------------------------------------------------------
LEMMA EngageInit == Init => EngageInv
BY AccountsAssumption DEF Init, Engage!Init, EngageInv, Engage!Row, Engage!Request, Engage!Idle

LEMMA EngageKeeps ==
  ASSUME EngageInv, [Next]_vars
  PROVE  EngageInv'
<1> DEFINE Held == [pc : {"idle", "existing", "review", "create", "renew", "mail", "confirm", "leave"},
                     token : Links \cup {NoLink}]
           Sending(l) == \E w \in Requests : request[w].pc = "mail" /\ request[w].token = l
<1>0. request \in [Requests -> Held]
  BY DEF EngageInv
\* A request that was sending nothing takes no letter away.
<1>1. ASSUME NEW w \in Requests, request[w].pc # "mail", NEW r \in Held, Engage!Do(w, r),
             mailed' = mailed, unsent' = unsent,
             subscriber' = subscriber \/ (subscriber'.status # "PENDING" /\ subscriber'.token = subscriber.token)
      PROVE  EngageInv'
  <2>1. request' = [request EXCEPT ![w] = r] /\ request' \in [Requests -> Held]
    BY <1>0, <1>1 DEF Engage!Do
  <2>2. ASSUME NEW l, Sending(l)
        PROVE  Sending(l)'
    BY <1>0, <1>1, <2>1, <2>2
  <2> QED
    BY <1>1, <2>1, <2>2 DEF EngageInv
<1>2. ASSUME NEW w \in Requests,
             \/ Engage!CheckBooking(w) \/ Engage!CheckExisting(w) \/ Engage!CreateReview(w)
             \/ Engage!FindSubscriber(w) \/ Engage!Leave(w)
      PROVE  EngageInv'
  <2>1. \E r \in Held : Engage!Do(w, r)
    BY <1>2, AccountsAssumption DEF Engage!CheckBooking, Engage!CheckExisting, Engage!CreateReview,
       Engage!FindSubscriber, Engage!Leave, Engage!Request, Engage!Idle, EngageInv
  <2>2. request[w].pc # "mail" /\ UNCHANGED <<subscriber, mailed, unsent>>
    BY <1>2 DEF Engage!CheckBooking, Engage!CheckExisting, Engage!CreateReview,
       Engage!FindSubscriber, Engage!Leave, Engage!At, Engage!Letters
  <2> QED
    BY <1>1, <2>1, <2>2
<1>3. ASSUME NEW w \in Requests, NEW l \in Links, subscriber'.token = l,
             Engage!Do(w, Engage!Request("mail", l))
      PROVE  EngageInv'
  <2>1. /\ request' = [request EXCEPT ![w] = [pc |-> "mail", token |-> l]]
        /\ request' \in [Requests -> Held]
    BY <1>0, <1>3 DEF Engage!Do, Engage!Request
  <2>2. Sending(l)'
    BY <1>0, <2>1
  <2> QED
    BY <1>3, <2>1, <2>2 DEF EngageInv
<1>4. ASSUME NEW w \in Requests, Engage!CreateSubscriber(w)
      PROVE  EngageInv'
  <2>1. CASE subscriber.status # "ABSENT"
    <3>1. Engage!Do(w, Engage!Idle) /\ Engage!Idle \in Held
      BY <1>4, <2>1 DEF Engage!CreateSubscriber, Engage!Idle, Engage!Request
    <3> QED
      BY <1>1, <1>4, <2>1, <3>1 DEF Engage!CreateSubscriber, Engage!At, Engage!Letters
  <2>2. CASE subscriber.status = "ABSENT"
    <3>1. PICK l \in Engage!Fresh : /\ subscriber' = Engage!Row("PENDING", l) /\ mailed' = mailed
                                    /\ Engage!Do(w, Engage!Request("mail", l))
      BY <1>4, <2>2 DEF Engage!CreateSubscriber
    <3> QED
      BY <1>3, <3>1 DEF Engage!Fresh, Engage!Row
  <2> QED
    BY <2>1, <2>2
<1>5. ASSUME NEW w \in Requests, Engage!RenewSubscriber(w)
      PROVE  EngageInv'
  <2>1. PICK l \in Engage!Fresh : /\ subscriber' = Engage!Row("PENDING", l)
                                  /\ Engage!Do(w, Engage!Request("mail", l))
    BY <1>5 DEF Engage!RenewSubscriber
  <2> QED
    BY <1>3, <1>5, <2>1 DEF Engage!Fresh, Engage!Row, Engage!RenewSubscriber
<1>6. ASSUME NEW w \in Requests, Engage!Mail(w)
      PROVE  EngageInv'
  <2>1. /\ request' = [request EXCEPT ![w] = [pc |-> "idle", token |-> NoLink]]
        /\ (mailed \cup unsent)' = mailed \cup unsent \cup {request[w].token} /\ subscriber' = subscriber
    BY <1>6 DEF Engage!Mail, Engage!Do, Engage!Idle, Engage!Request
  <2>2. request' \in [Requests -> Held]
    BY <1>0, <2>1
  <2>3. ASSUME NEW l, Sending(l)
        PROVE  l \in (mailed \cup unsent)' \/ Sending(l)'
    BY <1>0, <2>1, <2>3
  <2> QED
    BY <2>1, <2>2, <2>3 DEF EngageInv
<1>7. ASSUME NEW w \in Requests, Engage!FollowLink(w)
      PROVE  EngageInv'
  <2>1. Engage!Request("confirm", subscriber.token) \in Held /\ request[w].pc # "mail"
    BY <1>7 DEF EngageInv, Engage!FollowLink, Engage!At, Engage!Request
  <2> QED
    BY <1>1, <1>7, <2>1 DEF Engage!FollowLink
<1>8. ASSUME NEW w \in Requests, Engage!Confirm(w) \/ Engage!Unsubscribe(w)
      PROVE  EngageInv'
  <2>1. /\ Engage!Idle \in Held /\ request[w].pc # "mail"
        /\ subscriber'.status # "PENDING" /\ subscriber'.token = subscriber.token
    BY <1>8 DEF Engage!Confirm, Engage!Unsubscribe, Engage!At, Engage!Idle, Engage!Request, Engage!Row
  <2> QED
    BY <1>1, <1>8, <2>1 DEF Engage!Confirm, Engage!Unsubscribe
<1>9. ASSUME Engage!Complete \/ Engage!Expire \/ UNCHANGED engageVars
      PROVE  EngageInv'
  <2>1. UNCHANGED <<request, mailed, unsent, subscriber>>
    BY <1>9 DEF Engage!Complete, Engage!Expire, engageVars, Engage!Letters
  <2> QED
    BY <2>1 DEF EngageInv
<1> QED
  BY <1>2, <1>4, <1>5, <1>6, <1>7, <1>8, <1>9, EngageSteps DEF Engage!Next

LEMMA EngageCorrect == Spec => []EngageInv
<1>1. EngageInv /\ [Next]_vars => EngageInv'
  BY EngageKeeps
<1> QED
  BY <1>1, EngageInit, SafetyPart, PTL

\* Once nobody is about to write it, the letter with the link that a pending address needs
\* was written, however many subscriptions, confirmations and departures crossed.
THEOREM PendingCanConfirmHolds == Spec => []PendingCanConfirm
<1>1. EngageInv => PendingCanConfirm
  BY DEF EngageInv, PendingCanConfirm, Engage!PendingCanConfirm, Engage!At
<1> QED
  BY <1>1, EngageCorrect, PTL

-----------------------------------------------------------------------------
LEMMA RegisterInit == Init => RegisterInv
<1> SUFFICES ASSUME Init PROVE RegisterInv
  OBVIOUS
<1> DEFINE none == [phone |-> Null, cin |-> Null, file |-> Null, kyc |-> "NONE"]
           idle == [pc |-> "idle", who |-> Null, phone |-> Null, cin |-> Null, file |-> Null]
<1>1. /\ disk = {} /\ uploaded = {} /\ overlapped = {} /\ form = [w \in Requests |-> idle]
      /\ \/ account = [p \in People |-> none]
         \/ \E p \in People, n \in Phones :
              account = [q \in People |-> IF q = p
                           THEN [phone |-> n, cin |-> Null, file |-> Null, kyc |-> "NOT_SUBMITTED"]
                           ELSE none]
  BY DEF Init, Register!Init, Register!NoAccount, Register!Account, Register!Idle, Register!Form
<1>2. \A p \in People : /\ account[p] \in Dossiers /\ account[p].cin = Null /\ account[p].file = Null
                        /\ account[p].kyc \in {"NONE", "NOT_SUBMITTED"}
  BY <1>1 DEF Dossiers
<1>3. account \in [People -> Dossiers]
  BY <1>1, <1>2
<1>4. form \in [Requests -> Forms] /\ \A w \in Requests : form[w] = idle
  BY <1>1 DEF Forms
<1> QED
  BY <1>1, <1>2, <1>3, <1>4 DEF RegisterInv, RegisterTypeOK, Filled, OwnFile, OwnCin, Register!Writing,
     Register!CinSharedOnlyByOverlap, Register!DossierOnDisk, Register!DossierComplete

\* A request goes on to its next statement, or is over, and writes nothing.
LEMMA RegisterGoesOn ==
  ASSUME RegisterInv, NEW w \in Requests, NEW r \in Forms, form' = [form EXCEPT ![w] = r],
         UNCHANGED <<account, disk, uploaded>>,
         overlapped \subseteq overlapped', overlapped' \subseteq Cins,
         r.file = Null \/ (r.file = form[w].file /\ form[w].pc # "login"),
         Filled(w)', OwnCin(w)',
         \/ r.pc \notin {"insert", "update"}
         \/ \A v \in Requests \ {w} :
              Register!Writing(v) /\ form[v].cin = r.cin => r.cin \in overlapped' \cup {Null}
  PROVE  RegisterInv'
<1>1. RegisterTypeOK'
  BY DEF RegisterInv, RegisterTypeOK
<1>2. form \in [Requests -> Forms] /\ form'[w] = r /\ \A v \in Requests \ {w} : form'[v] = form[v]
  BY DEF RegisterInv, RegisterTypeOK
<1>3. ASSUME NEW v \in Requests \ {w}
      PROVE  Filled(v)' /\ OwnFile(v)' /\ OwnCin(v)'
  <2>1. Filled(v) /\ OwnFile(v) /\ OwnCin(v)
    BY DEF RegisterInv
  <2>2. Filled(v)'
    BY <1>2, <2>1 DEF Filled
  <2>3. OwnFile(v)'
    BY <1>2, <2>1 DEF OwnFile
  <2>4. OwnCin(v)'
    BY <1>2, <2>1 DEF OwnCin, Register!Writing
  <2> QED
    BY <2>2, <2>3, <2>4
<1>4. OwnFile(w)'
  BY <1>2 DEF RegisterInv, OwnFile
<1>5. Register!CinSharedOnlyByOverlap' /\ Register!DossierOnDisk' /\ Register!DossierComplete'
  BY DEF RegisterInv, Register!CinSharedOnlyByOverlap, Register!DossierOnDisk, Register!DossierComplete
<1> QED
  BY <1>1, <1>3, <1>4, <1>5 DEF RegisterInv

LEMMA IdleForm ==
  /\ Register!Idle \in Forms /\ Register!Idle.pc = "idle" /\ Register!Idle.file = Null
  /\ Register!Idle.cin = Null /\ Register!Idle.who = Null
BY DEF Register!Idle, Register!Form, Forms

LEMMA RegisterEnds ==
  ASSUME RegisterInv, NEW w \in Requests, Register!Finish(w), UNCHANGED <<account, disk, uploaded>>,
         overlapped \subseteq overlapped', overlapped' \subseteq Cins
  PROVE  RegisterInv'
<1>1. form' = [form EXCEPT ![w] = Register!Idle]
  BY DEF Register!Finish
<1>2. form'[w] = Register!Idle
  BY <1>1 DEF RegisterInv, RegisterTypeOK
<1>3. Filled(w)' /\ OwnCin(w)'
  BY <1>2, IdleForm DEF Filled, OwnCin, Register!Writing
<1> QED
  BY <1>1, <1>3, IdleForm, RegisterGoesOn

LEMMA GotoForm ==
  ASSUME RegisterInv, NEW w \in Requests, Register!Goto(w, "cin") \/ Register!Goto(w, "insert") \/ Register!Goto(w, "update")
                                        \/ Register!Goto(w, "login")
  PROVE  \E r \in Forms : /\ form' = [form EXCEPT ![w] = r] /\ form'[w] = r
                          /\ r.who = form[w].who /\ r.cin = form[w].cin /\ r.file = form[w].file
                          /\ \A to : Register!Goto(w, to) => r.pc = to
<1>1. form \in [Requests -> Forms] /\ form[w] \in Forms
  BY DEF RegisterInv, RegisterTypeOK
<1>2. ASSUME NEW to \in {"cin", "insert", "update", "login"}, Register!Goto(w, to)
      PROVE  /\ form' = [form EXCEPT ![w] = form'[w]] /\ form'[w] \in Forms
             /\ form'[w].who = form[w].who /\ form'[w].cin = form[w].cin /\ form'[w].file = form[w].file
             /\ \A t : Register!Goto(w, t) => form'[w].pc = t
  BY <1>1, <1>2 DEF Register!Goto, Forms
<1> QED
  BY <1>2

LEMMA CheckPhoneKeeps ==
  ASSUME RegisterInv, NEW w \in Requests, Register!CheckPhone(w)
  PROVE  RegisterInv'
<1>1. form[w].pc = "phone" /\ UNCHANGED <<account, disk, uploaded>> /\ overlapped' = overlapped
  BY DEF Register!CheckPhone, Register!At, Register!Reads
<1>2. overlapped \subseteq Cins
  BY DEF RegisterInv, RegisterTypeOK
<1>3. CASE Register!Finish(w)
  BY <1>1, <1>2, <1>3, RegisterEnds
<1>4. CASE Register!Goto(w, "cin")
  <2>1. PICK r \in Forms : /\ form' = [form EXCEPT ![w] = r] /\ form'[w] = r
                           /\ r.who = form[w].who /\ r.cin = form[w].cin /\ r.file = form[w].file /\ r.pc = "cin"
    BY <1>4, GotoForm
  <2>2. Filled(w)' /\ OwnCin(w)'
    BY <1>1, <2>1 DEF RegisterInv, Filled, OwnCin, Register!Writing
  <2> QED
    BY <1>1, <1>2, <2>1, <2>2, RegisterGoesOn
<1> QED
  BY <1>3, <1>4 DEF Register!CheckPhone

LEMMA CheckStatusKeeps ==
  ASSUME RegisterInv, NEW w \in Requests, Register!CheckStatus(w)
  PROVE  RegisterInv'
<1>1. /\ form[w].pc \in {"submit", "resubmit"} /\ UNCHANGED <<account, disk, uploaded>>
      /\ overlapped' = overlapped
  BY DEF Register!CheckStatus, Register!Reads
<1>2. overlapped \subseteq Cins
  BY DEF RegisterInv, RegisterTypeOK
<1>3. CASE Register!Finish(w)
  BY <1>1, <1>2, <1>3, RegisterEnds
<1>4. CASE Register!Goto(w, "cin") /\ (form[w].pc # "submit" => account[form[w].who].kyc = "REJECTED")
  <2>1. PICK r \in Forms : /\ form' = [form EXCEPT ![w] = r] /\ form'[w] = r
                           /\ r.who = form[w].who /\ r.cin = form[w].cin /\ r.file = form[w].file /\ r.pc = "cin"
    BY <1>4, GotoForm
  <2>2. form[w].who \in People
    BY <1>1 DEF RegisterInv, RegisterTypeOK, Forms, Filled
  <2>3. form[w].pc = "resubmit" => account[form[w].who].cin # Null /\ account[form[w].who].file # Null
    BY <1>4, <2>2 DEF RegisterInv, Register!DossierComplete
  <2>4. form[w].who # Null
    BY <2>2, AccountsAssumption
  <2>5. Filled(w)' /\ OwnCin(w)'
    BY <1>1, <2>1, <2>3, <2>4 DEF RegisterInv, Filled, OwnCin, Register!Writing
  <2> QED
    BY <1>1, <1>2, <2>1, <2>5, RegisterGoesOn
<1> QED
  BY <1>3, <1>4 DEF Register!CheckStatus, Register!At

\* The search for the CIN: what it does not find, no account has; and a request that is
\* about to write the same is remembered.
LEMMA CheckCinKeeps ==
  ASSUME RegisterInv, NEW w \in Requests, Register!CheckCin(w)
  PROVE  RegisterInv'
<1> DEFINE c == form[w].cin
           own == IF form[w].who = Null THEN Null ELSE account[form[w].who].cin
<1>1. form[w].pc = "cin" /\ UNCHANGED <<account, disk, uploaded>>
  BY DEF Register!CheckCin, Register!At, Register!Reads
<1>2. overlapped' = overlapped \cup
        {d \in {c} \ {Null} : \E v \in Requests \ {w} : Register!Writing(v) /\ form[v].cin = d}
  BY DEF Register!CheckCin
<1>3. form[w] \in Forms /\ overlapped \subseteq Cins
  BY DEF RegisterInv, RegisterTypeOK
<1>4. overlapped \subseteq overlapped' /\ overlapped' \subseteq Cins
  BY <1>2, <1>3 DEF Forms
<1>5. CASE Register!Finish(w)
  BY <1>1, <1>4, <1>5, RegisterEnds
<1>6. CASE /\ ~(c # Null /\ c # own /\ Register!CinTaken(c, form[w].who))
           /\ Register!Goto(w, IF form[w].who = Null THEN "insert" ELSE "update")
  <2>1. PICK r \in Forms : /\ form' = [form EXCEPT ![w] = r] /\ form'[w] = r
                           /\ r.who = form[w].who /\ r.cin = c /\ r.file = form[w].file
                           /\ r.pc = IF form[w].who = Null THEN "insert" ELSE "update"
    BY <1>6, GotoForm
  <2>2. Filled(w)'
    BY <1>1, <2>1 DEF RegisterInv, Filled
  <2>3. \A v \in Requests \ {w} : Register!Writing(v) /\ form[v].cin = c => c \in overlapped' \cup {Null}
    BY <1>2
  <2>4. ASSUME c \notin overlapped' \cup {Null}, NEW p \in People, p # form[w].who
        PROVE  account[p].cin # c
    <3>1. CASE c # own
      BY <1>6, <2>4, <3>1 DEF Register!CinTaken
    <3>2. CASE c = own
      <4>1. form[w].who \in People /\ account[form[w].who].cin = c
        BY <1>3, <2>4, <3>2 DEF Forms
      <4> QED
        BY <1>4, <2>4, <4>1 DEF RegisterInv, Register!CinSharedOnlyByOverlap
    <3> QED
      BY <3>1, <3>2
  <2>5. \A v \in Requests \ {w} : form'[v] = form[v]
    BY <2>1 DEF RegisterInv, RegisterTypeOK
  <2>6. OwnCin(w)'
    BY <1>1, <2>1, <2>3, <2>4, <2>5 DEF OwnCin, Register!Writing
  <2> QED
    BY <1>1, <1>4, <2>1, <2>2, <2>3, <2>6, RegisterGoesOn
<1> QED
  BY <1>5, <1>6 DEF Register!CheckCin

\* The file of the answered request is nobody's any more.
LEMMA AutoLoginKeeps ==
  ASSUME RegisterInv, NEW w \in Requests, Register!AutoLogin(w)
  PROVE  RegisterInv'
<1>1. overlapped' = overlapped /\ overlapped \subseteq Cins
  BY DEF Register!AutoLogin, RegisterInv, RegisterTypeOK
<1> QED
  BY <1>1, RegisterEnds DEF Register!AutoLogin, Register!Reads

LEMMA UploadKeeps ==
  ASSUME RegisterInv, NEW w \in Requests, NEW pc \in {"phone", "submit", "resubmit"},
         NEW p \in People \cup {Null}, NEW n \in Phones \cup {Null}, NEW c \in Cins \cup {Null},
         NEW f \in Files \cup {Null}, Register!Upload(w, pc, p, n, c, f),
         pc = "phone" <=> p = Null,
         pc # "resubmit" => c # Null /\ f # Null
  PROVE  RegisterInv'
<1> DEFINE r == [pc |-> pc, who |-> p, phone |-> n, cin |-> c, file |-> f]
<1>1. /\ form' = [form EXCEPT ![w] = r] /\ form[w].pc = "idle"
      /\ f = Null \/ f \notin uploaded
      /\ disk' = disk \cup ({f} \ {Null}) /\ uploaded' = uploaded \cup ({f} \ {Null})
      /\ account' = account /\ overlapped' = overlapped
  BY DEF Register!Upload, Register!At, Register!Form
<1>2. r \in Forms /\ r.pc = pc /\ r.who = p /\ r.cin = c /\ r.file = f
  BY DEF Forms
<1> HIDE DEF r
<1>3. form' \in [Requests -> Forms] /\ form'[w] = r /\ \A v \in Requests \ {w} : form'[v] = form[v]
  BY <1>1, <1>2 DEF RegisterInv, RegisterTypeOK
<1>4. RegisterTypeOK'
  BY <1>1, <1>3 DEF RegisterInv, RegisterTypeOK
<1>5. ASSUME NEW v \in Requests \ {w}
      PROVE  Filled(v)' /\ OwnFile(v)' /\ OwnCin(v)'
  <2>1. Filled(v) /\ OwnFile(v) /\ OwnCin(v)
    BY DEF RegisterInv
  <2>2. Filled(v)'
    BY <1>1, <1>3, <2>1 DEF Filled
  <2>3. OwnFile(v)'
    BY <1>1, <1>2, <1>3, <2>1 DEF OwnFile
  <2>4. OwnCin(v)'
    BY <1>1, <1>2, <1>3, <2>1 DEF OwnCin, Register!Writing
  <2> QED
    BY <2>2, <2>3, <2>4
<1>6. Filled(w)' /\ OwnCin(w)'
  BY <1>2, <1>3 DEF Filled, OwnCin, Register!Writing
<1>7. OwnFile(w)'
  <2>1. ASSUME f # Null
        PROVE  /\ \A q \in People : account[q].file # f
               /\ \A v \in Requests : form[v].file # f
    BY <1>1, <2>1 DEF RegisterInv, RegisterTypeOK, Register!DossierOnDisk, OwnFile
  <2> QED
    BY <1>1, <1>2, <1>3, <2>1 DEF OwnFile
<1>8. Register!CinSharedOnlyByOverlap' /\ Register!DossierOnDisk' /\ Register!DossierComplete'
  BY <1>1 DEF RegisterInv, Register!CinSharedOnlyByOverlap, Register!DossierOnDisk, Register!DossierComplete
<1> QED
  BY <1>4, <1>5, <1>6, <1>7, <1>8 DEF RegisterInv

\* A row is written with the CIN and the file of the request, or keeps the ones it has.
LEMMA WriteKeeps ==
  ASSUME RegisterInv, NEW w \in Requests, NEW p \in People, NEW d \in Dossiers, NEW r \in Forms,
         Register!Writing(w), form[w].who \in {p, Null},
         form[w].who = Null => account[p].cin = Null,
         account' = [account EXCEPT ![p] = d], form' = [form EXCEPT ![w] = r],
         UNCHANGED <<disk, uploaded, overlapped>>,
         d.cin # Null /\ d.file # Null,
         d.cin \in {form[w].cin, account[p].cin}, d.file \in {form[w].file, account[p].file},
         r = Register!Idle \/ (r.pc = "login" /\ r.file = form[w].file /\ r.cin = form[w].cin)
  PROVE  RegisterInv'
<1>1. /\ account' \in [People -> Dossiers] /\ account'[p] = d
      /\ \A q \in People \ {p} : account'[q] = account[q]
  BY DEF RegisterInv, RegisterTypeOK
<1>2. form' \in [Requests -> Forms] /\ form'[w] = r /\ \A v \in Requests \ {w} : form'[v] = form[v]
  BY DEF RegisterInv, RegisterTypeOK
<1>3. RegisterTypeOK'
  BY <1>1, <1>2 DEF RegisterInv, RegisterTypeOK
<1>4. ASSUME NEW v \in Requests \ {w}
      PROVE  Filled(v)' /\ OwnFile(v)' /\ OwnCin(v)'
  <2>1. Filled(v) /\ OwnFile(v) /\ OwnCin(v) /\ OwnCin(w) /\ OwnFile(w)
    BY DEF RegisterInv
  <2>2. Filled(v)'
    <3>1. form[v].who \in People \cup {Null}
      BY DEF RegisterInv, RegisterTypeOK, Forms
    <3> QED
      BY <1>1, <1>2, <2>1, <3>1 DEF Filled
  <2>3. OwnFile(v)'
    BY <1>1, <1>2, <2>1, IdleForm DEF OwnFile
  <2>4. OwnCin(v)'
    BY <1>1, <1>2, <2>1, IdleForm DEF OwnCin, Register!Writing
  <2> QED
    BY <2>2, <2>3, <2>4
<1>5. Filled(w)' /\ OwnCin(w)'
  BY <1>2, IdleForm DEF RegisterInv, Filled, OwnCin, Register!Writing
<1>6. OwnFile(w)'
  BY <1>2, IdleForm DEF RegisterInv, OwnFile
<1>7. Register!CinSharedOnlyByOverlap'
  <2>1. ASSUME NEW q \in People \ {p}, account[q].cin = d.cin
        PROVE  d.cin \in overlapped
    BY <2>1, AccountsAssumption DEF RegisterInv, OwnCin, Register!CinSharedOnlyByOverlap
  <2> QED
    BY <1>1, <2>1 DEF RegisterInv, Register!CinSharedOnlyByOverlap
<1>8. Register!DossierOnDisk'
  BY <1>1 DEF RegisterInv, OwnFile, Register!DossierOnDisk, Register!Writing
<1>9. Register!DossierComplete'
  BY <1>1 DEF RegisterInv, Register!DossierComplete
<1> QED
  BY <1>3, <1>4, <1>5, <1>6, <1>7, <1>8, <1>9 DEF RegisterInv

\* The transaction that refuses a phone number deletes a file that nobody has.
LEMMA InsertKeeps ==
  ASSUME RegisterInv, NEW w \in Requests, Register!Insert(w)
  PROVE  RegisterInv'
<1>1. /\ form[w].pc = "insert" /\ form[w] \in Forms /\ form[w].who = Null /\ form[w].cin # Null
      /\ form[w].file # Null /\ uploaded' = uploaded /\ overlapped' = overlapped
  BY DEF Register!Insert, Register!At, RegisterInv, RegisterTypeOK, Filled
<1>2. CASE /\ disk' = disk \ {form[w].file} /\ account' = account
           /\ form' = [form EXCEPT ![w] = Register!Idle]
  <2>1. form'[w] = Register!Idle /\ \A v \in Requests \ {w} : form'[v] = form[v]
    BY <1>2 DEF RegisterInv, RegisterTypeOK
  <2>2. RegisterTypeOK'
    BY <1>1, <1>2, IdleForm DEF RegisterInv, RegisterTypeOK
  <2>3. Filled(w)' /\ OwnFile(w)' /\ OwnCin(w)'
    BY <2>1, IdleForm DEF Filled, OwnFile, OwnCin, Register!Writing
  <2>4. ASSUME NEW v \in Requests \ {w}
        PROVE  Filled(v)' /\ OwnFile(v)' /\ OwnCin(v)'
    <3>1. Filled(v) /\ OwnFile(v) /\ OwnCin(v)
      BY DEF RegisterInv
    <3>2. Filled(v)'
      BY <1>2, <2>1, <3>1 DEF Filled
    <3>3. OwnFile(v)'
      BY <1>1, <1>2, <2>1, <3>1, IdleForm DEF OwnFile
    <3>4. OwnCin(v)'
      BY <1>1, <1>2, <2>1, <3>1, IdleForm DEF OwnCin, Register!Writing
    <3> QED
      BY <3>2, <3>3, <3>4
  <2>5. Register!DossierOnDisk'
    BY <1>1, <1>2 DEF RegisterInv, OwnFile, Register!DossierOnDisk
  <2>6. Register!CinSharedOnlyByOverlap' /\ Register!DossierComplete'
    BY <1>1, <1>2 DEF RegisterInv, Register!CinSharedOnlyByOverlap, Register!DossierComplete
  <2> QED
    BY <2>2, <2>3, <2>4, <2>5, <2>6 DEF RegisterInv
<1>3. CASE /\ disk' = disk /\ Register!Goto(w, "login")
           /\ \E p \in People :
                account[p] = Register!NoAccount
                /\ account' = [account EXCEPT ![p] =
                     Register!Account(form[w].phone, form[w].cin, form[w].file, "PENDING")]
  <2> DEFINE d == Register!Account(form[w].phone, form[w].cin, form[w].file, "PENDING")
  <2>0. Register!NoAccount.cin = Null
    BY DEF Register!NoAccount, Register!Account
  <2>1. PICK p \in People : account[p].cin = Null /\ account' = [account EXCEPT ![p] = d]
    BY <1>3, <2>0, Zenon
  <2>2. PICK r \in Forms : /\ form' = [form EXCEPT ![w] = r] /\ r.pc = "login"
                           /\ r.cin = form[w].cin /\ r.file = form[w].file
    BY <1>3, GotoForm
  <2>3. d \in Dossiers /\ d.cin = form[w].cin /\ d.file = form[w].file
    BY <1>1 DEF Register!Account, Dossiers, Forms
  <2> HIDE DEF d
  <2> QED
    BY <1>1, <1>3, <2>1, <2>2, <2>3, WriteKeeps DEF Register!Writing
<1> QED
  BY <1>2, <1>3 DEF Register!Insert, Register!Finish

LEMMA UpdateKeeps ==
  ASSUME RegisterInv, NEW w \in Requests, Register!Update(w)
  PROVE  RegisterInv'
<1> DEFINE p == form[w].who
           d == Register!Account(account[p].phone, Register!Keep(account[p].cin, form[w].cin),
                                 Register!Keep(account[p].file, form[w].file), "PENDING")
<1>1. /\ form[w].pc = "update" /\ form[w] \in Forms /\ p \in People
      /\ (form[w].cin # Null /\ form[w].file # Null) \/ (account[p].cin # Null /\ account[p].file # Null)
      /\ UNCHANGED <<disk, uploaded, overlapped>>
      /\ account' = [account EXCEPT ![p] = d] /\ form' = [form EXCEPT ![w] = Register!Idle]
  BY DEF Register!Update, Register!At, Register!Finish, RegisterInv, RegisterTypeOK, Filled, Forms
<1>2. account[p] \in Dossiers
  BY <1>1 DEF RegisterInv, RegisterTypeOK
<1>3. /\ d \in Dossiers
      /\ d.cin \in {form[w].cin, account[p].cin} /\ d.file \in {form[w].file, account[p].file}
      /\ d.cin # Null /\ d.file # Null
  BY <1>1, <1>2 DEF Register!Account, Register!Keep, Dossiers, Forms
<1>4. p # Null
  BY <1>1, AccountsAssumption
<1> HIDE DEF d
<1> QED
  BY <1>1, <1>3, <1>4, IdleForm, WriteKeeps DEF Register!Writing

\* The verdict leaves the dossier as it is.
LEMMA ReviewKeeps ==
  ASSUME RegisterInv, NEW p \in People, Register!Review(p)
  PROVE  RegisterInv'
<1>1. PICK verdict \in {"APPROVED", "REJECTED"} :
        account' = [account EXCEPT ![p] = Register!Account(@.phone, @.cin, @.file, verdict)]
  BY DEF Register!Review
<1>2. account[p] \in Dossiers /\ account[p].kyc = "PENDING" /\ UNCHANGED <<disk, uploaded, form, overlapped>>
  BY DEF Register!Review, RegisterInv, RegisterTypeOK
<1>3. account' \in [People -> Dossiers] /\ account'[p].kyc # "NONE"
  BY <1>1, <1>2 DEF Register!Account, Dossiers, RegisterInv, RegisterTypeOK
<1>4. \A q \in People : account'[q].cin = account[q].cin /\ account'[q].file = account[q].file
  BY <1>1, <1>2 DEF Register!Account, Dossiers, RegisterInv, RegisterTypeOK
<1>5. \A q \in People \ {p} : account'[q] = account[q]
  BY <1>1 DEF RegisterInv, RegisterTypeOK
<1>6. RegisterTypeOK'
  BY <1>2, <1>3 DEF RegisterInv, RegisterTypeOK
<1>7. ASSUME NEW w \in Requests
      PROVE  Filled(w)' /\ OwnFile(w)' /\ OwnCin(w)'
  <2>1. Filled(w) /\ OwnFile(w) /\ OwnCin(w) /\ form[w].who \in People \cup {Null}
    BY DEF RegisterInv, RegisterTypeOK, Forms
  <2>2. Filled(w)'
    BY <1>2, <1>4, <2>1 DEF Filled
  <2>3. OwnFile(w)'
    BY <1>2, <1>4, <2>1 DEF OwnFile
  <2>4. OwnCin(w)'
    BY <1>2, <1>4, <2>1 DEF OwnCin, Register!Writing
  <2> QED
    BY <2>2, <2>3, <2>4
<1>8. Register!CinSharedOnlyByOverlap' /\ Register!DossierOnDisk'
  BY <1>2, <1>4 DEF RegisterInv, Register!CinSharedOnlyByOverlap, Register!DossierOnDisk
<1>9. Register!DossierComplete'
  BY <1>2, <1>4, <1>5 DEF RegisterInv, Register!DossierComplete
<1> QED
  BY <1>6, <1>7, <1>8, <1>9 DEF RegisterInv

LEMMA RegisterKeeps ==
  ASSUME RegisterInv, [Next]_vars
  PROVE  RegisterInv'
<1>1. ASSUME UNCHANGED registerVars
      PROVE  RegisterInv'
  BY <1>1 DEF registerVars, RegisterInv, RegisterTypeOK, Filled, OwnFile, OwnCin, Register!Writing,
     Register!CinSharedOnlyByOverlap, Register!DossierOnDisk, Register!DossierComplete
<1>2. ASSUME NEW w \in Requests, NEW n \in Phones, NEW c \in Cins, NEW f \in Files,
             Register!Upload(w, "phone", Null, n, c, f)
      PROVE  RegisterInv'
  BY <1>2, UploadKeeps, AccountsAssumption
<1>3. ASSUME NEW w \in Requests, NEW p \in People,
             \/ \E c \in Cins, f \in Files : Register!Upload(w, "submit", p, Null, c, f)
             \/ \E c \in Cins \cup {Null}, f \in Files \cup {Null} :
                  Register!Upload(w, "resubmit", p, Null, c, f)
      PROVE  RegisterInv'
  BY <1>3, UploadKeeps, AccountsAssumption
<1>4. CASE Register!Next
  BY <1>2, <1>3, <1>4, CheckPhoneKeeps, CheckCinKeeps, InsertKeeps, AutoLoginKeeps, CheckStatusKeeps,
     UpdateKeeps, ReviewKeeps DEF Register!Next
<1> QED
  BY <1>1, <1>4, RegisterSteps

\* Registration, submission and resubmission in any order and any number, every statement
\* interleaved with those of the others.
THEOREM RegistrationCorrect == Spec => []RegisterInv
<1>1. RegisterInv /\ [Next]_vars => RegisterInv'
  BY RegisterKeeps
<1> QED
  BY <1>1, RegisterInit, SafetyPart, PTL

\* Two accounts share a CIN only when two requests were checking it at once.
THEOREM CinSharedOnlyByOverlapHolds == Spec => []CinSharedOnlyByOverlap
<1>1. RegisterInv => CinSharedOnlyByOverlap
  BY DEF RegisterInv, CinSharedOnlyByOverlap
<1> QED
  BY <1>1, RegistrationCorrect, PTL

\* No rollback takes the files of an account that is there.
THEOREM DossierOnDiskHolds == Spec => []DossierOnDisk
<1>1. RegisterInv => DossierOnDisk
  BY DEF RegisterInv, DossierOnDisk
<1> QED
  BY <1>1, RegistrationCorrect, PTL

\* A dossier that is under review, approved or rejected has its number and its pictures,
\* whichever parts were sent again.
THEOREM DossierCompleteHolds == Spec => []DossierComplete
<1>1. RegisterInv => DossierComplete
  BY DEF RegisterInv, DossierComplete
<1> QED
  BY <1>1, RegistrationCorrect, PTL

-----------------------------------------------------------------------------
LEMMA ProfileSteps ==
  ASSUME [Next]_vars
  PROVE  Profile!Next \/ UNCHANGED profileVars
BY DEF Next, Others, vars

LEMMA ProfileInit == Init => ProfileInv
<1> SUFFICES ASSUME Init PROVE ProfileInv
  OBVIOUS
<1>1. Profile!Init
  BY DEF Init
<1>2. PICK v \in Values : user = [avatar |-> v, phone |-> v]
  BY <1>1 DEF Profile!Init
<1>3. /\ user \in Profiles /\ store = user /\ fields = user
      /\ shown = [at |-> "none", approved |-> FALSE, premium |-> FALSE, pictures |-> {}, hidden |-> {},
                  row |-> "none"]
      /\ call = [c \in Calls |-> [at |-> "idle"]] /\ known = "none" /\ pictures = {}
  BY <1>1, <1>2 DEF Profile!Init, Profile!Idle, Profile!None, Profile!NotRead, Profiles
<1>4. shown.at = "none" /\ shown.pictures = {} /\ shown.hidden = {}
  BY <1>3
<1>5. ProfileTypeOK
  <2>1. call \in [Calls -> ProfileCalls] /\ shown \in Views
    BY <1>3 DEF ProfileCalls, Views
  <2>2. approved \in BOOLEAN /\ premiumPro \in BOOLEAN /\ isEditing \in BOOLEAN /\ isSaving \in BOOLEAN
    BY <1>1, Zenon DEF Profile!Init
  <2> QED
    BY <1>1, <1>3, <1>4, <2>1, <2>2 DEF Profile!Init, ProfileTypeOK
<1>6. \A c \in Calls : ~Saving(c) /\ ~Drawing(c)
  BY <1>3 DEF Saving, Drawing
<1>7. SaveAwaited /\ PageCalls
  BY <1>3, <1>4, <1>6 DEF SaveAwaited, PageCalls, Mine
<1> QED
  BY <1>1, <1>3, <1>4, <1>5, <1>7 DEF Profile!Init, ProfileInv, ClientPage

\* A call that is not idle.
LEMMA CallFields ==
  ASSUME NEW q \in ProfileCalls, q # [at |-> "idle"]
  PROVE  /\ q \in SaveCalls \cup AnsweredSaves \cup PictureCalls
         /\ q.at \in {"sent", "count", "create", "done", "refused"} /\ q.here \in BOOLEAN
         /\ \/ q.what = "save" /\ q.sent \in Profiles
            \/ q.what \in {"add", "delete"} /\ q.sent \in Pictures
BY DEF ProfileCalls, SaveCalls, AnsweredSaves, PictureCalls

LEMMA IdleCall ==
  ASSUME NEW q \in ProfileCalls
  PROVE  q = [at |-> "idle"] <=> q.at = "idle"
BY DEF ProfileCalls, SaveCalls, AnsweredSaves, PictureCalls

\* A call that moves on stays the same call.
LEMMA CallMoves ==
  ASSUME NEW q \in ProfileCalls, q # [at |-> "idle"], NEW a \in {"count", "create", "done", "refused"},
         q.what # "save" \/ a = "refused", NEW r, r = [q EXCEPT !.at = a]
  PROVE  /\ r \in ProfileCalls
         /\ r.at = a /\ r.what = q.what /\ r.sent = q.sent /\ r.here = q.here
<1>1. CASE q \in SaveCalls
  BY <1>1 DEF SaveCalls, ProfileCalls
<1>2. CASE q \in AnsweredSaves
  BY <1>2 DEF AnsweredSaves, ProfileCalls
<1>3. CASE q \in PictureCalls
  BY <1>3 DEF PictureCalls, ProfileCalls
<1> QED
  BY <1>1, <1>2, <1>3, CallFields

LEMMA CallLeft ==
  ASSUME NEW q \in ProfileCalls, q # [at |-> "idle"], NEW r, r = [q EXCEPT !.here = FALSE]
  PROVE  r \in ProfileCalls /\ r.at = q.at /\ r.what = q.what /\ r.sent = q.sent /\ ~r.here
<1>1. CASE q \in SaveCalls
  BY <1>1 DEF SaveCalls, ProfileCalls
<1>2. CASE q \in AnsweredSaves
  BY <1>2 DEF AnsweredSaves, ProfileCalls
<1>3. CASE q \in PictureCalls
  BY <1>3 DEF PictureCalls, ProfileCalls
<1> QED
  BY <1>1, <1>2, <1>3, CallFields

-----------------------------------------------------------------------------
(* What each action does to the calls.                                     *)
\* Call c gets q, and the others stay.
Becomes(c, q) == c \in Calls /\ call' = [call EXCEPT ![c] = q]

LEMMA BecomesCalls ==
  ASSUME ProfileTypeOK, NEW c \in Calls, NEW q, Becomes(c, q)
  PROVE  \A d \in Calls : call'[d] = IF d = c THEN q ELSE call[d]
BY DEF ProfileTypeOK, Becomes

LEMMA Sends ==
  ASSUME ProfileTypeOK, NEW what, NEW x, Profile!Send(what, x)
  PROVE  \E c \in Calls : /\ call[c].at = "idle"
                          /\ Becomes(c, [at |-> "sent", what |-> what, sent |-> x, here |-> TRUE])
<1>1. PICK c \in Calls \ Profile!InFlight :
        call' = [call EXCEPT ![c] = [at |-> "sent", what |-> what, sent |-> x, here |-> TRUE]]
  BY DEF Profile!Send
<1>2. call[c] = [at |-> "idle"]
  BY <1>1 DEF Profile!InFlight, Profile!Idle
<1>3. /\ call[c].at = "idle" /\ c \in Calls
      /\ Becomes(c, [at |-> "sent", what |-> what, sent |-> x, here |-> TRUE])
  BY <1>1, <1>2 DEF Becomes
<1> QED
  BY <1>3

LEMMA SubmitSends ==
  ASSUME ProfileTypeOK, Profile!Submit
  PROVE  \E c \in Calls, x \in Profiles :
           /\ call[c].at = "idle"
           /\ Becomes(c, [at |-> "sent", what |-> "save", sent |-> x, here |-> TRUE])
<1> DEFINE x == IF who = "CLIENT" \/ shown.approved THEN fields ELSE [fields EXCEPT !.phone = "none"]
<1>1. x \in Profiles
  BY DEF ProfileTypeOK, Profiles
<1>2. Profile!Send("save", x)
  BY DEF Profile!Submit, Profile!None
<1> QED
  BY <1>1, <1>2, Sends

LEMMA PictureSends ==
  ASSUME ProfileTypeOK, Profile!handleAddPortfolio \/ Profile!handleDeletePortfolio
  PROVE  \E c \in Calls, p \in Pictures, what \in {"add", "delete"} :
           /\ call[c].at = "idle" /\ shown.at = "read"
           /\ Becomes(c, [at |-> "sent", what |-> what, sent |-> p, here |-> TRUE])
           /\ what = "delete" => p \in shown.pictures
           /\ what = "add" => /\ p \notin shown.hidden /\ p \notin shown.pictures
                              /\ \A d \in Calls : Drawing(d) => call[d].sent # p
<1>1. CASE Profile!handleAddPortfolio
  <2>1. PICK p \in Pictures \ (pictures \cup shown.pictures \cup shown.hidden \cup Profile!Underway) :
          Profile!Send("add", p)
    BY <1>1 DEF Profile!handleAddPortfolio
  <2>2. \A d \in Calls : Drawing(d) => call[d].sent # p
    BY <2>1 DEF Profile!Underway, Profile!InFlight, Profile!Idle, Drawing
  <2>3. PICK c \in Calls :
          /\ call[c].at = "idle"
          /\ Becomes(c, [at |-> "sent", what |-> "add", sent |-> p, here |-> TRUE])
    BY <2>1, Sends
  <2>4. shown.at = "read"
    BY <1>1 DEF Profile!handleAddPortfolio
  <2> QED
    BY <2>1, <2>2, <2>3, <2>4
<1>2. CASE Profile!handleDeletePortfolio
  <2>1. PICK p \in shown.pictures : Profile!Send("delete", p)
    BY <1>2 DEF Profile!handleDeletePortfolio
  <2>2. p \in Pictures /\ shown.at = "read"
    BY <1>2 DEF Profile!handleDeletePortfolio, ProfileTypeOK, Views
  <2> QED
    BY <2>1, <2>2, Sends
<1> QED
  BY <1>1, <1>2

LEMMA SaveServed ==
  ASSUME ProfileTypeOK, NEW c \in Calls, Profile!ServeSave(c)
  PROVE  /\ call[c].at = "sent" /\ call[c].what = "save" /\ user' \in Profiles
         /\ Becomes(c, [at |-> "done", what |-> "save", here |-> call[c].here, sent |-> user',
                        approved |-> approved, premium |-> premiumPro])
<1>1. call[c].at = "sent" /\ call[c].what = "save" /\ call[c] \in ProfileCalls
  BY DEF Profile!ServeSave, ProfileTypeOK
<1>2. call[c].sent \in Profiles
  BY <1>1, CallFields, IdleCall
<1>3. user' = [f \in DOMAIN user |-> IF call[c].sent[f] = "none" THEN user[f] ELSE call[c].sent[f]]
  BY DEF Profile!ServeSave, Profile!Updated, Profile!None
<1>4. user' \in Profiles
  BY <1>2, <1>3 DEF ProfileTypeOK, Profiles
<1> QED
  BY <1>1, <1>4 DEF Profile!ServeSave, Becomes

\* The statements of a request about a picture.
Serve(c) == Profile!CheckPlan(c) \/ Profile!Count(c) \/ Profile!Create(c) \/ Profile!Delete(c)

LEMMA PictureServed ==
  ASSUME ProfileTypeOK, NEW c \in Calls, Serve(c)
  PROVE  \E a \in {"count", "create", "done", "refused"} :
           /\ call[c].at \in {"sent", "count", "create"} /\ call[c].what \in {"add", "delete"}
           /\ call[c].sent \in Pictures
           /\ Becomes(c, [call[c] EXCEPT !.at = a])
           /\ a # "done" => pictures' = pictures
           /\ a = "done" /\ call[c].what = "add" => pictures' = pictures \cup {call[c].sent}
           /\ a = "done" /\ call[c].what = "delete" =>
                call[c].sent \in pictures /\ pictures' = pictures \ {call[c].sent}
<1>1. /\ call[c].at \in {"sent", "count", "create"} /\ call[c].what \in {"add", "delete"}
      /\ call[c] \in ProfileCalls
  BY DEF Serve, Profile!CheckPlan, Profile!Count, Profile!Create, Profile!Delete, Profile!Goes, ProfileTypeOK
<1>2. call[c].sent \in Pictures
  BY <1>1, CallFields, IdleCall
<1>3. CASE Profile!CheckPlan(c)
  <2>1. \E a \in {"count", "refused"} : Becomes(c, [call[c] EXCEPT !.at = a])
    BY <1>3 DEF Profile!CheckPlan, Profile!Goes, Becomes
  <2>2. pictures' = pictures
    BY <1>3 DEF Profile!CheckPlan, Profile!serverVars
  <2> QED
    BY <1>1, <1>2, <2>1, <2>2
<1>4. CASE Profile!Count(c)
  <2>1. \E a \in {"create", "refused"} : Becomes(c, [call[c] EXCEPT !.at = a])
    BY <1>4 DEF Profile!Count, Profile!Goes, Becomes
  <2>2. pictures' = pictures
    BY <1>4 DEF Profile!Count, Profile!serverVars
  <2> QED
    BY <1>1, <1>2, <2>1, <2>2
<1>5. CASE Profile!Create(c)
  <2>1. Becomes(c, [call[c] EXCEPT !.at = "done"]) /\ call[c].what = "add"
    BY <1>5 DEF Profile!Create, Profile!Goes, Becomes
  <2>2. pictures' = pictures \cup {call[c].sent}
    BY <1>5 DEF Profile!Create
  <2> QED
    BY <1>1, <1>2, <2>1, <2>2
<1>6. CASE Profile!Delete(c)
  <2> DEFINE allowed == approved /\ call[c].sent \in pictures
  <2>1. /\ Becomes(c, [call[c] EXCEPT !.at = IF allowed THEN "done" ELSE "refused"])
        /\ pictures' = IF allowed THEN pictures \ {call[c].sent} ELSE pictures
        /\ call[c].what = "delete"
    BY <1>6 DEF Profile!Delete, Profile!Goes, Becomes
  <2>2. CASE allowed
    BY <1>1, <1>2, <2>1, <2>2
  <2>3. CASE ~allowed
    BY <1>1, <1>2, <2>1, <2>3
  <2> QED
    BY <2>2, <2>3
<1> QED
  BY <1>3, <1>4, <1>5, <1>6 DEF Serve

\* They touch nothing else.
LEMMA ServeFrame ==
  ASSUME NEW c \in Calls, Serve(c)
  PROVE  UNCHANGED <<who, user, approved, premiumPro, store, known, fields, shown, isEditing, isSaving, unsure>>
BY DEF Serve, Profile!CheckPlan, Profile!Count, Profile!Create, Profile!Delete, Profile!serverVars,
   Profile!pageVars

LEMMA ProfileNext ==
  ASSUME Profile!Next
  PROVE  \/ Profile!Reopen \/ Profile!ServeRead \/ Profile!Read \/ Profile!Editing \/ Profile!Type
         \/ Profile!Submit \/ Profile!handleAddPortfolio \/ Profile!handleDeletePortfolio
         \/ Profile!Approve \/ Profile!ChangePlan
         \/ \E c \in Calls : \/ Profile!ServeSave(c) \/ Profile!Saved(c) \/ Profile!Refused(c)
                             \/ Profile!Lose(c) \/ Serve(c) \/ Profile!PictureAnswered(c)
BY DEF Profile!Next, Serve

\* The page that is left and opened again.
LEMMA Reopened ==
  ASSUME ProfileTypeOK, Profile!Reopen
  PROVE  /\ \A c \in Calls : /\ call'[c] \in ProfileCalls /\ call'[c].at = call[c].at
                             /\ call[c].at # "idle" => /\ call'[c].what = call[c].what
                                                       /\ call'[c].sent = call[c].sent /\ ~call'[c].here
         /\ call' \in [Calls -> ProfileCalls]
         /\ shown' \in Views /\ shown'.at = "none" /\ shown'.pictures = {} /\ shown'.hidden = {}
         /\ fields' = store /\ isEditing' = FALSE /\ isSaving' = FALSE /\ known' = "none"
         /\ UNCHANGED <<who, user, pictures, approved, premiumPro, store, unsure>>
<1>1. call' = [c \in Calls |-> IF call[c] = [at |-> "idle"] THEN [at |-> "idle"]
                               ELSE [call[c] EXCEPT !.here = FALSE]]
  BY DEF Profile!Reopen, Profile!Idle
<1>2. ASSUME NEW c \in Calls
      PROVE  /\ call'[c] \in ProfileCalls /\ call'[c].at = call[c].at
             /\ call[c].at # "idle" => /\ call'[c].what = call[c].what
                                       /\ call'[c].sent = call[c].sent /\ ~call'[c].here
  <2>1. call[c] \in ProfileCalls
    BY DEF ProfileTypeOK
  <2>2. CASE call[c] = [at |-> "idle"]
    BY <1>1, <2>1, <2>2
  <2>3. CASE call[c] # [at |-> "idle"]
    <3>1. call'[c] = [call[c] EXCEPT !.here = FALSE]
      BY <1>1, <2>3
    <3> QED
      BY <2>1, <2>3, <3>1, CallLeft
  <2> QED
    BY <2>2, <2>3
<1>3. shown' = [at |-> "none", approved |-> FALSE, premium |-> FALSE, pictures |-> {}, hidden |-> {},
                row |-> "none"]
  BY DEF Profile!Reopen, Profile!NotRead, Profile!None
<1>4. shown' \in Views /\ shown'.at = "none" /\ shown'.pictures = {} /\ shown'.hidden = {}
  BY <1>3 DEF Views
<1>5. call' \in [Calls -> ProfileCalls]
  BY <1>1, <1>2
<1> QED
  BY <1>2, <1>4, <1>5 DEF Profile!Reopen, Profile!serverVars, Profile!None

LEMMA ReadServed ==
  ASSUME ProfileTypeOK, Profile!ServeRead
  PROVE  /\ shown.at = "none" /\ who = "PRO"
         /\ shown' \in Views /\ shown'.at = "served" /\ shown'.row = user
         /\ \A p \in shown'.pictures : p \notin shown'.hidden
         /\ \A p \in Pictures : p \in pictures <=> p \in shown'.hidden \/ p \in shown'.pictures
         /\ UNCHANGED <<who, user, pictures, approved, premiumPro, store, known, fields, isEditing, isSaving, call>>
<1>1. PICK taken \in SUBSET pictures :
        shown' = [at |-> "served", approved |-> approved, premium |-> premiumPro,
                  pictures |-> taken, hidden |-> pictures \ taken, row |-> user]
  BY DEF Profile!ServeRead
<1>2. /\ shown'.at = "served" /\ shown'.row = user /\ shown'.pictures = taken
      /\ shown'.hidden = pictures \ taken
  BY <1>1
<1>3. taken \in SUBSET Pictures /\ (pictures \ taken) \in SUBSET Pictures /\ user \in Profiles
  BY DEF ProfileTypeOK
<1>4. shown' \in Views
  BY <1>1, <1>3 DEF Views, ProfileTypeOK
<1> QED
  BY <1>2, <1>4 DEF Profile!ServeRead, Profile!serverVars

LEMMA ReadArrived ==
  ASSUME ProfileTypeOK, Profile!Read
  PROVE  /\ shown.at = "served"
         /\ shown' \in Views /\ shown'.at = "read" /\ shown'.pictures = shown.pictures
         /\ shown'.hidden = shown.hidden
         /\ fields' \in Profiles /\ known' \in Values \cup {"none"}
         /\ store' \in Profiles /\ store'.phone = store.phone
         /\ UNCHANGED <<who, user, pictures, approved, premiumPro, isEditing, isSaving, call, unsure>>
<1>1. /\ shown.at = "served" /\ shown' = [shown EXCEPT !.at = "read", !.row = "none"]
      /\ store' = [store EXCEPT !.avatar = shown.row.avatar] /\ fields' = shown.row
      /\ known' = shown.row.avatar
  BY DEF Profile!Read, Profile!None
<1>2. shown.row \in Profiles /\ shown \in Views /\ store \in Profiles
  BY <1>1 DEF ProfileTypeOK
<1>3. shown.row.avatar \in Values \cup {"none"}
  BY <1>2 DEF Profiles
<1>4. /\ shown' \in Views /\ shown'.at = "read" /\ shown'.pictures = shown.pictures
      /\ shown'.hidden = shown.hidden
  BY <1>1, <1>2 DEF Views
<1>5. store' \in Profiles /\ store'.phone = store.phone
  BY <1>1, <1>2, <1>3 DEF Profiles
<1> QED
  BY <1>1, <1>2, <1>3, <1>4, <1>5 DEF Profile!Read, Profile!serverVars

\* The answer of a save, and that of a request about a picture.
LEMMA SaveRead ==
  ASSUME ProfileTypeOK, NEW c \in Calls, Profile!Saved(c)
  PROVE  /\ call[c].at = "done" /\ call[c].what = "save" /\ call[c].sent \in Profiles
         /\ Becomes(c, [at |-> "idle"])
         /\ store' = IF known = "none" THEN call[c].sent ELSE [call[c].sent EXCEPT !.avatar = known]
         /\ fields' = IF who = "CLIENT" THEN store' ELSE fields
         /\ shown' \in Views /\ shown'.at = shown.at /\ shown'.pictures = shown.pictures
         /\ shown'.hidden = shown.hidden /\ shown'.row = shown.row
         /\ isSaving' \in BOOLEAN /\ isEditing' \in BOOLEAN
         /\ UNCHANGED <<who, user, pictures, approved, premiumPro, known, unsure>>
<1>1. call[c] \in ProfileCalls /\ call[c].at = "done" /\ call[c].what = "save" /\ shown \in Views
  BY DEF ProfileTypeOK, Profile!Saved
<1>2. call[c].sent \in Profiles /\ call[c].approved \in BOOLEAN /\ call[c].premium \in BOOLEAN
  BY <1>1 DEF ProfileCalls, SaveCalls, AnsweredSaves, PictureCalls
<1>3. Becomes(c, [at |-> "idle"])
  BY DEF Profile!Saved, Becomes, Profile!Idle
<1>4. \/ shown' = shown
      \/ shown' = [shown EXCEPT !.approved = call[c].approved, !.premium = call[c].premium]
  BY DEF Profile!Saved
<1>5. /\ shown' \in Views /\ shown'.at = shown.at /\ shown'.pictures = shown.pictures
      /\ shown'.hidden = shown.hidden /\ shown'.row = shown.row
  BY <1>1, <1>2, <1>4 DEF Views
<1>6. isSaving' \in BOOLEAN /\ isEditing' \in BOOLEAN
  BY Zenon DEF Profile!Saved
<1>7. /\ store' = IF known = "none" THEN call[c].sent ELSE [call[c].sent EXCEPT !.avatar = known]
      /\ fields' = IF who = "CLIENT" THEN store' ELSE fields
  BY DEF Profile!Saved, Profile!SetUser, Profile!None
<1>8. UNCHANGED <<who, user, pictures, approved, premiumPro, known, unsure>>
  BY DEF Profile!Saved, Profile!serverVars
<1> QED
  BY <1>1, <1>2, <1>3, <1>5, <1>6, <1>7, <1>8

LEMMA PictureRead ==
  ASSUME ProfileTypeOK, NEW c \in Calls, Profile!PictureAnswered(c)
  PROVE  /\ call[c].at = "done" /\ call[c].what \in {"add", "delete"} /\ call[c].sent \in Pictures
         /\ Becomes(c, [at |-> "idle"])
         /\ shown' \in Views /\ shown'.at = shown.at /\ shown'.hidden = shown.hidden /\ shown'.row = shown.row
         /\ ~call[c].here => shown'.pictures = shown.pictures
         /\ call[c].here /\ call[c].what = "add" => shown'.pictures = shown.pictures \cup {call[c].sent}
         /\ call[c].here /\ call[c].what = "delete" => shown'.pictures = shown.pictures \ {call[c].sent}
         /\ UNCHANGED <<who, user, pictures, approved, premiumPro, known, store, fields, isEditing, isSaving, unsure>>
<1>1. /\ call[c] \in ProfileCalls /\ call[c].at = "done" /\ call[c].what \in {"add", "delete"}
      /\ shown \in Views
  BY DEF ProfileTypeOK, Profile!PictureAnswered
<1>2. call[c].sent \in Pictures
  BY <1>1, CallFields, IdleCall
<1> DEFINE seen == IF ~call[c].here THEN shown.pictures
                   ELSE IF call[c].what = "add" THEN shown.pictures \cup {call[c].sent}
                   ELSE shown.pictures \ {call[c].sent}
<1>3. shown' = [shown EXCEPT !.pictures = seen]
  BY DEF Profile!PictureAnswered
<1>4. seen \in SUBSET Pictures
  BY <1>1, <1>2 DEF Views
<1>5. /\ shown' \in Views /\ shown'.at = shown.at /\ shown'.hidden = shown.hidden /\ shown'.row = shown.row
      /\ shown'.pictures = seen
  BY <1>1, <1>3, <1>4 DEF Views
<1>6. Becomes(c, [at |-> "idle"])
  BY DEF Profile!PictureAnswered, Becomes, Profile!Idle
<1>7. UNCHANGED <<who, user, pictures, approved, premiumPro, known, store, fields, isEditing, isSaving, unsure>>
  BY DEF Profile!PictureAnswered, Profile!serverVars
<1> QED
  BY <1>1, <1>2, <1>5, <1>6, <1>7

\* A call that fails: its answer is lost, or its error is read.
LEMMA CallFails ==
  ASSUME ProfileTypeOK, NEW c \in Calls, Profile!Lose(c)
  PROVE  /\ call[c].at \notin {"idle", "refused"} /\ call[c] \in ProfileCalls
         /\ Becomes(c, [call[c] EXCEPT !.at = "refused"])
         /\ \A d \in Calls : call'[d] = IF d = c THEN call'[c] ELSE call[d]
         /\ call'[c] \in ProfileCalls /\ call'[c].at = "refused" /\ call'[c].what = call[c].what
         /\ call'[c].sent = call[c].sent /\ call'[c].here = call[c].here
         /\ call[c].at # "done" => unsure' = unsure
         /\ call[c].at = "done" /\ call[c].what = "save" => unsure' = unsure \cup {"profile"}
         /\ call[c].at = "done" /\ call[c].what # "save" => unsure' = unsure \cup {"pictures"}
         /\ UNCHANGED <<who, user, pictures, approved, premiumPro, known, store, fields, shown, isEditing, isSaving>>
<1>1. /\ call[c] # [at |-> "idle"] /\ call[c].at # "refused" /\ call[c] \in ProfileCalls
      /\ Becomes(c, [call[c] EXCEPT !.at = "refused"])
  BY DEF Profile!Lose, Profile!Idle, ProfileTypeOK, Becomes
<1>2. call[c].at # "idle"
  BY <1>1, IdleCall
<1>3. \A d \in Calls : call'[d] = IF d = c THEN [call[c] EXCEPT !.at = "refused"] ELSE call[d]
  BY <1>1, BecomesCalls
<1>4. call'[c] = [call[c] EXCEPT !.at = "refused"]
  BY <1>3
<1>5. /\ call'[c] \in ProfileCalls /\ call'[c].at = "refused" /\ call'[c].what = call[c].what
      /\ call'[c].sent = call[c].sent /\ call'[c].here = call[c].here
  BY <1>1, <1>4, CallMoves
<1>6. \A d \in Calls : call'[d] = IF d = c THEN call'[c] ELSE call[d]
  BY <1>3
<1>7. UNCHANGED <<who, user, pictures, approved, premiumPro, known, store, fields, shown, isEditing, isSaving>>
  BY DEF Profile!Lose, Profile!serverVars, Profile!pageVars
<1>8. /\ call[c].at # "done" => unsure' = unsure
      /\ call[c].at = "done" /\ call[c].what = "save" => unsure' = unsure \cup {"profile"}
      /\ call[c].at = "done" /\ call[c].what # "save" => unsure' = unsure \cup {"pictures"}
  BY DEF Profile!Lose
<1> QED
  BY <1>1, <1>2, <1>5, <1>6, <1>7, <1>8

LEMMA ErrorRead ==
  ASSUME ProfileTypeOK, NEW c \in Calls, Profile!Refused(c)
  PROVE  /\ call[c].at = "refused" /\ Becomes(c, [at |-> "idle"]) /\ isSaving' \in BOOLEAN
         /\ UNCHANGED <<who, user, pictures, approved, premiumPro, known, store, fields, shown, isEditing, unsure>>
<1>1. isSaving' \in BOOLEAN
  BY Zenon DEF Profile!Refused
<1> QED
  BY <1>1 DEF Profile!Refused, Becomes, Profile!Idle, Profile!serverVars

-----------------------------------------------------------------------------
(* Types.                                                                  *)
LEMMA NewCalls ==
  /\ [at |-> "idle"] \in ProfileCalls
  /\ \A x \in Profiles : [at |-> "sent", what |-> "save", sent |-> x, here |-> TRUE] \in ProfileCalls
  /\ \A p \in Pictures, what \in {"add", "delete"} :
       [at |-> "sent", what |-> what, sent |-> p, here |-> TRUE] \in ProfileCalls
BY DEF ProfileCalls, SaveCalls, PictureCalls

LEMMA ProfileTypes ==
  ASSUME ProfileTypeOK, Profile!Next
  PROVE  ProfileTypeOK'
<1>1. ASSUME NEW c \in Calls, NEW q \in ProfileCalls, Becomes(c, q)
      PROVE  call' \in [Calls -> ProfileCalls]
  BY <1>1 DEF Becomes, ProfileTypeOK
<1>2. CASE Profile!Reopen
  BY <1>2, Reopened DEF ProfileTypeOK
<1>3. CASE Profile!ServeRead
  BY <1>3, ReadServed DEF ProfileTypeOK
<1>4. CASE Profile!Read
  BY <1>4, ReadArrived DEF ProfileTypeOK
<1>5. CASE Profile!Editing
  <2>1. isEditing' \in BOOLEAN
    BY <1>5, Zenon DEF Profile!Editing, ProfileTypeOK
  <2> QED
    BY <1>5, <2>1 DEF Profile!Editing, Profile!serverVars, ProfileTypeOK
<1>6. CASE Profile!Type
  <2>1. PICK f \in DOMAIN fields, v \in Values : fields' = [fields EXCEPT ![f] = v]
    BY <1>6 DEF Profile!Type
  <2>2. fields' \in Profiles
    BY <2>1 DEF ProfileTypeOK, Profiles
  <2> QED
    BY <1>6, <2>2 DEF Profile!Type, Profile!serverVars, ProfileTypeOK
<1>7. CASE Profile!Submit
  <2>1. call' \in [Calls -> ProfileCalls]
    BY <1>1, <1>7, SubmitSends, NewCalls
  <2> QED
    BY <1>7, <2>1 DEF Profile!Submit, Profile!serverVars, ProfileTypeOK
<1>8. CASE Profile!handleAddPortfolio \/ Profile!handleDeletePortfolio
  <2>1. call' \in [Calls -> ProfileCalls]
    BY <1>1, <1>8, PictureSends, NewCalls
  <2> QED
    BY <1>8, <2>1 DEF Profile!handleAddPortfolio, Profile!handleDeletePortfolio, Profile!serverVars,
       Profile!pageVars, ProfileTypeOK
<1>9. CASE Profile!Approve \/ Profile!ChangePlan
  <2>1. approved' \in BOOLEAN /\ premiumPro' \in BOOLEAN
    BY <1>9, Zenon DEF Profile!Approve, Profile!ChangePlan, ProfileTypeOK
  <2> QED
    BY <1>9, <2>1 DEF Profile!Approve, Profile!ChangePlan, Profile!pageVars, ProfileTypeOK
<1>10. ASSUME NEW c \in Calls, Profile!ServeSave(c)
       PROVE  ProfileTypeOK'
  <2>1. call[c] \in ProfileCalls /\ call[c] # [at |-> "idle"] /\ user' \in Profiles
    BY <1>10, SaveServed, IdleCall DEF ProfileTypeOK
  <2>2. call[c].here \in BOOLEAN
    BY <2>1, CallFields
  <2>3. [at |-> "done", what |-> "save", here |-> call[c].here, sent |-> user',
         approved |-> approved, premium |-> premiumPro] \in AnsweredSaves
    BY <2>1, <2>2 DEF AnsweredSaves, ProfileTypeOK
  <2>4. call' \in [Calls -> ProfileCalls]
    BY <1>1, <1>10, <2>3, SaveServed DEF ProfileCalls
  <2> QED
    BY <1>10, <2>1, <2>4 DEF Profile!ServeSave, Profile!pageVars, ProfileTypeOK
<1>11. ASSUME NEW c \in Calls, Profile!Saved(c)
       PROVE  ProfileTypeOK'
  <2>1. call' \in [Calls -> ProfileCalls]
    BY <1>1, <1>11, NewCalls, SaveRead
  <2>2. store' \in Profiles /\ fields' \in Profiles
    BY <1>11, SaveRead DEF ProfileTypeOK, Profiles
  <2> QED
    BY <1>11, <2>1, <2>2, SaveRead DEF ProfileTypeOK
<1>12. ASSUME NEW c \in Calls, Serve(c)
       PROVE  ProfileTypeOK'
  <2>1. call[c] \in ProfileCalls /\ call[c] # [at |-> "idle"]
    BY <1>12, PictureServed, IdleCall DEF ProfileTypeOK
  <2>2. \A a \in {"count", "create", "done", "refused"} :
          call[c].what # "save" => [call[c] EXCEPT !.at = a] \in ProfileCalls
    BY <2>1, CallMoves
  <2>3. call' \in [Calls -> ProfileCalls] /\ pictures' \subseteq Pictures
    BY <1>1, <1>12, <2>2, PictureServed DEF ProfileTypeOK
  <2> QED
    BY <1>12, <2>3, ServeFrame DEF ProfileTypeOK
<1>13. ASSUME NEW c \in Calls, Profile!PictureAnswered(c)
       PROVE  ProfileTypeOK'
  <2>1. call' \in [Calls -> ProfileCalls]
    BY <1>1, <1>13, NewCalls, PictureRead
  <2> QED
    BY <1>13, <2>1, PictureRead DEF ProfileTypeOK
<1>14. ASSUME NEW c \in Calls, Profile!Refused(c)
       PROVE  ProfileTypeOK'
  <2>1. call' \in [Calls -> ProfileCalls]
    BY <1>1, <1>14, NewCalls, ErrorRead
  <2> QED
    BY <1>14, <2>1, ErrorRead DEF ProfileTypeOK
<1>15. ASSUME NEW c \in Calls, Profile!Lose(c)
       PROVE  ProfileTypeOK'
  <2>1. [call[c] EXCEPT !.at = "refused"] \in ProfileCalls
    <3>1. call[c] \in ProfileCalls /\ call[c] # [at |-> "idle"]
      BY <1>15, CallFails, IdleCall
    <3> QED
      BY <3>1, CallMoves
  <2>2. call' \in [Calls -> ProfileCalls]
    BY <1>1, <1>15, <2>1, CallFails
  <2> QED
    BY <1>15, <2>2, CallFails DEF ProfileTypeOK
<1> QED
  BY <1>2, <1>3, <1>4, <1>5, <1>6, <1>7, <1>8, <1>9, <1>10, <1>11, <1>12, <1>13, <1>14, <1>15, ProfileNext


-----------------------------------------------------------------------------
(* What is on the page.                                                    *)
LEMMA ClientPageKeeps ==
  ASSUME ProfileInv, Profile!Next
  PROVE  ClientPage'
<1>0. ProfileTypeOK /\ ClientPage
  BY DEF ProfileInv
<1> DEFINE Same == /\ who' = who /\ store' = store /\ known' = known /\ fields' = fields
                   /\ shown'.at = shown.at /\ isEditing' = isEditing
<1>1. ASSUME Same
      PROVE  ClientPage'
  BY <1>0, <1>1 DEF ClientPage
<1>2. CASE Profile!Reopen
  BY <1>0, <1>2, Reopened DEF ClientPage
<1>3. CASE Profile!ServeRead
  <2>1. who' = "PRO"
    BY <1>0, <1>3, ReadServed
  <2> QED
    BY <2>1 DEF ClientPage
<1>4. CASE Profile!Read
  <2>1. who' # "CLIENT"
    BY <1>0, <1>4, ReadArrived DEF ClientPage
  <2> QED
    BY <2>1 DEF ClientPage
<1>5. CASE Profile!Editing
  BY <1>0, <1>5 DEF Profile!Editing, Profile!serverVars, ClientPage
<1>6. CASE Profile!Type
  <2>1. isEditing \/ shown.at = "read"
    BY <1>6 DEF Profile!Type, Profile!FormShown
  <2> QED
    BY <1>0, <1>6, <2>1 DEF Profile!Type, Profile!serverVars, ClientPage
<1>7. CASE Profile!Submit \/ Profile!handleAddPortfolio \/ Profile!handleDeletePortfolio
           \/ Profile!Approve \/ Profile!ChangePlan
  <2>1. Same
    BY <1>7 DEF Profile!Submit, Profile!handleAddPortfolio, Profile!handleDeletePortfolio, Profile!Approve,
       Profile!ChangePlan, Profile!serverVars, Profile!pageVars
  <2> QED
    BY <1>1, <2>1
<1>8. ASSUME NEW c \in Calls,
             \/ Profile!ServeSave(c) \/ Serve(c) \/ Profile!Refused(c) \/ Profile!Lose(c)
             \/ Profile!PictureAnswered(c)
      PROVE  ClientPage'
  <2>1. CASE Profile!ServeSave(c)
    BY <1>1, <2>1 DEF Profile!ServeSave, Profile!pageVars
  <2>2. CASE Serve(c)
    BY <1>1, <2>2, ServeFrame
  <2>3. CASE Profile!Refused(c)
    BY <1>0, <1>1, <2>3, ErrorRead
  <2>4. CASE Profile!Lose(c)
    BY <1>0, <1>1, <2>4, CallFails
  <2>5. CASE Profile!PictureAnswered(c)
    BY <1>0, <1>1, <2>5, PictureRead
  <2> QED
    BY <1>8, <2>1, <2>2, <2>3, <2>4, <2>5
<1>9. ASSUME NEW c \in Calls, Profile!Saved(c)
      PROVE  ClientPage'
  BY <1>0, <1>9, SaveRead DEF ClientPage
<1> QED
  BY <1>2, <1>3, <1>4, <1>5, <1>6, <1>7, <1>8, <1>9, ProfileNext

-----------------------------------------------------------------------------
(* The save that runs.                                                     *)
\* A step that is about no save.
LEMMA SaveFrame ==
  ASSUME SaveAwaited, user' = user, store'.phone = store.phone,
         who' = who, who = "CLIENT" => store' = store,
         \A c \in Calls : Saving(c)' <=> Saving(c),
         \A c \in Calls : Saving(c) => /\ call'[c].sent = call[c].sent
                                       /\ call'[c].at = "done" <=> call[c].at = "done"
  PROVE  SaveAwaited'
BY DEF SaveAwaited

\* A call that is not a save gets q, which is none either.
LEMMA SaveFrameOther ==
  ASSUME ProfileTypeOK, SaveAwaited, user' = user, store' = store, who' = who,
         NEW c \in Calls, ~Saving(c), NEW q, Becomes(c, q), q.at # "idle" => q.what # "save"
  PROVE  SaveAwaited'
<1>1. \A d \in Calls : call'[d] = IF d = c THEN q ELSE call[d]
  BY BecomesCalls
<1>2. \A d \in Calls : Saving(d)' <=> Saving(d)
  BY <1>1 DEF Saving
<1>3. \A d \in Calls : Saving(d) => call'[d] = call[d]
  BY <1>1
<1> QED
  BY <1>2, <1>3, SaveFrame

LEMMA SaveFrameCalls ==
  ASSUME SaveAwaited, user' = user, store'.phone = store.phone,
         who' = who, who = "CLIENT" => store' = store, call' = call
  PROVE  SaveAwaited'
<1>1. \A c \in Calls : Saving(c)' <=> Saving(c)
  BY DEF Saving
<1> QED
  BY <1>1, SaveFrame

\* A call that has no answer for the page ends, or fails.
LEMMA SaveFrameEnds ==
  ASSUME ProfileTypeOK, SaveAwaited, user' = user, store' = store, who' = who,
         NEW c \in Calls, call[c].at # "idle", Saving(c) => call[c].at # "done",
         NEW q, Becomes(c, q), q.at \in {"idle", "refused"}, q.at # "idle" => q.what = call[c].what
  PROVE  SaveAwaited'
<1>1. \A d \in Calls : call'[d] = IF d = c THEN q ELSE call[d]
  BY BecomesCalls
<1>2. \A d \in Calls : Saving(d)' => Saving(d)
  BY <1>1 DEF Saving
<1>3. \A d \in Calls : call'[d].at = "done" => d # c /\ call'[d] = call[d]
  BY <1>1
<1>4. \A d \in Calls : Saving(d) /\ call[d].at = "done" => Saving(d)' /\ call'[d].at = "done"
  BY <1>1 DEF Saving
<1> QED
  BY <1>2, <1>3, <1>4 DEF SaveAwaited

LEMMA SaveKeeps ==
  ASSUME ProfileInv, Profile!Next, SaveAwaited, "profile" \notin unsure'
  PROVE  SaveAwaited'
<1>0. ProfileTypeOK /\ ClientPage
  BY DEF ProfileInv
<1>1. CASE Profile!Reopen
  <2>1. \A c \in Calls : Saving(c)' <=> Saving(c)
    BY <1>0, <1>1, Reopened DEF Saving
  <2>2. \A c \in Calls : Saving(c) => /\ call'[c].sent = call[c].sent
                                      /\ call'[c].at = "done" <=> call[c].at = "done"
    BY <1>0, <1>1, Reopened DEF Saving
  <2> QED
    BY <1>0, <1>1, <2>1, <2>2, Reopened, SaveFrame
<1>2. CASE Profile!ServeRead
  BY <1>0, <1>2, ReadServed, SaveFrameCalls
<1>3. CASE Profile!Read
  <2>1. who # "CLIENT"
    BY <1>0, <1>3, ReadArrived DEF ClientPage
  <2> QED
    BY <1>0, <1>3, <2>1, ReadArrived, SaveFrameCalls
<1>4. CASE Profile!Editing \/ Profile!Type \/ Profile!Approve \/ Profile!ChangePlan
  <2>1. user' = user /\ store' = store /\ who' = who /\ call' = call
    BY <1>4 DEF Profile!Editing, Profile!Type, Profile!Approve, Profile!ChangePlan, Profile!serverVars
  <2> QED
    BY <2>1, SaveFrameCalls
<1>5. CASE Profile!Submit
  <2>1. PICK c \in Calls, x \in Profiles :
          /\ call[c].at = "idle"
          /\ Becomes(c, [at |-> "sent", what |-> "save", sent |-> x, here |-> TRUE])
    BY <1>0, <1>5, SubmitSends
  <2>2. \A d \in Calls : call'[d] = IF d = c THEN [at |-> "sent", what |-> "save", sent |-> x, here |-> TRUE]
                                    ELSE call[d]
    BY <1>0, <2>1, BecomesCalls
  <2>3. who' = who /\ user' = user /\ store' = store
    BY <1>5 DEF Profile!Submit, Profile!serverVars
  <2>4. \A d \in Calls : ~Saving(d)
    <3>1. ~\E d \in Profile!InFlight : call[d].what = "save"
      BY <1>5 DEF Profile!Submit
    <3>2. \A d \in Calls : call[d].at # "idle" => d \in Profile!InFlight
      BY DEF Profile!InFlight, Profile!Idle
    <3> QED
      BY <3>1, <3>2 DEF Saving
  <2>5. \A d \in Calls : Saving(d)' <=> d = c
    BY <2>2, <2>4 DEF Saving
  <2>6. call'[c].at # "done"
    BY <2>2
  <2> QED
    BY <2>3, <2>4, <2>5, <2>6 DEF SaveAwaited
<1>6. CASE Profile!handleAddPortfolio \/ Profile!handleDeletePortfolio
  <2>1. PICK c \in Calls, p \in Pictures, what \in {"add", "delete"} :
          /\ call[c].at = "idle"
          /\ Becomes(c, [at |-> "sent", what |-> what, sent |-> p, here |-> TRUE])
    BY <1>0, <1>6, PictureSends
  <2>2. user' = user /\ store' = store /\ who' = who
    BY <1>6 DEF Profile!handleAddPortfolio, Profile!handleDeletePortfolio, Profile!serverVars
  <2>3. ~Saving(c)
    BY <2>1 DEF Saving
  <2>4. \A q : q = [at |-> "sent", what |-> what, sent |-> p, here |-> TRUE] => q.what # "save"
    BY <2>1
  <2> QED
    BY <1>0, <2>1, <2>2, <2>3, <2>4, SaveFrameOther
<1>7. ASSUME NEW c \in Calls, Profile!ServeSave(c)
      PROVE  SaveAwaited'
  <2> DEFINE q == [at |-> "done", what |-> "save", here |-> call[c].here, sent |-> user',
                   approved |-> approved, premium |-> premiumPro]
  <2>1. /\ call[c].at = "sent" /\ call[c].what = "save"
        /\ \A d \in Calls : call'[d] = IF d = c THEN q ELSE call[d]
    BY <1>0, <1>7, SaveServed, BecomesCalls
  <2>2. who' = who /\ store' = store
    BY <1>7 DEF Profile!ServeSave
  <2>3. Saving(c) /\ \A d \in Calls \ {c} : ~Saving(d)
    BY <2>1 DEF Saving, SaveAwaited
  <2>4. \A d \in Calls : Saving(d)' <=> d = c
    BY <2>1, <2>3 DEF Saving
  <2>5. call'[c].at = "done" /\ call'[c].sent = user'
    BY <2>1
  <2> QED
    BY <2>2, <2>3, <2>4, <2>5 DEF SaveAwaited
<1>8. ASSUME NEW c \in Calls, Profile!Saved(c)
      PROVE  SaveAwaited'
  <2>1. /\ call[c].at = "done" /\ call[c].what = "save" /\ user' = user /\ who' = who
        /\ \A d \in Calls : call'[d] = IF d = c THEN [at |-> "idle"] ELSE call[d]
    BY <1>0, <1>8, SaveRead, BecomesCalls
  <2>2. Saving(c) /\ call[c].sent = user /\ \A d \in Calls \ {c} : ~Saving(d)
    BY <2>1 DEF Saving, SaveAwaited
  <2>3. \A d \in Calls : ~Saving(d)'
    BY <2>1, <2>2 DEF Saving
  <2>4. store' = IF known = "none" THEN user ELSE [user EXCEPT !.avatar = known]
    BY <1>0, <1>8, <2>2, SaveRead
  <2>5. store'.phone = user.phone /\ (who = "CLIENT" => store' = user)
    BY <1>0, <2>4 DEF ProfileTypeOK, Profiles, ClientPage
  <2> QED
    BY <2>1, <2>3, <2>5 DEF SaveAwaited
<1>9. ASSUME NEW c \in Calls, Serve(c)
      PROVE  SaveAwaited'
  <2>1. PICK a \in {"count", "create", "done", "refused"} :
          /\ call[c].at \in {"sent", "count", "create"} /\ call[c].what \in {"add", "delete"}
          /\ Becomes(c, [call[c] EXCEPT !.at = a])
    BY <1>0, <1>9, PictureServed
  <2>2. ~Saving(c) /\ call[c] \in ProfileCalls /\ call[c] # [at |-> "idle"]
    BY <1>0, <2>1, IdleCall DEF Saving, ProfileTypeOK
  <2>3. \A q : q = [call[c] EXCEPT !.at = a] => q.what # "save"
    BY <2>1, <2>2, CallMoves
  <2> QED
    BY <1>0, <1>9, <2>1, <2>2, <2>3, ServeFrame, SaveFrameOther
<1>10. ASSUME NEW c \in Calls, Profile!PictureAnswered(c)
       PROVE  SaveAwaited'
  <2>1. ~Saving(c)
    BY <1>0, <1>10, PictureRead DEF Saving
  <2>2. \A q : q = [at |-> "idle"] => q.at = "idle"
    OBVIOUS
  <2> QED
    BY <1>0, <1>10, <2>1, <2>2, PictureRead, SaveFrameOther
<1>11. ASSUME NEW c \in Calls, Profile!Refused(c)
       PROVE  SaveAwaited'
  <2>1. \A q : q = [at |-> "idle"] => q.at = "idle"
    OBVIOUS
  <2> QED
    BY <1>0, <1>11, <2>1, ErrorRead, SaveFrameEnds
<1>12. ASSUME NEW c \in Calls, Profile!Lose(c)
       PROVE  SaveAwaited'
  <2>1. Saving(c) => call[c].at # "done"
    BY <1>0, <1>12, CallFails DEF Saving
  <2>2. PICK q : q = [call[c] EXCEPT !.at = "refused"]
    OBVIOUS
  <2>3. Becomes(c, q) /\ call[c].at # "idle"
    BY <1>0, <1>12, <2>2, CallFails
  <2>4. call'[c] = q
    BY <1>0, <2>3, BecomesCalls
  <2>5. q.at = "refused" /\ q.what = call[c].what
    BY <1>0, <1>12, <2>4, CallFails
  <2> QED
    BY <1>0, <1>12, <2>1, <2>3, <2>5, CallFails, SaveFrameEnds
<1> QED
  BY <1>1, <1>2, <1>3, <1>4, <1>5, <1>6, <1>7, <1>8, <1>9, <1>10, <1>11, <1>12, ProfileNext

-----------------------------------------------------------------------------
(* The portfolio.                                                          *)
\* A step that sends and answers nothing about a picture.
LEMMA PageFrame ==
  ASSUME PageCalls, shown'.at = shown.at, shown'.pictures = shown.pictures, shown'.hidden = shown.hidden,
         \A c \in Calls : Mine(c)' => Mine(c) /\ call'[c].what = call[c].what /\ call'[c].sent = call[c].sent
  PROVE  PageCalls'
BY DEF PageCalls

\* Call c gets q, which is no call about a picture that the page waits for, or is the same
\* request as before.
LEMMA PageFrameOther ==
  ASSUME ProfileTypeOK, PageCalls,
         shown'.at = shown.at, shown'.pictures = shown.pictures, shown'.hidden = shown.hidden,
         NEW c \in Calls, NEW q, Becomes(c, q),
         \/ q.at = "idle" \/ q.what = "save"
         \/ call[c].at # "idle" /\ q.what = call[c].what /\ q.sent = call[c].sent /\ q.here = call[c].here
  PROVE  PageCalls'
<1>1. \A d \in Calls : call'[d] = IF d = c THEN q ELSE call[d]
  BY BecomesCalls
<1>2. \A d \in Calls : Mine(d)' => Mine(d) /\ call'[d].what = call[d].what /\ call'[d].sent = call[d].sent
  BY <1>1 DEF Mine, Drawing
<1> QED
  BY <1>2, PageFrame

LEMMA PageKeeps ==
  ASSUME ProfileInv, Profile!Next
  PROVE  PageCalls'
<1>0. ProfileTypeOK /\ PageCalls
  BY DEF ProfileInv
<1>1. CASE Profile!Reopen
  <2>1. \A c \in Calls : ~Mine(c)'
    BY <1>0, <1>1, Reopened DEF Mine, Drawing
  <2> QED
    BY <1>0, <1>1, <2>1, Reopened DEF PageCalls
<1>2. CASE Profile!ServeRead \/ Profile!Read
  <2>1. shown.at # "read" /\ call' = call /\ \A p \in shown'.pictures : p \notin shown'.hidden
    BY <1>0, <1>2, ReadServed, ReadArrived DEF PageCalls
  <2>2. \A c \in Calls : ~Mine(c)'
    BY <1>0, <2>1 DEF PageCalls, Mine, Drawing
  <2> QED
    BY <2>1, <2>2 DEF PageCalls
<1>3. CASE Profile!Editing \/ Profile!Type \/ Profile!Approve \/ Profile!ChangePlan
  <2>1. shown' = shown /\ call' = call
    BY <1>3 DEF Profile!Editing, Profile!Type, Profile!Approve, Profile!ChangePlan, Profile!pageVars
  <2>2. \A c \in Calls : Mine(c)' <=> Mine(c)
    BY <2>1 DEF Mine, Drawing
  <2> QED
    BY <1>0, <2>1, <2>2, PageFrame
<1>4. CASE Profile!Submit
  <2>1. PICK c \in Calls, x \in Profiles :
          Becomes(c, [at |-> "sent", what |-> "save", sent |-> x, here |-> TRUE])
    BY <1>0, <1>4, SubmitSends
  <2>2. shown' = shown
    BY <1>4 DEF Profile!Submit
  <2>3. \A q : q = [at |-> "sent", what |-> "save", sent |-> x, here |-> TRUE] => q.what = "save"
    OBVIOUS
  <2> QED
    BY <1>0, <2>1, <2>2, <2>3, PageFrameOther
<1>5. CASE Profile!handleAddPortfolio \/ Profile!handleDeletePortfolio
  <2>1. PICK c \in Calls, p \in Pictures, what \in {"add", "delete"} :
          /\ call[c].at = "idle" /\ shown.at = "read"
          /\ Becomes(c, [at |-> "sent", what |-> what, sent |-> p, here |-> TRUE])
          /\ what = "delete" => p \in shown.pictures
          /\ what = "add" => /\ p \notin shown.hidden /\ p \notin shown.pictures
                             /\ \A d \in Calls : Drawing(d) => call[d].sent # p
    BY <1>0, <1>5, PictureSends
  <2>2. shown' = shown
    BY <1>5 DEF Profile!handleAddPortfolio, Profile!handleDeletePortfolio, Profile!pageVars
  <2> DEFINE q == [at |-> "sent", what |-> what, sent |-> p, here |-> TRUE]
  <2>3. \A d \in Calls : call'[d] = IF d = c THEN q ELSE call[d]
    BY <1>0, <2>1, BecomesCalls
  <2>4. \A d \in Calls : Mine(d)' <=> (d = c \/ Mine(d))
    BY <2>1, <2>3 DEF Mine, Drawing
  <2>5. p \notin shown.hidden
    BY <1>0, <2>1 DEF PageCalls
  <2>6. call'[c].what = what /\ call'[c].sent = p /\ \A d \in Calls \ {c} : call'[d] = call[d]
    BY <2>3
  <2>7. \A d \in Calls : Mine(d)' => call'[d].sent \notin shown.hidden
    BY <1>0, <2>4, <2>5, <2>6 DEF PageCalls
  <2>8. ASSUME NEW d \in Calls, Mine(d)', call'[d].what = "add"
        PROVE  /\ call'[d].sent \notin shown.pictures
               /\ \A e \in Calls \ {d} : Mine(e)' => call'[e].sent # call'[d].sent
    <3>1. CASE d = c
      <4>1. \A e \in Calls \ {d} : Mine(e)' => Drawing(e) /\ call'[e] = call[e]
        BY <2>4, <2>6, <3>1 DEF Mine
      <4> QED
        BY <2>1, <2>6, <2>8, <3>1, <4>1
    <3>2. CASE d # c
      <4>1. Mine(d) /\ call'[d] = call[d] /\ Drawing(d) /\ ~Mine(c)
        BY <2>1, <2>4, <2>6, <2>8, <3>2 DEF Mine, Drawing
      <4>2. /\ call[d].sent \notin shown.pictures
            /\ \A e \in Calls \ {d} : Mine(e) => call[e].sent # call[d].sent
        BY <1>0, <2>8, <4>1 DEF PageCalls
      <4>3. p # call[d].sent
        BY <2>1, <4>1, <4>2
      <4> QED
        BY <2>4, <2>6, <4>1, <4>2, <4>3
    <3> QED
      BY <3>1, <3>2
  <2> HIDE DEF q
  <2> QED
    BY <1>0, <2>1, <2>2, <2>7, <2>8 DEF PageCalls
<1>6. ASSUME NEW c \in Calls, Profile!ServeSave(c)
      PROVE  PageCalls'
  <2>1. shown' = shown
    BY <1>6 DEF Profile!ServeSave, Profile!pageVars
  <2>2. \A q : q = [at |-> "done", what |-> "save", here |-> call[c].here, sent |-> user',
                    approved |-> approved, premium |-> premiumPro] => q.what = "save"
    OBVIOUS
  <2> QED
    BY <1>0, <1>6, <2>1, <2>2, SaveServed, PageFrameOther
<1>7. ASSUME NEW c \in Calls, Profile!Saved(c) \/ Profile!Refused(c)
      PROVE  PageCalls'
  <2>1. /\ Becomes(c, [at |-> "idle"])
        /\ shown'.at = shown.at /\ shown'.pictures = shown.pictures /\ shown'.hidden = shown.hidden
    BY <1>0, <1>7, SaveRead, ErrorRead
  <2>2. \A q : q = [at |-> "idle"] => q.at = "idle"
    OBVIOUS
  <2> QED
    BY <1>0, <2>1, <2>2, PageFrameOther
<1>8. ASSUME NEW c \in Calls, Serve(c) \/ Profile!Lose(c)
      PROVE  PageCalls'
  <2>1. PICK a \in {"count", "create", "done", "refused"} :
          /\ call[c].at # "idle" /\ (call[c].what # "save" \/ a = "refused")
          /\ Becomes(c, [call[c] EXCEPT !.at = a])
    <3>1. CASE Serve(c)
      BY <1>0, <3>1, PictureServed
    <3>2. CASE Profile!Lose(c)
      BY <1>0, <3>2, CallFails
    <3> QED
      BY <1>8, <3>1, <3>2
  <2>2. shown' = shown
    BY <1>0, <1>8, ServeFrame, CallFails
  <2>3. call[c] \in ProfileCalls /\ call[c] # [at |-> "idle"]
    BY <1>0, <2>1, IdleCall DEF ProfileTypeOK
  <2>4. \A q : q = [call[c] EXCEPT !.at = a] =>
          q.what = call[c].what /\ q.sent = call[c].sent /\ q.here = call[c].here
    BY <2>1, <2>3, CallMoves
  <2> QED
    BY <1>0, <2>1, <2>2, <2>4, PageFrameOther
<1>9. ASSUME NEW c \in Calls, Profile!PictureAnswered(c)
      PROVE  PageCalls'
  <2>1. /\ shown'.at = shown.at /\ shown'.hidden = shown.hidden
        /\ \A d \in Calls : call'[d] = IF d = c THEN [at |-> "idle"] ELSE call[d]
        /\ call[c].at = "done" /\ call[c].what \in {"add", "delete"}
    BY <1>0, <1>9, PictureRead, BecomesCalls
  <2>2. \A d \in Calls : Mine(d)' => d # c /\ Mine(d) /\ call'[d] = call[d]
    BY <2>1 DEF Mine, Drawing
  <2>3. CASE ~call[c].here
    BY <1>0, <1>9, <2>1, <2>2, <2>3, PictureRead, PageFrame
  <2>4. CASE call[c].here
    <3>1. Mine(c)
      BY <2>1, <2>4 DEF Mine, Drawing
    <3>2. PICK s : s = call[c].sent
      OBVIOUS
    <3>3. s \notin shown.hidden
      BY <1>0, <3>1, <3>2 DEF PageCalls
    <3>4. \/ shown'.pictures = shown.pictures \cup {s} /\ call[c].what = "add"
          \/ shown'.pictures = shown.pictures \ {s}
      BY <1>0, <1>9, <2>1, <2>4, <3>2, PictureRead
    <3>5. \A d \in Calls : Mine(d) /\ d # c /\ call[c].what = "add" => call[d].sent # s
      BY <1>0, <3>1, <3>2 DEF PageCalls
    <3>6. \A p \in shown'.pictures : p \notin shown'.hidden
      BY <1>0, <2>1, <3>3, <3>4 DEF PageCalls
    <3>7. ASSUME NEW d \in Calls, Mine(d)', call'[d].what = "add"
          PROVE  /\ call'[d].sent \notin shown'.pictures
                 /\ \A e \in Calls \ {d} : Mine(e)' => call'[e].sent # call'[d].sent
      <4>1. d # c /\ Mine(d) /\ call'[d] = call[d]
        BY <2>2, <3>7
      <4>2. /\ call[d].sent \notin shown.pictures
            /\ \A e \in Calls \ {d} : Mine(e) => call[e].sent # call[d].sent
        BY <1>0, <3>7, <4>1 DEF PageCalls
      <4> QED
        BY <2>2, <3>4, <3>5, <4>1, <4>2
    <3>8. \A d \in Calls : Mine(d)' => call'[d].sent \notin shown'.hidden
      BY <1>0, <2>1, <2>2 DEF PageCalls
    <3>9. shown'.at # "read" => \A d \in Calls : ~Mine(d)'
      BY <1>0, <2>1, <2>2 DEF PageCalls
    <3> QED
      BY <3>6, <3>7, <3>8, <3>9 DEF PageCalls
  <2> QED
    BY <2>3, <2>4
<1> QED
  BY <1>1, <1>2, <1>3, <1>4, <1>5, <1>6, <1>7, <1>8, <1>9, ProfileNext

LEMMA PicturesFrame ==
  ASSUME PicturesAwaited, pictures' = pictures,
         shown'.pictures = shown.pictures, shown'.hidden = shown.hidden,
         \A c \in Calls : Drawing(c)' => call'[c].here \/ call'[c].at \in {"done", "refused"},
         \A p \in Pictures : /\ Unread("add", p)' <=> Unread("add", p)
                             /\ Unread("delete", p)' <=> Unread("delete", p)
  PROVE  PicturesAwaited'
BY DEF PicturesAwaited

\* A call gets q that is no answered call about a picture, nor was it one that the page
\* waits for.
LEMMA PicturesFrameOther ==
  ASSUME ProfileTypeOK, PicturesAwaited, pictures' = pictures,
         shown'.pictures = shown.pictures, shown'.hidden = shown.hidden,
         NEW c \in Calls, NEW q, Becomes(c, q),
         q.at \notin {"idle", "refused"} => q.what = "save",
         call[c].at = "done" => call[c].what = "save" \/ ~call[c].here
  PROVE  PicturesAwaited'
<1>1. \A d \in Calls : call'[d] = IF d = c THEN q ELSE call[d]
  BY BecomesCalls
<1>2. \A d \in Calls : Drawing(d)' => call'[d].here \/ call'[d].at \in {"done", "refused"}
  BY <1>1 DEF Drawing, PicturesAwaited
<1>3. \A p \in Pictures : Unread("add", p)' <=> Unread("add", p)
  BY <1>1 DEF Unread, Mine, Drawing
<1>4. \A p \in Pictures : Unread("delete", p)' <=> Unread("delete", p)
  BY <1>1 DEF Unread, Mine, Drawing
<1> QED
  BY <1>2, <1>3, <1>4, PicturesFrame

\* A picture the page has asked for is the one it adds, or one that it showed.
LEMMA PicturesServed ==
  ASSUME ProfileInv, PicturesAwaited, NEW c \in Calls, Serve(c)
  PROVE  PicturesAwaited'
<1>0. ProfileTypeOK /\ PageCalls
  BY DEF ProfileInv
<1>1. PICK a \in {"count", "create", "done", "refused"} :
        /\ call[c].at \in {"sent", "count", "create"} /\ call[c].what \in {"add", "delete"}
        /\ call[c].sent \in Pictures
        /\ Becomes(c, [call[c] EXCEPT !.at = a])
        /\ a # "done" => pictures' = pictures
        /\ a = "done" /\ call[c].what = "add" => pictures' = pictures \cup {call[c].sent}
        /\ a = "done" /\ call[c].what = "delete" =>
             call[c].sent \in pictures /\ pictures' = pictures \ {call[c].sent}
  BY <1>0, PictureServed
<1>2. PICK w, s : w = call[c].what /\ s = call[c].sent
  OBVIOUS
<1>3. PICK q : q = [call[c] EXCEPT !.at = a]
  OBVIOUS
<1>4. q.at = a /\ q.what = call[c].what /\ q.sent = call[c].sent /\ q.here = call[c].here
  BY <1>0, <1>1, <1>3, CallMoves, IdleCall DEF ProfileTypeOK
<1>5. \A d \in Calls : call'[d] = IF d = c THEN q ELSE call[d]
  BY <1>0, <1>1, <1>3, BecomesCalls
<1>6. Mine(c) /\ s \notin shown.hidden /\ shown' = shown
  <2>1. Drawing(c) /\ call[c].here
    BY <1>1 DEF Drawing, PicturesAwaited
  <2> QED
    BY <1>0, <1>2, <2>1, ServeFrame DEF Mine, PageCalls
<1>7. \A d \in Calls : Drawing(d)' => call'[d].here \/ call'[d].at \in {"done", "refused"}
  BY <1>4, <1>5, <1>6 DEF Mine, Drawing, PicturesAwaited
<1>8. ASSUME a # "done" \/ w = "delete", NEW r \in Pictures
      PROVE  Unread("add", r)' <=> Unread("add", r)
  BY <1>1, <1>2, <1>4, <1>5, <1>8 DEF Unread, Mine, Drawing
<1>9. ASSUME a # "done" \/ w = "add", NEW r \in Pictures
      PROVE  Unread("delete", r)' <=> Unread("delete", r)
  BY <1>1, <1>2, <1>4, <1>5, <1>9 DEF Unread, Mine, Drawing
<1>10. ASSUME a = "done", NEW r \in Pictures
       PROVE  Unread(w, r)' <=> r = s \/ Unread(w, r)
  BY <1>1, <1>2, <1>4, <1>5, <1>6, <1>10 DEF Unread, Mine, Drawing
<1>11. \A r \in Pictures : r \in pictures <=> \/ r \in shown.hidden \/ Unread("add", r)
                                              \/ r \in shown.pictures /\ ~Unread("delete", r)
  BY DEF PicturesAwaited
<1>12. \A r \in Pictures : r \in pictures' <=> \/ r \in shown.hidden \/ Unread("add", r)'
                                               \/ r \in shown.pictures /\ ~Unread("delete", r)'
  <2>1. CASE a # "done"
    BY <1>1, <1>8, <1>9, <1>11, <2>1
  <2>2. CASE a = "done" /\ w = "add"
    <3>1. \A r \in Pictures : Unread("add", r)' <=> r = s \/ Unread("add", r)
      BY <1>10, <2>2
    <3>2. pictures' = pictures \cup {s} /\ s \in Pictures
      BY <1>1, <1>2, <2>2
    <3>3. s \notin shown.pictures
      BY <1>0, <1>2, <1>6, <2>2 DEF PageCalls
    <3> QED
      BY <1>9, <1>11, <2>2, <3>1, <3>2, <3>3
  <2>3. CASE a = "done" /\ w = "delete"
    <3>1. ~Unread("add", s)
      BY <1>0, <1>1, <1>2, <1>6 DEF Unread, PageCalls
    <3>2. \A r \in Pictures : Unread("delete", r)' <=> r = s \/ Unread("delete", r)
      BY <1>10, <2>3
    <3>3. pictures' = pictures \ {s} /\ s \in pictures
      BY <1>1, <1>2, <2>3
    <3> QED
      BY <1>6, <1>8, <1>11, <2>3, <3>1, <3>2, <3>3
  <2> QED
    BY <1>1, <1>2, <2>1, <2>2, <2>3
<1> QED
  BY <1>6, <1>7, <1>12 DEF PicturesAwaited

\* An answer that the page waited for is on the screen.
LEMMA PicturesRead ==
  ASSUME ProfileInv, PicturesAwaited, NEW c \in Calls, Profile!PictureAnswered(c), call[c].here
  PROVE  PicturesAwaited'
<1>0. ProfileTypeOK /\ PageCalls
  BY DEF ProfileInv
<1>1. /\ call[c].at = "done" /\ call[c].what \in {"add", "delete"} /\ pictures' = pictures
      /\ call[c].sent \in Pictures /\ shown'.hidden = shown.hidden
      /\ \A d \in Calls : call'[d] = IF d = c THEN [at |-> "idle"] ELSE call[d]
  BY <1>0, PictureRead, BecomesCalls
<1>2. Mine(c)
  BY <1>1 DEF Mine, Drawing
<1>3. PICK w \in {"add", "delete"}, s \in Pictures : w = call[c].what /\ s = call[c].sent
  BY <1>1
<1>4. /\ w = "add" => shown'.pictures = shown.pictures \cup {s}
      /\ w = "delete" => shown'.pictures = shown.pictures \ {s}
  BY <1>0, <1>3, PictureRead
<1>5. ASSUME NEW d \in Calls \ {c}, Mine(d), call[d].what = "add" \/ w = "add"
      PROVE  call[d].sent # s
  BY <1>0, <1>2, <1>3, <1>5 DEF PageCalls
<1>6. s \notin shown.hidden
  BY <1>0, <1>2, <1>3 DEF PageCalls
<1>7. \A r \in Pictures : r # s => /\ Unread("add", r)' <=> Unread("add", r)
                                   /\ Unread("delete", r)' <=> Unread("delete", r)
  BY <1>1, <1>3 DEF Unread, Mine, Drawing
<1>8. Unread(w, s)
  BY <1>1, <1>2, <1>3 DEF Unread
<1>9. \A d \in Calls : Mine(d)' => d \in Calls \ {c} /\ Mine(d) /\ call'[d] = call[d]
  BY <1>1 DEF Mine, Drawing
<1>10. ~Unread("add", s)'
  BY <1>5, <1>9 DEF Unread
<1>11. w = "add" => ~Unread("delete", s)'
  BY <1>5, <1>9 DEF Unread
<1>12. w = "delete" => ~Unread("add", s)
  BY <1>3, <1>5 DEF Unread
<1>13. \A r \in Pictures : r \in pictures <=> \/ r \in shown.hidden \/ Unread("add", r)
                                              \/ r \in shown.pictures /\ ~Unread("delete", r)
  BY DEF PicturesAwaited
<1>14. \A r \in Pictures : r \in pictures' <=> \/ r \in shown'.hidden \/ Unread("add", r)'
                                               \/ r \in shown'.pictures /\ ~Unread("delete", r)'
  <2>1. CASE w = "add"
    BY <1>1, <1>4, <1>7, <1>8, <1>11, <1>13, <2>1
  <2>2. CASE w = "delete"
    BY <1>1, <1>4, <1>6, <1>7, <1>8, <1>10, <1>12, <1>13, <2>2
  <2> QED
    BY <2>1, <2>2
<1>15. \A d \in Calls : Drawing(d)' => call'[d].here \/ call'[d].at \in {"done", "refused"}
  BY <1>1 DEF Drawing, PicturesAwaited
<1> QED
  BY <1>14, <1>15 DEF PicturesAwaited

LEMMA UnsureStays ==
  ASSUME Profile!Next
  PROVE  /\ "profile" \in unsure => "profile" \in unsure'
         /\ ~Profile!ServeRead => unsure \subseteq unsure'
<1>1. CASE Profile!ServeRead
  BY <1>1 DEF Profile!ServeRead
<1>2. CASE Profile!Submit
  BY <1>2 DEF Profile!Submit
<1>3. ASSUME NEW c \in Calls, Profile!Lose(c)
      PROVE  unsure \subseteq unsure'
  BY <1>3 DEF Profile!Lose
<1>4. CASE \/ Profile!Reopen \/ Profile!Read \/ Profile!Editing \/ Profile!Type
           \/ Profile!handleAddPortfolio \/ Profile!handleDeletePortfolio
           \/ Profile!Approve \/ Profile!ChangePlan
  BY <1>4 DEF Profile!Reopen, Profile!Read, Profile!Editing, Profile!Type, Profile!handleAddPortfolio,
     Profile!handleDeletePortfolio, Profile!Approve, Profile!ChangePlan
<1>5. ASSUME NEW c \in Calls, \/ Profile!ServeSave(c) \/ Profile!Saved(c) \/ Profile!Refused(c)
                              \/ Serve(c) \/ Profile!PictureAnswered(c)
      PROVE  unsure' = unsure
  BY <1>5, ServeFrame DEF Profile!ServeSave, Profile!Saved, Profile!Refused, Profile!PictureAnswered
<1> QED
  BY <1>1, <1>2, <1>3, <1>4, <1>5, ProfileNext

LEMMA PicturesKeep ==
  ASSUME ProfileInv, Profile!Next, "pictures" \notin unsure', shown'.at # "none"
  PROVE  PicturesAwaited'
<1>0. ProfileTypeOK /\ PageCalls
  BY DEF ProfileInv
<1>1. CASE Profile!ServeRead
  <2>1. \A c \in Calls : Drawing(c) => call[c].at \in {"done", "refused"}
    <3>1. Profile!Unserved = {}
      BY <1>1 DEF Profile!ServeRead
    <3>2. \A c \in Calls : Drawing(c) => c \in Profile!InFlight /\ call[c].what # "save"
      BY DEF Drawing, Profile!InFlight, Profile!Idle
    <3>3. \A c \in Calls : Drawing(c) => call[c].at \in {"sent", "count", "create", "done", "refused"}
      BY <1>0, CallFields DEF Drawing, ProfileTypeOK
    <3> QED
      BY <3>1, <3>2, <3>3 DEF Profile!Unserved
  <2>2. shown.at # "read" /\ call' = call /\ pictures' = pictures
    BY <1>0, <1>1, ReadServed
  <2>3. \A c \in Calls : ~Mine(c)' /\ (Drawing(c)' <=> Drawing(c))
    BY <1>0, <2>2 DEF PageCalls, Mine, Drawing
  <2>4. \A p \in Pictures : ~Unread("add", p)' /\ ~Unread("delete", p)'
    BY <2>3 DEF Unread
  <2>5. \A p \in Pictures : p \in pictures' <=> p \in shown'.hidden \/ p \in shown'.pictures
    BY <1>0, <1>1, <2>2, ReadServed
  <2> QED
    BY <2>1, <2>2, <2>3, <2>4, <2>5 DEF PicturesAwaited
<1>2. CASE Profile!Reopen
  BY <1>0, <1>2, Reopened
<1>3. CASE ~Profile!ServeRead /\ ~Profile!Reopen
  <2>1. shown.at # "none"
    <3>1. CASE Profile!Read
      BY <1>0, <3>1, ReadArrived
    <3>2. CASE \/ Profile!Editing \/ Profile!Type \/ Profile!Submit
               \/ Profile!handleAddPortfolio \/ Profile!handleDeletePortfolio
               \/ Profile!Approve \/ Profile!ChangePlan
      BY <3>2 DEF Profile!Editing, Profile!Type, Profile!Submit, Profile!handleAddPortfolio,
         Profile!handleDeletePortfolio, Profile!Approve, Profile!ChangePlan, Profile!pageVars
    <3>3. ASSUME NEW c \in Calls, \/ Profile!ServeSave(c) \/ Profile!Saved(c) \/ Profile!Refused(c)
                                  \/ Profile!Lose(c) \/ Serve(c) \/ Profile!PictureAnswered(c)
          PROVE  shown'.at = shown.at
      <4>1. Profile!ServeSave(c) => shown'.at = shown.at
        BY DEF Profile!ServeSave, Profile!pageVars
      <4> QED
        BY <1>0, <3>3, <4>1, SaveRead, ErrorRead, CallFails, ServeFrame, PictureRead
    <3> QED
      BY <1>3, <3>1, <3>2, <3>3, ProfileNext
  <2>2. PicturesAwaited
    BY <1>3, <2>1, UnsureStays DEF ProfileInv
  <2>3. CASE Profile!Read
    <3>1. pictures' = pictures /\ call' = call /\ shown'.pictures = shown.pictures /\ shown'.hidden = shown.hidden
      BY <1>0, <2>3, ReadArrived
    <3>2. \A c \in Calls : Drawing(c)' <=> Drawing(c)
      BY <3>1 DEF Drawing
    <3>3. \A p \in Pictures : /\ Unread("add", p)' <=> Unread("add", p)
                              /\ Unread("delete", p)' <=> Unread("delete", p)
      BY <3>1 DEF Unread, Mine, Drawing
    <3> QED
      BY <2>2, <3>1, <3>2, <3>3, PicturesFrame DEF PicturesAwaited
  <2>4. CASE Profile!Editing \/ Profile!Type \/ Profile!Approve \/ Profile!ChangePlan
    <3>1. pictures' = pictures /\ call' = call /\ shown' = shown
      BY <2>4 DEF Profile!Editing, Profile!Type, Profile!Approve, Profile!ChangePlan, Profile!serverVars,
         Profile!pageVars
    <3>2. \A c \in Calls : Drawing(c)' <=> Drawing(c)
      BY <3>1 DEF Drawing
    <3>3. \A p \in Pictures : /\ Unread("add", p)' <=> Unread("add", p)
                              /\ Unread("delete", p)' <=> Unread("delete", p)
      BY <3>1 DEF Unread, Mine, Drawing
    <3> QED
      BY <2>2, <3>1, <3>2, <3>3, PicturesFrame DEF PicturesAwaited
  <2>5. CASE Profile!Submit
    <3>1. PICK c \in Calls, x \in Profiles :
            /\ call[c].at = "idle"
            /\ Becomes(c, [at |-> "sent", what |-> "save", sent |-> x, here |-> TRUE])
      BY <1>0, <2>5, SubmitSends
    <3>2. pictures' = pictures /\ shown' = shown
      BY <2>5 DEF Profile!Submit, Profile!serverVars
    <3>3. \A q : q = [at |-> "sent", what |-> "save", sent |-> x, here |-> TRUE] => q.what = "save"
      OBVIOUS
    <3> QED
      BY <1>0, <2>2, <3>1, <3>2, <3>3, PicturesFrameOther
  <2>6. CASE Profile!handleAddPortfolio \/ Profile!handleDeletePortfolio
    <3>1. PICK c \in Calls, p \in Pictures, what \in {"add", "delete"} :
            /\ call[c].at = "idle"
            /\ Becomes(c, [at |-> "sent", what |-> what, sent |-> p, here |-> TRUE])
      BY <1>0, <2>6, PictureSends
    <3>2. pictures' = pictures /\ shown' = shown
      BY <2>6 DEF Profile!handleAddPortfolio, Profile!handleDeletePortfolio, Profile!serverVars, Profile!pageVars
    <3>3. \A d \in Calls : call'[d] = IF d = c THEN [at |-> "sent", what |-> what, sent |-> p, here |-> TRUE]
                                      ELSE call[d]
      BY <1>0, <3>1, BecomesCalls
    <3>4. \A d \in Calls : d # c => call'[d] = call[d]
      BY <3>3
    <3>5. call'[c].at = "sent" /\ call'[c].here
      BY <3>3
    <3>6. \A d \in Calls : Drawing(d)' => call'[d].here \/ call'[d].at \in {"done", "refused"}
      BY <2>2, <3>4, <3>5 DEF Drawing, PicturesAwaited
    <3>7. \A r \in Pictures : Unread("add", r)' <=> Unread("add", r)
      BY <3>1, <3>4, <3>5 DEF Unread, Mine, Drawing
    <3>8. \A r \in Pictures : Unread("delete", r)' <=> Unread("delete", r)
      BY <3>1, <3>4, <3>5 DEF Unread, Mine, Drawing
    <3> QED
      BY <2>2, <3>2, <3>6, <3>7, <3>8, PicturesFrame
  <2>7. ASSUME NEW c \in Calls, Profile!ServeSave(c)
        PROVE  PicturesAwaited'
    <3>1. /\ call[c].at = "sent"
          /\ Becomes(c, [at |-> "done", what |-> "save", here |-> call[c].here, sent |-> user',
                         approved |-> approved, premium |-> premiumPro])
      BY <1>0, <2>7, SaveServed
    <3>2. pictures' = pictures /\ shown' = shown
      BY <2>7 DEF Profile!ServeSave, Profile!pageVars
    <3>3. \A q : q = [at |-> "done", what |-> "save", here |-> call[c].here, sent |-> user',
                      approved |-> approved, premium |-> premiumPro] => q.what = "save"
      OBVIOUS
    <3> QED
      BY <1>0, <2>2, <3>1, <3>2, <3>3, PicturesFrameOther
  <2>8. ASSUME NEW c \in Calls, Profile!Saved(c) \/ Profile!Refused(c)
        PROVE  PicturesAwaited'
    <3>1. /\ Becomes(c, [at |-> "idle"]) /\ (call[c].at = "done" => call[c].what = "save")
          /\ pictures' = pictures /\ shown'.pictures = shown.pictures /\ shown'.hidden = shown.hidden
      BY <1>0, <2>8, SaveRead, ErrorRead
    <3>2. \A q : q = [at |-> "idle"] => q.at = "idle"
      OBVIOUS
    <3> QED
      BY <1>0, <2>2, <3>1, <3>2, PicturesFrameOther
  <2>9. ASSUME NEW c \in Calls, Profile!Lose(c)
        PROVE  PicturesAwaited'
    <3>1. PICK q : q = [call[c] EXCEPT !.at = "refused"]
      OBVIOUS
    <3>2. Becomes(c, q) /\ pictures' = pictures /\ shown' = shown
      BY <1>0, <2>9, <3>1, CallFails
    <3>3. call'[c] = q
      BY <1>0, <3>2, BecomesCalls
    <3>4. q.at = "refused" /\ (call[c].at = "done" => call[c].what = "save")
      BY <1>0, <2>9, <3>3, CallFails
    <3> QED
      BY <1>0, <2>2, <3>2, <3>4, PicturesFrameOther
  <2>10. ASSUME NEW c \in Calls, Profile!PictureAnswered(c)
         PROVE  PicturesAwaited'
    <3>1. CASE call[c].here
      BY <2>2, <2>10, <3>1, PicturesRead
    <3>2. CASE ~call[c].here
      <4>1. \A q : q = [at |-> "idle"] => q.at = "idle"
        OBVIOUS
      <4> QED
        BY <1>0, <2>2, <2>10, <3>2, <4>1, PictureRead, PicturesFrameOther
    <3> QED
      BY <3>1, <3>2
  <2> QED
    BY <1>3, <2>2, <2>3, <2>4, <2>5, <2>6, <2>7, <2>8, <2>9, <2>10, ProfileNext, PicturesServed
<1> QED
  BY <1>1, <1>2, <1>3

LEMMA ProfileKeeps ==
  ASSUME ProfileInv, [Next]_vars
  PROVE  ProfileInv'
<1>1. CASE UNCHANGED profileVars
  <2>1. \A c \in Calls : (Saving(c)' <=> Saving(c)) /\ (Drawing(c)' <=> Drawing(c)) /\ (Mine(c)' <=> Mine(c))
    BY <1>1 DEF profileVars, Saving, Drawing, Mine
  <2>2. \A what, p : Unread(what, p)' <=> Unread(what, p)
    BY <1>1 DEF profileVars, Unread, Mine, Drawing
  <2>3. ProfileTypeOK' /\ ClientPage' /\ unsure' = unsure /\ shown' = shown
    BY <1>1 DEF profileVars, ProfileInv, ProfileTypeOK, ClientPage
  <2>4. SaveAwaited => SaveAwaited'
    BY <1>1, <2>1 DEF profileVars, SaveAwaited
  <2>5. PicturesAwaited => PicturesAwaited'
    BY <1>1, <2>1, <2>2 DEF profileVars, PicturesAwaited
  <2>6. PageCalls => PageCalls'
    BY <1>1, <2>1 DEF profileVars, PageCalls
  <2> QED
    BY <2>3, <2>4, <2>5, <2>6 DEF ProfileInv
<1>2. CASE Profile!Next
  <2>1. ProfileTypeOK' /\ ClientPage' /\ PageCalls'
    BY <1>2, ProfileTypes, ClientPageKeeps, PageKeeps DEF ProfileInv
  <2>2. "profile" \notin unsure' => SaveAwaited'
    BY <1>2, SaveKeeps, UnsureStays DEF ProfileInv
  <2>3. "pictures" \notin unsure' /\ shown'.at # "none" => PicturesAwaited'
    BY <1>2, PicturesKeep
  <2> QED
    BY <2>1, <2>2, <2>3 DEF ProfileInv
<1> QED
  BY <1>1, <1>2, ProfileSteps

\* When all answers are there the store has what the server has, whatever was typed and
\* whichever page was left while a save was running, unless two saves met or an answer was
\* lost; and the portfolio on the page is the stored one, but for the pictures past the
\* limit, unless an answer was lost or it was read while an earlier request was served.
THEOREM ProfileShownHolds == Spec => []ProfileShown
<1>1. ProfileInv => ProfileShown
  <2> SUFFICES ASSUME ProfileInv, Profile!InFlight = {} PROVE Profile!ProfileShown
    BY DEF ProfileShown, Profile!ProfileShown
  <2>1. \A c \in Calls : call[c].at = "idle"
    BY DEF Profile!InFlight, Profile!Idle
  <2>2. \A c \in Calls : ~Saving(c) /\ ~Drawing(c)
    BY <2>1 DEF Saving, Drawing
  <2>3. \A p \in Pictures : ~Unread("add", p) /\ ~Unread("delete", p)
    BY <2>1 DEF Unread
  <2>4. "profile" \notin unsure => store.phone = user.phone /\ (who = "CLIENT" => store = user)
    BY <2>2 DEF ProfileInv, SaveAwaited
  <2>5. shown.pictures \subseteq Pictures /\ pictures \subseteq Pictures
    BY DEF ProfileInv, ProfileTypeOK, Views
  <2>6. \A p \in shown.pictures : p \notin shown.hidden
    BY DEF ProfileInv, PageCalls
  <2>7. "pictures" \notin unsure /\ shown.at # "none" => shown.pictures = pictures \ shown.hidden
    BY <2>3, <2>5, <2>6 DEF ProfileInv, PicturesAwaited
  <2> QED
    BY <2>4, <2>7 DEF Profile!ProfileShown, ProfileInv, ClientPage
<1>2. ProfileInv /\ [Next]_vars => ProfileInv'
  BY ProfileKeeps
<1> QED
  BY <1>1, <1>2, ProfileInit, SafetyPart, PTL

=============================================================================
