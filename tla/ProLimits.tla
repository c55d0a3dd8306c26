------------------------------ MODULE ProLimits ------------------------------
(***************************************************************************)
(* ProService: what a professional may put on the public page, which       *)
(* depends on the plan.  The plan is read first and the rows are written   *)
(* later, so a plan that starts or ends in between, or a second request,   *)
(* meets a check that is already past.  Each request is a worker.          *)
(***************************************************************************)
EXTENDS Naturals, FiniteSets

CONSTANTS Categories,         \* the categories a service can be in
          Saves,              \* requests about the services in flight at once
          Uploads,            \* requests about the portfolio in flight at once
          FREE_SERVICES_MAX, PREMIUM_SERVICES_MAX, PORTFOLIO_MAX

VARIABLES
  premium,    \* what isPremiumPro answers
  services,   \* the categories of the active ProService rows
  saving,     \* saving[w]: the list updateServices writes, and the rows it deletes
  portfolio,  \* number of ProPortfolioImage rows
  upload,     \* upload[w]: what a request about the portfolio does
  lapses,     \* history: the plan ended since the list of the last commit was checked
  mixed       \* history: another save committed while that one deleted its rows

limitVars == <<premium, services, saving, portfolio, upload, lapses, mixed>>

\* A save: its list, the rows its deletion found, and what happened since its check.
Save(pc, list, gone) == [pc |-> pc, list |-> list, gone |-> gone, lapsed |-> FALSE, met |-> FALSE]
NotSaving == Save("idle", {}, {})

Init ==
  /\ premium \in BOOLEAN
  /\ services = {} /\ saving = [w \in Saves |-> NotSaving]
  /\ portfolio = 0 /\ upload = [w \in Uploads |-> "idle"]
  /\ lapses = FALSE /\ mixed = FALSE

maxServices == IF premium THEN PREMIUM_SERVICES_MAX ELSE FREE_SERVICES_MAX

-----------------------------------------------------------------------------
\* updateServices: the limit of the plan at the time of the request ...
CheckServices(w, list) ==
  /\ saving[w].pc = "idle"
  /\ Cardinality(list) <= maxServices
  /\ saving' = [saving EXCEPT ![w] = Save("delete", list, {})]
  /\ UNCHANGED <<premium, services, portfolio, upload, lapses, mixed>>

\* ... then a transaction at READ COMMITTED, whose deleteMany takes the rows that are
\* committed when it starts ...
DeleteServices(w) ==
  /\ saving[w].pc = "delete"
  /\ saving' = [saving EXCEPT ![w].pc = "create", ![w].gone = services]
  /\ UNCHANGED <<premium, services, portfolio, upload, lapses, mixed>>

\* A commit: what another save deleted is not there any more for those that wait for it.
Commit(w, rows) ==
  /\ services' = rows
  /\ saving' = [x \in Saves |->
                  IF x = w THEN NotSaving
                  ELSE IF saving[x].pc = "create"
                  THEN [saving[x] EXCEPT !.gone = @ \ saving[w].gone, !.met = TRUE]
                  ELSE saving[x]]
  /\ lapses' = saving[w].lapsed /\ mixed' = saving[w].met
  /\ UNCHANGED <<premium, portfolio, upload>>

\* Mutant: the rows of before are not deleted.
AddServices(w) ==
  /\ saving[w].pc = "create"
  /\ Commit(w, services \cup saving[w].list)

\* ... and whose createMany fails when a row of the same category was committed since.
ReplaceServices(w) ==
  /\ saving[w].pc = "create"
  /\ (services \ saving[w].gone) \cap saving[w].list = {}
  /\ Commit(w, (services \ saving[w].gone) \cup saving[w].list)

\* The transaction is rolled back, for that reason or another.
Rollback(w) ==
  /\ saving[w].pc \in {"delete", "create"}
  /\ saving' = [saving EXCEPT ![w] = NotSaving]
  /\ UNCHANGED <<premium, services, portfolio, upload, lapses, mixed>>

-----------------------------------------------------------------------------
Goto(w, from, to) == upload[w] = from /\ upload' = [upload EXCEPT ![w] = to]
Keeps == UNCHANGED <<premium, services, saving, lapses, mixed>>

\* addPortfolioImage: the plan, the count, then the row.
CheckPlan(w) ==
  /\ Goto(w, "idle", IF premium THEN "count" ELSE "idle")
  /\ Keeps /\ UNCHANGED portfolio

\* Mutant: the limit is one too high.
CountOneMore(w) ==
  /\ Goto(w, "count", IF portfolio > PORTFOLIO_MAX THEN "idle" ELSE "create")
  /\ Keeps /\ UNCHANGED portfolio

Count(w) ==
  /\ Goto(w, "count", IF portfolio >= PORTFOLIO_MAX THEN "idle" ELSE "create")
  /\ Keeps /\ UNCHANGED portfolio

Create(w) ==
  /\ Goto(w, "create", "idle")
  /\ portfolio' = portfolio + 1
  /\ Keeps

deletePortfolioImage ==
  /\ portfolio > 0
  /\ portfolio' = portfolio - 1
  /\ Keeps /\ UNCHANGED upload

\* A plan is activated, or ends, at any time.
ChangePlan ==
  /\ premium' = ~premium
  /\ lapses' = (lapses \/ premium)
  /\ saving' = [w \in Saves |-> IF saving[w].pc = "idle" THEN NotSaving
                                ELSE [saving[w] EXCEPT !.lapsed = @ \/ premium]]
  /\ UNCHANGED <<services, portfolio, upload, mixed>>

\* The two meet in the plan only.
ServicesNext ==
  \/ \E w \in Saves : \/ \E list \in SUBSET Categories : CheckServices(w, list)
                      \/ DeleteServices(w) \/ ReplaceServices(w) \/ Rollback(w)
  \/ ChangePlan

PortfolioNext ==
  \/ \E w \in Uploads : CheckPlan(w) \/ Count(w) \/ Create(w)
  \/ deletePortfolioImage \/ ChangePlan

-----------------------------------------------------------------------------
\* More services than the plan allows are shown only when a plan has ended since the
\* last list was checked, for nothing is withdrawn by itself, or when another save was
\* committed between the deletion and the commit of the last one: then the lists of both
\* stay, and only the next save that runs alone puts the limit right.
ServicesFollowPlan == Cardinality(services) > maxServices => lapses \/ mixed

\* Uploads that run at once may pass the limit of the portfolio, by no more images
\* than there are uploads beside the first.
PortfolioBounded == portfolio < PORTFOLIO_MAX + Cardinality(Uploads)

=============================================================================
