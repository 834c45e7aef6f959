------------------------------- MODULE AiCalls -------------------------------
(***************************************************************************)
(* The paid calls of AI providers: the extraction runs of policies         *)
(* (services/api/src/policy-ai/store.ts) and the suggestions for e-mails   *)
(* (services/api/src/email-ai/store.ts).  A request reserves a receipt in  *)
(* one transaction, calls the provider outside of any, records the answer  *)
(* on the receipt in a second and settles run, receipt and usage ledger in *)
(* a third; it may die in between, and people send it again.  Both modules *)
(* spend one monthly budget, under one advisory lock.                      *)
(*                                                                         *)
(* Costs are small numbers; a provider charges no more than the estimate.  *)
(* A run stands for one plan: its bundle or preview, provider and prompt.  *)
(***************************************************************************)
EXTENDS Naturals, Sequences, FiniteSets, FiniteSetsExt

CONSTANTS
  Runs,
  ModuleOf,    \* [Runs -> {"policy", "email"}]
  Estimate,    \* [Runs -> Nat]: estimated_cost_minor
  Budget,      \* monthlyBudgetMinor, with monthlyHardStop
  Requests,    \* HTTP requests that start a run
  Months       \* bound on the months considered

VARIABLES
  run,       \* [Runs -> status in ai_extraction_runs, email_ai_suggestion_runs]
  receipt,   \* [Runs -> row of ai_provider_call_receipts, email_ai_provider_receipts]
  booked,    \* [Runs -> Seq of rows of ai_usage_ledger]; a blocked start books
             \* nothing and is left out
  month,
  overdue,   \* runs whose call was reserved more than twice the timeout ago
  changed,   \* runs whose sources went stale, or whose case was edited or closed
  at,        \* [Requests -> where the request is]
  calls      \* history: [Runs -> times the provider was called]

vars == <<run, receipt, booked, month, overdue, changed, at, calls>>

Blockable == {"planned", "budget_blocked"}
Ended == {"review_required", "failed", "outcome_unknown"}

\* A cost column is a set: {} is NULL.
NoReceipt == [status |-> "none", month |-> 0, kind |-> "none", actual |-> {}]
Idle == [step |-> "idle"]

Init ==
  /\ run = [r \in Runs |-> "none"]
  /\ receipt = [r \in Runs |-> NoReceipt]
  /\ booked = [r \in Runs |-> <<>>]
  /\ month = 1
  /\ overdue = {} /\ changed = {}
  /\ at = [q \in Requests |-> Idle]
  /\ calls = [r \in Runs |-> 0]

Policy(r) == ModuleOf[r] = "policy"

-----------------------------------------------------------------------------
(* The budget                                                              *)

OpenReceipt == {"dispatch_reserved", "response_recorded", "outcome_unknown"}

Coalesce(cost, default) == IF cost = {} THEN default ELSE Max(cost)

\* coalesce(actual_cost_minor, estimated_cost_minor)
Held(r) == Coalesce(receipt[r].actual, Estimate[r])

\* The rows of the ledger with a cost, started_at being when they are written.
Booked(r) ==
  SumFunction([i \in DOMAIN booked[r] |->
    IF booked[r][i].month = month THEN Coalesce(booked[r][i].actual, 0) ELSE 0])

Reserved(r) ==
  IF receipt[r].status \in OpenReceipt /\ receipt[r].month = month THEN Held(r) ELSE 0

\* Mutant of CurrentMonthCost: each module counts its own open receipts.
OwnMonthCost(m) ==
  SumFunction([r \in Runs |-> Booked(r)]) +
  SumFunction([r \in Runs |-> IF ModuleOf[r] = m THEN Reserved(r) ELSE 0])

\* currentMonthCost, for a run of module m
CurrentMonthCost(m) ==
  SumFunction([r \in Runs |-> Booked(r)]) + SumFunction([r \in Runs |-> Reserved(r)])

\* evaluatePolicyAiBudget
WithinBudget(r) == CurrentMonthCost(ModuleOf[r]) + Estimate[r] <= Budget

-----------------------------------------------------------------------------
(* The start of a run                                                      *)

\* plan of the policy module; the plan of an e-mail leaves no row.
Plan(r) ==
  /\ Policy(r) /\ run[r] = "none"
  /\ run' = [run EXCEPT ![r] = "planned"]
  /\ UNCHANGED <<receipt, booked, month, overdue, changed, at, calls>>

\* cancel
Cancel(r) ==
  /\ Policy(r) /\ run[r] \in Blockable
  /\ run' = [run EXCEPT ![r] = "cancelled"]
  /\ UNCHANGED <<receipt, booked, month, overdue, changed, at, calls>>

\* Mutant of Dispatchable: a call that was not heard of is made again.
DispatchableAgain(r) ==
  \/ receipt[r].status = "none" /\ run[r] \in (IF Policy(r) THEN Blockable ELSE {"none"})
  \/ r \in overdue /\ receipt[r].status = "dispatch_reserved"

\* No call was made for the run; a blocked e-mail run stays as it is.
Dispatchable(r) ==
  receipt[r].status = "none" /\ run[r] \in (IF Policy(r) THEN Blockable ELSE {"none"})

\* generate looks at the plan of the case as it is, start at a run by its id.
PlanHolds(r) == Policy(r) \/ r \notin changed

\* The estimate is reserved and the request goes on to the provider.
Dispatch(q, r) ==
  /\ Dispatchable(r) /\ r \notin changed /\ WithinBudget(r)
  /\ run' = [run EXCEPT ![r] = "running"]
  /\ receipt' = [receipt EXCEPT ![r] = [NoReceipt EXCEPT !.status = "dispatch_reserved",
                                                         !.month = month]]
  /\ at' = [at EXCEPT ![q] = [step |-> "calling", run |-> r]]
  /\ calls' = [calls EXCEPT ![r] = @ + 1]
  /\ UNCHANGED <<booked, month, overdue, changed>>

\* finalizeBlocked
Block(q, r) ==
  /\ Dispatchable(r) /\ r \notin changed /\ ~WithinBudget(r)
  /\ run' = [run EXCEPT ![r] = "budget_blocked"]
  /\ UNCHANGED <<receipt, booked, month, overdue, changed, at, calls>>

\* start of a policy run whose sources are not what they were.
GoStale(q, r) ==
  /\ Policy(r) /\ Dispatchable(r) /\ r \in changed
  /\ run' = [run EXCEPT ![r] = "stale"]
  /\ UNCHANGED <<receipt, booked, month, overdue, changed, at, calls>>

\* A request that finds an answer recorded settles it; one that finds a call of
\* an e-mail overdue gives it up.  A policy run has nobody to give it up.
Resume(q, r) ==
  /\ PlanHolds(r)
  /\ \/ /\ receipt[r].status = "response_recorded"
        /\ at' = [at EXCEPT ![q] = [step |-> "finalizing", run |-> r]]
     \/ /\ ~Policy(r) /\ r \in overdue /\ receipt[r].status = "dispatch_reserved"
        /\ at' = [at EXCEPT ![q] = [step |-> "giving_up", run |-> r]]
  /\ UNCHANGED <<run, receipt, booked, month, overdue, changed, calls>>

\* start, generate: the first transaction.
Start(q, r) ==
  /\ at[q] = Idle
  /\ Dispatch(q, r) \/ Block(q, r) \/ GoStale(q, r) \/ Resume(q, r)

-----------------------------------------------------------------------------
(* The call and what follows                                               *)

\* What is known of an answer: success with its cost, never above the estimate, or
\* failure, of which no cost is recorded if its usage is missing or not plausible.
Answers(r) ==
  [kind : {"success"}, actual : {{c} : c \in 0..Estimate[r]}]
  \cup [kind : {"failure"}, actual : {{}} \cup {{c} : c \in 0..Estimate[r]}]

ProviderAnswers(q) ==
  /\ at[q].step = "calling"
  /\ \E answer \in Answers(at[q].run) :
       at' = [at EXCEPT ![q] = [step |-> "recording", run |-> at[q].run, answer |-> answer]]
  /\ UNCHANGED <<run, receipt, booked, month, overdue, changed, calls>>

\* The connection breaks or the call times out: nobody knows whether it ran.
CallFails(q) ==
  /\ at[q].step = "calling"
  /\ at' = [at EXCEPT ![q] = [step |-> "giving_up", run |-> at[q].run]]
  /\ UNCHANGED <<run, receipt, booked, month, overdue, changed, calls>>

\* Mutant of Recordable: an answer is recorded whenever it comes.
RecordableLate(r) == TRUE

Recordable(r) == receipt[r].status = "dispatch_reserved"

\* recordProviderResult
Record(q) ==
  /\ at[q].step = "recording"
  /\ LET r == at[q].run IN
       /\ receipt' = IF Recordable(r)
                     THEN [receipt EXCEPT ![r].status = "response_recorded",
                                          ![r].kind = at[q].answer.kind,
                                          ![r].actual = at[q].answer.actual]
                     ELSE receipt
       /\ at' = [at EXCEPT ![q] = [step |-> "finalizing", run |-> r]]
  /\ UNCHANGED <<run, booked, month, overdue, changed, calls>>

\* A call is booked in the month in which it is settled.
Book(r, actual) ==
  booked' = [booked EXCEPT ![r] = Append(@, [month |-> month, actual |-> actual])]

\* finalizeRecordedReceipt
Finalize(q) ==
  /\ at[q].step = "finalizing"
  /\ LET r == at[q].run IN
       IF receipt[r].status = "response_recorded" /\ run[r] = "running"
       THEN /\ receipt' = [receipt EXCEPT ![r].status = "finalized"]
            /\ run' = [run EXCEPT ![r] = IF receipt[r].kind = "success"
                                         THEN "review_required" ELSE "failed"]
            /\ Book(r, receipt[r].actual)
       ELSE UNCHANGED <<run, receipt, booked>>
  /\ at' = [at EXCEPT ![q] = Idle]
  /\ UNCHANGED <<month, overdue, changed, calls>>

GivenUp(r) == [receipt EXCEPT ![r].status = "outcome_unknown", ![r].kind = "failure"]

\* finalizeOutcomeUnknown: the estimate stays reserved.
GiveUp(q) ==
  /\ at[q].step = "giving_up"
  /\ LET r == at[q].run IN
       IF receipt[r].status = "dispatch_reserved"
       THEN /\ receipt' = GivenUp(r)
            /\ run' = [run EXCEPT ![r] = IF Policy(r) THEN "failed" ELSE "outcome_unknown"]
            /\ Book(r, {})
       ELSE UNCHANGED <<run, receipt, booked>>
  /\ at' = [at EXCEPT ![q] = Idle]
  /\ UNCHANGED <<month, overdue, changed, calls>>

\* The process, or its connection to the database, goes away.
Dies(q) ==
  /\ at[q] # Idle
  /\ at' = [at EXCEPT ![q] = Idle]
  /\ UNCHANGED <<run, receipt, booked, month, overdue, changed, calls>>

-----------------------------------------------------------------------------
(* What happens meanwhile                                                  *)

BecomesOverdue(r) ==
  /\ receipt[r].status = "dispatch_reserved" /\ r \notin overdue
  /\ overdue' = overdue \cup {r}
  /\ UNCHANGED <<run, receipt, booked, month, changed, at, calls>>

Changes(r) ==
  /\ r \notin changed
  /\ changed' = changed \cup {r}
  /\ UNCHANGED <<run, receipt, booked, month, overdue, at, calls>>

MonthEnds ==
  /\ month < Months
  /\ month' = month + 1
  /\ UNCHANGED <<run, receipt, booked, overdue, changed, at, calls>>

Next ==
  \/ \E r \in Runs : Plan(r) \/ Cancel(r) \/ BecomesOverdue(r) \/ Changes(r)
  \/ \E q \in Requests, r \in Runs : Start(q, r)
  \/ \E q \in Requests : \/ ProviderAnswers(q) \/ CallFails(q) \/ Record(q)
                         \/ Finalize(q) \/ GiveUp(q) \/ Dies(q)
  \/ MonthEnds

Spec == Init /\ [][Next]_vars

-----------------------------------------------------------------------------
(* Correctness                                                             *)

TypeOK ==
  /\ \A r \in Runs :
       /\ run[r] \in {"none", "running", "cancelled", "stale"} \cup Blockable \cup Ended
       /\ receipt[r].status \in {"none", "finalized"} \cup OpenReceipt
       /\ Cardinality(receipt[r].actual) <= 1
  /\ month \in 1 .. Months /\ overdue \subseteq Runs /\ changed \subseteq Runs

\* What the program counts for a call: what it is known to have cost, or its estimate
\* as long as the call is open or nobody knows whether it ran (outcome_unknown).  An
\* answer that was settled without a cost, since its usage was not plausible
\* (validateProviderResponseForReceipt), counts nothing: what it really cost is seen
\* neither by the receipts nor by the ledger (finalizeFailure, currentMonthCost).
Charged(r) ==
  IF receipt[r].status = "finalized" THEN Coalesce(receipt[r].actual, 0) ELSE Held(r)

\* What is counted for the calls made in a month is within the budget of the month,
\* whatever the two modules start at a time, whichever of their requests die, and
\* though a call is booked in the month in which it is settled (lockMonthlyBudget,
\* currentMonthCost).  It bounds what the calls really cost only where their costs
\* are known: answers that were settled without one come on top.
MonthsStayWithinBudget ==
  \A m \in 1 .. Months :
    SumFunction([r \in Runs |-> IF receipt[r].month = m THEN Charged(r) ELSE 0]) <= Budget

\* However often a request is sent again after a crash or a lost answer, the
\* provider is called once for a run at most.
OneCallPerRun == \A r \in Runs : calls[r] <= 1

\* Run, receipt and ledger tell one story after every crash: a run is running as
\* long as its call is open, has a result if the provider gave one, and its
\* call is booked once, when it has ended.
RunTellsItsCall ==
  \A r \in Runs :
    /\ run[r] = "running" <=> receipt[r].status \in {"dispatch_reserved", "response_recorded"}
    /\ run[r] = "review_required" <=> receipt[r].status = "finalized" /\ receipt[r].kind = "success"
    /\ Len(booked[r]) = (IF run[r] \in Ended THEN 1 ELSE 0)
=============================================================================
