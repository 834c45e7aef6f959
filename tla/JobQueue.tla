------------------------------ MODULE JobQueue ------------------------------
(***************************************************************************)
(* The PostgreSQL job queue of the API (services/api/src/agent/store.ts)   *)
(* and the File Agents that poll it (services/file-agent/src/agent.ts),    *)
(* for the two verification targets: an uploaded document version (or      *)
(* photo) and a case location.                                             *)
(*                                                                         *)
(* Time is abstracted to two bits per job: `due' (next_attempt_at has      *)
(* passed) and `live' (lease_expires_at is still ahead).  A server         *)
(* transaction is one action.  An agent's report is an HTTP request: it is *)
(* put in `net' when it is sent and is handled, lost or handled late.      *)
(***************************************************************************)
EXTENDS Naturals, FiniteSets

CONSTANTS
  Agents,        \* agent identities (rows of `agents'); each runs one loop
  Documents,     \* document versions and photos, each verified once
  Locations,     \* case locations, re-verified each time they are assigned
  MaxAttempts,   \* jobs.max_attempts
  MaxVersion,    \* bound on how often a location is assigned
  MaxReports,    \* bound on the reports in flight at once
  Nobody         \* leased_by_agent_id = NULL, and a worker with no job

ASSUME QueueAssumption ==
  /\ MaxAttempts \in Nat \ {0}
  /\ MaxVersion \in Nat \ {0}
  /\ MaxReports \in Nat \ {0}
  /\ Documents \cap Locations = {}
  /\ Nobody \notin Agents

(***************************************************************************)
(* A job is identified by what it verifies: a target and its               *)
(* target_version (0 for a document version, which never changes).         *)
(***************************************************************************)
Jobs == (Documents \X {0}) \cup (Locations \X (1 .. MaxVersion))
Targets == Documents \cup Locations

Outcomes == {"verified", "mismatch", "missing", "failed"}
Terminal == {"succeeded", "failed", "dead_letter"}
Verdicts == {"ready", "failed", "missing"}

NoJob == [status |-> "absent", attempt |-> 0, holder |-> Nobody,
          live |-> FALSE, due |-> FALSE]

VARIABLES
  job,       \* [Jobs -> row of `jobs']
  target,    \* [Targets -> [status, version]]: the verified metadata row
  worker,    \* [Agents -> Jobs \cup {Nobody}]: what runOnce is working on
  net,       \* reports sent and not yet handled: [agent, job, outcome]
  observed   \* history: the jobs whose file or folder an agent found good

vars == <<job, target, worker, net, observed>>

JobRow == [status : {"absent", "pending", "leased"} \cup Terminal,
           attempt : 0 .. MaxAttempts,
           holder : Agents \cup {Nobody},
           live : BOOLEAN,
           due : BOOLEAN]
TargetRow == [status : {"pending"} \cup Verdicts, version : 0 .. MaxVersion]
Report == [agent : Agents, job : Jobs, outcome : Outcomes]

\* The types of the variables: the rows of the tables, the agents' loops and
\* the reports in flight; no job is ever leased more often than max_attempts.
TypeOK ==
  /\ job \in [Jobs -> JobRow]
  /\ target \in [Targets -> TargetRow]
  /\ worker \in [Agents -> Jobs \cup {Nobody}]
  /\ net \subseteq Report
  /\ observed \subseteq Jobs

Enqueued == [status |-> "pending", attempt |-> 0, holder |-> Nobody,
             live |-> FALSE, due |-> TRUE]

\* Every document is registered with its job in one transaction; a location
\* has been assigned once.
Init ==
  /\ job = [j \in Jobs |-> IF j[2] <= 1 THEN Enqueued ELSE NoJob]
  /\ target = [t \in Targets |-> [status |-> "pending",
                                  version |-> IF t \in Locations THEN 1 ELSE 0]]
  /\ worker = [a \in Agents |-> Nobody]
  /\ net = {}
  /\ observed = {}

-----------------------------------------------------------------------------
(* The queue                                                               *)

\* Mutant of Claimable: an expired lease is never taken over.
ClaimablePendingOnly(j) == job[j].status = "pending" /\ job[j].due

Claimable(j) ==
  \/ job[j].status = "pending" /\ job[j].due
  \/ job[j].status = "leased" /\ ~job[j].live

\* Mutant of BudgetLeft: one attempt too many.
BudgetLeftOffByOne(j) == job[j].attempt <= MaxAttempts

BudgetLeft(j) == job[j].attempt < MaxAttempts

\* The rows a job takes: leased, ended, put back with backoff.
Leased(j, a) ==
  [job[j] EXCEPT !.status = "leased", !.attempt = @ + 1,
                 !.holder = a, !.live = TRUE]
DeadLettered(j) ==
  [job[j] EXCEPT !.status = "dead_letter", !.holder = Nobody, !.live = FALSE]
Rescheduled(j) ==
  [job[j] EXCEPT !.status = "pending", !.holder = Nobody,
                 !.live = FALSE, !.due = FALSE]
Ended(j, status) == [job[j] EXCEPT !.status = status]

\* Mutant of MarkVerificationExhausted: the metadata row is forgotten.
ForgetExhausted(j) == target

\* A document that will never be verified fails; a location keeps waiting.
MarkVerificationExhausted(j) ==
  IF j[1] \in Documents /\ target[j[1]].status = "pending"
  THEN [target EXCEPT ![j[1]] = [@ EXCEPT !.status = "failed"]]
  ELSE target

\* claimJob: the response may be lost, and then nobody works on the job.
Claim(a, j) ==
  /\ worker[a] = Nobody
  /\ Claimable(j)
  /\ BudgetLeft(j)
  /\ job' = [job EXCEPT ![j] = Leased(j, a)]
  /\ worker' \in {worker, [worker EXCEPT ![a] = j]}
  /\ UNCHANGED <<target, net, observed>>

\* claimJob, when the attempt it would start is beyond max_attempts.
ClaimExhausted(a, j) ==
  /\ worker[a] = Nobody
  /\ Claimable(j)
  /\ ~BudgetLeft(j)
  /\ job' = [job EXCEPT ![j] = DeadLettered(j)]
  /\ target' = MarkVerificationExhausted(j)
  /\ UNCHANGED <<worker, net, observed>>

\* now() passes lease_expires_at: no heartbeat has moved it in time.
LeaseExpires(j) ==
  /\ job[j].status = "leased" /\ job[j].live
  /\ job' = [job EXCEPT ![j] = [@ EXCEPT !.live = FALSE]]
  /\ UNCHANGED <<target, worker, net, observed>>

\* now() passes next_attempt_at.
BackoffElapses(j) ==
  /\ job[j].status = "pending" /\ ~job[j].due
  /\ job' = [job EXCEPT ![j] = [@ EXCEPT !.due = TRUE]]
  /\ UNCHANGED <<target, worker, net, observed>>

-----------------------------------------------------------------------------
(* The agent                                                               *)

OutcomesOf(j) == IF j[1] \in Documents THEN Outcomes ELSE Outcomes \ {"mismatch"}

\* runOnce ends with a report: what the agent read decides the outcome.
SendReport(a) ==
  LET j == worker[a] IN
  /\ j # Nobody
  /\ Cardinality(net) < MaxReports
  /\ \E o \in OutcomesOf(j) :
       /\ net' = net \cup {[agent |-> a, job |-> j, outcome |-> o]}
       /\ observed' = IF o = "verified" THEN observed \cup {j} ELSE observed
  /\ worker' = [worker EXCEPT ![a] = Nobody]
  /\ UNCHANGED <<job, target>>

\* runOnce throws, its lease is lost or the process dies: nothing is sent.
Abandon(a) ==
  /\ worker[a] # Nobody
  /\ worker' = [worker EXCEPT ![a] = Nobody]
  /\ UNCHANGED <<job, target, net, observed>>

\* The request never reaches the API.
LoseReport(m) ==
  /\ m \in net
  /\ net' = net \ {m}
  /\ UNCHANGED <<job, target, worker, observed>>

-----------------------------------------------------------------------------
(* The results                                                             *)

\* Mutant of Accepted: the lease outlives the job, as its columns do.
AcceptedOnLease(m) == job[m.job].holder = m.agent /\ job[m.job].live

Accepted(m) ==
  /\ job[m.job].status = "leased"
  /\ job[m.job].holder = m.agent
  /\ job[m.job].live

\* reportResult refuses the report of an agent that holds no live lease, and
\* answers one about a terminal job with the state the job already has.
ReportRefused(m) ==
  /\ m \in net
  /\ ~Accepted(m)
  /\ net' = net \ {m}
  /\ UNCHANGED <<job, target, worker, observed>>

\* reportResult, outcome `failed': retry with backoff, or the dead letter.
ReportFailed(m) ==
  /\ m \in net
  /\ m.outcome = "failed"
  /\ Accepted(m)
  /\ IF ~BudgetLeft(m.job)
     THEN /\ job' = [job EXCEPT ![m.job] = DeadLettered(m.job)]
          /\ target' = MarkVerificationExhausted(m.job)
     ELSE /\ job' = [job EXCEPT ![m.job] = Rescheduled(m.job)]
          /\ UNCHANGED target
  /\ net' = net \ {m}
  /\ UNCHANGED <<worker, observed>>

Verdict(o) ==
  CASE o = "verified" -> "ready" [] o = "mismatch" -> "failed"
    [] o = "missing" -> "missing"

\* Mutant of Applies: the target_version of the job is not compared.
AppliesToAnyVersion(j) == target[j[1]].status = "pending"

\* Only a target that still waits for this very version takes the verdict.
Applies(j) == target[j[1]].status = "pending" /\ target[j[1]].version = j[2]

\* reportResult with a definitive outcome, and applyVerification: the job ends
\* whether or not the verdict still applies.
ReportDefinitive(m) ==
  /\ m \in net
  /\ m.outcome # "failed"
  /\ Accepted(m)
  /\ target' = IF Applies(m.job)
               THEN [target EXCEPT ![m.job[1]] =
                       [@ EXCEPT !.status = Verdict(m.outcome)]]
               ELSE target
  /\ job' = [job EXCEPT ![m.job] =
               Ended(m.job, IF m.outcome = "mismatch" /\ Applies(m.job)
                            THEN "failed" ELSE "succeeded")]
  /\ net' = net \ {m}
  /\ UNCHANGED <<worker, observed>>

\* assignLocation: a new version of the location, and the job that verifies it.
AssignLocation(l) ==
  LET v == target[l].version + 1 IN
  /\ v <= MaxVersion
  /\ target' = [target EXCEPT ![l] = [status |-> "pending", version |-> v]]
  /\ job' = [job EXCEPT ![<<l, v>>] = Enqueued]
  /\ UNCHANGED <<worker, net, observed>>

-----------------------------------------------------------------------------
Next ==
  \/ \E a \in Agents, j \in Jobs : Claim(a, j) \/ ClaimExhausted(a, j)
  \/ \E a \in Agents : SendReport(a) \/ Abandon(a)
  \/ \E j \in Jobs : LeaseExpires(j) \/ BackoffElapses(j)
  \/ \E m \in net : \/ LoseReport(m) \/ ReportRefused(m)
                    \/ ReportFailed(m) \/ ReportDefinitive(m)
  \/ \E l \in Locations : AssignLocation(l)

\* The agents keep polling, clocks advance, and local file reads end.  Nothing
\* is assumed about reports (they may all be lost) or about what is read.
Fairness ==
  /\ WF_vars(\E a \in Agents, j \in Jobs : Claim(a, j) \/ ClaimExhausted(a, j))
  /\ \A a \in Agents : WF_vars(SendReport(a) \/ Abandon(a))
  /\ \A j \in Jobs : WF_vars(LeaseExpires(j)) /\ WF_vars(BackoffElapses(j))

Spec == Init /\ [][Next]_vars
FairSpec == Spec /\ Fairness

-----------------------------------------------------------------------------
(* Correctness                                                             *)

\* A document and its job settle in one transaction, and a location settles
\* with the job of its current version: no upload waits for a job that has
\* ended (agent/store.ts markVerificationExhausted), and none is decided while
\* its job may still run again.
SettleTogether ==
  /\ \A d \in Documents :
       job[<<d, 0>>].status \in Terminal <=> target[d].status # "pending"
  /\ \A l \in Locations :
       job[<<l, target[l].version>>].status = "succeeded"
         <=> target[l].status # "pending"

\* `ready' (for a location, verified) is only ever said of a file or folder
\* that an agent found good at the very version that carries the verdict,
\* however late, stale or reordered the reports are.
VerifiedWasObserved ==
  \A t \in Targets :
    target[t].status = "ready" => <<t, target[t].version>> \in observed

\* A job that has ended and a document that has its verdict never change
\* again, whatever late or repeated report arrives (agent/store.ts
\* reportResult, idempotent on a terminal job).
SettledForGood ==
  [][/\ \A j \in Jobs : job[j].status \in Terminal => job'[j] = job[j]
     /\ \A d \in Documents :
          target[d].status # "pending" => target'[d] = target[d]]_vars

\* Every enqueued job ends, even when every report is lost or every attempt
\* fails: the leases expire and the attempt budget runs out.
EveryJobSettles ==
  \A j \in Jobs : job[j].status = "pending" ~> job[j].status \in Terminal
=============================================================================
