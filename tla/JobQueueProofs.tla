--------------------------- MODULE JobQueueProofs ---------------------------
(***************************************************************************)
(* Safety of the job queue for every number of agents, documents,          *)
(* locations, attempts and versions.  SettleTogether is not inductive by   *)
(* itself: it needs to know which versions a document or a future location *)
(* can have, and what a report in flight may say.                          *)
(***************************************************************************)
EXTENDS JobQueue, TLAPS

\* A document has the one version its job verifies, and a location one of the
\* versions that have jobs.
VersionsFit ==
  /\ \A d \in Documents : target[d].version = 0
  /\ \A l \in Locations : target[l].version \in 1 .. MaxVersion

\* A location's later versions have no job yet.
FutureJobsAbsent ==
  \A l \in Locations, v \in 1 .. MaxVersion :
    v > target[l].version => job[<<l, v>>].status = "absent"

\* A report in flight says something an agent can find, and `verified' only
\* of what it found good.
ReportsFit ==
  \A m \in net : /\ m.outcome \in OutcomesOf(m.job)
                 /\ m.outcome = "verified" => m.job \in observed

IInv ==
  /\ TypeOK
  /\ VersionsFit
  /\ FutureJobsAbsent
  /\ ReportsFit
  /\ SettleTogether
  /\ VerifiedWasObserved

\* A job is a pair of a target and a version.
LEMMA JobParts ==
  ASSUME NEW j \in Jobs
  PROVE  /\ j = <<j[1], j[2]>>
         /\ j[1] \in Documents => j[2] = 0
         /\ j[1] \in Targets
         /\ j[1] \notin Documents => j[1] \in Locations /\ j[2] \in 1 .. MaxVersion
  BY QueueAssumption DEF Jobs, Targets

\* The jobs of a document and of a location.
LEMMA JobsOfTargets ==
  /\ \A d \in Documents : <<d, 0>> \in Jobs
  /\ \A l \in Locations, v \in 1 .. MaxVersion : <<l, v>> \in Jobs
  /\ \A d \in Documents : d \in Targets /\ d \notin Locations
  /\ \A l \in Locations : l \in Targets /\ l \notin Documents
  BY QueueAssumption DEF Jobs, Targets

\* Init: the first jobs wait, and nothing has been read or reported.
LEMMA InitIInv == Init => IInv
<1> SUFFICES ASSUME Init PROVE IInv
  OBVIOUS
<1> USE QueueAssumption, JobsOfTargets, JobParts DEF Init
<1>1. TypeOK
  <2>1. Enqueued \in JobRow /\ NoJob \in JobRow
    BY DEF Enqueued, NoJob, JobRow
  <2>2. \A t \in Targets : target[t] \in TargetRow
    BY DEF TargetRow
  <2> QED
    BY <2>1, <2>2 DEF TypeOK
<1>2. VersionsFit /\ FutureJobsAbsent /\ ReportsFit
  BY DEF VersionsFit, FutureJobsAbsent, ReportsFit, NoJob
<1>3. SettleTogether /\ VerifiedWasObserved
  BY DEF SettleTogether, VerifiedWasObserved, Enqueued, NoJob, Terminal
<1> QED
  BY <1>1, <1>2, <1>3 DEF IInv

\* The rows that a step writes are rows.
LEMMA RowTypes ==
  ASSUME TypeOK, NEW j \in Jobs
  PROVE  /\ job[j] \in JobRow /\ Enqueued \in JobRow
         /\ \A a \in Agents : BudgetLeft(j)
                                => Leased(j, a) \in JobRow
         /\ DeadLettered(j) \in JobRow
         /\ Rescheduled(j) \in JobRow
         /\ \A s \in Terminal : Ended(j, s) \in JobRow
         /\ [job[j] EXCEPT !.live = FALSE] \in JobRow
         /\ [job[j] EXCEPT !.due = TRUE] \in JobRow
         /\ MarkVerificationExhausted(j) \in [Targets -> TargetRow]
<1>1. job[j] \in JobRow
  BY DEF TypeOK
<1> USE <1>1, QueueAssumption DEF JobRow
<1>2. ASSUME NEW a \in Agents, BudgetLeft(j)
      PROVE  Leased(j, a) \in JobRow
  <2>1. job[j].attempt + 1 \in 0 .. MaxAttempts
    BY <1>2 DEF BudgetLeft
  <2> QED
    BY <2>1 DEF Leased
<1>3. DeadLettered(j) \in JobRow
  BY DEF DeadLettered, Terminal
<1>4. Rescheduled(j) \in JobRow
  BY DEF Rescheduled
<1>5. \A s \in Terminal : Ended(j, s) \in JobRow
  BY DEF Ended
<1>6. /\ [job[j] EXCEPT !.live = FALSE] \in JobRow
      /\ [job[j] EXCEPT !.due = TRUE] \in JobRow
  OBVIOUS
<1>7. MarkVerificationExhausted(j) \in [Targets -> TargetRow]
  <2>1. j[1] \in Targets /\ target[j[1]] \in TargetRow
    BY JobParts DEF TypeOK
  <2>2. [target[j[1]] EXCEPT !.status = "failed"] \in TargetRow
    BY <2>1 DEF TargetRow, Verdicts
  <2> QED
    BY <2>1, <2>2 DEF MarkVerificationExhausted, TypeOK
<1>8. Enqueued \in JobRow
  BY DEF Enqueued
<1> QED
  BY <1>2, <1>3, <1>4, <1>5, <1>6, <1>7, <1>8

\* Every step preserves the types of the variables.
LEMMA NextTypeOK == TypeOK /\ [Next]_vars => TypeOK'
<1> SUFFICES ASSUME TypeOK, [Next]_vars PROVE TypeOK'
  OBVIOUS
<1>1. ASSUME NEW a \in Agents, NEW j \in Jobs, Claim(a, j) PROVE TypeOK'
  <2>1. job' \in [Jobs -> JobRow]
    BY <1>1, RowTypes DEF Claim, TypeOK
  <2> QED
    BY <1>1, <2>1 DEF Claim, TypeOK
<1>2. ASSUME NEW a \in Agents, NEW j \in Jobs, ClaimExhausted(a, j)
      PROVE  TypeOK'
  <2>1. job' \in [Jobs -> JobRow] /\ target' \in [Targets -> TargetRow]
    BY <1>2, RowTypes DEF ClaimExhausted, TypeOK
  <2> QED
    BY <1>2, <2>1 DEF ClaimExhausted, TypeOK
<1>3. ASSUME NEW a \in Agents, SendReport(a) PROVE TypeOK'
  <2> DEFINE j == worker[a]
  <2>1. j \in Jobs /\ OutcomesOf(j) \subseteq Outcomes
    BY <1>3 DEF SendReport, OutcomesOf, TypeOK
  <2>2. PICK o \in Outcomes :
          /\ net' = net \cup {[agent |-> a, job |-> j, outcome |-> o]}
          /\ observed' = IF o = "verified" THEN observed \cup {j} ELSE observed
    BY <1>3, <2>1 DEF SendReport
  <2>3. [agent |-> a, job |-> j, outcome |-> o] \in Report
    BY <2>1 DEF Report
  <2> QED
    BY <1>3, <2>1, <2>2, <2>3 DEF SendReport, TypeOK
<1>4. ASSUME NEW a \in Agents, Abandon(a) PROVE TypeOK'
  BY <1>4 DEF Abandon, TypeOK
<1>5. ASSUME NEW j \in Jobs, LeaseExpires(j) \/ BackoffElapses(j)
      PROVE  TypeOK'
  <2>1. job' \in [Jobs -> JobRow]
    BY <1>5, RowTypes DEF LeaseExpires, BackoffElapses, TypeOK
  <2> QED
    BY <1>5, <2>1 DEF LeaseExpires, BackoffElapses, TypeOK
<1>6. ASSUME NEW m \in net, LoseReport(m) \/ ReportRefused(m) PROVE TypeOK'
  BY <1>6 DEF LoseReport, ReportRefused, TypeOK
<1>7. ASSUME NEW m \in net, ReportFailed(m) PROVE TypeOK'
  <2>1. m.job \in Jobs
    BY DEF TypeOK, Report
  <2>2. job' \in [Jobs -> JobRow] /\ target' \in [Targets -> TargetRow]
    BY <1>7, <2>1, RowTypes DEF ReportFailed, TypeOK
  <2> QED
    BY <1>7, <2>2 DEF ReportFailed, TypeOK
<1>8. ASSUME NEW m \in net, ReportDefinitive(m) PROVE TypeOK'
  <2>1. m.job \in Jobs /\ m.outcome \in Outcomes
    BY DEF TypeOK, Report
  <2>2. m.job[1] \in Targets
    BY <2>1, JobParts
  <2>3. Verdict(m.outcome) \in Verdicts
    BY <1>8, <2>1 DEF Verdict, Verdicts, Outcomes, ReportDefinitive
  <2>4. [target[m.job[1]] EXCEPT !.status = Verdict(m.outcome)] \in TargetRow
    BY <2>2, <2>3 DEF TargetRow, TypeOK
  <2>5. target' \in [Targets -> TargetRow]
    BY <1>8, <2>4 DEF ReportDefinitive, TypeOK
  <2>6. job' \in [Jobs -> JobRow]
    BY <1>8, <2>1, RowTypes DEF ReportDefinitive, TypeOK, Terminal
  <2> QED
    BY <1>8, <2>5, <2>6 DEF ReportDefinitive, TypeOK
<1>9. ASSUME NEW l \in Locations, AssignLocation(l) PROVE TypeOK'
  <2>1. target[l] \in TargetRow
    BY JobsOfTargets DEF TypeOK
  <2>2. target[l].version + 1 \in 1 .. MaxVersion
    BY <1>9, <2>1, QueueAssumption DEF AssignLocation, TargetRow
  <2>3. <<l, target[l].version + 1>> \in Jobs
    BY <2>2, JobsOfTargets
  <2>4. job' \in [Jobs -> JobRow]
    BY <1>9, <2>3, RowTypes DEF AssignLocation, TypeOK
  <2>5. [status |-> "pending", version |-> target[l].version + 1] \in TargetRow
    BY <2>2 DEF TargetRow
  <2>6. target' \in [Targets -> TargetRow]
    BY <1>9, <2>5 DEF AssignLocation, TypeOK
  <2> QED
    BY <1>9, <2>4, <2>6 DEF AssignLocation, TypeOK
<1>10. CASE UNCHANGED vars
  BY <1>10 DEF vars, TypeOK
<1> QED
  BY <1>1, <1>2, <1>3, <1>4, <1>5, <1>6, <1>7, <1>8, <1>9, <1>10
     DEF Next


\* Every step preserves the bookkeeping of versions and reports.
LEMMA NextBookkeeping ==
  IInv /\ [Next]_vars => /\ VersionsFit'
                         /\ FutureJobsAbsent'
                         /\ ReportsFit'
<1> SUFFICES ASSUME IInv, [Next]_vars
             PROVE  VersionsFit' /\ FutureJobsAbsent' /\ ReportsFit'
  OBVIOUS
<1>1. TypeOK /\ VersionsFit /\ FutureJobsAbsent /\ ReportsFit
  BY DEF IInv
<1>a. \A t \in Targets : target'[t].version = target[t].version
        \/ \E l \in Locations : AssignLocation(l)
  <2>1. ASSUME NEW j \in Jobs, target' = MarkVerificationExhausted(j)
        PROVE  \A t \in Targets : target'[t].version = target[t].version
    BY <1>1, <2>1 DEF MarkVerificationExhausted, TypeOK, TargetRow
  <2>2. ASSUME NEW m \in net, ReportFailed(m) \/ ReportDefinitive(m)
        PROVE  \A t \in Targets : target'[t].version = target[t].version
    <3>1. m.job \in Jobs
      BY <1>1 DEF TypeOK, Report
    <3>2. CASE ReportFailed(m)
      BY <1>1, <2>1, <3>1, <3>2 DEF ReportFailed
    <3>3. CASE ReportDefinitive(m)
      BY <1>1, <3>3 DEF ReportDefinitive, TypeOK, TargetRow
    <3> QED
      BY <2>2, <3>2, <3>3
  <2> QED
    BY <2>1, <2>2 DEF Next, vars, Claim, ClaimExhausted, SendReport, Abandon,
       LeaseExpires, BackoffElapses, LoseReport, ReportRefused
<1>2. VersionsFit'
  <2>1. CASE \E l \in Locations : AssignLocation(l)
    <3>1. PICK l \in Locations : AssignLocation(l)
      BY <2>1
    <3>2. target[l].version + 1 \in 1 .. MaxVersion
      BY <1>1, <3>1, QueueAssumption DEF AssignLocation, VersionsFit
    <3> QED
      BY <1>1, <3>1, <3>2, JobsOfTargets
         DEF AssignLocation, VersionsFit, TypeOK
  <2> QED
    BY <1>1, <1>a, <2>1, JobsOfTargets DEF VersionsFit
<1>b. \A j \in Jobs : job[j].status = "absent" =>
        \/ job'[j].status = "absent"
        \/ \E l \in Locations : AssignLocation(l) /\ j = <<l, target[l].version + 1>>
  <2>1. ASSUME NEW m \in net, ReportFailed(m) \/ ReportDefinitive(m)
        PROVE  \E i \in Jobs : /\ job[i].status # "absent"
                               /\ \A k \in Jobs : k # i => job'[k] = job[k]
    <3>1. m.job \in Jobs /\ job[m.job].status # "absent"
      BY <1>1, <2>1 DEF TypeOK, Report, ReportFailed, ReportDefinitive, Accepted
    <3> QED
      BY <1>1, <2>1, <3>1 DEF ReportFailed, ReportDefinitive, TypeOK
  <2>2. ASSUME NEW a \in Agents, NEW i \in Jobs, Claim(a, i) \/ ClaimExhausted(a, i)
        PROVE  /\ job[i].status # "absent"
               /\ \A k \in Jobs : k # i => job'[k] = job[k]
    BY <1>1, <2>2 DEF Claim, ClaimExhausted, Claimable, TypeOK
  <2>3. ASSUME NEW i \in Jobs, LeaseExpires(i) \/ BackoffElapses(i)
        PROVE  /\ job[i].status # "absent"
               /\ \A k \in Jobs : k # i => job'[k] = job[k]
    BY <1>1, <2>3 DEF LeaseExpires, BackoffElapses, TypeOK
  <2>4. ASSUME NEW l \in Locations, AssignLocation(l)
        PROVE  \A k \in Jobs : k # <<l, target[l].version + 1>>
                                 => job'[k] = job[k]
    BY <1>1, <2>4 DEF AssignLocation, TypeOK
  <2>5. CASE UNCHANGED job
    BY <2>5
  <2> QED
    BY <2>1, <2>2, <2>3, <2>4, <2>5
       DEF Next, vars, SendReport, Abandon, LoseReport, ReportRefused
<1>3. FutureJobsAbsent'
  <2> SUFFICES ASSUME NEW l \in Locations, NEW v \in 1 .. MaxVersion,
                      v > target'[l].version
               PROVE  job'[<<l, v>>].status = "absent"
    BY DEF FutureJobsAbsent
  <2>1. <<l, v>> \in Jobs /\ l \in Targets /\ target[l].version \in Nat
    BY <1>1, JobsOfTargets DEF TypeOK, TargetRow
  <2>2. CASE target'[l].version = target[l].version
    <3>1. job[<<l, v>>].status = "absent"
      BY <1>1, <2>2 DEF FutureJobsAbsent
    <3>2. ASSUME NEW k \in Locations, AssignLocation(k)
          PROVE  <<l, v>> # <<k, target[k].version + 1>>
      BY <1>1, <2>1, <2>2, <3>2, JobsOfTargets DEF AssignLocation, TypeOK
    <3> QED
      BY <1>b, <2>1, <3>1, <3>2
  <2>3. CASE \E k \in Locations : AssignLocation(k)
    <3> PICK k \in Locations : AssignLocation(k)
      BY <2>3
    <3>1. CASE k = l
      BY <1>1, <2>1, <3>1, JobsOfTargets
         DEF AssignLocation, TypeOK, FutureJobsAbsent
    <3>2. CASE k # l
      <4>1. target'[l].version = target[l].version
        BY <1>1, <3>2, JobsOfTargets DEF AssignLocation, TypeOK
      <4> QED
        BY <2>2, <4>1
    <3> QED
      BY <3>1, <3>2
  <2> QED
    BY <1>a, <2>1, <2>2, <2>3
<1>4. ReportsFit'
  <2>1. ASSUME NEW a \in Agents, SendReport(a) PROVE ReportsFit'
    BY <1>1, <2>1 DEF SendReport, ReportsFit
  <2>2. CASE net' \subseteq net /\ observed' = observed
    BY <1>1, <2>2 DEF ReportsFit
  <2> QED
    BY <2>1, <2>2 DEF Next, vars, Claim, ClaimExhausted, Abandon,
       LeaseExpires, BackoffElapses, LoseReport, ReportRefused,
       ReportFailed, ReportDefinitive, AssignLocation
<1> QED
  BY <1>2, <1>3, <1>4

\* A step that takes a job from one unfinished state to another, and writes no
\* target, decides nothing.
LEMMA UndecidedStep ==
  ASSUME TypeOK, VersionsFit, SettleTogether, VerifiedWasObserved,
         NEW j \in Jobs, job[j].status \notin Terminal,
         job'[j].status \notin Terminal,
         \A i \in Jobs : i # j => job'[i] = job[i],
         target' = target, observed \subseteq observed'
  PROVE  SettleTogether' /\ VerifiedWasObserved'
<1>1. \A l \in Locations : <<l, target[l].version>> \in Jobs
  BY JobsOfTargets DEF VersionsFit
<1> QED
  BY <1>1, JobsOfTargets DEF SettleTogether, VerifiedWasObserved, Terminal

\* The dead letter: the document of the job fails with it, and no location of
\* that version had a verdict.
LEMMA DeadLetterStep ==
  ASSUME TypeOK, VersionsFit, SettleTogether, VerifiedWasObserved,
         NEW j \in Jobs, job[j].status \notin Terminal,
         job' = [job EXCEPT ![j] = DeadLettered(j)],
         target' = MarkVerificationExhausted(j), observed' = observed
  PROVE  SettleTogether' /\ VerifiedWasObserved'
<1>1. /\ job'[j].status = "dead_letter"
      /\ \A i \in Jobs : i # j => job'[i] = job[i]
  BY DEF TypeOK, DeadLettered, JobRow
<1>2. \A l \in Locations : target'[l] = target[l]
  BY JobsOfTargets, JobParts DEF MarkVerificationExhausted, TypeOK
<1>3. \A d \in Documents : d # j[1] => target'[d] = target[d]
  BY JobsOfTargets, JobParts DEF MarkVerificationExhausted, TypeOK
<1>4. j[1] \in Documents =>
        /\ j = <<j[1], 0>>
        /\ target[j[1]].status = "pending"
        /\ target'[j[1]].status = "failed"
  BY JobsOfTargets, JobParts
     DEF MarkVerificationExhausted, TypeOK, TargetRow, SettleTogether
<1>5. SettleTogether'
  <2>1. ASSUME NEW d \in Documents
        PROVE  job'[<<d, 0>>].status \in Terminal <=> target'[d].status # "pending"
    <3>1. CASE j = <<d, 0>>
      BY <1>1, <1>4, <3>1 DEF Terminal
    <3>2. CASE j # <<d, 0>>
      BY <1>1, <1>3, <1>4, <3>2, JobsOfTargets DEF SettleTogether
    <3> QED
      BY <3>1, <3>2
  <2>2. ASSUME NEW l \in Locations
        PROVE  job'[<<l, target'[l].version>>].status = "succeeded"
                 <=> target'[l].status # "pending"
    BY <1>1, <1>2, JobsOfTargets DEF SettleTogether, VersionsFit, Terminal
  <2> QED
    BY <2>1, <2>2 DEF SettleTogether
<1>6. VerifiedWasObserved'
  BY <1>2, <1>3, <1>4, JobsOfTargets DEF VerifiedWasObserved, Targets
<1> QED
  BY <1>5, <1>6

\* A definitive report: the job ends, and its target takes the verdict if it
\* still waits for this version.
LEMMA DefinitiveStep ==
  ASSUME IInv, NEW m \in net, ReportDefinitive(m)
  PROVE  SettleTogether' /\ VerifiedWasObserved'
<1> DEFINE j == m.job
           t == m.job[1]
<1>1. /\ TypeOK /\ VersionsFit /\ ReportsFit
      /\ SettleTogether /\ VerifiedWasObserved
  BY DEF IInv
<1>2. j \in Jobs /\ t \in Targets /\ m.outcome \in Outcomes \ {"failed"}
      /\ m.outcome \in OutcomesOf(j)
  BY <1>1, JobParts DEF TypeOK, Report, ReportsFit, ReportDefinitive
<1>3. /\ job[j].status = "leased"
      /\ \A i \in Jobs : i # j => job'[i] = job[i]
      /\ job'[j].status = IF m.outcome = "mismatch" /\ Applies(j)
                          THEN "failed" ELSE "succeeded"
  BY <1>1, <1>2 DEF ReportDefinitive, Accepted, Ended, TypeOK, JobRow
<1>4. /\ \A u \in Targets : u # t => target'[u] = target[u]
      /\ target'[t].version = target[t].version
      /\ Applies(j) => target'[t].status = Verdict(m.outcome)
      /\ ~Applies(j) => target'[t] = target[t]
  BY <1>1, <1>2 DEF ReportDefinitive, TypeOK, TargetRow
<1>5. Verdict(m.outcome) # "pending"
      /\ (Verdict(m.outcome) = "ready" => m.outcome = "verified")
  BY <1>2 DEF Verdict, Outcomes
<1>6. ASSUME NEW d \in Documents
      PROVE  job'[<<d, 0>>].status \in Terminal <=> target'[d].status # "pending"
  <2>1. CASE d = t
    <3>1. j = <<d, 0>> /\ Applies(j)
      BY <1>1, <1>2, <1>3, <2>1, JobParts
         DEF Applies, SettleTogether, VersionsFit, Terminal
    <3> QED
      BY <1>3, <1>4, <1>5, <2>1, <3>1 DEF Terminal
  <2>2. CASE d # t
    BY <1>1, <1>2, <1>3, <1>4, <2>2, JobsOfTargets DEF SettleTogether
  <2> QED
    BY <2>1, <2>2
<1>7. ASSUME NEW l \in Locations
      PROVE  job'[<<l, target'[l].version>>].status = "succeeded"
               <=> target'[l].status # "pending"
  <2>1. <<l, target[l].version>> \in Jobs /\ l \notin Documents
    BY <1>1, JobsOfTargets DEF VersionsFit
  <2>2. CASE j = <<l, target[l].version>>
    <3>1. l = t /\ Applies(j) /\ m.outcome # "mismatch"
      BY <1>1, <1>2, <1>3, <2>1, <2>2 DEF Applies, SettleTogether, OutcomesOf
    <3> QED
      BY <1>3, <1>4, <1>5, <2>2, <3>1
  <2>3. CASE j # <<l, target[l].version>>
    <3>1. l = t => ~Applies(j)
      BY <1>2, <2>1, <2>3, JobParts DEF Applies
    <3> QED
      BY <1>1, <1>3, <1>4, <2>1, <2>3, <3>1, JobsOfTargets DEF SettleTogether
  <2> QED
    BY <2>2, <2>3
<1>8. VerifiedWasObserved'
  <2> SUFFICES ASSUME NEW u \in Targets, target'[u].status = "ready"
               PROVE  <<u, target'[u].version>> \in observed'
    BY DEF VerifiedWasObserved
  <2>1. observed' = observed
    BY DEF ReportDefinitive
  <2>2. CASE u = t /\ Applies(j)
    <3>1. m.outcome = "verified" /\ j \in observed
      BY <1>1, <1>4, <1>5, <2>2 DEF ReportsFit
    <3>2. j = <<u, target'[u].version>>
      BY <1>2, <1>4, <2>2, JobParts DEF Applies
    <3> QED
      BY <2>1, <3>1, <3>2
  <2>3. CASE u # t \/ ~Applies(j)
    BY <1>1, <1>4, <2>1, <2>3 DEF VerifiedWasObserved
  <2> QED
    BY <2>2, <2>3
<1> QED
  BY <1>6, <1>7, <1>8 DEF SettleTogether

\* A new version of a location has neither verdict nor finished job.
LEMMA AssignStep ==
  ASSUME IInv, NEW l \in Locations, AssignLocation(l)
  PROVE  SettleTogether' /\ VerifiedWasObserved'
<1> DEFINE v == target[l].version + 1
<1>1. TypeOK /\ VersionsFit /\ SettleTogether /\ VerifiedWasObserved
  BY DEF IInv
<1>2. <<l, v>> \in Jobs
  BY <1>1, JobsOfTargets, QueueAssumption DEF AssignLocation, VersionsFit
<1>3. /\ job'[<<l, v>>].status = "pending"
      /\ \A i \in Jobs : i # <<l, v>> => job'[i] = job[i]
      /\ target'[l] = [status |-> "pending", version |-> v]
      /\ \A u \in Targets : u # l => target'[u] = target[u]
  BY <1>1, <1>2, JobsOfTargets DEF AssignLocation, TypeOK, Enqueued
<1>4. SettleTogether'
  BY <1>1, <1>3, JobsOfTargets DEF SettleTogether, VersionsFit
<1>5. VerifiedWasObserved'
  BY <1>1, <1>3 DEF VerifiedWasObserved, AssignLocation
<1> QED
  BY <1>4, <1>5

\* Every step preserves SettleTogether and VerifiedWasObserved.
LEMMA NextSettles ==
  IInv /\ [Next]_vars => SettleTogether' /\ VerifiedWasObserved'
<1> SUFFICES ASSUME IInv, [Next]_vars
             PROVE  SettleTogether' /\ VerifiedWasObserved'
  OBVIOUS
<1>1. TypeOK /\ VersionsFit /\ SettleTogether /\ VerifiedWasObserved
  BY DEF IInv
<1>2. ASSUME NEW a \in Agents, NEW j \in Jobs, Claim(a, j)
      PROVE  SettleTogether' /\ VerifiedWasObserved'
  <2>1. /\ job[j].status \notin Terminal /\ job'[j].status \notin Terminal
        /\ \A i \in Jobs : i # j => job'[i] = job[i]
        /\ target' = target /\ observed' = observed
    BY <1>1, <1>2 DEF Claim, Claimable, Leased, TypeOK, JobRow, Terminal
  <2> QED
    BY <1>1, <2>1, UndecidedStep
<1>3. ASSUME NEW a \in Agents, NEW j \in Jobs, ClaimExhausted(a, j)
      PROVE  SettleTogether' /\ VerifiedWasObserved'
  <2>1. job[j].status \notin Terminal
    BY <1>3 DEF ClaimExhausted, Claimable, Terminal
  <2> QED
    BY <1>1, <1>3, <2>1, DeadLetterStep DEF ClaimExhausted
<1>4. ASSUME NEW j \in Jobs, LeaseExpires(j) \/ BackoffElapses(j)
      PROVE  SettleTogether' /\ VerifiedWasObserved'
  <2>1. /\ job[j].status \notin Terminal /\ job'[j].status \notin Terminal
        /\ \A i \in Jobs : i # j => job'[i] = job[i]
        /\ target' = target /\ observed' = observed
    BY <1>1, <1>4
       DEF LeaseExpires, BackoffElapses, TypeOK, JobRow, Terminal
  <2> QED
    BY <1>1, <2>1, UndecidedStep
<1>5. ASSUME NEW m \in net, ReportFailed(m)
      PROVE  SettleTogether' /\ VerifiedWasObserved'
  <2>1. m.job \in Jobs /\ job[m.job].status \notin Terminal
    BY <1>1, <1>5 DEF TypeOK, Report, ReportFailed, Accepted, Terminal
  <2>2. CASE ~BudgetLeft(m.job)
    BY <1>1, <1>5, <2>1, <2>2, DeadLetterStep DEF ReportFailed
  <2>3. CASE BudgetLeft(m.job)
    <3>1. /\ job' = [job EXCEPT ![m.job] = Rescheduled(m.job)]
          /\ target' = target /\ observed' = observed
      BY <1>5, <2>3 DEF ReportFailed
    <3>2. Rescheduled(m.job).status = "pending"
      BY <1>1, <2>1 DEF Rescheduled, TypeOK, JobRow
    <3>3. /\ job'[m.job].status \notin Terminal
          /\ \A i \in Jobs : i # m.job => job'[i] = job[i]
      BY <1>1, <2>1, <3>1, <3>2 DEF TypeOK, Terminal
    <3> QED
      BY <1>1, <2>1, <3>1, <3>3, UndecidedStep
  <2> QED
    BY <2>2, <2>3
<1>6. ASSUME NEW m \in net, ReportDefinitive(m)
      PROVE  SettleTogether' /\ VerifiedWasObserved'
  BY <1>6, DefinitiveStep
<1>7. ASSUME NEW l \in Locations, AssignLocation(l)
      PROVE  SettleTogether' /\ VerifiedWasObserved'
  BY <1>7, AssignStep
<1>8. CASE job' = job /\ target' = target /\ observed \subseteq observed'
  BY <1>1, <1>8 DEF SettleTogether, VerifiedWasObserved
<1> QED
  BY <1>2, <1>3, <1>4, <1>5, <1>6, <1>7, <1>8
     DEF Next, vars, SendReport, Abandon, LoseReport, ReportRefused

\* The invariant holds throughout: from it follow the invariants of the runs.
THEOREM Invariant == Spec => []IInv
<1>1. IInv /\ [Next]_vars => IInv'
  BY NextTypeOK, NextBookkeeping, NextSettles DEF IInv
<1> QED
  BY <1>1, InitIInv, PTL DEF Spec

\* What has ended stays as it ended: a step writes an unfinished job, and the
\* document of a job is still pending when it does.
LEMMA NextSettledForGood ==
  ASSUME IInv, [Next]_vars
  PROVE  /\ \A j \in Jobs : job[j].status \in Terminal => job'[j] = job[j]
         /\ \A d \in Documents :
              target[d].status # "pending" => target'[d] = target[d]
<1>1. TypeOK /\ VersionsFit /\ FutureJobsAbsent /\ SettleTogether
  BY DEF IInv
<1> USE JobsOfTargets
<1>2. ASSUME NEW j \in Jobs, job[j].status \notin Terminal,
             \A i \in Jobs : i # j => job'[i] = job[i],
             \A u \in Targets : u # j[1] => target'[u] = target[u]
      PROVE  /\ \A i \in Jobs : job[i].status \in Terminal => job'[i] = job[i]
             /\ \A d \in Documents :
                  target[d].status # "pending" => target'[d] = target[d]
  <2>1. \A d \in Documents : d = j[1] => target[d].status = "pending"
    BY <1>1, <1>2, JobParts DEF SettleTogether
  <2> QED
    BY <1>2, <2>1
<1>3. ASSUME NEW j \in Jobs, target' \in {target, MarkVerificationExhausted(j)}
      PROVE  \A u \in Targets : u # j[1] => target'[u] = target[u]
  BY <1>1, <1>3, JobParts DEF MarkVerificationExhausted, TypeOK
<1>4. ASSUME NEW a \in Agents, NEW j \in Jobs, Claim(a, j) \/ ClaimExhausted(a, j)
      PROVE  /\ job[j].status \notin Terminal
             /\ \A i \in Jobs : i # j => job'[i] = job[i]
             /\ target' \in {target, MarkVerificationExhausted(j)}
  BY <1>1, <1>4 DEF Claim, ClaimExhausted, Claimable, TypeOK, Terminal
<1>5. ASSUME NEW j \in Jobs, LeaseExpires(j) \/ BackoffElapses(j)
      PROVE  /\ job[j].status \notin Terminal
             /\ \A i \in Jobs : i # j => job'[i] = job[i]
             /\ target' = target
  BY <1>1, <1>5 DEF LeaseExpires, BackoffElapses, TypeOK, Terminal
<1>6. ASSUME NEW m \in net, ReportFailed(m)
      PROVE  /\ m.job \in Jobs /\ job[m.job].status \notin Terminal
             /\ \A i \in Jobs : i # m.job => job'[i] = job[i]
             /\ target' \in {target, MarkVerificationExhausted(m.job)}
  BY <1>1, <1>6 DEF ReportFailed, Accepted, TypeOK, Report, Terminal
<1>7. ASSUME NEW m \in net, ReportDefinitive(m)
      PROVE  /\ m.job \in Jobs /\ job[m.job].status \notin Terminal
             /\ \A i \in Jobs : i # m.job => job'[i] = job[i]
             /\ \A u \in Targets : u # m.job[1] => target'[u] = target[u]
  BY <1>1, <1>7 DEF ReportDefinitive, Accepted, TypeOK, Report, Terminal
<1>8. ASSUME NEW l \in Locations, AssignLocation(l)
      PROVE  LET j == <<l, target[l].version + 1>>
             IN  /\ j \in Jobs /\ job[j].status \notin Terminal
                 /\ \A i \in Jobs : i # j => job'[i] = job[i]
                 /\ \A u \in Targets : u # j[1] => target'[u] = target[u]
  <2>1. target[l].version + 1 \in 1 .. MaxVersion
        /\ target[l].version + 1 > target[l].version
    BY <1>1, <1>8, QueueAssumption DEF AssignLocation, VersionsFit
  <2>2. job[<<l, target[l].version + 1>>].status = "absent"
    BY <1>1, <2>1 DEF FutureJobsAbsent
  <2> QED
    BY <1>1, <1>8, <2>1, <2>2 DEF AssignLocation, TypeOK, Terminal
<1>9. CASE job' = job /\ target' = target
  BY <1>9
<1> QED
  BY <1>2, <1>3, <1>4, <1>5, <1>6, <1>7, <1>8, <1>9
     DEF Next, vars, SendReport, Abandon, LoseReport, ReportRefused

\* The rows, the agents' loops and the reports keep their types; in particular
\* no job is leased more often than max_attempts (claimJob).
THEOREM TypeCorrect == Spec => []TypeOK
  BY Invariant, PTL DEF IInv

\* Jobs and the metadata they verify settle in the same transaction.
THEOREM JobsAndTargetsSettleTogether == Spec => []SettleTogether
  BY Invariant, PTL DEF IInv

\* `ready' is only said of a version that an agent found good (applyVerification
\* against stale and reordered reports).
THEOREM OnlyObservedIsReady == Spec => []VerifiedWasObserved
  BY Invariant, PTL DEF IInv

\* A finished job and a document's verdict are final, whatever report arrives
\* late or twice (reportResult, idempotent on a terminal job).
THEOREM FinishedIsFinal == Spec => SettledForGood
<1>1. IInv /\ [Next]_vars =>
        [/\ \A j \in Jobs : job[j].status \in Terminal => job'[j] = job[j]
         /\ \A d \in Documents :
              target[d].status # "pending" => target'[d] = target[d]]_vars
  BY NextSettledForGood
<1> QED
  BY <1>1, Invariant, PTL DEF Spec, SettledForGood

=============================================================================
