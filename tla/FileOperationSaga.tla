-------------------------- MODULE FileOperationSaga --------------------------
(***************************************************************************)
(* One case of the office: its row in `cases', its row in `case_locations',*)
(* the file operations and lifecycle operations (close, reopen) planned    *)
(* for it, the jobs that carry them to the File Agent, and the folder on   *)
(* the disk.  A transaction of the API is one action; the agent's change   *)
(* of the disk and the report about it are separate actions, so leases     *)
(* expire, attempts fail and people move folders by hand in between.       *)
(*                                                                         *)
(* The lease and retry clock is in JobQueue: here a leased job may be      *)
(* claimed again at any time.  How the agent moves a folder is in          *)
(* file-operation-executor.ts: here the move is one step, made only while   *)
(* the lease is held.                                                       *)
(***************************************************************************)
EXTENDS Naturals, FiniteSets

CONSTANTS
  Roots,        \* storage roots
  MaxOps,       \* bound on the file operations planned for the case
  MaxPlans,     \* bound on the lifecycle operations planned for the case
  MaxAttempts,  \* jobs.max_attempts
  MaxEdits,     \* bound on cases.version that people's edits reach
  MaxHands,     \* bound on folders moved and locations assigned by hand
  MaxVersion    \* bound on case_locations.version that discovery reaches

ASSUME SagaAssumption ==
  /\ Roots # {}
  /\ {MaxOps, MaxPlans, MaxAttempts, MaxEdits, MaxVersion} \subseteq Nat \ {0}
  /\ MaxHands \in Nat

Ops == 1 .. MaxOps
Plans == 1 .. MaxPlans

\* A folder path: its root, and whether it lies below a KAPALI (closed) folder.
Places == {"open", "closed"}
Paths == Roots \X Places
ClosedForm(p) == <<p[1], "closed">>
OpenForm(p) == <<p[1], "open">>
NoPath == <<>>

VARIABLES
  case,      \* [status, version, home]: home is the source of the last close
  complete,  \* the closing requirements hold now
  loc,       \* [path, status, version, imported]: the row of case_locations; and
             \* [given]: history, where and as which version a person or discovery
             \* last put it
  op,        \* [Ops -> row of case_file_operations with its active job]
  plan,      \* [Plans -> row of case_lifecycle_operations]
  disk,      \* the paths at which the folder of the case stands
  evidence,  \* operations whose evidence file the agent has written
  applied,   \* history: operations whose folder an agent has moved or copied
  hands      \* how often somebody moved a folder or assigned a location

vars == <<case, complete, loc, op, plan, disk, evidence, applied, hands>>

OpTerminal == {"ready", "stale", "cancelled"}
OpStatuses == {"absent", "planned", "queued", "applying", "cleanup_pending",
               "failed", "manual_recovery_required"} \cup OpTerminal
PlanInactive == {"absent", "blocked", "closed", "reopened", "failed", "stale",
                 "cancelled"}
PlanStatuses == {"approval_required", "queued", "moving", "cleanup_pending",
                 "manual_recovery_required"} \cup PlanInactive
JobEnded == {"succeeded", "failed", "dead_letter", "cancelled"}

\* What the agent that holds the lease has found or done so far.
Findings == {"nothing", "renamed", "copied", "recovered", "matched", "absent",
             "cleaned"}

NoJob == [status |-> "absent", cleanup |-> FALSE, attempt |-> 0,
          version |-> 0, found |-> "nothing"]
NoOp == [status |-> "absent", src |-> NoPath, dst |-> NoPath, locVersion |-> 0,
         strategy |-> "atomic_rename", payload |-> "atomic_rename",
         manifest |-> FALSE, version |-> 0, job |-> NoJob]
NoPlan == [status |-> "absent", type |-> "close", normal |-> FALSE,
           caseVersion |-> 0, locVersion |-> 0, src |-> NoPath, dst |-> NoPath,
           op |-> 0]

Strategies == {"atomic_rename", "staged_copy"}
JobRow == [status : {"absent", "pending", "leased"} \cup JobEnded,
           cleanup : BOOLEAN, attempt : 0 .. MaxAttempts,
           version : Nat, found : Findings]
OpRow == [status : OpStatuses, src : Paths \cup {NoPath},
          dst : Paths \cup {NoPath}, locVersion : Nat,
          strategy : Strategies, payload : Strategies, manifest : BOOLEAN,
          version : Nat, job : JobRow]
PlanRow == [status : PlanStatuses, type : {"close", "reopen"},
            normal : BOOLEAN, caseVersion : Nat, locVersion : Nat,
            src : Paths \cup {NoPath}, dst : Paths \cup {NoPath},
            op : Ops \cup {0}]

Given == [path : Paths, version : Nat \ {0}]

\* The rows are well typed; no job is claimed more often than max_attempts.
TypeOK ==
  /\ case \in [status : {"open", "closed"}, version : Nat \ {0},
               home : Paths \cup {NoPath}]
  /\ complete \in BOOLEAN
  /\ loc \in [path : Paths, status : {"pending", "verified", "missing"},
              version : Nat \ {0}, imported : BOOLEAN, given : Given]
  /\ op \in [Ops -> OpRow]
  /\ plan \in [Plans -> PlanRow]
  /\ disk \in SUBSET Paths
  /\ evidence \in SUBSET Ops
  /\ applied \in SUBSET Ops
  /\ hands \in 0 .. MaxHands

\* The status of a case agrees with the place of its folder, except that an
\* imported case may still be open although its folder was archived by hand.
Init ==
  /\ complete \in BOOLEAN
  /\ \E p \in Paths, i \in BOOLEAN :
       /\ loc = [path |-> p, status |-> "verified", version |-> 1, imported |-> i,
                 given |-> [path |-> p, version |-> 1]]
       /\ disk = {p}
       /\ case \in [status : {p[2]} \cup (IF i THEN {"open"} ELSE {}),
                    version : {1}, home : {NoPath}]
  /\ op = [o \in Ops |-> NoOp]
  /\ plan = [l \in Plans |-> NoPlan]
  /\ evidence = {}
  /\ applied = {}
  /\ hands = 0

-----------------------------------------------------------------------------
(* What a transaction reads                                                *)

\* Mutant of ActiveOps: a failed operation is taken for a finished one.
ActiveOpsForgetsFailed ==
  {o \in Ops : op[o].status \notin OpTerminal \cup {"absent", "failed"}}

\* NOT IN ('ready','stale','cancelled'): a failed operation is still active.
ActiveOps == {o \in Ops : op[o].status \notin OpTerminal \cup {"absent"}}

\* Mutant of ActivePlans: a lifecycle operation that waits for a person is
\* taken for a finished one.
ActivePlans == {l \in Plans : plan[l].status \notin PlanInactive}

\* The rows still to be inserted are taken in order.
FreshOps == {o \in Ops : /\ op[o].status = "absent"
                         /\ \A i \in 1 .. o - 1 : op[i].status # "absent"}
FreshPlans == {l \in Plans : /\ plan[l].status = "absent"
                             /\ \A i \in 1 .. l - 1 : plan[i].status # "absent"}

\* The location is still the one the row r was planned from.
LocationUnchanged(r) ==
  loc.status = "verified" /\ loc.version = r.locVersion /\ loc.path = r.src

StrategyFor(src, dst) ==
  IF src[1] = dst[1] THEN "atomic_rename" ELSE "staged_copy"

FreshJob(cleanup, version) ==
  [status |-> "pending", cleanup |-> cleanup, attempt |-> 0,
   version |-> version, found |-> "nothing"]

\* Rows of lifecycle operations linked to o take the status `to', if theirs is
\* among `from'.
Relinked(o, from, to) ==
  [l \in Plans |-> IF plan[l].op = o /\ plan[l].status \in from
                   THEN [plan[l] EXCEPT !.status = to] ELSE plan[l]]

\* Mutant of LifecycleFailure: the lifecycle row is not told.
LifecycleNotTold(o, to) == plan

\* markLinkedLifecycleFailure
LifecycleFailure(o, to) ==
  Relinked(o, PlanStatuses \ {"closed", "reopened", "stale", "cancelled"}, to)

\* The operation o leaves the queue: status `to', its job ended as `ended'.
Settled(o, to, ended) ==
  [op EXCEPT ![o].status = to, ![o].job.status = ended]

-----------------------------------------------------------------------------
(* File operation commands (file-operations/store.ts)                      *)

CreatePlan(dst) ==
  /\ loc.status = "verified"
  /\ dst # loc.path
  /\ ActiveOps = {}
  /\ \E o \in FreshOps :
       op' = [op EXCEPT ![o] =
                [NoOp EXCEPT !.status = "planned", !.src = loc.path, !.dst = dst,
                             !.locVersion = loc.version, !.version = 1,
                             !.strategy = StrategyFor(loc.path, dst),
                             !.payload = StrategyFor(loc.path, dst)]]
  /\ UNCHANGED <<case, complete, loc, plan, disk, evidence, applied, hands>>

\* The approval of a plan whose location has changed makes it stale.
ApprovePlan(o) ==
  LET v == op[o].version + 1 IN
  /\ op[o].status = "planned"
  /\ op' = [op EXCEPT ![o] =
              IF LocationUnchanged(op[o])
              THEN [op[o] EXCEPT !.status = "queued", !.version = v,
                                 !.job = FreshJob(FALSE, v)]
              ELSE [op[o] EXCEPT !.status = "stale", !.version = v]]
  /\ UNCHANGED <<case, complete, loc, plan, disk, evidence, applied, hands>>

Cancellable(o) ==
  \/ op[o].status = "planned"
  \/ /\ op[o].status = "queued"
     /\ op[o].job.status = "pending"
     /\ op[o].job.attempt = 0

\* The linked lifecycle operation, if there is one, is left as it is.
CancelOperation(o) ==
  /\ Cancellable(o)
  /\ op' = [op EXCEPT ![o].status = "cancelled", ![o].version = @ + 1,
                      ![o].job.status = IF @ = "absent" THEN @ ELSE "cancelled"]
  /\ UNCHANGED <<case, complete, loc, plan, disk, evidence, applied, hands>>

-----------------------------------------------------------------------------
(* Lifecycle commands (case-lifecycle/store.ts)                            *)

\* replaceFailedPlan: an exhausted atomic move with no confirmed destination.
Replaceable(l) ==
  LET o == plan[l].op IN
  /\ plan[l].status = "failed"
  /\ o # 0
  /\ op[o].status = "failed"
  /\ op[o].strategy = "atomic_rename"
  /\ ~op[o].manifest
  /\ op[o].job.status = "dead_letter"
  /\ op[o].job.version = op[o].version

\* A new lifecycle operation `row', replacing the failed ones in `old' (at most
\* one); no other file operation of the case is active.
InsertPlan(row, old) ==
  LET gone == {plan[l].op : l \in old} IN
  /\ ActivePlans = {}
  /\ loc.status = "verified"
  /\ \A l \in old : Replaceable(l)
  /\ ActiveOps \subseteq gone
  /\ \E n \in FreshPlans :
       plan' = [l \in Plans |->
                  IF l = n THEN row
                  ELSE IF l \in old THEN [plan[l] EXCEPT !.status = "stale"]
                  ELSE plan[l]]
  /\ op' = [o \in Ops |-> IF o \in gone
                          THEN [op[o] EXCEPT !.status = "stale", !.version = @ + 1]
                          ELSE op[o]]

\* A folder that already lies below KAPALI is closed where it stands, but only
\* an imported one.
PlanClose(normal, old) ==
  /\ case.status = "open"
  /\ loc.path[2] = "open" \/ loc.imported
  /\ InsertPlan([NoPlan EXCEPT
                   !.status = IF normal /\ ~complete
                              THEN "blocked" ELSE "approval_required",
                   !.type = "close", !.normal = normal,
                   !.caseVersion = case.version, !.locVersion = loc.version,
                   !.src = loc.path, !.dst = ClosedForm(loc.path)], old)
  /\ UNCHANGED <<case, complete, loc, disk, evidence, applied, hands>>

\* The folder goes back where the last close took it from; where it is there
\* already, or no close is known of an imported folder, to the open form.
HomeElsewhere == case.home \notin {NoPath, loc.path}
ReopenTarget == IF HomeElsewhere THEN case.home ELSE OpenForm(loc.path)

PlanReopen(old) ==
  /\ case.status = "closed"
  /\ \/ HomeElsewhere
     \/ loc.path[2] = "closed" /\ (case.home = loc.path \/ loc.imported)
  /\ InsertPlan([NoPlan EXCEPT
                   !.status = "approval_required", !.type = "reopen",
                   !.caseVersion = case.version, !.locVersion = loc.version,
                   !.src = loc.path, !.dst = ReopenTarget], old)
  /\ UNCHANGED <<case, complete, loc, disk, evidence, applied, hands>>

Before(l) == IF plan[l].type = "close" THEN "open" ELSE "closed"
After(l) == IF plan[l].type = "close" THEN "closed" ELSE "open"

\* The case still is as it was when the lifecycle operation was planned.
CaseUnchanged(l) ==
  case.version = plan[l].caseVersion /\ case.status = Before(l)

\* Mutant of RequirementsHold: the requirements are read once, at the plan.
RequirementsAssumed(l) == TRUE

RequirementsHold(l) == plan[l].type = "close" /\ plan[l].normal => complete

Approvable(l) ==
  \/ plan[l].status = "approval_required"
  \/ plan[l].status = "failed" /\ plan[l].op # 0

\* approve, when the snapshot or the requirements have changed.
ApproveStale(l) ==
  /\ Approvable(l)
  /\ ~(CaseUnchanged(l) /\ LocationUnchanged(plan[l]) /\ RequirementsHold(l))
  /\ plan' = [plan EXCEPT ![l].status = "stale"]
  /\ UNCHANGED <<case, complete, loc, op, disk, evidence, applied, hands>>

\* approve, and enqueueLifecycleFileOperation in the same transaction.
ApproveFirst(l) ==
  /\ plan[l].status = "approval_required"
  /\ CaseUnchanged(l) /\ LocationUnchanged(plan[l]) /\ RequirementsHold(l)
  /\ ActiveOps = {}
  /\ \E o \in FreshOps :
       /\ op' = [op EXCEPT ![o] =
                   [NoOp EXCEPT !.status = "queued", !.version = 2,
                      !.src = plan[l].src, !.dst = plan[l].dst,
                      !.locVersion = plan[l].locVersion,
                      !.strategy = StrategyFor(plan[l].src, plan[l].dst),
                      !.payload = StrategyFor(plan[l].src, plan[l].dst),
                      !.job = FreshJob(FALSE, 2)]]
       /\ plan' = [plan EXCEPT ![l].status = "queued", ![l].op = o]
  /\ UNCHANGED <<case, complete, loc, disk, evidence, applied, hands>>

\* approve of a failed lifecycle operation: the same file operation again, with
\* a new job of the same payload.
ApproveRetry(l) ==
  LET o == plan[l].op IN
  /\ plan[l].status = "failed" /\ o # 0
  /\ CaseUnchanged(l) /\ LocationUnchanged(plan[l]) /\ RequirementsHold(l)
  /\ op[o].status = "failed"
  /\ op[o].job.status = "dead_letter"
  /\ op[o].job.version = op[o].version
  /\ op' = [op EXCEPT ![o].status = "queued",
                      ![o].job = FreshJob(FALSE, op[o].version)]
  /\ plan' = [plan EXCEPT ![l].status = "queued"]
  /\ UNCHANGED <<case, complete, loc, disk, evidence, applied, hands>>

CancelLifecycle(l) ==
  /\ plan[l].status = "approval_required"
  /\ plan' = [plan EXCEPT ![l].status = "cancelled"]
  /\ UNCHANGED <<case, complete, loc, op, disk, evidence, applied, hands>>

-----------------------------------------------------------------------------
(* The job queue (agent/store.ts claimJob, heartbeat)                      *)

Live(o) == op[o].job.status \in {"pending", "leased"}
Leased(o, cleanup) ==
  op[o].job.status = "leased" /\ op[o].job.cleanup = cleanup

\* Mutant of Exhausted: one attempt too many.
ExhaustedLate(o) == op[o].job.attempt > MaxAttempts

Exhausted(o) == op[o].job.attempt >= MaxAttempts

Stage(o) == IF op[o].job.cleanup THEN "cleanup_pending" ELSE "queued"

LeasedJob(o) ==
  [op[o].job EXCEPT !.status = "leased", !.found = "nothing", !.attempt = @ + 1]

\* A pending job, or a leased one whose lease has expired.
Claim(o) ==
  /\ Live(o) /\ ~Exhausted(o)
  /\ op' = [op EXCEPT ![o] = [@ EXCEPT !.job = LeasedJob(o), !.status = Stage(o)]]
  /\ plan' = Relinked(o, {"queued", "moving", "cleanup_pending"}, Stage(o))
  /\ UNCHANGED <<case, complete, loc, disk, evidence, applied, hands>>

\* A lost final lease gives no proof that the disk is unchanged.
ExhaustedStatus(o) ==
  IF op[o].job.cleanup \/ op[o].job.status = "leased"
  THEN "manual_recovery_required" ELSE "failed"

ClaimExhausted(o) ==
  /\ Live(o) /\ Exhausted(o)
  /\ op' = Settled(o, ExhaustedStatus(o), "dead_letter")
  /\ plan' = LifecycleFailure(o, ExhaustedStatus(o))
  /\ UNCHANGED <<case, complete, loc, disk, evidence, applied, hands>>

\* The heartbeat that precedes the move carries the phase `applying'.
Heartbeat(o) ==
  /\ Leased(o, FALSE)
  /\ op[o].status = "queued"
  /\ op' = [op EXCEPT ![o].status = "applying"]
  /\ plan' = Relinked(o, {"queued", "moving"}, "moving")
  /\ UNCHANGED <<case, complete, loc, disk, evidence, applied, hands>>

-----------------------------------------------------------------------------
(* The agent and the disk (file-agent/src/file-operation-executor.ts)      *)

Found(o, f) == op' = [op EXCEPT ![o].job.found = f]

\* The executor runs once the heartbeat has told the API of it.
Moving(o) ==
  Leased(o, FALSE) /\ op[o].status = "applying" /\ op[o].job.found = "nothing"

\* Evidence is written before the rename; the rename may then fail.
AgentWritesEvidence(o) ==
  /\ Moving(o)
  /\ op[o].payload = "atomic_rename"
  /\ op[o].src \in disk /\ op[o].dst \notin disk
  /\ o \notin evidence
  /\ evidence' = evidence \cup {o}
  /\ UNCHANGED <<case, complete, loc, op, plan, disk, applied, hands>>

AgentRenames(o) ==
  /\ Moving(o)
  /\ o \in evidence
  /\ op[o].src \in disk /\ op[o].dst \notin disk
  /\ disk' = (disk \ {op[o].src}) \cup {op[o].dst}
  /\ applied' = applied \cup {o}
  /\ Found(o, "renamed")
  /\ UNCHANGED <<case, complete, loc, plan, evidence, hands>>

\* A staged copy; a rename that meets a volume boundary (EXDEV) becomes one.
AgentCopies(o) ==
  /\ Moving(o)
  /\ op[o].payload = "staged_copy" \/ o \in evidence
  /\ op[o].src \in disk /\ op[o].dst \notin disk
  /\ disk' = disk \cup {op[o].dst}
  /\ applied' = applied \cup {o}
  /\ Found(o, "copied")
  /\ UNCHANGED <<case, complete, loc, plan, evidence, hands>>

\* The agent moves nothing: the destination is already there, or nothing is.
\* Where this is no result of the executor, it reports for manual recovery.
AgentInspects(o) ==
  /\ Moving(o)
  /\ \/ /\ op[o].src \in disk /\ op[o].dst \in disk
        /\ Found(o, "matched")
     \/ /\ op[o].src \notin disk /\ op[o].dst \in disk /\ o \in evidence
        /\ Found(o, "recovered")
     \/ /\ op[o].src \notin disk /\ op[o].dst \notin disk
        /\ Found(o, "absent")
  /\ UNCHANGED <<case, complete, loc, plan, disk, evidence, applied, hands>>

\* The source goes to the recovery folder, which no scan looks at.
AgentCleans(o) ==
  /\ Leased(o, TRUE) /\ op[o].job.found = "nothing"
  /\ op[o].dst \in disk
  /\ disk' = disk \ {op[o].src}
  /\ Found(o, "cleaned")
  /\ UNCHANGED <<case, complete, loc, plan, evidence, applied, hands>>

-----------------------------------------------------------------------------
(* The results (agent/store.ts reportResult, applyFileOperationResult)     *)

\* Mutant of ResultStrategy: a copy that an earlier attempt has published is
\* reported as a rename.
ResultCopyAsRename(o) ==
  IF op[o].job.found = "copied" THEN "staged_copy" ELSE "atomic_rename"

ResultStrategy(o) ==
  CASE op[o].job.found \in {"renamed", "recovered"} -> "atomic_rename"
    [] op[o].job.found = "copied" -> "staged_copy"
    [] op[o].job.found = "matched" -> op[o].payload

\* Mutant of RecoveredLocation: every recovered rename is taken for published.
RecoveredAnyLocation(o) == op[o].job.found = "recovered"

\* Folder discovery has already published the destination of this rename.
RecoveredLocation(o) ==
  /\ op[o].job.found = "recovered"
  /\ loc.version = op[o].locVersion + 1
  /\ loc.path = op[o].dst

\* Mutant of LocationAgrees: the location is not compared with the plan.
LocationVerifiedOnly(o) == loc.status = "verified"

LocationAgrees(o) ==
  /\ loc.status = "verified"
  /\ RecoveredLocation(o) \/ LocationUnchanged(op[o])

\* The lifecycle operation that waits for the result of o.
Waiting(o) ==
  {l \in Plans : /\ plan[l].op = o
                 /\ plan[l].status \notin {"closed", "reopened", "cleanup_pending"}}

Finished(l) == IF plan[l].type = "close" THEN "closed" ELSE "reopened"

\* Mutant of CaseFollows: the case is closed whatever has happened to it.
CaseFollowsAnyway(l) == TRUE

\* The case takes the new status only if it is as it was at the plan, and a
\* normal close only if nothing has become missing since.
CaseFollows(l) == CaseUnchanged(l) /\ RequirementsHold(l)

\* finalizeLinkedLifecycle
FinalizeLifecycle(o, strategy) ==
  LET done(l) == l \in Waiting(o) /\ CaseFollows(l) IN
  IF \E l \in Plans : done(l)
  THEN LET l == CHOOSE x \in Plans : done(x) IN
       /\ case' = [status |-> After(l), version |-> case.version + 1,
                   home |-> IF plan[l].type = "close" THEN op[o].src ELSE case.home]
       /\ plan' = [plan EXCEPT ![l].status =
                     IF strategy = "staged_copy" THEN "cleanup_pending" ELSE Finished(l)]
  ELSE /\ plan' = IF Waiting(o) = {} THEN plan
                  ELSE LifecycleFailure(o, "manual_recovery_required")
       /\ UNCHANGED case

\* Mutant of MovedRow: the cleanup job carries the version of the move.
MovedRowOldVersion(o, strategy) ==
  LET copied == strategy = "staged_copy" IN
  [op[o] EXCEPT
     !.status = IF copied THEN "cleanup_pending" ELSE "ready",
     !.strategy = strategy, !.manifest = TRUE, !.version = op[o].version + 1,
     !.job = IF copied THEN FreshJob(TRUE, op[o].version)
             ELSE [op[o].job EXCEPT !.status = "succeeded"]]

\* The row of a verified move; after a copy a second job removes the source.
MovedRow(o, strategy) ==
  LET copied == strategy = "staged_copy" IN
  [op[o] EXCEPT
     !.status = IF copied THEN "cleanup_pending" ELSE "ready",
     !.strategy = strategy, !.manifest = TRUE, !.version = op[o].version + 1,
     !.job = IF copied THEN FreshJob(TRUE, op[o].version + 1)
             ELSE [op[o].job EXCEPT !.status = "succeeded"]]

\* A verified move: the case, its lifecycle operation, its location and the
\* operation change in one transaction; a copy leaves the source to clean up.
ReportMoved(o) ==
  LET strategy == ResultStrategy(o) IN
  /\ Leased(o, FALSE)
  /\ op[o].job.found \in {"renamed", "copied", "recovered", "matched"}
  /\ LocationAgrees(o)
  /\ FinalizeLifecycle(o, strategy)
  /\ loc' = IF RecoveredLocation(o) THEN loc
            ELSE [path |-> op[o].dst, status |-> "verified",
                  version |-> loc.version + 1, imported |-> FALSE, given |-> loc.given]
  /\ op' = [op EXCEPT ![o] = MovedRow(o, strategy)]
  /\ UNCHANGED <<complete, disk, evidence, applied, hands>>

\* The location changed under the operation: a person has to look.
ReportUnwanted(o) ==
  /\ Leased(o, FALSE)
  /\ op[o].job.found \in {"renamed", "copied", "recovered", "matched"}
  /\ ~LocationAgrees(o)
  /\ op' = Settled(o, "manual_recovery_required", "failed")
  /\ plan' = LifecycleFailure(o, "manual_recovery_required")
  /\ UNCHANGED <<case, complete, loc, disk, evidence, applied, hands>>

ReportMissing(o) ==
  /\ Leased(o, FALSE) /\ op[o].job.found = "absent"
  /\ op' = Settled(o, "failed", "failed")
  /\ plan' = LifecycleFailure(o, "failed")
  /\ UNCHANGED <<case, complete, loc, disk, evidence, applied, hands>>

\* The source is gone and the destination is there too: the agent's own copy
\* is finished only while the location is the one it was switched to.
ReportCleaned(o) ==
  LET agrees == /\ loc.status = "verified" /\ loc.path = op[o].dst
                /\ loc.version = op[o].locVersion + 1
  IN
  /\ Leased(o, TRUE) /\ op[o].job.found = "cleaned"
  /\ IF agrees
     THEN /\ op' = [op EXCEPT ![o].status = "ready", ![o].version = @ + 1,
                              ![o].job.status = "succeeded"]
          /\ plan' = [l \in Plans |->
                        IF plan[l].op = o /\ plan[l].status = "cleanup_pending"
                        THEN [plan[l] EXCEPT !.status = Finished(l)] ELSE plan[l]]
     ELSE /\ op' = Settled(o, "manual_recovery_required", "failed")
          /\ plan' = LifecycleFailure(o, "manual_recovery_required")
  /\ UNCHANGED <<case, complete, loc, disk, evidence, applied, hands>>

\* Outcome `failed', attempts left: the job goes back to the queue.
ReportRetry(o) ==
  /\ op[o].job.status = "leased" /\ ~Exhausted(o)
  /\ op' = Settled(o, Stage(o), "pending")
  /\ plan' = IF op[o].job.cleanup THEN plan ELSE Relinked(o, {"queued", "moving"}, "queued")
  /\ UNCHANGED <<case, complete, loc, disk, evidence, applied, hands>>

\* Outcome `failed' of the last attempt.
ReportLastFailure(o) ==
  LET to == IF op[o].job.cleanup THEN "manual_recovery_required" ELSE "failed" IN
  /\ op[o].job.status = "leased" /\ Exhausted(o)
  /\ op' = Settled(o, to, "dead_letter")
  /\ plan' = LifecycleFailure(o, to)
  /\ UNCHANGED <<case, complete, loc, disk, evidence, applied, hands>>

\* The agent found the disk ambiguous, or the source changed since the plan.
ReportGivesUp(o) ==
  /\ op[o].job.status = "leased"
  /\ \/ /\ op' = Settled(o, "manual_recovery_required", "dead_letter")
        /\ plan' = LifecycleFailure(o, "manual_recovery_required")
     \/ /\ Moving(o) /\ op[o].src \in disk
        /\ op' = Settled(o, "stale", "dead_letter")
        /\ plan' = LifecycleFailure(o, "failed")
  /\ UNCHANGED <<case, complete, loc, disk, evidence, applied, hands>>

-----------------------------------------------------------------------------
(* Everybody else                                                          *)

\* The folder is dragged elsewhere.
MoveByHand(p, q) ==
  /\ hands < MaxHands
  /\ p \in disk /\ q \notin disk
  /\ disk' = (disk \ {p}) \cup {q}
  /\ hands' = hands + 1
  /\ UNCHANGED <<case, complete, loc, op, plan, evidence, applied>>

\* assignLocation (storage/store.ts) does not ask for active operations.
AssignLocation(p) ==
  /\ hands < MaxHands
  /\ \E i \in BOOLEAN :
       loc' = [path |-> p, status |-> "pending", version |-> loc.version + 1,
               imported |-> i, given |-> [path |-> p, version |-> loc.version + 1]]
  /\ hands' = hands + 1
  /\ UNCHANGED <<case, complete, op, plan, disk, evidence, applied>>

\* applySourceFolderRelocation: a registered folder was found at a new path of
\* its root and the old path is empty.
Relocate(p) ==
  /\ loc.version < MaxVersion
  /\ p[1] = loc.path[1]
  /\ p \in disk /\ loc.path \notin disk
  /\ loc' = [path |-> p, status |-> "pending", version |-> loc.version + 1,
             imported |-> TRUE, given |-> [path |-> p, version |-> loc.version + 1]]
  /\ UNCHANGED <<case, complete, op, plan, disk, evidence, applied, hands>>

\* The verification job of the current version of the location.
VerifyLocation ==
  /\ loc.status = "pending"
  /\ loc' = [loc EXCEPT !.status = IF loc.path \in disk THEN "verified" ELSE "missing"]
  /\ UNCHANGED <<case, complete, op, plan, disk, evidence, applied, hands>>

\* reconcileOfficeFolderInventory: the status of an idle case follows the
\* folder, and a failed move that somebody has completed by hand is released.
Busy == \/ \E o \in ActiveOps : op[o].status # "failed"
        \/ ActivePlans # {}

ScanInventory ==
  LET place == loc.path[2]
      after == IF loc.path \in disk /\ ~Busy THEN place ELSE case.status
      release(o) ==
        /\ op[o].status = "failed" /\ ~Live(o)
        /\ loc.status = "verified" /\ loc.path = op[o].dst /\ loc.path \in disk
        /\ \E l \in Plans : /\ plan[l].op = o /\ plan[l].status = "failed"
                            /\ After(l) = after
  IN
  /\ after # case.status \/ \E o \in Ops : release(o)
  /\ case' = IF after = case.status THEN case
             ELSE [case EXCEPT !.status = after, !.version = @ + 1]
  /\ op' = [o \in Ops |-> IF release(o)
                          THEN [op[o] EXCEPT !.status = "stale", !.version = @ + 1]
                          ELSE op[o]]
  /\ UNCHANGED <<complete, loc, plan, disk, evidence, applied, hands>>

\* Any edit of the case; a document arrives or is found missing.
EditCase ==
  /\ case.version < MaxEdits
  /\ case' = [case EXCEPT !.version = @ + 1]
  /\ UNCHANGED <<complete, loc, op, plan, disk, evidence, applied, hands>>

RequirementsChange ==
  /\ complete' = ~complete
  /\ UNCHANGED <<case, loc, op, plan, disk, evidence, applied, hands>>

-----------------------------------------------------------------------------
Replacements == {{}} \cup {{l} : l \in Plans}

OfficeStep ==
  \/ \E p \in Paths : CreatePlan(p)
  \/ \E o \in Ops : ApprovePlan(o) \/ CancelOperation(o)
  \/ \E old \in Replacements :
       PlanReopen(old) \/ \E normal \in BOOLEAN : PlanClose(normal, old)
  \/ \E l \in Plans : \/ ApproveStale(l) \/ ApproveFirst(l)
                      \/ ApproveRetry(l) \/ CancelLifecycle(l)

QueueStep == \E o \in Ops : Claim(o) \/ ClaimExhausted(o) \/ Heartbeat(o)

AgentStep ==
  \E o \in Ops :
    \/ AgentWritesEvidence(o) \/ AgentRenames(o) \/ AgentCopies(o)
    \/ AgentInspects(o) \/ AgentCleans(o)

ReportStep ==
  \E o \in Ops :
    \/ ReportMoved(o) \/ ReportUnwanted(o) \/ ReportMissing(o) \/ ReportCleaned(o)
    \/ ReportRetry(o) \/ ReportLastFailure(o) \/ ReportGivesUp(o)

OtherStep ==
  \/ \E p, q \in Paths : MoveByHand(p, q)
  \/ \E p \in Paths : AssignLocation(p) \/ Relocate(p)
  \/ VerifyLocation \/ ScanInventory \/ EditCase \/ RequirementsChange

Next == OfficeStep \/ QueueStep \/ AgentStep \/ ReportStep \/ OtherStep

Spec == Init /\ [][Next]_vars

\* Agents poll for ever (runLoop), so a job that can be claimed is claimed; no
\* report, no heartbeat and no person is owed.
Fairness == \A o \in Ops : WF_vars(Claim(o)) /\ WF_vars(ClaimExhausted(o))

FairSpec == Spec /\ Fairness

-----------------------------------------------------------------------------
(* Safety                                                                  *)

Reserving(o) == op[o].status \notin OpTerminal \cup {"absent"}
Active(l) == plan[l].status \notin PlanInactive

\* A case never has two file operations that still reserve folders, nor two
\* lifecycle operations under way: the unique indexes of migrations 0012 and
\* 0013 are never what stops a command (createPlan, enqueueLifecycleFileOperation,
\* planClose, planReopen and the retry of approve check first).
OneAtATime ==
  /\ \A i, j \in Ops : Reserving(i) /\ Reserving(j) => i = j
  /\ \A i, j \in Plans : Active(i) /\ Active(j) => i = j

\* The statuses a lifecycle operation may have next to those of its file
\* operation.  A file operation cancelled under its lifecycle operation
\* (cancel of file-operations/store.ts) leaves it queued.
AgreesWith ==
  [queued |-> {"queued", "cancelled"},
   moving |-> {"applying"},
   cleanup_pending |-> {"cleanup_pending"},
   closed |-> {"ready"}, reopened |-> {"ready"},
   failed |-> {"failed", "stale"}, stale |-> {"failed", "stale"},
   manual_recovery_required |->
     {"manual_recovery_required", "ready", "cleanup_pending"}]

\* Whatever interleaving of claims, heartbeats, reports and commands has led
\* here, a lifecycle operation tells of its file operation what is true: it is
\* closed or reopened only over a finished move, and failed only where nothing
\* can move any more.
PlanFollowsOperation ==
  \A l \in Plans :
    plan[l].op # 0 =>
      op[plan[l].op].status \in AgreesWith[plan[l].status]

\* An operation is waiting for an agent exactly while a job of the right kind
\* and version lives for it: none waits for ever on an ended job, and no job
\* moves folders for an operation that has ended (active_job_id and
\* target_version of applyFileOperationResult).
JobServesOperation ==
  \A o \in Ops :
    /\ op[o].status \in {"queued", "applying", "cleanup_pending"} <=> Live(o)
    /\ Live(o) => /\ op[o].job.version = op[o].version
                  /\ op[o].job.cleanup <=> op[o].status = "cleanup_pending"

\* While nobody has touched folders or locations by hand, a verified location
\* of a case at rest is where its folder stands, through retries, lost
\* reports and recovery; except that an operation which was replaced, dropped
\* or cancelled after an attempt of it had moved the folder says nothing.
LocationHoldsFolder ==
  /\ hands = 0 /\ loc.status = "verified"
  /\ \A o \in Ops : op[o].status \in OpTerminal \cup {"absent"}
  /\ \A o \in applied : op[o].status = "ready"
  => loc.path \in disk

\* Once a move between two roots is ready, the folder it came from is gone
\* while the case has not been moved again (cleanup_moved_workspace).
CopyLeavesNoSource ==
  \A o \in Ops :
    /\ op[o].status = "ready" /\ op[o].payload = "staged_copy"
    /\ hands = 0 /\ loc.version = op[o].locVersion + 1
    /\ \A i \in applied : op[i].status = "ready"
    => op[o].src \notin disk

\* The status of a case changes in two ways only.  Either its lifecycle
\* operation is finished by the report of its move, and then the case is the
\* one the operation was planned for, its location becomes the destination in
\* the same step, and a normal close finds every requirement met at that very
\* moment; or the scan of the office finds an idle case's folder placed so.
StatusFollowsFolder ==
  [][case'.status # case.status =>
       \/ \E l \in Plans :
            /\ plan[l].status \in {"queued", "moving"}
            /\ plan'[l].status \in {"closed", "reopened", "cleanup_pending"}
            /\ case.version = plan[l].caseVersion
            /\ case'.status = IF plan[l].type = "close" THEN "closed" ELSE "open"
            /\ loc'.path = plan[l].dst /\ loc'.status = "verified"
            /\ plan[l].type = "close" /\ plan[l].normal => complete
       \/ /\ UNCHANGED <<loc, plan, disk>>
          /\ loc.path \in disk /\ case'.status = loc.path[2]
          /\ \A l \in Plans : plan[l].status \in PlanInactive]_vars

\* A location that a person assigned, or discovery followed the folder to, stands
\* until a move that was planned after it has been carried out: no report of an
\* earlier plan, however late, lost or recovered, puts the case elsewhere
\* (assignLocation asks for no operation; applyFileOperationResult has to see it).
AssignmentsStand ==
  loc.path # loc.given.path =>
    \E o \in Ops : /\ op[o].manifest /\ op[o].dst = loc.path
                   /\ op[o].locVersion >= loc.given.version

-----------------------------------------------------------------------------
(* Liveness                                                                *)

UnderWay(l) == plan[l].status \in {"queued", "moving", "cleanup_pending"}

\* Even if every report is lost, an approved close or reopen comes to an end
\* that people can see, unless its file operation was cancelled under it.
ApprovedPlanEnds ==
  \A l \in Plans :
    UnderWay(l) ~> \/ ~UnderWay(l)
                   \/ plan[l].op # 0 /\ op[plan[l].op].status = "cancelled"

-----------------------------------------------------------------------------
(* What the tests of the repository say and the code does not do           *)

\* "cancel works only at a safe stage, where nothing was applied"
\* (services/api/test/file-operations.test.ts:430): a cancelled operation has
\* never moved a folder.  A retry of the lifecycle operation gives the same
\* file operation a new job with no attempts, and cancel looks only at those.
CancelledWasNotApplied ==
  \A o \in Ops : op[o].status = "cancelled" => o \notin applied

\* "really moves it back on reopen" (services/api/test/case-lifecycle.test.ts
\* :354): a case archived by hand and closed in place is reopened to a folder
\* outside KAPALI.  planReopen takes the open form only where the folder still
\* stands where the close found it.
ReopenLeavesArchive ==
  \A l \in Plans : plan[l].type = "reopen" => plan[l].dst[2] = "open"
=============================================================================
