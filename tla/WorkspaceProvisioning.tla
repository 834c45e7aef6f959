------------------------- MODULE WorkspaceProvisioning -------------------------
(***************************************************************************)
(* How a new case gets its folder.  A plan (api/src/workspace/store.ts)     *)
(* reserves a path; an approval queues a job; a File Agent makes the folder,*)
(* writes a marker that names the plan, makes the subfolders and looks at   *)
(* all of it again (file-agent/src/workspace-provisioner.ts); the report    *)
(* inserts the location of the case (api/src/agent/store.ts).               *)
(*                                                                          *)
(* All cases here have the same plate and year, so that they compete for    *)
(* the paths PLATE, PLATE - 2, ...: path p stands for the p-th name.        *)
(***************************************************************************)
EXTENDS Naturals, FiniteSets

CONSTANTS
  Cases,        \* cases; each has at most one plan, so a case also names its plan
  Agents,       \* File Agent processes
  Person,       \* whoever else makes folders in the office
  Nobody,       \* no agent, no maker, no marker
  MaxPath,      \* the names tried (10000 in the code)
  MaxSub,       \* the subfolders, made in this order (5 in the code)
  MaxAttempts,  \* jobs.max_attempts
  MaxHands      \* bound on the folders that people make or take away

ASSUME ProvisioningAssumption ==
  /\ Person \notin Cases /\ Nobody \notin Cases \cup Agents \cup {Person}
  /\ MaxPath \in Nat \ {0} /\ MaxSub \in Nat \ {0}
  /\ MaxAttempts \in Nat \ {0} /\ MaxHands \in Nat

VARIABLES
  plan,       \* case_workspace_provisionings of each case
  job,        \* the latest job of each plan
  loc,        \* path of the location of each case, 0 for none
  disk,       \* what stands at each path
  agent,      \* each agent: where it is, for which case
  published,  \* history: who made the folder that the report was about
  hands       \* history: what people have done to folders so far

vars == <<plan, job, loc, disk, agent, published, hands>>

Paths == 1 .. MaxPath
Subs == 1 .. MaxSub
Makers == Cases \cup {Person}

Working == {"queued", "applying", "verifying"}
Reports == {"verified", "failed"}
Steps == {"mkdir", "mark", "owner", "subs", "remake", "checkOwner", "checkSubs"}

PlanRow == [status : {"none", "planned", "failed", "ready", "stale"} \cup Working,
            path : {0} \cup Paths]
JobRow == [status : {"none", "pending", "leased", "succeeded", "dead_letter"},
           holder : Agents \cup {Nobody}, valid : BOOLEAN,
           attempt : 0 .. MaxAttempts]
FolderRow == [maker : Makers \cup {Nobody}, marker : Cases \cup {Nobody},
              subs : SUBSET Subs]
AgentRow == [pc : {"idle"} \cup Steps \cup Reports, for : Cases \cup {Nobody},
             armed : BOOLEAN, next : 1 .. MaxSub + 1,
             saw : Makers \cup {Nobody}]

NoFolder == [maker |-> Nobody, marker |-> Nobody, subs |-> {}]
NoTask == [pc |-> "idle", for |-> Nobody, armed |-> FALSE, next |-> 1, saw |-> Nobody]

\* Everything is well typed, and the attempt budget is kept.
TypeOK ==
  /\ plan \in [Cases -> PlanRow]
  /\ job \in [Cases -> JobRow]
  /\ loc \in [Cases -> {0} \cup Paths]
  /\ disk \in [Paths -> FolderRow]
  /\ agent \in [Agents -> AgentRow]
  /\ published \in [Cases -> Makers \cup {Nobody}]
  /\ hands \in 0 .. MaxHands

Init ==
  /\ plan = [c \in Cases |-> [status |-> "none", path |-> 0]]
  /\ job = [c \in Cases |-> [status |-> "none", holder |-> Nobody,
                             valid |-> FALSE, attempt |-> 0]]
  /\ loc = [c \in Cases |-> 0]
  /\ disk = [p \in Paths |-> NoFolder]
  /\ agent = [a \in Agents |-> NoTask]
  /\ published = [c \in Cases |-> Nobody]
  /\ hands = 0

database == <<plan, job, loc>>
history == <<published, hands>>

Stands(p) == disk[p].maker # Nobody
JobActive(c) == job[c].status \in {"pending", "leased"}
Holds(a, c) == job[c].status = "leased" /\ job[c].holder = a /\ job[c].valid

-----------------------------------------------------------------------------
(* Commands of people                                                      *)

\* A location or a plan, whatever its status, owns its path.
Owns(d, p) == loc[d] = p \/ plan[d].path = p

\* Mutant of OwnedByAnother: the guard looks at locations only.
LocatedForAnother(c, p) == \E d \in Cases \ {c} : loc[d] = p

\* The trigger of migration 0074, run by every insertion and change of a path.
OwnedByAnother(c, p) == \E d \in Cases \ {c} : Owns(d, p)

FreePaths == {p \in Paths : \A d \in Cases : ~Owns(d, p)}

\* createPlan: one plan per case, only for a case without a location, with the
\* first name that nothing in the database owns.
CreatePlan(c) ==
  /\ loc[c] = 0
  /\ plan[c].status = "none"
  /\ \E p \in FreePaths :
       /\ \A q \in FreePaths : p <= q
       /\ plan' = [plan EXCEPT ![c] = [status |-> "planned", path |-> p]]
  /\ UNCHANGED <<job, loc, disk, agent, history>>

\* The approval takes over the job of an attempt that failed, if it may still
\* run, and otherwise inserts one.
NewJob(c) ==
  IF JobActive(c) THEN job[c]
  ELSE [status |-> "pending", holder |-> Nobody, valid |-> FALSE, attempt |-> 0]

\* approvePlan: a no-op on a plan that is under way or ready, refused for a
\* stale one; otherwise the first approval or the retry of a failed plan.
Approve(c) ==
  /\ plan[c].status \in {"planned", "failed"}
  /\ plan' = [plan EXCEPT ![c].status = "queued"]
  /\ job' = [job EXCEPT ![c] = NewJob(c)]
  /\ UNCHANGED <<loc, disk, agent, history>>

\* A person says where the folder of a case is (storage/store.ts
\* assignLocation), also while a plan is under way.
AssignLocation(c, p) ==
  /\ loc[c] # p
  /\ ~OwnedByAnother(c, p)
  /\ loc' = [loc EXCEPT ![c] = p]
  /\ UNCHANGED <<plan, job, disk, agent, history>>

-----------------------------------------------------------------------------
(* The queue (agent/store.ts claimJob, reportResult; job-lease.ts)         *)

Claimable(c) ==
  job[c].status = "pending" \/ (job[c].status = "leased" /\ ~job[c].valid)

\* Mutant of NextAttempt: taking over an expired lease costs no attempt.
NextAttemptFreeTakeover(c) ==
  IF job[c].status = "leased" THEN job[c].attempt ELSE job[c].attempt + 1

NextAttempt(c) == job[c].attempt + 1

\* Mutant of BudgetLeft: one attempt too many.
BudgetLeftOffByOne(c) == NextAttempt(c) <= MaxAttempts + 1

BudgetLeft(c) == NextAttempt(c) <= MaxAttempts

Claim(a, c) ==
  /\ agent[a].pc = "idle"
  /\ Claimable(c) /\ BudgetLeft(c)
  /\ job' = [job EXCEPT ![c] = [status |-> "leased", holder |-> a, valid |-> TRUE,
                                attempt |-> NextAttempt(c)]]
  /\ plan' = [plan EXCEPT ![c].status =
                IF @ \in {"ready", "stale"} THEN @ ELSE "applying"]
  /\ agent' = [agent EXCEPT ![a] = [NoTask EXCEPT !.pc = "mkdir", !.for = c]]
  /\ UNCHANGED <<loc, disk, history>>

\* Mutant of StatusAfterExhaustion: the plan is forgotten.
StatusForgotten(s) == s

StatusAfterExhaustion(s) == IF s \in {"ready", "stale"} THEN s ELSE "failed"

ClaimExhausted(c) ==
  /\ Claimable(c) /\ ~BudgetLeft(c)
  /\ job' = [job EXCEPT ![c] = [@ EXCEPT !.status = "dead_letter", !.holder = Nobody,
                                         !.valid = FALSE]]
  /\ plan' = [plan EXCEPT ![c].status = StatusAfterExhaustion(@)]
  /\ UNCHANGED <<loc, disk, agent, history>>

LeaseExpires(c) ==
  /\ job[c].status = "leased" /\ job[c].valid
  /\ job' = [job EXCEPT ![c].valid = FALSE]
  /\ UNCHANGED <<plan, loc, disk, agent, history>>

Idle(a) == agent' = [agent EXCEPT ![a] = NoTask]

\* A failed attempt: the job waits for the next one or is given up, and the
\* plan says failed either way.
ReportFailed(a) ==
  LET c == agent[a].for IN
  /\ agent[a].pc = "failed" /\ Holds(a, c)
  /\ job' = [job EXCEPT ![c] = [@ EXCEPT
               !.status = IF BudgetLeft(c) THEN "pending" ELSE "dead_letter",
               !.holder = Nobody, !.valid = FALSE]]
  /\ plan' = [plan EXCEPT ![c].status =
                IF @ \in {"ready", "stale"} THEN @ ELSE "failed"]
  /\ Idle(a)
  /\ UNCHANGED <<loc, disk, history>>

\* Mutant of LocationInTheWay: only the path is looked at.
OnlyPathTaken(c) == \E d \in Cases : loc[d] = plan[c].path

\* The case has got a location meanwhile, or its path is that of another one.
LocationInTheWay(c) == loc[c] # 0 \/ \E d \in Cases : loc[d] = plan[c].path

\* A verified folder becomes the location of the case, unless a person has
\* assigned one since: then the plan is stale.
ReportVerified(a) ==
  LET c == agent[a].for IN
  /\ agent[a].pc = "verified" /\ Holds(a, c)
  /\ job' = [job EXCEPT ![c] = [@ EXCEPT !.status = "succeeded", !.holder = Nobody,
                                         !.valid = FALSE]]
  /\ IF plan[c].status \in {"ready", "stale"}
     THEN UNCHANGED <<plan, loc, published>>
     ELSE IF LocationInTheWay(c)
     THEN /\ plan' = [plan EXCEPT ![c].status = "stale"]
          /\ UNCHANGED <<loc, published>>
     ELSE /\ plan' = [plan EXCEPT ![c].status = "ready"]
          /\ loc' = [loc EXCEPT ![c] = plan[c].path]
          /\ published' = [published EXCEPT ![c] = agent[a].saw]
  /\ Idle(a)
  /\ UNCHANGED <<disk, hands>>

\* The lease is lost: the next check throws and nothing is reported.
Abandon(a) ==
  /\ agent[a].pc # "idle" /\ ~agent[a].armed
  /\ ~Holds(a, agent[a].for)
  /\ Idle(a)
  /\ UNCHANGED <<database, disk, history>>

\* A marker that is cut off by the crash is as good as none.
Crash(a) ==
  /\ agent[a].pc # "idle"
  /\ Idle(a)
  /\ UNCHANGED <<database, disk, history>>

-----------------------------------------------------------------------------
(* Steps of an agent (workspace-provisioner.ts provisionCaseWorkspace)     *)

At(a, pc) == agent[a].pc = pc
Target(a) == plan[agent[a].for].path

Goes(a, pc) == agent' = [agent EXCEPT ![a] = [@ EXCEPT !.pc = pc, !.armed = FALSE]]

SubMissing(a) == Stands(Target(a)) /\ agent[a].next \notin disk[Target(a)].subs

\* beforeCreate, which is lease.check, and the call of mkdir is issued.
Arm(a) ==
  /\ ~agent[a].armed
  /\ \/ At(a, "mkdir") \/ At(a, "remake")
     \/ At(a, "subs") /\ agent[a].next <= MaxSub /\ SubMissing(a)
  /\ Holds(a, agent[a].for)
  /\ agent' = [agent EXCEPT ![a].armed = TRUE]
  /\ UNCHANGED <<database, disk, history>>

\* Root health, freshness, a path that is not a plain folder, any call that
\* throws: the attempt has failed, what was made stays.
Fails(a) ==
  /\ agent[a].pc \in Steps
  /\ Goes(a, "failed")
  /\ UNCHANGED <<database, disk, history>>

\* Mutant of AfterMkdir: a folder that was there is marked like a new one.
MarkAnyway(p) == "mark"

\* mkdir says whether this agent made the folder; one that was there must bear
\* the marker already.
AfterMkdir(p) == IF Stands(p) THEN "owner" ELSE "mark"

MakeTarget(a) ==
  LET p == Target(a) IN
  /\ At(a, "mkdir") /\ agent[a].armed
  /\ Goes(a, AfterMkdir(p))
  /\ disk' = IF Stands(p) THEN disk
             ELSE [disk EXCEPT ![p] = [NoFolder EXCEPT !.maker = agent[a].for]]
  /\ UNCHANGED <<database, history>>

\* writeFile with flag wx, without another look at the lease.
WriteMarker(a) ==
  LET p == Target(a) IN
  /\ At(a, "mark")
  /\ IF Stands(p) /\ disk[p].marker = Nobody
     THEN /\ disk' = [disk EXCEPT ![p].marker = agent[a].for]
          /\ Goes(a, "subs")
     ELSE UNCHANGED disk /\ Goes(a, "failed")
  /\ UNCHANGED <<database, history>>

\* Mutant of BearsMarker: any folder will do.
AnyFolder(p, c) == Stands(p)

\* assertWorkspaceOwner
BearsMarker(p, c) == Stands(p) /\ disk[p].marker = c

AssertOwner(a) ==
  /\ At(a, "owner")
  /\ Goes(a, IF BearsMarker(Target(a), agent[a].for) THEN "subs" ELSE "failed")
  /\ UNCHANGED <<database, disk, history>>

\* ensureDirectoryChain walks down from the root and makes what it misses, one
\* mkdir at a time: a subfolder is there,
PassSub(a) ==
  /\ At(a, "subs") /\ ~agent[a].armed
  /\ agent[a].next <= MaxSub /\ agent[a].next \in disk[Target(a)].subs
  /\ agent' = [agent EXCEPT ![a].next = @ + 1]
  /\ UNCHANGED <<database, disk, history>>

\* or the folder of the case itself has gone,
MissTarget(a) ==
  /\ At(a, "subs") /\ ~agent[a].armed
  /\ agent[a].next <= MaxSub /\ ~Stands(Target(a))
  /\ Goes(a, "remake")
  /\ UNCHANGED <<database, disk, history>>

\* and is made once more, this time without a marker,
RemakeTarget(a) ==
  LET p == Target(a) IN
  /\ At(a, "remake") /\ agent[a].armed
  /\ disk' = IF Stands(p) THEN disk
             ELSE [disk EXCEPT ![p] = [NoFolder EXCEPT !.maker = agent[a].for]]
  /\ Goes(a, "subs")
  /\ UNCHANGED <<database, history>>

\* or the subfolder is made, unless the folder above it goes at that moment.
MakeSub(a) ==
  LET p == Target(a) IN
  /\ At(a, "subs") /\ agent[a].armed
  /\ IF Stands(p)
     THEN /\ disk' = [disk EXCEPT ![p].subs = @ \cup {agent[a].next}]
          /\ Goes(a, "subs")
     ELSE UNCHANGED disk /\ Goes(a, "failed")
  /\ UNCHANGED <<database, history>>

\* onVerifying: a heartbeat that sets the phase, and renews the lease.
StartVerifying(a) ==
  LET c == agent[a].for IN
  /\ At(a, "subs") /\ agent[a].next = MaxSub + 1
  /\ Holds(a, c)
  /\ plan' = [plan EXCEPT ![c].status =
                IF @ \in {"ready", "stale"} THEN @ ELSE "verifying"]
  /\ Goes(a, "checkOwner")
  /\ UNCHANGED <<job, loc, disk, history>>

\* The last look, in two steps: the folder and its marker, then the subfolders.
CheckOwner(a) ==
  LET p == Target(a) IN
  /\ At(a, "checkOwner")
  /\ IF BearsMarker(p, agent[a].for)
     THEN agent' = [agent EXCEPT ![a] = [@ EXCEPT !.pc = "checkSubs",
                                                  !.saw = disk[p].maker]]
     ELSE Goes(a, "failed")
  /\ UNCHANGED <<database, disk, history>>

CheckSubs(a) ==
  /\ At(a, "checkSubs")
  /\ Goes(a, IF disk[Target(a)].subs = Subs THEN "verified" ELSE "failed")
  /\ UNCHANGED <<database, disk, history>>

AgentStep(a) ==
  \/ Arm(a) \/ Fails(a)
  \/ MakeTarget(a) \/ WriteMarker(a) \/ AssertOwner(a)
  \/ PassSub(a) \/ MissTarget(a) \/ RemakeTarget(a) \/ MakeSub(a) \/ StartVerifying(a)
  \/ CheckOwner(a) \/ CheckSubs(a)

-----------------------------------------------------------------------------
(* People in the office                                                    *)

\* A folder with the name of the case.
PersonMakes(p) ==
  /\ hands < MaxHands
  /\ ~Stands(p)
  /\ disk' = [disk EXCEPT ![p] = [NoFolder EXCEPT !.maker = Person]]
  /\ hands' = hands + 1
  /\ UNCHANGED <<database, agent, published>>

\* Nobody touches a folder in the instant between its making and its marking.
BeingMarked(p) == \E a \in Agents : At(a, "mark") /\ Target(a) = p

\* A folder is deleted, or dragged out of the way.
PersonRemoves(p) ==
  /\ hands < MaxHands
  /\ Stands(p) /\ ~BeingMarked(p)
  /\ disk' = [disk EXCEPT ![p] = NoFolder]
  /\ hands' = hands + 1
  /\ UNCHANGED <<database, agent, published>>

\* A folder is dragged to the name of another case.
PersonRenames(p, q) ==
  /\ hands < MaxHands
  /\ Stands(p) /\ ~BeingMarked(p) /\ ~Stands(q)
  /\ disk' = [disk EXCEPT ![p] = NoFolder, ![q] = disk[p]]
  /\ hands' = hands + 1
  /\ UNCHANGED <<database, agent, published>>

-----------------------------------------------------------------------------

SomeClaim(c) == \E a \in Agents : Claim(a, c)
Ends(a) == ReportFailed(a) \/ ReportVerified(a) \/ Abandon(a) \/ Crash(a)

Next ==
  \/ \E c \in Cases :
       \/ CreatePlan(c) \/ Approve(c)
       \/ SomeClaim(c) \/ ClaimExhausted(c) \/ LeaseExpires(c)
       \/ \E p \in Paths : AssignLocation(c, p)
  \/ \E a \in Agents : AgentStep(a) \/ Ends(a)
  \/ \E p \in Paths : PersonMakes(p) \/ PersonRemoves(p)
  \/ \E p, q \in Paths : PersonRenames(p, q)

Spec == Init /\ [][Next]_vars

\* Agents poll and serve jobs in the order of their age, an attempt ends one
\* way or the other, and a lease that is not renewed runs out.
Fairness ==
  /\ \A c \in Cases : SF_vars(SomeClaim(c)) /\ WF_vars(ClaimExhausted(c))
  /\ \A c \in Cases : WF_vars(LeaseExpires(c))
  /\ \A a \in Agents : WF_vars(AgentStep(a) \/ Ends(a))

FairSpec == Spec /\ Fairness

-----------------------------------------------------------------------------
(* Correctness                                                             *)

\* Two cases never own one path, be it by a location or by a reservation: the
\* documents of one would land in the folder of the other (migration 0074).
OneOwner ==
  \A c, d \in Cases : \A p \in Paths : Owns(c, p) /\ Owns(d, p) => c = d

\* A plan is under way exactly as far as its job is, and a plan that has its
\* outcome leaves no job behind that could still run; a failed attempt whose
\* job waits for the next one says failed (claimJob, heartbeat, reportResult).
PlanFollowsJob ==
  \A c \in Cases :
    /\ plan[c].status = "queued" => job[c].status = "pending"
    /\ plan[c].status \in {"applying", "verifying"} <=> job[c].status = "leased"
    /\ plan[c].status \in {"ready", "stale"} <=> job[c].status = "succeeded"
    /\ plan[c].status \in {"none", "planned"} <=> job[c].status = "none"

\* The marker of a plan stands in a folder an agent made for that plan, never
\* in one that people or another plan made (workspace-provisioner.ts: `Never
\* adopt an existing unmarked directory'), whoever crashes or is overtaken.
MarkersOnlyInOwn ==
  \A p \in Paths : disk[p].marker # Nobody => disk[p].maker = disk[p].marker

\* What becomes the location of a case is the folder made for it, through all
\* that agents and people do to that path between mkdir and the report.
PublishesOwnFolder ==
  \A c \in Cases : plan[c].status = "ready" => published[c] = c

\* A location that a person has assigned is never replaced by the late result
\* of a plan (agent/store.ts, location_changed).
AssignmentWins ==
  [][\A c \in Cases : loc[c] # 0 /\ job'[c] # job[c] => loc'[c] = loc[c]]_vars

\* The job of an approved plan ends, whatever crashes and gets lost.
ProvisioningEnds == \A c \in Cases : JobActive(c) ~> ~JobActive(c)

\* What an attempt has left unfinished can be finished by the next: a folder
\* made for a plan that failed bears its marker, or it is nobody's and every
\* retry is refused (`idempotent', workspace-provisioner.ts; the test
\* `retry completes what is missing').
PartialFolderIsResumable ==
  \A c \in Cases :
    LET p == plan[c].path IN
      plan[c].status = "failed" /\ job[c].status = "dead_letter"
        /\ (\A a \in Agents : agent[a].for # c) /\ disk[p].maker = c
      => disk[p].marker = c
=============================================================================
