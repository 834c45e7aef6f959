---------------------- MODULE WorkspaceProvisioningProofs ----------------------
(***************************************************************************)
(* Safety of the provisioning of folders for every number of cases, agents, *)
(* names, subfolders and interventions: the types, one owner per path,      *)
(* plans that go with their jobs, and that only a folder made for a plan    *)
(* bears its marker or becomes a location.  For the last, an agent that has *)
(* made a folder must still find that folder when it marks it, and what an  *)
(* agent saw in its last look must be its own.                              *)
(***************************************************************************)
EXTENDS WorkspaceProvisioning, TLAPS

\* A plan has a path as soon as it exists.
PlansHavePaths == \A c \in Cases : plan[c].status # "none" => plan[c].path \in Paths

\* An agent at work is at work for a case that has a plan.
AgentsServePlans ==
  \A a \in Agents :
    agent[a].pc # "idle" =>
      /\ agent[a].for \in Cases
      /\ plan[agent[a].for].status # "none"

\* An agent that has issued the mkdir of a subfolder is at a subfolder.
ArmedAtSub ==
  \A a \in Agents : agent[a].armed /\ agent[a].pc = "subs" => agent[a].next \in Subs

\* The folder an agent is about to mark is the one made for its plan.
MarksWhatWasMade ==
  \A a \in Agents :
    agent[a].pc = "mark" => disk[plan[agent[a].for].path].maker = agent[a].for

\* What an agent has seen in its last look was made for its plan.
SawOwn ==
  \A a \in Agents :
    agent[a].pc \in {"checkSubs", "verified"} => agent[a].saw = agent[a].for

Helpers ==
  /\ PlansHavePaths
  /\ AgentsServePlans
  /\ ArmedAtSub
  /\ MarksWhatWasMade
  /\ SawOwn

IInv ==
  /\ TypeOK
  /\ OneOwner
  /\ PlanFollowsJob
  /\ MarkersOnlyInOwn
  /\ PublishesOwnFolder
  /\ Helpers

\* Init: nothing has been planned and no folder stands.
LEMMA InitIInv == Init => IInv
<1> SUFFICES ASSUME Init PROVE IInv
  OBVIOUS
<1> USE ProvisioningAssumption DEF Init
<1>1. TypeOK
  <2>1. plan \in [Cases -> PlanRow] /\ loc \in [Cases -> {0} \cup Paths]
    BY DEF PlanRow
  <2>2. job \in [Cases -> JobRow]
    BY DEF JobRow
  <2>3. disk \in [Paths -> FolderRow]
    BY DEF FolderRow, NoFolder
  <2>4. agent \in [Agents -> AgentRow]
    BY DEF AgentRow, NoTask
  <2>5. published \in [Cases -> Makers \cup {Nobody}] /\ hands \in 0 .. MaxHands
    OBVIOUS
  <2> QED
    BY <2>1, <2>2, <2>3, <2>4, <2>5 DEF TypeOK
<1>2. OneOwner
  BY DEF OneOwner, Owns, Paths
<1>3. PlanFollowsJob
  BY DEF PlanFollowsJob
<1>4. MarkersOnlyInOwn /\ PublishesOwnFolder
  BY DEF MarkersOnlyInOwn, PublishesOwnFolder, NoFolder
<1>5. Helpers
  BY DEF Helpers, PlansHavePaths, AgentsServePlans, ArmedAtSub, MarksWhatWasMade,
         SawOwn, NoTask
<1> QED
  BY <1>1, <1>2, <1>3, <1>4, <1>5 DEF IInv

\* The steps by what they may change: rows of the database by people, rows by
\* the queue, an agent that ends its task, an agent that goes on, folders by people.
DeskStep(c) == CreatePlan(c) \/ Approve(c) \/ \E p \in Paths : AssignLocation(c, p)
QueueStep(c) == SomeClaim(c) \/ ClaimExhausted(c) \/ LeaseExpires(c)
PeopleStep ==
  \/ \E p \in Paths : PersonMakes(p) \/ PersonRemoves(p)
  \/ \E p, q \in Paths : PersonRenames(p, q)

LEMMA NextSteps ==
  ASSUME [Next]_vars
  PROVE  \/ \E c \in Cases : DeskStep(c)
         \/ \E c \in Cases : QueueStep(c)
         \/ \E a \in Agents : Ends(a)
         \/ \E a \in Agents : AgentStep(a)
         \/ PeopleStep
         \/ UNCHANGED vars
  BY DEF Next, DeskStep, QueueStep, PeopleStep

\* Rows keep their types.  A row of the agents is written by Goes, Idle or in place.
LEMMA GoesTyped ==
  ASSUME TypeOK, NEW a \in Agents, NEW pc \in Steps \cup Reports, Goes(a, pc)
  PROVE  /\ agent' \in [Agents -> AgentRow]
         /\ agent'[a] = [agent[a] EXCEPT !.pc = pc, !.armed = FALSE]
         /\ \A b \in Agents \ {a} : agent'[b] = agent[b]
<1> DEFINE row == [agent[a] EXCEPT !.pc = pc, !.armed = FALSE]
<1>1. row \in AgentRow
  BY DEF TypeOK, AgentRow
<1>2. agent' = [agent EXCEPT ![a] = row]
  BY DEF Goes
<1> HIDE DEF row
<1>3. agent' \in [Agents -> AgentRow] /\ agent'[a] = row
      /\ \A b \in Agents \ {a} : agent'[b] = agent[b]
  BY <1>1, <1>2 DEF TypeOK
<1> QED
  BY <1>3 DEF row

LEMMA IdleTyped ==
  ASSUME TypeOK, NEW a \in Agents, Idle(a)
  PROVE  /\ agent' \in [Agents -> AgentRow]
         /\ agent'[a] = NoTask
         /\ \A b \in Agents \ {a} : agent'[b] = agent[b]
<1>1. NoTask \in AgentRow
  BY ProvisioningAssumption DEF NoTask, AgentRow
<1> QED
  BY <1>1 DEF Idle, TypeOK

\* People at the desk change plan, job and location of one case.
LEMMA DeskTyped ==
  ASSUME TypeOK, NEW c \in Cases, DeskStep(c)
  PROVE  TypeOK'
<1> USE ProvisioningAssumption
<1>1. CASE CreatePlan(c)
  <2>1. PICK p \in Paths : plan' = [plan EXCEPT ![c] = [status |-> "planned", path |-> p]]
    BY <1>1 DEF CreatePlan, FreePaths
  <2>2. plan' \in [Cases -> PlanRow]
    BY <2>1 DEF TypeOK, PlanRow
  <2> QED
    BY <1>1, <2>2 DEF CreatePlan, TypeOK, history
<1>2. CASE Approve(c)
  <2>1. plan' \in [Cases -> PlanRow]
    BY <1>2 DEF Approve, TypeOK, PlanRow, Working
  <2>2. NewJob(c) \in JobRow
    BY DEF NewJob, TypeOK, JobRow
  <2>3. job' \in [Cases -> JobRow]
    BY <1>2, <2>2 DEF Approve, TypeOK
  <2> QED
    BY <1>2, <2>1, <2>3 DEF Approve, TypeOK, history
<1>3. CASE \E p \in Paths : AssignLocation(c, p)
  BY <1>3 DEF AssignLocation, TypeOK, history
<1> QED
  BY <1>1, <1>2, <1>3 DEF DeskStep

\* Claims count the attempts and keep within the budget.
LEMMA QueueTyped ==
  ASSUME TypeOK, NEW c \in Cases, QueueStep(c)
  PROVE  TypeOK'
<1> USE ProvisioningAssumption
<1>1. CASE SomeClaim(c)
  <2>1. PICK a \in Agents : Claim(a, c)
    BY <1>1 DEF SomeClaim
  <2>2. NextAttempt(c) \in 0 .. MaxAttempts
    BY <2>1 DEF Claim, BudgetLeft, NextAttempt, TypeOK, JobRow
  <2>3. job' \in [Cases -> JobRow]
    BY <2>1, <2>2 DEF Claim, TypeOK, JobRow
  <2>4. plan' \in [Cases -> PlanRow]
    BY <2>1 DEF Claim, TypeOK, PlanRow, Working
  <2>7. NoTask \in AgentRow
    BY DEF NoTask, AgentRow
  <2>5. [NoTask EXCEPT !.pc = "mkdir", !.for = c] \in AgentRow
    BY <2>7 DEF AgentRow, Steps
  <2>6. agent' \in [Agents -> AgentRow]
    BY <2>1, <2>5 DEF Claim, TypeOK
  <2> QED
    BY <2>1, <2>3, <2>4, <2>6 DEF Claim, TypeOK, history
<1>2. CASE ClaimExhausted(c)
  <2>1. job' \in [Cases -> JobRow]
    BY <1>2 DEF ClaimExhausted, TypeOK, JobRow
  <2>2. plan' \in [Cases -> PlanRow]
    BY <1>2 DEF ClaimExhausted, StatusAfterExhaustion, TypeOK, PlanRow
  <2> QED
    BY <1>2, <2>1, <2>2 DEF ClaimExhausted, TypeOK, history
<1>3. CASE LeaseExpires(c)
  <2>1. job' \in [Cases -> JobRow]
    BY <1>3 DEF LeaseExpires, TypeOK, JobRow
  <2> QED
    BY <1>3, <2>1 DEF LeaseExpires, TypeOK, history
<1> QED
  BY <1>1, <1>2, <1>3 DEF QueueStep

LEMMA EndsTyped ==
  ASSUME TypeOK, Helpers, NEW a \in Agents, Ends(a)
  PROVE  TypeOK'
<1> USE ProvisioningAssumption
<1> DEFINE c == agent[a].for
<1>0. agent' \in [Agents -> AgentRow]
  BY IdleTyped DEF Ends, ReportFailed, ReportVerified, Abandon, Crash
<1>1. CASE ReportFailed(a)
  <2>1. c \in Cases
    BY <1>1 DEF ReportFailed, Helpers, AgentsServePlans
  <2> DEFINE row == [job[c] EXCEPT !.status = IF BudgetLeft(c) THEN "pending" ELSE "dead_letter",
                                  !.holder = Nobody, !.valid = FALSE]
  <2>4. row \in JobRow /\ job' = [job EXCEPT ![c] = row]
    BY <1>1, <2>1 DEF ReportFailed, TypeOK, JobRow
  <2>2. job' \in [Cases -> JobRow]
    BY <2>1, <2>4 DEF TypeOK
  <2>3. plan' \in [Cases -> PlanRow]
    BY <1>1, <2>1 DEF ReportFailed, TypeOK, PlanRow
  <2> QED
    BY <1>0, <1>1, <2>2, <2>3 DEF ReportFailed, TypeOK, history
<1>2. CASE ReportVerified(a)
  <2>1. c \in Cases /\ plan[c].path \in Paths
    BY <1>2 DEF ReportVerified, Helpers, AgentsServePlans, PlansHavePaths
  <2> DEFINE row == [job[c] EXCEPT !.status = "succeeded", !.holder = Nobody, !.valid = FALSE]
  <2>7. row \in JobRow
    BY <2>1 DEF TypeOK, JobRow
  <2>6. row \in JobRow /\ job' = [job EXCEPT ![c] = row]
    BY <1>2, <2>7 DEF ReportVerified
  <2>2. job' \in [Cases -> JobRow]
    BY <2>1, <2>6 DEF TypeOK
  <2>3. plan' \in [Cases -> PlanRow]
    BY <1>2, <2>1 DEF ReportVerified, TypeOK, PlanRow
  <2>4. loc' \in [Cases -> {0} \cup Paths]
    BY <1>2, <2>1 DEF ReportVerified, TypeOK
  <2>5. published' \in [Cases -> Makers \cup {Nobody}]
    BY <1>2, <2>1 DEF ReportVerified, TypeOK, AgentRow
  <2> QED
    BY <1>0, <1>2, <2>2, <2>3, <2>4, <2>5 DEF ReportVerified, TypeOK
<1>3. CASE Abandon(a) \/ Crash(a)
  BY <1>0, <1>3 DEF Abandon, Crash, TypeOK, database, history
<1> QED
  BY <1>1, <1>2, <1>3 DEF Ends

\* What a step of an agent at work does to its own row, and to the others.
LEMMA AgentFrame ==
  ASSUME TypeOK, Helpers, NEW a \in Agents, AgentStep(a)
  PROVE  /\ agent' \in [Agents -> AgentRow]
         /\ agent[a].pc \in Steps
         /\ agent'[a].pc \in Steps \cup Reports
         /\ agent'[a].for = agent[a].for
         /\ \A b \in Agents \ {a} : agent'[b] = agent[b]
         /\ UNCHANGED <<job, loc, history>>
         /\ ~StartVerifying(a) => UNCHANGED plan
<1> USE ProvisioningAssumption
<1>0. /\ agent[a] \in AgentRow /\ agent \in [Agents -> AgentRow]
      /\ {"mark", "owner", "subs", "remake", "checkOwner", "checkSubs", "verified", "failed"}
           \subseteq Steps \cup Reports
  BY DEF TypeOK, Steps, Reports
<1>1. CASE Arm(a)
  <2>1. agent' = [agent EXCEPT ![a].armed = TRUE] /\ agent[a].pc \in Steps
    BY <1>1 DEF Arm, At, Steps
  <2>2. [agent[a] EXCEPT !.armed = TRUE] \in AgentRow
    BY <1>0 DEF AgentRow
  <2>3. agent' \in [Agents -> AgentRow] /\ agent'[a] = [agent[a] EXCEPT !.armed = TRUE]
        /\ \A b \in Agents \ {a} : agent'[b] = agent[b]
    BY <1>0, <2>1, <2>2
  <2>4. agent'[a].pc = agent[a].pc /\ agent'[a].for = agent[a].for
    BY <1>0, <2>3 DEF AgentRow
  <2> QED
    BY <1>1, <2>1, <2>3, <2>4 DEF Arm, database
<1>2. CASE PassSub(a)
  <2>1. agent[a].next + 1 \in 1 .. MaxSub + 1 /\ agent[a].pc \in Steps
    BY <1>0, <1>2 DEF PassSub, AgentRow, At, Steps
  <2>2. agent' = [agent EXCEPT ![a].next = @ + 1]
    BY <1>2 DEF PassSub
  <2> QED
    BY <1>0, <1>2, <2>1, <2>2 DEF PassSub, AgentRow, database, history
<1>3. CASE CheckOwner(a) /\ BearsMarker(Target(a), agent[a].for)
  <2>0. agent[a].pc \in Steps
    BY <1>3 DEF CheckOwner, At, Steps
  <2> DEFINE row == [agent[a] EXCEPT !.pc = "checkSubs", !.saw = disk[Target(a)].maker]
  <2>1. agent' = [agent EXCEPT ![a] = row]
    BY <1>3 DEF CheckOwner
  <2>2. row \in AgentRow /\ row.pc = "checkSubs" /\ row.for = agent[a].for
    <3>1. Target(a) \in Paths
      BY <2>0 DEF Target, Helpers, AgentsServePlans, PlansHavePaths, Steps
    <3>2. disk[Target(a)].maker \in Makers \cup {Nobody}
      BY <3>1 DEF TypeOK, FolderRow
    <3> QED
      BY <1>0, <3>2 DEF AgentRow
  <2> HIDE DEF row
  <2> QED
    BY <1>0, <1>3, <2>0, <2>1, <2>2 DEF CheckOwner, database, history
<1>4. CASE \E pc \in Steps \cup Reports : Goes(a, pc)
  <2>1. PICK pc \in Steps \cup Reports : Goes(a, pc)
    BY <1>4
  <2>2. agent[a].pc \in Steps
    BY DEF AgentStep, Arm, Fails, MakeTarget, WriteMarker, AssertOwner, PassSub, MissTarget,
           RemakeTarget, MakeSub, StartVerifying, CheckOwner, CheckSubs, At, Steps
  <2>3. UNCHANGED <<job, loc, history>> /\ (~StartVerifying(a) => UNCHANGED plan)
    BY DEF AgentStep, Arm, Fails, MakeTarget, WriteMarker, AssertOwner, PassSub, MissTarget,
           RemakeTarget, MakeSub, StartVerifying, CheckOwner, CheckSubs, database
  <2>4. /\ agent' \in [Agents -> AgentRow]
        /\ agent'[a] = [agent[a] EXCEPT !.pc = pc, !.armed = FALSE]
        /\ \A b \in Agents \ {a} : agent'[b] = agent[b]
    BY <2>1, GoesTyped
  <2>5. agent'[a].pc = pc /\ agent'[a].for = agent[a].for
    BY <1>0, <2>4 DEF AgentRow
  <2> QED
    BY <2>2, <2>3, <2>4, <2>5
<1> QED
  <2>1. Fails(a) \/ MakeTarget(a) \/ WriteMarker(a) \/ AssertOwner(a)
        \/ MissTarget(a) \/ RemakeTarget(a) \/ MakeSub(a) \/ StartVerifying(a) \/ CheckSubs(a)
        => \E pc \in Steps \cup Reports : Goes(a, pc)
    BY <1>0 DEF Fails, MakeTarget, AfterMkdir, WriteMarker, AssertOwner, MissTarget,
                RemakeTarget, MakeSub, StartVerifying, CheckSubs
  <2>2. CheckOwner(a) /\ ~BearsMarker(Target(a), agent[a].for)
        => \E pc \in Steps \cup Reports : Goes(a, pc)
    BY <1>0 DEF CheckOwner
  <2> QED
    BY <1>1, <1>2, <1>3, <1>4, <2>1, <2>2 DEF AgentStep

\* An agent writes to the folder of its plan.
LEMMA TargetIsPath ==
  ASSUME Helpers, NEW a \in Agents, agent[a].pc # "idle"
  PROVE  Target(a) \in Paths /\ agent[a].for \in Cases
  BY DEF Target, Helpers, AgentsServePlans, PlansHavePaths

\* A new folder has a maker and no marker.
NewFolder(m) == [NoFolder EXCEPT !.maker = m]

LEMMA NewFolderIsBare ==
  /\ NoFolder \in FolderRow /\ NoFolder.maker = Nobody /\ NoFolder.marker = Nobody
  /\ \A m \in Makers : /\ NewFolder(m) \in FolderRow
                       /\ NewFolder(m).maker = m /\ NewFolder(m).marker = Nobody
<1>1. NoFolder \in FolderRow /\ NoFolder.maker = Nobody /\ NoFolder.marker = Nobody
  BY DEF NoFolder, FolderRow
<1> QED
  BY <1>1 DEF NewFolder, FolderRow

\* What a step of an agent does to the disk: nothing, or one folder becomes a
\* new one without a marker, or gets its marker, or a subfolder.
LEMMA AgentOnDisk ==
  ASSUME TypeOK, Helpers, NEW a \in Agents, AgentStep(a)
  PROVE  \/ UNCHANGED disk
         \/ /\ ~Stands(Target(a))
            /\ disk' = [disk EXCEPT ![Target(a)] = NewFolder(agent[a].for)]
         \/ /\ agent[a].pc = "mark"
            /\ disk' = [disk EXCEPT ![Target(a)].marker = agent[a].for]
         \/ /\ Stands(Target(a)) /\ agent[a].next \in Subs
            /\ disk' = [disk EXCEPT ![Target(a)].subs = @ \cup {agent[a].next}]
<1>1. CASE MakeTarget(a)
  BY <1>1 DEF MakeTarget, NewFolder
<1>2. CASE WriteMarker(a)
  BY <1>2 DEF WriteMarker, At
<1>3. CASE MakeSub(a)
  <2>1. agent[a].next \in Subs
    BY <1>3 DEF MakeSub, At, Helpers, ArmedAtSub
  <2> QED
    BY <1>3, <2>1 DEF MakeSub
<1>4. CASE RemakeTarget(a)
  BY <1>4 DEF RemakeTarget, NewFolder
<1>5. CASE Arm(a) \/ Fails(a) \/ AssertOwner(a) \/ PassSub(a) \/ MissTarget(a)
           \/ StartVerifying(a) \/ CheckOwner(a) \/ CheckSubs(a)
  BY <1>5 DEF Arm, Fails, AssertOwner, PassSub, MissTarget, StartVerifying, CheckOwner,
              CheckSubs
<1> QED
  BY <1>1, <1>2, <1>3, <1>4, <1>5 DEF AgentStep

LEMMA AgentTyped ==
  ASSUME TypeOK, Helpers, NEW a \in Agents, AgentStep(a)
  PROVE  TypeOK'
<1> USE ProvisioningAssumption
<1>1. agent' \in [Agents -> AgentRow] /\ UNCHANGED <<job, loc, history>>
  BY AgentFrame
<1>2. Target(a) \in Paths /\ agent[a].for \in Cases
  <2>1. agent[a].pc # "idle"
    BY AgentFrame DEF Steps
  <2> QED
    BY <2>1, TargetIsPath
<1>3. plan' \in [Cases -> PlanRow]
  <2>1. CASE StartVerifying(a)
    BY <1>2, <2>1 DEF StartVerifying, TypeOK, PlanRow, Working
  <2>2. CASE ~StartVerifying(a)
    BY <2>2, AgentFrame DEF TypeOK
  <2> QED
    BY <2>1, <2>2
<1>4. disk' \in [Paths -> FolderRow]
  <2>1. CASE disk' = [disk EXCEPT ![Target(a)] = NewFolder(agent[a].for)]
    BY <1>2, <2>1, NewFolderIsBare DEF TypeOK, Makers
  <2>2. CASE disk' = [disk EXCEPT ![Target(a)].marker = agent[a].for]
    BY <1>2, <2>2 DEF TypeOK, FolderRow
  <2>3. CASE /\ agent[a].next \in Subs
             /\ disk' = [disk EXCEPT ![Target(a)].subs = @ \cup {agent[a].next}]
    BY <1>2, <2>3 DEF TypeOK, FolderRow
  <2> QED
    BY <2>1, <2>2, <2>3, AgentOnDisk DEF TypeOK
<1> QED
  BY <1>1, <1>3, <1>4 DEF TypeOK, history

LEMMA PeopleTyped ==
  ASSUME TypeOK, PeopleStep
  PROVE  TypeOK'
<1> USE ProvisioningAssumption
<1>1. hands' \in 0 .. MaxHands /\ UNCHANGED <<database, agent, published>>
  BY DEF PeopleStep, PersonMakes, PersonRemoves, PersonRenames, TypeOK
<1>2. /\ NoFolder \in FolderRow
      /\ [NoFolder EXCEPT !.maker = Person] \in FolderRow
  BY NewFolderIsBare DEF NewFolder, Makers
<1>3. disk' \in [Paths -> FolderRow]
  <2>1. CASE \E p \in Paths : PersonMakes(p) \/ PersonRemoves(p)
    BY <1>2, <2>1 DEF PersonMakes, PersonRemoves, TypeOK
  <2>2. CASE \E p, q \in Paths : PersonRenames(p, q)
    BY <1>2, <2>2 DEF PersonRenames, TypeOK
  <2> QED
    BY <2>1, <2>2 DEF PeopleStep
<1> QED
  BY <1>1, <1>3 DEF TypeOK, database

LEMMA TypeStep == TypeOK /\ Helpers /\ [Next]_vars => TypeOK'
<1> SUFFICES ASSUME TypeOK, Helpers, [Next]_vars PROVE TypeOK'
  OBVIOUS
<1>1. UNCHANGED vars => TypeOK'
  BY DEF vars, TypeOK
<1> QED
  BY <1>1, NextSteps, DeskTyped, QueueTyped, EndsTyped, AgentTyped, PeopleTyped

\* A plan keeps its path, and never ceases to be one.
LEMMA PathsStay ==
  ASSUME TypeOK, Helpers, [Next]_vars, NEW c \in Cases, plan[c].status # "none"
  PROVE  plan'[c].status # "none" /\ plan'[c].path = plan[c].path
<1> USE DEF TypeOK, PlanRow
<1>1. CASE \E d \in Cases : DeskStep(d)
  BY <1>1 DEF DeskStep, CreatePlan, Approve, AssignLocation
<1>2. CASE \E d \in Cases : QueueStep(d)
  <2>1. PICK d \in Cases : QueueStep(d)
    BY <1>2
  <2>2. CASE SomeClaim(d)
    BY <2>2 DEF SomeClaim, Claim
  <2>3. CASE ClaimExhausted(d)
    BY <2>3 DEF ClaimExhausted, StatusAfterExhaustion
  <2>4. CASE LeaseExpires(d)
    BY <2>4 DEF LeaseExpires
  <2> QED
    BY <2>1, <2>2, <2>3, <2>4 DEF QueueStep
<1>3. CASE \E a \in Agents : Ends(a)
  BY <1>3 DEF Ends, ReportFailed, ReportVerified, Abandon, Crash, database
<1>4. CASE \E a \in Agents : AgentStep(a)
  <2>1. PICK a \in Agents : AgentStep(a)
    BY <1>4
  <2>2. CASE StartVerifying(a)
    BY <2>2 DEF StartVerifying
  <2> QED
    BY <2>1, <2>2, AgentFrame
<1>5. CASE PeopleStep \/ UNCHANGED vars
  BY <1>5 DEF PeopleStep, PersonMakes, PersonRemoves, PersonRenames, database, vars
<1> QED
  BY <1>1, <1>2, <1>3, <1>4, <1>5, NextSteps

\* A path gets an owner by a plan for a free path, by an assignment that the
\* trigger lets pass, or by a report, to the case whose plan owned it already.
LEMMA OneOwnerStep ==
  ASSUME TypeOK, Helpers, OneOwner, [Next]_vars
  PROVE  OneOwner'
<1> USE DEF TypeOK
<1>1. ASSUME UNCHANGED loc, \A c \in Cases : plan'[c].path = plan[c].path
      PROVE  OneOwner'
  BY <1>1 DEF OneOwner, Owns
<1>2. ASSUME NEW c \in Cases, CreatePlan(c)
      PROVE  OneOwner'
  <2>1. PICK p \in FreePaths : plan' = [plan EXCEPT ![c] = [status |-> "planned", path |-> p]]
    BY <1>2 DEF CreatePlan
  <2>2. /\ UNCHANGED loc /\ plan'[c].path = p
        /\ \A d \in Cases \ {c} : plan'[d] = plan[d]
    BY <1>2, <2>1 DEF CreatePlan
  <2>3. \A d \in Cases : ~Owns(d, p)
    BY <2>1 DEF FreePaths
  <2>4. \A d \in Cases, q \in Paths : Owns(d, q)' => Owns(d, q) \/ (d = c /\ q = p)
    BY <2>2 DEF Owns
  <2> QED
    BY <2>3, <2>4 DEF OneOwner
<1>3. ASSUME NEW c \in Cases, NEW p \in Paths, AssignLocation(c, p)
      PROVE  OneOwner'
  <2>1. \A d \in Cases, q \in Paths : Owns(d, q)' => Owns(d, q) \/ (d = c /\ q = p)
    BY <1>3 DEF AssignLocation, Owns
  <2>2. \A d \in Cases : Owns(d, p) => d = c
    BY <1>3 DEF AssignLocation, OwnedByAnother
  <2> QED
    BY <2>1, <2>2 DEF OneOwner
<1>4. ASSUME NEW a \in Agents, ReportVerified(a)
      PROVE  OneOwner'
  <2> DEFINE c == agent[a].for
  <2>1. c \in Cases
    BY <1>4, TargetIsPath DEF ReportVerified
  <2>2. \A d \in Cases : plan'[d].path = plan[d].path
    BY <1>4, <2>1 DEF ReportVerified, PlanRow
  <2>3. \A d \in Cases : loc'[d] = loc[d] \/ loc'[d] = plan[d].path
    BY <1>4, <2>1 DEF ReportVerified
  <2>4. \A d \in Cases, q \in Paths : Owns(d, q)' => Owns(d, q)
    BY <2>2, <2>3 DEF Owns
  <2> QED
    BY <2>4 DEF OneOwner
<1>5. \/ UNCHANGED loc /\ \A c \in Cases : plan'[c].path = plan[c].path
      \/ \E c \in Cases : CreatePlan(c) \/ \E p \in Paths : AssignLocation(c, p)
      \/ \E a \in Agents : ReportVerified(a)
  <2>1. CASE \E c \in Cases : DeskStep(c)
    BY <2>1 DEF DeskStep, Approve, PlanRow
  <2>2. CASE \E c \in Cases : QueueStep(c)
    <3>1. PICK c \in Cases : QueueStep(c)
      BY <2>2
    <3>2. CASE SomeClaim(c)
      BY <3>2 DEF SomeClaim, Claim, PlanRow
    <3>3. CASE ClaimExhausted(c) \/ LeaseExpires(c)
      BY <3>3 DEF ClaimExhausted, LeaseExpires, StatusAfterExhaustion, PlanRow
    <3> QED
      BY <3>1, <3>2, <3>3 DEF QueueStep
  <2>3. CASE \E a \in Agents : Ends(a)
    BY <2>3 DEF Ends, ReportFailed, Abandon, Crash, database, PlanRow
  <2>4. CASE \E a \in Agents : AgentStep(a)
    <3>1. PICK a \in Agents : AgentStep(a)
      BY <2>4
    <3>2. CASE StartVerifying(a)
      BY <3>2 DEF StartVerifying, PlanRow
    <3> QED
      BY <3>1, <3>2, AgentFrame
  <2>5. CASE PeopleStep \/ UNCHANGED vars
    BY <2>5 DEF PeopleStep, PersonMakes, PersonRemoves, PersonRenames, database, vars
  <2> QED
    BY <2>1, <2>2, <2>3, <2>4, <2>5, NextSteps
<1> QED
  BY <1>1, <1>2, <1>3, <1>4, <1>5

\* Status of plan and job of one case, and of no other, change together.
PlanFollowsJobOf(status, jobStatus) ==
  /\ status = "queued" => jobStatus = "pending"
  /\ status \in {"applying", "verifying"} <=> jobStatus = "leased"
  /\ status \in {"ready", "stale"} <=> jobStatus = "succeeded"
  /\ status \in {"none", "planned"} <=> jobStatus = "none"

LEMMA PlanFollowsJobStep ==
  ASSUME TypeOK, Helpers, PlanFollowsJob, [Next]_vars
  PROVE  PlanFollowsJob'
<1> USE DEF TypeOK, PlanRow, JobRow
<1>1. ASSUME NEW c \in Cases,
             \A d \in Cases \ {c} : plan'[d].status = plan[d].status
                                  /\ job'[d].status = job[d].status,
             PlanFollowsJobOf(plan'[c].status, job'[c].status)
      PROVE  PlanFollowsJob'
  BY <1>1 DEF PlanFollowsJob, PlanFollowsJobOf
<1>2. ASSUME \A d \in Cases : plan'[d].status = plan[d].status
                             /\ job'[d].status = job[d].status
      PROVE  PlanFollowsJob'
  BY <1>2 DEF PlanFollowsJob
<1>3. \A c \in Cases : PlanFollowsJobOf(plan[c].status, job[c].status)
  BY DEF PlanFollowsJob, PlanFollowsJobOf
<1>4. CASE \E c \in Cases : DeskStep(c)
  <2>1. PICK c \in Cases : DeskStep(c)
    BY <1>4
  <2>2. CASE CreatePlan(c)
    BY <1>1, <1>3, <2>2 DEF CreatePlan, PlanFollowsJobOf
  <2>3. CASE Approve(c)
    <3>1. JobActive(c) => job[c].status = "pending"
      BY <1>3, <2>3 DEF Approve, JobActive, PlanFollowsJobOf
    <3>2. NewJob(c).status = "pending"
      BY <3>1 DEF NewJob
    <3> QED
      BY <1>1, <2>3, <3>2 DEF Approve, PlanFollowsJobOf
  <2>4. CASE \E p \in Paths : AssignLocation(c, p)
    BY <1>2, <2>4 DEF AssignLocation
  <2> QED
    BY <2>1, <2>2, <2>3, <2>4 DEF DeskStep
<1>5. CASE \E c \in Cases : QueueStep(c)
  <2>1. PICK c \in Cases : QueueStep(c)
    BY <1>5
  <2>2. CASE SomeClaim(c)
    <3>1. PICK a \in Agents : Claim(a, c)
      BY <2>2 DEF SomeClaim
    <3>2. plan[c].status \notin {"ready", "stale"}
      BY <1>3, <3>1 DEF Claim, Claimable, PlanFollowsJobOf
    <3>3. plan'[c].status = "applying" /\ job'[c].status = "leased"
      BY <3>1, <3>2 DEF Claim
    <3>4. \A d \in Cases \ {c} : plan'[d] = plan[d] /\ job'[d] = job[d]
      BY <3>1 DEF Claim
    <3> QED
      BY <1>1, <3>3, <3>4 DEF PlanFollowsJobOf
  <2>3. CASE ClaimExhausted(c)
    <3>2. plan[c].status \notin {"ready", "stale"}
      BY <1>3, <2>3 DEF ClaimExhausted, Claimable, PlanFollowsJobOf
    <3>3. plan'[c].status = "failed" /\ job'[c].status = "dead_letter"
      BY <2>3, <3>2 DEF ClaimExhausted, StatusAfterExhaustion
    <3>4. \A d \in Cases \ {c} : plan'[d] = plan[d] /\ job'[d] = job[d]
      BY <2>3 DEF ClaimExhausted
    <3> QED
      BY <1>1, <3>3, <3>4 DEF PlanFollowsJobOf
  <2>4. CASE LeaseExpires(c)
    BY <1>2, <2>4 DEF LeaseExpires
  <2> QED
    BY <2>1, <2>2, <2>3, <2>4 DEF QueueStep
<1>6. CASE \E a \in Agents : Ends(a)
  <2>1. PICK a \in Agents : Ends(a)
    BY <1>6
  <2> DEFINE c == agent[a].for
  <2>2. CASE ReportFailed(a)
    <3>1. c \in Cases /\ job[c].status = "leased"
      BY <2>2, TargetIsPath DEF ReportFailed, Holds
    <3>2. plan[c].status \notin {"ready", "stale"}
      BY <1>3, <3>1 DEF PlanFollowsJobOf
    <3>3. plan'[c].status = "failed" /\ job'[c].status \in {"pending", "dead_letter"}
      BY <2>2, <3>1, <3>2 DEF ReportFailed
    <3>4. \A d \in Cases \ {c} : plan'[d] = plan[d] /\ job'[d] = job[d]
      BY <2>2, <3>1 DEF ReportFailed
    <3> QED
      BY <1>1, <3>1, <3>3, <3>4 DEF PlanFollowsJobOf
  <2>3. CASE ReportVerified(a)
    <3>1. c \in Cases /\ job[c].status = "leased"
      BY <2>3, TargetIsPath DEF ReportVerified, Holds
    <3>2. plan[c].status \notin {"ready", "stale"}
      BY <1>3, <3>1 DEF PlanFollowsJobOf
    <3>3. plan'[c].status \in {"ready", "stale"} /\ job'[c].status = "succeeded"
      BY <2>3, <3>1, <3>2 DEF ReportVerified
    <3>4. \A d \in Cases \ {c} : plan'[d] = plan[d] /\ job'[d] = job[d]
      BY <2>3, <3>1 DEF ReportVerified
    <3> QED
      BY <1>1, <3>1, <3>3, <3>4 DEF PlanFollowsJobOf
  <2>4. CASE Abandon(a) \/ Crash(a)
    BY <1>2, <2>4 DEF Abandon, Crash, database
  <2> QED
    BY <2>1, <2>2, <2>3, <2>4 DEF Ends
<1>7. CASE \E a \in Agents : AgentStep(a)
  <2>1. PICK a \in Agents : AgentStep(a)
    BY <1>7
  <2> DEFINE c == agent[a].for
  <2>2. CASE StartVerifying(a)
    <3>1. c \in Cases /\ job[c].status = "leased"
      BY <2>2, TargetIsPath DEF StartVerifying, Holds, At
    <3>2. plan[c].status \notin {"ready", "stale"}
      BY <1>3, <3>1 DEF PlanFollowsJobOf
    <3>3. plan'[c].status = "verifying" /\ UNCHANGED job
          /\ \A d \in Cases \ {c} : plan'[d] = plan[d]
      BY <2>2, <3>1, <3>2 DEF StartVerifying
    <3> QED
      BY <1>1, <3>1, <3>3 DEF PlanFollowsJobOf
  <2>3. CASE ~StartVerifying(a)
    BY <1>2, <2>1, <2>3, AgentFrame
  <2> QED
    BY <2>2, <2>3
<1>8. CASE PeopleStep \/ UNCHANGED vars
  BY <1>2, <1>8 DEF PeopleStep, PersonMakes, PersonRemoves, PersonRenames, database, vars
<1> QED
  BY <1>4, <1>5, <1>6, <1>7, <1>8, NextSteps

\* What each kind of step does to the agents, in one place: at most one of them
\* moves; a claim starts one, an end makes one idle.
LEMMA AgentsChange ==
  ASSUME TypeOK, Helpers, [Next]_vars
  PROVE  \/ UNCHANGED agent
         \/ \E a \in Agents, c \in Cases :
              /\ job[c].status # "none"
              /\ agent' = [agent EXCEPT ![a] = [NoTask EXCEPT !.pc = "mkdir", !.for = c]]
              /\ UNCHANGED <<disk, history>>
         \/ \E a \in Agents : Idle(a) /\ UNCHANGED disk
         \/ \E a \in Agents : AgentStep(a)
<1>1. CASE \E c \in Cases : DeskStep(c)
  BY <1>1 DEF DeskStep, CreatePlan, Approve, AssignLocation
<1>2. CASE \E c \in Cases : QueueStep(c)
  BY <1>2 DEF QueueStep, SomeClaim, Claim, Claimable, ClaimExhausted, LeaseExpires
<1>3. CASE \E a \in Agents : Ends(a)
  BY <1>3 DEF Ends, ReportFailed, ReportVerified, Abandon, Crash
<1>4. CASE PeopleStep \/ UNCHANGED vars
  BY <1>4 DEF PeopleStep, PersonMakes, PersonRemoves, PersonRenames, vars
<1> QED
  BY <1>1, <1>2, <1>3, <1>4, NextSteps

\* A claimed task is that of a case with a plan, and starts with mkdir.
LEMMA NewTask ==
  ASSUME NEW c \in Cases
  PROVE  LET task == [NoTask EXCEPT !.pc = "mkdir", !.for = c] IN
           task.pc = "mkdir" /\ task.for = c
  BY DEF NoTask

LEMMA PlansHavePathsStep ==
  ASSUME TypeOK, Helpers, PlanFollowsJob, [Next]_vars
  PROVE  PlansHavePaths'
<1> SUFFICES ASSUME NEW c \in Cases, plan'[c].status # "none"
             PROVE  plan'[c].path \in Paths
  BY DEF PlansHavePaths
<1>1. CASE plan[c].status # "none"
  BY <1>1, PathsStay DEF Helpers, PlansHavePaths
<1>2. CASE plan[c].status = "none"
  <2> USE DEF TypeOK, PlanRow
  <2>0. job[c].status = "none"
    BY <1>2 DEF PlanFollowsJob
  <2>1. CASE \E d \in Cases : DeskStep(d)
    BY <1>2, <2>1 DEF DeskStep, CreatePlan, FreePaths, Approve, AssignLocation
  <2>2. CASE \E d \in Cases : QueueStep(d)
    <3>1. PICK d \in Cases : QueueStep(d)
      BY <2>2
    <3>2. CASE SomeClaim(d)
      BY <1>2, <2>0, <3>2 DEF SomeClaim, Claim, Claimable
    <3>3. CASE ClaimExhausted(d) \/ LeaseExpires(d)
      BY <1>2, <2>0, <3>3 DEF ClaimExhausted, Claimable, LeaseExpires
    <3> QED
      BY <3>1, <3>2, <3>3 DEF QueueStep
  <2>3. CASE \E a \in Agents : Ends(a)
    BY <1>2, <2>0, <2>3 DEF Ends, ReportFailed, ReportVerified, Holds, Abandon, Crash, database
  <2>4. CASE \E a \in Agents : AgentStep(a)
    <3>1. PICK a \in Agents : AgentStep(a)
      BY <2>4
    <3>2. CASE StartVerifying(a)
      BY <1>2, <2>0, <3>2 DEF StartVerifying, Holds
    <3> QED
      BY <1>2, <3>1, <3>2, AgentFrame
  <2>5. CASE PeopleStep \/ UNCHANGED vars
    BY <1>2, <2>5 DEF PeopleStep, PersonMakes, PersonRemoves, PersonRenames, database, vars
  <2> QED
    BY <2>1, <2>2, <2>3, <2>4, <2>5, NextSteps
<1> QED
  BY <1>1, <1>2

LEMMA AgentsServePlansStep ==
  ASSUME TypeOK, Helpers, PlanFollowsJob, [Next]_vars
  PROVE  AgentsServePlans'
<1> SUFFICES ASSUME NEW b \in Agents, agent'[b].pc # "idle"
             PROVE  /\ agent'[b].for \in Cases
                    /\ plan'[agent'[b].for].status # "none"
  BY DEF AgentsServePlans
<1>1. CASE agent[b].pc # "idle" /\ agent'[b].for = agent[b].for
  BY <1>1, PathsStay DEF Helpers, AgentsServePlans
<1>2. CASE UNCHANGED agent
  BY <1>1, <1>2
<1>3. CASE \E a \in Agents, c \in Cases :
             /\ job[c].status # "none"
             /\ agent' = [agent EXCEPT ![a] = [NoTask EXCEPT !.pc = "mkdir", !.for = c]]
  <2>1. PICK a \in Agents, c \in Cases :
             /\ job[c].status # "none"
             /\ agent' = [agent EXCEPT ![a] = [NoTask EXCEPT !.pc = "mkdir", !.for = c]]
    BY <1>3
  <2>2. plan[c].status # "none" /\ plan'[c].status # "none"
    BY <2>1, PathsStay DEF PlanFollowsJob
  <2> QED
    BY <1>1, <2>1, <2>2, NewTask DEF TypeOK
<1>4. CASE \E a \in Agents : Idle(a)
  BY <1>1, <1>4, IdleTyped DEF NoTask
<1>5. CASE \E a \in Agents : AgentStep(a)
  <2>1. PICK a \in Agents : AgentStep(a)
    BY <1>5
  <2> QED
    BY <1>1, <2>1, AgentFrame DEF Steps
<1> QED
  BY <1>2, <1>3, <1>4, <1>5, AgentsChange

\* Only Arm issues a call, at a subfolder that is still to be made.
LEMMA ArmedAtSubStep ==
  ASSUME TypeOK, Helpers, [Next]_vars
  PROVE  ArmedAtSub'
<1> USE DEF TypeOK, AgentRow
<1> SUFFICES ASSUME NEW b \in Agents, agent'[b].armed, agent'[b].pc = "subs"
             PROVE  agent'[b].next \in Subs
  BY DEF ArmedAtSub
<1>1. CASE agent'[b] = agent[b]
  BY <1>1 DEF Helpers, ArmedAtSub
<1>2. CASE \E a \in Agents, c \in Cases :
             agent' = [agent EXCEPT ![a] = [NoTask EXCEPT !.pc = "mkdir", !.for = c]]
  BY <1>1, <1>2, NewTask
<1>3. CASE \E a \in Agents : Idle(a)
  BY <1>1, <1>3, IdleTyped DEF NoTask
<1>4. CASE \E a \in Agents : AgentStep(a)
  <2>1. PICK a \in Agents : AgentStep(a)
    BY <1>4
  <2>2. CASE a # b
    BY <1>1, <2>1, <2>2, AgentFrame
  <2>3. CASE a = b /\ Arm(a)
    BY <2>3, ProvisioningAssumption DEF Arm, At, Subs
  <2>4. CASE a = b /\ PassSub(a)
    BY <2>4 DEF PassSub
  <2>5. CASE a = b /\ CheckOwner(a) /\ BearsMarker(Target(a), agent[a].for)
    <3>1. agent' = [agent EXCEPT ![a] = [@ EXCEPT !.pc = "checkSubs",
                                                  !.saw = disk[Target(a)].maker]]
      BY <2>5 DEF CheckOwner
    <3>2. agent'[a].pc = "checkSubs"
      BY <3>1
    <3> QED
      BY <2>5, <3>2
  <2>6. CASE a = b /\ \E pc \in Steps \cup Reports : Goes(a, pc)
    <3>1. PICK pc \in Steps \cup Reports : Goes(a, pc)
      BY <2>6
    <3>2. agent'[a] = [agent[a] EXCEPT !.pc = pc, !.armed = FALSE]
      BY <3>1, GoesTyped
    <3>3. agent[a] \in AgentRow
      OBVIOUS
    <3>4. agent'[a].armed = FALSE
      BY <3>2, <3>3
    <3> QED
      BY <2>6, <3>4
  <2>7. Fails(a) \/ MakeTarget(a) \/ WriteMarker(a) \/ AssertOwner(a)
        \/ MissTarget(a) \/ RemakeTarget(a) \/ MakeSub(a) \/ StartVerifying(a) \/ CheckSubs(a)
        \/ (CheckOwner(a) /\ ~BearsMarker(Target(a), agent[a].for))
        => \E pc \in Steps \cup Reports : Goes(a, pc)
    BY DEF Fails, MakeTarget, AfterMkdir, WriteMarker, AssertOwner, MissTarget,
           RemakeTarget, MakeSub, StartVerifying, CheckSubs, CheckOwner, Steps, Reports
  <2> QED
    BY <2>1, <2>2, <2>3, <2>4, <2>5, <2>6, <2>7 DEF AgentStep
<1> QED
  BY <1>1, <1>2, <1>3, <1>4, AgentsChange

\* How an agent gets to the places the invariant speaks of.
LEMMA ArrivesAt ==
  ASSUME TypeOK, Helpers, NEW a \in Agents, AgentStep(a)
  PROVE  /\ agent'[a].pc = "mark" => MakeTarget(a) /\ ~Stands(Target(a))
         /\ agent'[a].pc = "checkSubs" =>
              /\ BearsMarker(Target(a), agent[a].for)
              /\ agent'[a].saw = disk[Target(a)].maker
         /\ agent'[a].pc = "verified" =>
              agent[a].pc = "checkSubs" /\ agent'[a].saw = agent[a].saw
<1>0. agent[a] \in AgentRow /\ agent \in [Agents -> AgentRow]
  BY DEF TypeOK
<1>1. ASSUME NEW pc \in Steps \cup Reports, Goes(a, pc)
      PROVE  agent'[a].pc = pc /\ agent'[a].saw = agent[a].saw
  <2>1. agent'[a] = [agent[a] EXCEPT !.pc = pc, !.armed = FALSE]
    BY <1>1, GoesTyped
  <2> QED
    BY <1>0, <2>1 DEF AgentRow
<1>2. {"mark", "owner", "subs", "remake", "checkOwner", "verified", "failed"} \subseteq Steps \cup Reports
  BY DEF Steps, Reports
<1>3. CASE Arm(a)
  <2>1. agent'[a].pc = agent[a].pc
    BY <1>0, <1>3 DEF Arm
  <2> QED
    BY <1>3, <2>1 DEF Arm, At
<1>4. CASE PassSub(a)
  <2>1. agent'[a].pc = agent[a].pc
    BY <1>0, <1>4 DEF PassSub
  <2> QED
    BY <1>4, <2>1 DEF PassSub, At
<1>5. CASE MakeTarget(a)
  BY <1>1, <1>2, <1>5 DEF MakeTarget, AfterMkdir
<1>6. CASE Fails(a) \/ WriteMarker(a) \/ AssertOwner(a) \/ MissTarget(a) \/ RemakeTarget(a)
           \/ MakeSub(a) \/ StartVerifying(a)
  BY <1>1, <1>2, <1>6 DEF Fails, WriteMarker, AssertOwner, MissTarget, RemakeTarget, MakeSub,
                          StartVerifying
<1>7. CASE CheckOwner(a) /\ ~BearsMarker(Target(a), agent[a].for)
  BY <1>1, <1>2, <1>7 DEF CheckOwner
<1>8. CASE CheckOwner(a) /\ BearsMarker(Target(a), agent[a].for)
  <2> DEFINE row == [agent[a] EXCEPT !.pc = "checkSubs", !.saw = disk[Target(a)].maker]
  <2>1. agent' = [agent EXCEPT ![a] = row]
    BY <1>8 DEF CheckOwner
  <2>2. row.pc = "checkSubs" /\ row.saw = disk[Target(a)].maker
    BY <1>0 DEF AgentRow
  <2> HIDE DEF row
  <2> QED
    BY <1>0, <1>8, <2>1, <2>2
<1>9. CASE CheckSubs(a)
  BY <1>1, <1>2, <1>9 DEF CheckSubs, At
<1> QED
  BY <1>3, <1>4, <1>5, <1>6, <1>7, <1>8, <1>9 DEF AgentStep

\* A folder that stands keeps its maker through every step of an agent.
LEMMA MakerStays ==
  ASSUME TypeOK, Helpers, NEW a \in Agents, AgentStep(a), NEW p \in Paths, Stands(p)
  PROVE  disk'[p].maker = disk[p].maker
<1>1. disk \in [Paths -> FolderRow]
  BY DEF TypeOK
<1> QED
  BY <1>1, AgentOnDisk DEF FolderRow

LEMMA MarksWhatWasMadeStep ==
  ASSUME TypeOK, Helpers, [Next]_vars
  PROVE  MarksWhatWasMade'
<1> USE ProvisioningAssumption
<1> SUFFICES ASSUME NEW b \in Agents, agent'[b].pc = "mark"
             PROVE  disk'[plan'[agent'[b].for].path].maker = agent'[b].for
  BY DEF MarksWhatWasMade
<1>1. CASE agent'[b] = agent[b]
  <2> DEFINE c == agent[b].for
  <2> DEFINE p == plan[c].path
  <2>1. p \in Paths /\ c \in Cases /\ plan'[c].path = p
    BY <1>1, TargetIsPath, PathsStay DEF Target, Helpers, AgentsServePlans
  <2>2. disk[p].maker = c /\ Stands(p)
    BY <1>1, <2>1 DEF Helpers, MarksWhatWasMade, Stands
  <2>3. disk'[p].maker = c
    <3>1. CASE UNCHANGED disk
      BY <2>2, <3>1
    <3>2. CASE \E a \in Agents : AgentStep(a)
      BY <2>1, <2>2, <3>2, MakerStays
    <3>3. CASE PeopleStep
      <4>1. BeingMarked(p)
        BY <1>1 DEF BeingMarked, At, Target
      <4>2. disk'[p] = disk[p]
        BY <2>1, <2>2, <3>3, <4>1 DEF PeopleStep, PersonMakes, PersonRemoves,
                                      PersonRenames, TypeOK
      <4> QED
        BY <2>2, <4>2
    <3>4. \/ UNCHANGED disk \/ PeopleStep \/ \E a \in Agents : AgentStep(a)
      BY NextSteps DEF DeskStep, CreatePlan, Approve, AssignLocation, QueueStep, SomeClaim,
         Claim, ClaimExhausted, LeaseExpires, Ends, ReportFailed, ReportVerified, Abandon,
         Crash, vars
    <3> QED
      BY <3>1, <3>2, <3>3, <3>4
  <2> QED
    BY <1>1, <2>1, <2>3
<1>2. CASE \E a \in Agents, c \in Cases :
             agent' = [agent EXCEPT ![a] = [NoTask EXCEPT !.pc = "mkdir", !.for = c]]
  BY <1>1, <1>2, NewTask DEF TypeOK
<1>3. CASE \E a \in Agents : Idle(a)
  BY <1>1, <1>3, IdleTyped DEF NoTask
<1>4. CASE \E a \in Agents : AgentStep(a)
  <2>1. PICK a \in Agents : AgentStep(a)
    BY <1>4
  <2>2. CASE a # b
    BY <1>1, <2>1, <2>2, AgentFrame
  <2>3. CASE a = b
    <3>1. MakeTarget(a) /\ ~Stands(Target(a))
      BY <2>1, <2>3, ArrivesAt
    <3>2. Target(a) \in Paths /\ agent[a].for \in Cases
      BY <3>1, TargetIsPath DEF MakeTarget, At
    <3>3. disk' = [disk EXCEPT ![Target(a)] = NewFolder(agent[a].for)]
      BY <3>1 DEF MakeTarget, NewFolder
    <3>4. disk'[Target(a)].maker = agent[a].for
      BY <3>2, <3>3, NewFolderIsBare DEF TypeOK, Makers
    <3>5. agent'[a].for = agent[a].for /\ UNCHANGED plan
      BY <2>1, <3>1, AgentFrame DEF MakeTarget, database
    <3> QED
      BY <2>3, <3>4, <3>5 DEF Target
  <2> QED
    BY <2>2, <2>3
<1> QED
  BY <1>1, <1>2, <1>3, <1>4, AgentsChange

\* The last look finds the marker, and the marker stands only in its own folder.
LEMMA SawOwnStep ==
  ASSUME TypeOK, Helpers, MarkersOnlyInOwn, [Next]_vars
  PROVE  SawOwn'
<1> USE ProvisioningAssumption
<1> SUFFICES ASSUME NEW b \in Agents, agent'[b].pc \in {"checkSubs", "verified"}
             PROVE  agent'[b].saw = agent'[b].for
  BY DEF SawOwn
<1>1. CASE agent'[b] = agent[b]
  BY <1>1 DEF Helpers, SawOwn
<1>2. CASE \E a \in Agents, c \in Cases :
             agent' = [agent EXCEPT ![a] = [NoTask EXCEPT !.pc = "mkdir", !.for = c]]
  BY <1>1, <1>2, NewTask DEF TypeOK
<1>3. CASE \E a \in Agents : Idle(a)
  BY <1>1, <1>3, IdleTyped DEF NoTask
<1>4. CASE \E a \in Agents : AgentStep(a)
  <2>1. PICK a \in Agents : AgentStep(a)
    BY <1>4
  <2>2. CASE a # b
    BY <1>1, <2>1, <2>2, AgentFrame
  <2>3. CASE a = b /\ agent'[b].pc = "checkSubs"
    <3>1. Target(a) \in Paths /\ agent[a].for \in Cases
      BY <2>1, AgentFrame, TargetIsPath DEF Steps
    <3>2. disk[Target(a)].maker = agent[a].for
      BY <2>1, <2>3, <3>1, ArrivesAt DEF BearsMarker, MarkersOnlyInOwn
    <3> QED
      BY <2>1, <2>3, <3>2, ArrivesAt, AgentFrame
  <2>4. CASE a = b /\ agent'[b].pc = "verified"
    BY <2>1, <2>4, ArrivesAt, AgentFrame DEF Helpers, SawOwn
  <2> QED
    BY <2>2, <2>3, <2>4
<1> QED
  BY <1>1, <1>2, <1>3, <1>4, AgentsChange

LEMMA MarkersOnlyInOwnStep ==
  ASSUME TypeOK, Helpers, MarkersOnlyInOwn, [Next]_vars
  PROVE  MarkersOnlyInOwn'
<1> USE ProvisioningAssumption
<1>1. UNCHANGED disk => MarkersOnlyInOwn'
  BY DEF MarkersOnlyInOwn
<1>2. CASE \E a \in Agents : AgentStep(a)
  <2>1. PICK a \in Agents : AgentStep(a)
    BY <1>2
  <2> DEFINE p == Target(a)
  <2> DEFINE c == agent[a].for
  <2>2. p \in Paths /\ c \in Cases
    BY <2>1, AgentFrame, TargetIsPath DEF Steps
  <2>3. CASE disk' = [disk EXCEPT ![p] = NewFolder(c)]
    <3>1. disk'[p].marker = Nobody /\ \A q \in Paths \ {p} : disk'[q] = disk[q]
      BY <2>2, <2>3, NewFolderIsBare DEF TypeOK, Makers
    <3> QED
      BY <3>1 DEF MarkersOnlyInOwn
  <2>4. CASE agent[a].pc = "mark" /\ disk' = [disk EXCEPT ![p].marker = c]
    <3>1. disk[p].maker = c
      BY <2>4 DEF Helpers, MarksWhatWasMade, Target
    <3>2. /\ disk'[p].marker = c /\ disk'[p].maker = c
          /\ \A q \in Paths \ {p} : disk'[q] = disk[q]
      BY <2>2, <2>4, <3>1 DEF TypeOK, FolderRow
    <3> QED
      BY <3>2 DEF MarkersOnlyInOwn
  <2>5. CASE disk' = [disk EXCEPT ![p].subs = @ \cup {agent[a].next}]
    <3>1. \A q \in Paths : disk'[q].marker = disk[q].marker /\ disk'[q].maker = disk[q].maker
      BY <2>2, <2>5 DEF TypeOK, FolderRow
    <3> QED
      BY <3>1 DEF MarkersOnlyInOwn
  <2> QED
    BY <1>1, <2>1, <2>3, <2>4, <2>5, AgentOnDisk
<1>3. CASE PeopleStep
  <2>1. CASE \E p \in Paths : PersonMakes(p)
    <3>1. PICK p \in Paths : disk' = [disk EXCEPT ![p] = NewFolder(Person)]
      BY <2>1 DEF PersonMakes, NewFolder
    <3>2. disk'[p].marker = Nobody /\ \A q \in Paths \ {p} : disk'[q] = disk[q]
      BY <3>1, NewFolderIsBare DEF TypeOK, Makers
    <3> QED
      BY <3>2 DEF MarkersOnlyInOwn
  <2>2. CASE \E p \in Paths : PersonRemoves(p)
    BY <2>2, NewFolderIsBare DEF PersonRemoves, MarkersOnlyInOwn, TypeOK
  <2>3. CASE \E p, q \in Paths : PersonRenames(p, q)
    <3>1. PICK p, q \in Paths : disk' = [disk EXCEPT ![p] = NoFolder, ![q] = disk[p]]
      BY <2>3 DEF PersonRenames
    <3>2. \A r \in Paths : disk'[r] \in {NoFolder, disk[p], disk[r]}
      BY <3>1 DEF TypeOK
    <3> QED
      BY <3>2, NewFolderIsBare DEF MarkersOnlyInOwn
  <2> QED
    BY <1>3, <2>1, <2>2, <2>3 DEF PeopleStep
<1>4. \/ UNCHANGED disk \/ PeopleStep \/ \E a \in Agents : AgentStep(a)
  BY NextSteps DEF DeskStep, CreatePlan, Approve, AssignLocation, QueueStep, SomeClaim,
     Claim, ClaimExhausted, LeaseExpires, Ends, ReportFailed, ReportVerified, Abandon,
     Crash, vars
<1> QED
  BY <1>1, <1>2, <1>3, <1>4

LEMMA PublishesOwnFolderStep ==
  ASSUME TypeOK, Helpers, PlanFollowsJob, PublishesOwnFolder, [Next]_vars
  PROVE  PublishesOwnFolder'
<1> USE DEF TypeOK, PlanRow
<1> SUFFICES ASSUME NEW c \in Cases, plan'[c].status = "ready"
             PROVE  published'[c] = c
  BY DEF PublishesOwnFolder
<1>1. CASE plan[c].status = "ready" /\ UNCHANGED published
  BY <1>1 DEF PublishesOwnFolder
<1>2. CASE \E d \in Cases : DeskStep(d)
  BY <1>1, <1>2 DEF DeskStep, CreatePlan, Approve, AssignLocation, history
<1>3. CASE \E d \in Cases : QueueStep(d)
  <2>1. PICK d \in Cases : QueueStep(d)
    BY <1>3
  <2>2. CASE SomeClaim(d)
    BY <1>1, <2>2 DEF SomeClaim, Claim, history
  <2>3. CASE ClaimExhausted(d) \/ LeaseExpires(d)
    BY <1>1, <2>3 DEF ClaimExhausted, StatusAfterExhaustion, LeaseExpires, history
  <2> QED
    BY <2>1, <2>2, <2>3 DEF QueueStep
<1>4. CASE \E a \in Agents : Ends(a)
  <2>1. PICK a \in Agents : Ends(a)
    BY <1>4
  <2> DEFINE d == agent[a].for
  <2>2. CASE ReportVerified(a)
    <3>1. d \in Cases /\ job[d].status = "leased"
      BY <2>2, TargetIsPath DEF ReportVerified, Holds
    <3>2. plan[d].status \notin {"ready", "stale"}
      BY <3>1 DEF PlanFollowsJob
    <3>3. agent[a].saw = d
      BY <2>2 DEF ReportVerified, Helpers, SawOwn
    <3>4. CASE LocationInTheWay(d)
      BY <1>1, <2>2, <3>1, <3>2, <3>4 DEF ReportVerified
    <3>5. CASE ~LocationInTheWay(d)
      <4>1. published' = [published EXCEPT ![d] = d]
            /\ plan' = [plan EXCEPT ![d].status = "ready"]
        BY <2>2, <3>2, <3>3, <3>5 DEF ReportVerified
      <4>2. CASE c = d
        BY <3>1, <4>1, <4>2
      <4>3. CASE c # d
        BY <3>1, <4>1, <4>3 DEF PublishesOwnFolder
      <4> QED
        BY <4>2, <4>3
    <3> QED
      BY <3>4, <3>5
  <2>3. CASE ReportFailed(a) \/ Abandon(a) \/ Crash(a)
    BY <1>1, <2>3 DEF ReportFailed, Abandon, Crash, database, history
  <2> QED
    BY <2>1, <2>2, <2>3 DEF Ends
<1>5. CASE \E a \in Agents : AgentStep(a)
  <2>1. PICK a \in Agents : AgentStep(a)
    BY <1>5
  <2>2. UNCHANGED published
    BY <2>1, AgentFrame DEF history
  <2>3. CASE StartVerifying(a)
    BY <1>1, <2>2, <2>3 DEF StartVerifying
  <2>4. CASE ~StartVerifying(a)
    BY <1>1, <2>1, <2>2, <2>4, AgentFrame
  <2> QED
    BY <2>3, <2>4
<1>6. CASE PeopleStep \/ UNCHANGED vars
  BY <1>1, <1>6 DEF PeopleStep, PersonMakes, PersonRemoves, PersonRenames, database, vars
<1> QED
  BY <1>2, <1>3, <1>4, <1>5, <1>6, NextSteps

LEMMA IInvStep == IInv /\ [Next]_vars => IInv'
<1> SUFFICES ASSUME IInv, [Next]_vars PROVE IInv'
  OBVIOUS
<1> USE DEF IInv
<1>1. Helpers'
  BY PlansHavePathsStep, AgentsServePlansStep, ArmedAtSubStep, MarksWhatWasMadeStep,
     SawOwnStep DEF Helpers
<1> QED
  BY <1>1, TypeStep, OneOwnerStep, PlanFollowsJobStep, MarkersOnlyInOwnStep,
     PublishesOwnFolderStep

LEMMA Inductive == Spec => []IInv
  BY InitIInv, IInvStep, PTL DEF Spec

\* Every row keeps its type, and no job is leased more often than max_attempts.
THEOREM TypeCorrect == Spec => []TypeOK
<1>1. IInv => TypeOK
  BY DEF IInv
<1> QED
  BY <1>1, Inductive, PTL

\* No path has two owners, in any order of plans, assignments and reports.
THEOREM PathsHaveOneOwner == Spec => []OneOwner
<1>1. IInv => OneOwner
  BY DEF IInv
<1> QED
  BY <1>1, Inductive, PTL

\* A plan is under way, has failed or has its outcome as its job says.
THEOREM PlansFollowJobs == Spec => []PlanFollowsJob
<1>1. IInv => PlanFollowsJob
  BY DEF IInv
<1> QED
  BY <1>1, Inductive, PTL

\* A marker stands only in a folder that was made for the plan it names.
THEOREM NoFolderIsAdopted == Spec => []MarkersOnlyInOwn
<1>1. IInv => MarkersOnlyInOwn
  BY DEF IInv
<1> QED
  BY <1>1, Inductive, PTL

\* The folder that becomes the location of a case was made for it.
THEOREM OwnFolderIsPublished == Spec => []PublishesOwnFolder
<1>1. IInv => PublishesOwnFolder
  BY DEF IInv
<1> QED
  BY <1>1, Inductive, PTL

LEMMA AssignmentWinsStep ==
  ASSUME IInv, [Next]_vars, NEW c \in Cases, loc[c] # 0, job'[c] # job[c]
  PROVE  loc'[c] = loc[c]
<1> USE DEF IInv, TypeOK
<1>1. CASE \E d \in Cases : DeskStep(d)
  BY <1>1 DEF DeskStep, CreatePlan, Approve, AssignLocation
<1>2. CASE \E d \in Cases : QueueStep(d)
  BY <1>2 DEF QueueStep, SomeClaim, Claim, ClaimExhausted, LeaseExpires
<1>3. CASE \E a \in Agents : Ends(a)
  BY <1>3, TargetIsPath DEF Ends, ReportFailed, ReportVerified, LocationInTheWay, Abandon,
                            Crash, database
<1>4. CASE \E a \in Agents : AgentStep(a)
  BY <1>4, AgentFrame
<1>5. CASE PeopleStep \/ UNCHANGED vars
  BY <1>5 DEF PeopleStep, PersonMakes, PersonRemoves, PersonRenames, database, vars
<1> QED
  BY <1>1, <1>2, <1>3, <1>4, <1>5, NextSteps

\* No report takes a location away that the case has already.
THEOREM AssignmentsWin == Spec => AssignmentWins
<1>1. ASSUME IInv, [Next]_vars
      PROVE  [\A c \in Cases : loc[c] # 0 /\ job'[c] # job[c] => loc'[c] = loc[c]]_vars
  BY <1>1, AssignmentWinsStep
<1> QED
  BY <1>1, Inductive, PTL DEF Spec, AssignmentWins
=============================================================================
